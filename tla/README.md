# A TLA+ model of the C++ Proto Builder

`proto_builder` reads a proto file and writes C++ builder classes for its
messages. This directory holds TLA+ models of the whole way from a command line to
the files on disk - which messages get a builder, which setters it gets, what code
a setter comes to, how templates are expanded, in which order files are written -
and of the builders themselves as the programs that use them run them. TLC checks
the models on small instances; TLAPS proves the most important results for every
instance.

    tlc -config descriptor_search.cfg MCDescriptorSearch
    tlapm DescriptorSearchProofs.tla

`PROJECT.json` lists components, runs, theorems, the source lines behind every
definition, and the hazards of the code with the properties that watch them.

## The system

The tool is one sequential process, run by a Bazel rule: flags in, two or three
files out. Nothing in it runs concurrently, but it may fail or be killed at any
step, and the files it leaves are the start of the next run. What is hard is
termination on cyclic schemas, decisions that depend on the order in which things
are met, tables that must fit together, limits that are off by one, state that is
cached (a status, a configuration, a process wide template cache), text that is
replaced in place, files written one after the other, and long sequences of legal
calls on the generated classes.

    driver (proto_builder.cc)
      |-> DescriptorUtil::Load     --proto=MODE:FILES -> list of messages
      |-> ProtoBuilderConfigManager: type configuration, custom file, macros
      `-> TemplateBuilder
            |-> per message: MessageBuilder -> FieldBuilder -> BuilderWriter
            `-> TemplateDictionary: default.h.tpl, default.cc.tpl -> files
    the files, compiled into a user's program: the generated builders

| Component | State | Operations | Hard to get right | What makes it correct |
|---|---|---|---|---|
| DescriptorUtil (`descriptor_util.cc`) | queue and result of a search | `LoadDescriptors`, `GetDescriptorsFrom` | cycles, imports, maps, first meeting by a singular field | exactly the messages of the mode, each once; the search ends |
| MessageBuilder (`message_builder.cc`) | messages in the setter stack | `WriteBuilder`, `WriteMessage`, `WriteField` | cycles, depth limit, several annotations per field, macros | every reachable field has its setters, no other one does; it ends |
| FieldBuilder (`field_builder.cc`, `util.cc`) | merged options of one annotation | `WriteField` and its parts | output modes, predicates, builders as arguments | declared and defined setters match; errors are recorded |
| Generated builders (`default.h.tpl`, `default.cc.tpl`) | `data_`, `status_`, `get_raw_data_` | constructors, setters, `UpdateStatus`, `ok`, `status`, `Build`, `Consume`, `MaybeGetRawData`, conversion | which error wins, where an error comes from, what is cached | errors are kept and told apart; only valid data is built |
| ProtoBuilderConfigManager (`proto_builder_config.cc`) | `config_` and maps into it | load, verify, `Update`, lookups | overriding keys, automatic types | unique keys; a custom file overrides |
| TemplateBuilder (`template_builder.cc`) | one output per message | `WriteBuilder`, `FillDictionary` | sections that options turn on, include order | all outputs or an error |
| TemplateDictionary (`oss/template_dictionary.cc`) | process wide cache of templates | `StringToTemplateCache`, `ExpandTemplate` | replacement in place, order of names | all tags replaced |
| BuilderWriter (`builder_writer.cc`) | lines per target, whether the last was empty, includes | `Write`, `AddInclude`, `WriteFile`, wrappers | targets written in turns through one stack of writers | lines keep their order, only superfluous empty ones are dropped |
| Driver (`proto_builder.cc`) | flags, static configuration, the files on disk | `main`, `WriteProtoBuilderFiles` | early returns and failures between two files, kills | nothing is written before all is built; success means all files |
| Files, proto database, utilities (`oss/`) | none beyond the calls | reading, writing, logging | - | - |
| Build rules (`*.bzl`) | none | command lines | - | - |

## The modules

| Module | What it is |
|---|---|
| `ProtoSchema` | files as the search sees them; the wanted messages per mode, stated without a traversal |
| `BuilderSelection` | abstract: messages are selected, only wanted ones, until all are |
| `DescriptorSearch` | `GetDescriptorsFrom`, one action per decision of its loops |
| `MessageWriter` | `WriteMessage` and `WriteField`, their recursion as a stack of activations |
| `ProtoBuilderConfig` | `ProtoBuilderConfigManager`: loading, verification, `Update`, lookups, as operators |
| `BuilderWriter` | the stacked writers and their state per target |
| `FieldBuilder` | the code one annotation comes to, as the sequence of its calls of `Write` |
| `FieldWriter` | state machine: all annotations of a field, written line by line through the writers |
| `TemplateDictionary` | the template language: values, sections, lines that vanish |
| `TemplateBuilder` | from messages to dictionary to the lines of each file |
| `DescriptorLoader` | `DescriptorUtil::Load`: files and names to messages |
| `CommandConfig` | the configurations that a command line comes to |
| `Command` | what else it comes to: the arguments of the components above |
| `OutputPromise` | abstract: what a build may rely on of the tool |
| `Driver` | state machine: `main`, system call by system call, with failures, kills and reruns |
| `ToolConfig` | composes `Driver` with `CommandConfig`; the properties of the configuration loaded |
| `ToolOutput` | composes both with `Command`; the properties of the files written |
| `ToolText` | the files against a reference reading of their templates, for TLC only |
| `GeneratedBuilder` | the generated builders, any number of them, one action per call |
| `...Proofs` | theorems about `DescriptorSearch`, `MessageWriter`, `FieldWriter`, `GeneratedBuilder`; `FieldBuilderProofs` has the lemmas about the texts of `FieldBuilder`, `FieldMethodsProofs` the theorems about whole methods of a field; `TemplateProofs` those about templates, which `DriverProofs` takes up in the theorems about `Driver`, `ToolConfig` and `ToolOutput` |
| `MC...` | the instances for TLC |

Definitions named as "Slip" in their comment are altered forms of the definition
that follows them. They are not used by any specification: put in the place of
the definition, each makes the property `PROJECT.json` names for it fail.

### DescriptorSearch

`descriptors`, `queue` and `msg` are the variables of the function, `i` is the
loop over fields, `pc` says where the function is: before the early return
(`collect`), at the queue (`search`), at a field (`fields`), or returned. A field
is its label and the message it refers to; of a map it is the message of the
map's value, as in the code. Groups, enums and scalars have no message.
Descriptors are never null in the model, since `PBCC_DIE_IF_NULL` and the
descriptor pool exclude it. `expanded` is a history variable.

`ReturnsWanted` compares the result with `Wanted`, which is stated by the
smallest set closed under references, not by a traversal. `SelectsWanted` is the
refinement: `BuilderSelection` with `selected` the range of `descriptors`.

* `descriptor_search` checks every file with a top level message `T`, a message
  `N`, a message `M` that is nested or top level, and an imported `X`, with up to
  two fields in `T` and `N` and one in `M`. Two fields are enough for a message
  that is met twice, by different labels in either order, and three messages for
  cycles that do and do not pass the top level. One class of files is left out,
  for `"*+"` only: where singular fields both branch and cycle, the queue grows
  without bound and so does the state space. Those with a cycle and no branch
  are kept, and their states loop.
* `Termination` needs weak fairness of `Next`: the process does nothing but
  search, so it takes its next step. It says the search ends unless the mode is
  `"*+"` and nested messages refer to themselves by singular fields.
* `search_ends` shows that the exception is real: the search for
  `message T { message N { optional N next = 1; } optional N n = 1; }` never ends.
* `all_defined` shows that `"**"` misses nested messages that no field refers to.

### MessageWriter

`frames` are the activations of `WriteMessage`, `callee` the call about to
begin, `messages_in_stack` the member that detects cycles. A setter is the way
down to its field and the number of the annotation it is written for. Annotations
keep what the recursion reads: the output mode (only whether it is `SKIP`), that
of their macro, and `recurse` as set by the annotation with its macro merged in
or by the configured type. What is written for an annotation is `FieldWriter`.

`WritesReachableFields` compares the setters written with `Paths`, the set of all
ways down that satisfy the limits, again without a traversal. `StackMatches` says
that the member used for cycle detection is the set of the messages being written.

* `message_writer` checks all schemas with three message types, up to two fields
  in `A` and `B` and one in `C`, the fields of `A` with six kinds of annotations,
  and `max_field_depth` 1 and 2. `kMaxSubFieldSetterDepth` is 1 there (5 in the
  code), so that three messages reach and exceed it. `Termination` again needs
  only that the process takes its next step.
* `max_field_depth` (limit 2) shows that a depth of 2 does not bound anything: the
  code only asks whether it exceeds 1.
* `macro_skip` shows that a macro that says `SKIP` does not keep the recursion out
  of the field, as an annotation that says so does.

The writer and the search stop when they are done, so these runs do not check
for deadlock.

### FieldWriter, FieldBuilder, BuilderWriter, ProtoBuilderConfig

`FieldBuilder` has one operator per function of `field_builder.cc`. A line of code
is a record of what it says: the first line of a method with its name and
parameters, a predicate, the statement that changes the field with the method of
the proto that it calls and the loop it is in, an error. An expression is the set of
the variables it mentions, so what `StrReplaceAll` does to a conversion is which
placeholders turn into which variables. `WriteField` is the sequence of the calls of
`Write`; `FieldWriter` makes these calls one by one, for one annotation after the
other, through the state of `BuilderWriter`: `buffer` and `last_non_empty` per
target, `include_map`. `requested` is a history variable: what `Write` was called
with. `pc` is `died` when a type is one that `GetTypeInfo` refuses.

The properties compare what the tables of `FieldBuilder` do together: methods
declared and defined (`DeclaredAndDefined`, `InterfaceImplemented`), names chosen in
different functions (`NamesInScope`), annotations that come to nothing
(`NothingDropped`), predicates (`ChangesGuarded`), and what reaches the buffers
(`NoDoubleEmptyLines`, `LinesKept`). Each property says in its comment which inputs
it leaves out where the generated code is known not to be as it should:

* FOREACH on a map with a conversion calls `add_`, which map fields do not have
  (left out of `MapsAreInserted`), though config.md:736 has it call the setter for one
  element; without this exception TLC finds the property violated;
* the predicate of a setter for several values is given `value`, which that setter
  does not have (left out of `NamesInScope`);
* an annotation with a fixed value has no parameter for the builder setter to call
  (left out of `BuilderSetterHasSetter`);
* a setter that is a template is one in the interface, too, where it is virtual, which
  C++ does not allow (`InterfaceImplemented` asks for a definition in the class only).

* `field_writer` checks eight kinds of fields (singular, repeated, map, of messages
  with an automatic type, enums, strings, scalars), each with no annotation, with one
  annotation of every output mode and every choice of conversion, predicate, value
  and location, and with 30 pairs that differ in mode, macro, type and name, in
  builders with a validator, a status and an interface. The configuration is loaded
  by `VerifyProtoBuilderConfig` and `Update`. Two annotations are enough for what the
  second may not repeat of the first; a third is like the second.

### TemplateDictionary, TemplateBuilder

A text is a sequence of tokens: words, spaces, ends of lines, comments and tags.
`Expand` follows the code: names in the order of the map, the value of a name put in
the place of every tag, a section cut out and put together from its dictionaries
before later names are looked at, tags of unknown names removed at the end. An
empty value or a marker that is alone on its line takes the line with it. Each step
changes the text that the step before left and may fail, which is what `InTurn` says
of names, of the pairs of markers of a section and of the sections to be removed.
Two bounds stand for loops of the code that end by themselves. Dictionaries nest
three deep (`Expand`, `ExpandNested`, `ExpandValues`), those of the file, of a builder
and of an option, as `FillDictionary` makes no others. A section is replaced as often
as it has start markers: what is put in its place has no markers, so that each round
uses one up, and a marker that is left over has no partner, which is an error.
`TemplateBuilder` fills the dictionary (includes, namespaces, one section per
builder, variables of types, the sections options turn on), expands it and makes the
lines of a file of it. Includes are known as a set and listed as a sequence: where the
comment that exports one is stripped, an include known with it and without is listed
twice, as in the code. What `MessageBuilder` wrote for a message is part of its
descriptor here.

The cache of templates is keyed by their contents, and one that is used for a second
file is refused; `LoadsTemplates` is this condition. In one process there is one
`TemplateBuilder`, so no more of the cache can be seen.

`ExpandsAsReference` compares a file with `Rendered`, which reads a template made of
nested bodies from left to right with the scopes of its sections; blank lines are
left out, as an empty value between two other tags may remove its line
(`{{BAR}}{{BAZ}}`). `NoMarkersLeft` says that no start marker is in a file and an end
marker only of what the dictionary has no section for: there `RemoveTags` goes by
start markers, and an end without any goes unnoticed. A package-less file gets
`namespace {`, as the code does.

### Driver, CommandConfig, Command, ToolConfig, ToolOutput, ToolText

`Driver` is `main` and `WriteProtoBuilderFiles`. `pc` is the next call, `kConfig`,
`loaded` and `result` are what the calls so far returned, `target` and `fd` where the
writing of files is. `files` is the disk: of which run a file is, its lines, whether it was
closed. Opening truncates (`O_TRUNC`); `write` may take a part; every call may fail;
`Kill` may end the process at any step and `RunAgain` begins a new one over what is
on disk. A dead check (`PBCC_CHECK`, `PBCC_DIE`) and an error are both `failed`.

The driver does not look into what it passes on, so what the other components make of
a command are its parameters: `DescriptorsOf`, `DependenciesCovered`,
`TemplatesReadable`, `Configs` and `Outputs`. `CommandConfig` and `Command` give their
meaning and `ToolConfig` and `ToolOutput` put them together, so that the runs check the
whole tool, while the proofs about `Driver` alone hold for any meaning. `ToolText` has what
only the runs check: the reference definition of an expansion, which is recursive, and
what depends on what the default templates say. `Configs` is a relation because entries of a configuration
are put back in the order of a hash map: of two spellings of one automatic type
either may stay.

`KeepsPromise` is the refinement of `OutputPromise`: files are brought up to date one
after the other, success comes only after the last, a failed run may leave any file
of it stale or torn, and the next run starts from there. `outputs` is mapped from
`files` against the current run, not from what was there before.

* `tool` checks 89 commands: every part of a command (modes and names, files missing,
  broken or not readable, a custom configuration of seven kinds with and without
  dependencies to check, eight kinds of messages, an interface with and without a path, a
  validator, templates of every shape, with matching and crossed sections) varied
  apart and, where parts meet, together. The default templates are cut down to one line
  for each of the things that they do, with the sections and line ends of the real ones.
  bounds: `MaxRuns` 2, as a later run sees only what is on disk of the one before;
  `WriteChunk` takes the first line or all, as what is left is one more part either
  way; the depth of a command without a limit is 100. `RunEnds` needs that a process
  that can take a step takes it, and that `write` does not report `EAGAIN` for ever. It does
  not need system calls to fail or succeed, nor anyone to kill or to run again.
* `custom_types` shows that a custom configuration that adds a type ends the process:
  the number of built-in entries is compared with that of the merged map.

### GeneratedBuilder

A builder has the message options it was generated with, `data`, `status` and
`raw` (`get_raw_data_`). Options decide which methods exist, as the template
sections do. A message is flattened to its leaf fields; a builder of a sub message
holds some of the fields of the outer one, and giving it to a setter of the outer
builder replaces these. This covers singular message fields. A repeated field
would append instead of replace, which no property tells apart. A status is `ok`,
`invalid` (what `Validate` returned), `rejected` (what a predicate returned) or
`reported` (given to `UpdateStatus`). Builders are passed as copies; a message
that was moved from is empty, as the protobuf library leaves it. `owed` is a
history variable: the builder was given an error that nobody has cleared since.
`returned` is the latest result.

`SetFromBuilder` is the setter that takes a builder and asks it for
`MaybeGetRawData`; `SetFromConversion` passes it to the setter that takes a
message, by the conversion operator. In both the setter of the outer builder has
no predicate for the whole sub message; predicates are per leaf field.

* `generated_builder` checks an outer and an inner builder with five choices of
  options each, three values (valid, invalid, and valid but rejected by the
  predicate), starting from any data, in any order of calls; it also checks that
  there is no deadlock. Two builders are enough for an error to travel, and every
  property is about one builder and what it was given.
* `stale_validation` shows that an error of validation outlives the data it was
  found for: after `ok()` returned false, correcting the field does not help.
* `rejection_recorded` shows that a builder with `use_validator` or `use_build`
  alone drops the errors of predicates, although it has a status.

No fairness is assumed here: a program may stop calling its builders at any time,
and there is no promise that something will happen.

## What is proved

All theorems hold for every value of the constants under the named assumptions, which
TLC evaluates in the runs:

* Of what kind the constants are: `SearchAssumption`, `SchemaAssumption`,
  `RunsAssumption`, `EmptyAssumption` (there is an empty line to be dropped),
  `BuilderAssumption` of `GeneratedBuilder`, and the `InputAssumption`s of `Driver` and
  `FieldWriter`. The latter has every output mode in a configuration or an annotation
  be one of `FieldBuilderOptions::OutputMode`, as the enum of a proto2 message is closed
  (proto_builder.proto:32-44).
* `BuilderAssumption` of `Driver`: a TemplateBuilder that succeeds has lines for every
  file it was asked for.
* `AbsoluteAssumption`: an absolute name of a type is its own absolute name, as
  `AbsoluteCppTypeName` returns as it is a name that begins with `::` or `std::`, has no
  scope, or is what an integer type of proto is translated to (util.cc:45-67).
* `NamesAssumption`, `TagsAssumption`, `TemplatesAssumption`: names and texts are made of
  tokens. The provers do not know that what stands in quotes is a string.
* `TextsAssumption`: what is filled into templates, names and generated code, has no
  markers of sections, and the dictionary is three deep, which is how
  `FillDictionary` nests it.
* `ConfigsAssumption`, `OutputsAssumption`, `LoadAssumption`: the parameters of `Driver`
  mean what `CommandConfig` and `Command` make of a command. `Driver` has no such
  assumption itself, nor have the theorems about it alone.

Files and message sets need not be finite, nor need there be only two builders; fields,
annotations, configurations, texts and templates are any there are.

* `DescriptorSearchProofs`. The inductive invariant says that all messages
  collected, queued or expanded are reachable from the top level ones, that every
  message that was expanded or is being expanded has its successors collected,
  queued or expanded, up to field `i`, and that what was collected is wanted. The
  types alone are not enough: completeness needs that nothing a visited field
  refers to is ever forgotten, though a message may be known without being a
  result. At the end the queue is empty, so the expanded messages are a closed
  set, hence contain the reachable ones, and `ReturnsWanted` follows. From it
  follow `NoDuplicates`, `SearchedOnce` (with an invariant of its own) and the
  step simulation of `BuilderSelection`, `SelectionRefined`.
* `MessageWriterProofs`. `StackMatches` is inductive only together with the link
  between the depth of a call and the number of activations, `Len(path) = d - 1`;
  this link also gives the bound on the depth in `TypeOK`. For
  `WritesReachableFields`, soundness says that each activation stands at the end of a
  way down that the limits allow and follows from the activation above it, so what it
  writes is in `Paths`. Completeness says that of the ways down that begin at an
  activation, those through a field already passed are written, unless they lead into
  the call under way there, which the next activation speaks for. What links each
  activation to the next is all that is needed of their number, so there is no induction
  over ways down; when nothing is under way, all of them are written.
* `GeneratedBuilderProofs`. The invariant says of each builder that `raw` holds
  exactly if its status is `ok` or `invalid`, that an owed error means a status
  that is not `ok`, and that builders without a status or validator never have
  one; of the result, that it is valid or the builder is fresh as its call says.
  Each action changes one builder, so `OneBuilderStep` carries most of the proof.
  What passes from one builder to another is bounded by `PassedOn`: an inner
  builder never passes on an `invalid`. `ReadsAgree` follows from the validation
  being idempotent. `ErrorIsLatched`, an action property that no run has, says which
  calls change the error of a builder: to set, to reject, to convert, to read and to
  validate never do.
* `DriverProofs`. The invariant says how far a run is while it goes on (`Progress`):
  files before `target` are complete, the one at `target` is of this run exactly if it
  is open, later ones are of earlier runs; and before the writing begins, nothing is
  built and `target` is 1, and once it has begun, there are lines for every file. A
  file alone says little, for which lines it should have changes when `result` does; the
  run it is of, and that targets differ, keep each step from disturbing the others.
  `WrittenLast` is part of it, and `PromiseKept` shows for each action which step of
  `OutputPromise` it is: `OpenFile` begins a file, `CloseFile` completes it, everything
  before writing stutters. `SuccessMeansAll` is what a build wants to know, taken
  from the promise: after `ok` every file is of this run, closed and whole.
  The configuration of a run is one that its command may load
  (`ConfigLoaded`), whichever of the two calls loaded it and however long ago; and in each
  one that passes verification, an entry of the custom file whose normal key no other
  entry has stands under that key (its own or, of an automatic type, the one with its
  absolute name) with the options of the file and no others but `recurse`, whichever order
  a hash map has: `CustomTypesWin`. Likewise the lines of a file are made of the command, of the
  configuration of its run and of what was found for it (`MadeOfCommand`); with
  `AllWritten` and the two theorems of `TemplateProofs`, `FilesTidy` and `NoMarkersLeft`
  follow for any templates.
* `TemplateProofs`. `ExpandsClean` is what an expansion leaves of a text: each loop of
  the code is a function over the rounds or the sections, and for each the invariant is
  of which set the tokens of the text are. That no end of a section the dictionary has
  is left needs two turns: first, sections are replaced or removed with both
  markers, so the name is taken out when it is its turn; second, what is filled in later
  does not have it, since it was expanded the same way or is plain. `WrittenTidy` says
  that the lines let through by the writer of a file are tidy. An induction over the
  length of a text or the number of a round cannot be had from the library, whose
  theorems take an operator; here the induction is over a set of numbers
  (`SetInduction`): a set that has 0 and with each number the next has them all, by the
  finiteness of initial segments and the pigeonhole principle. A recursive function is
  handled through its finite prefixes (`StepsExist`, `PrefixesExist`).
* `FieldWriterProofs`. That no target has two empty lines in a row is inductive
  together with what `last_non_empty` says of the last line, for lines of any kind: the
  invariant only knows that some set holds them. `LinesKept` is stated by ranks, the
  number of lines so far that are not empty: writing a line that is dropped changes no
  rank, writing one that is not gives it the next rank in both sequences. `Sourced` says
  that every line written or waiting is in the calls of `WriteField` for an annotation
  that was gone through and not passed over; with a lemma about these calls it gives
  `MapsAreInserted` and `DefaultsDeclaredOnce`, and `TypesIncluded` once includes are known
  only to grow.
* `FieldBuilderProofs` has what these proofs need of `FieldBuilder`: for each part of
  `WriteField` the kinds of its lines, their targets and what they mention, then the same
  for the whole.
* `FieldMethodsProofs`. Lines relate to the lines around them, so these invariants read
  the buffer and the calls still waiting (`pending`) as one sequence. `Guarded`: a change
  has its predicate right before it in one of them. `Complete`: each line that is
  not empty of an annotation gone through is in the buffer or waiting.
  `Numbered`, for one class of lines (methods and errors of a target, declarations,
  definitions, setters that take builders): those written and those waiting
  are numbered in the order of the annotations that are due to have one, so at the end
  there are as many as annotations, and the nth declaration and the nth definition
  are of the same one. `Scoped`: each line that mentions names has, as the last
  first line of a method before it, that of its own method. `pending` cannot be left out
  of any of them: in the middle of an annotation, the source lacks what the header has.
  `AutomaticTypesOffered` is about the two calls that `WriteField` makes of a field without
  annotations, whose methods are in the buffer at the end. Its theorem says for which
  configurations: entries for automatic types say no more than their type, its
  conversion and includes and a mode that writes the header (`PutsInPlace`), as the
  built-in ones do. An entry that says `SKIP` has no setter. Of how types are spelled it asks
  what `LoadedNormal` proves of every configuration that verification lets pass:
  automatic types are under their absolute names, so there are no two entries for one.

Only model-checked are the following. Liveness (`Termination` of the search and of the
writer, `RunEnds`) is out of the prover's reach. `ExpandsAsReference` compares with a
recursive definition, so no theorem can reach it. `BuildersAsAsked`,
`NoOwnIncludes` and `StatusComplete` are not true of any templates, only of default
templates that have a class for each message, includes and the status sections where
the runs have them; a proof would be about that text.

## What is not modelled, and the plan

Left out of modelled components: in types, `const &`, names relative to a namespace
and `@type@` inside another type; `@default@` and `%data%` in conversions; what
`Update` would have to normalise, since no document says how a message spells an
automatic type; `MoveContents` of the writers, which only tests call; the text of
errors. Out of scope: parsing of protos, text protos and flags (libraries), logging
and other helpers in `oss/`, build rules, tests. The template section for
`use_conversion = false` is not modelled in `GeneratedBuilder`: with a status it does
not compile.

Everything that was planned is done. `ErrorIsLatched` takes the place of an abstract
contract of a builder: between the states of an error latch every change occurs, and what
makes it one is which call makes a change. What remains for later is an abstract
specification of a whole generated class, which would relate the lines that
`FieldWriter` writes to the calls of `GeneratedBuilder`.
