-------------------------- MODULE TemplateBuilder --------------------------
(***************************************************************************)
(* TemplateBuilder (template_builder.cc): the files that the code of all   *)
(* builders and three templates come to. Options `o` are those of the      *)
(* class, in a record; a file is the sequence of its lines. What           *)
(* MessageBuilder wrote for a message is part of the descriptor: its code  *)
(* (a text) and its includes, for every target.                            *)
(***************************************************************************)
EXTENDS TemplateDictionary, ProtoBuilderConfig

CONSTANT SystemHeaders    \* the includes that are spelled with < and >

Include(file, export) ==
    [file |-> file, system |-> file \in SystemHeaders, export |-> export]

FormatIncludes(paths) == {Include(f, FALSE) : f \in paths}

ValueOf(text) == [value |-> text]
Sections(dicts) == [sections |-> dicts]
-----------------------------------------------------------------------------
(***************************************************************************)
(* Messages.                                                               *)
(***************************************************************************)
\* root_options: the flag stands in for the option. use_conversion is on by default.
RootOption(o, d, option) ==
    IF option \in DOMAIN d.options THEN d.options[option]
    ELSE option = "use_conversion" \/ (option = "use_validator" /\ o.use_validator)

UseValidator(o, d) == RootOption(o, d, "use_validator")
UseBuild(o, d) == RootOption(o, d, "use_build") \/ UseValidator(o, d)
UseConversion(o, d) == RootOption(o, d, "use_conversion")

\* Slip: only the option that has the name is asked for.
UseStatusOnly(o, d) == RootOption(o, d, "use_status")

UseStatus(o, d) == RootOption(o, d, "use_status") \/ UseBuild(o, d)

GlobalTypes == {Type("%", n) : n \in {"LogSourceLocation", "SourceLocation", "StatusOr", "Status"}}

\* MessageOutput, with what WriteBuilder adds to the includes of its code.
MessageOutput(o, d) ==
    LET config == Update(o.config, d.type_map)
        added(option) ==
            UNION {FormatIncludes(Get(GetTypeInfo(config, t), option)) :
                      t \in IF UseStatus(o, d) THEN GlobalTypes ELSE {}}
        validator == IF UseValidator(o, d) THEN FormatIncludes(o.validator_header) ELSE {}
    IN [descriptor |-> d, config |-> config,
        HEADER |-> d.includes.HEADER \cup added("include") \cup validator,
        SOURCE |-> d.includes.SOURCE \cup added("source_include")]

MessageOutputs(o) == [i \in DOMAIN o.descriptors |-> MessageOutput(o, o.descriptors[i])]

\* GetPackageForDescriptors: all of one package, which has a name of one or more
\* parts; the one part of a package without a name is empty.
SamePackage(o) ==
    o.descriptors # <<>> /\ \A i \in DOMAIN o.descriptors :
                               o.descriptors[i].package = o.descriptors[1].package

PackagePath(o) == o.descriptors[1].package

Namespace(name) == IF name = "" THEN <<>> ELSE <<Word(name, "namespace")>>
Joined(path) == FlattenSeq([i \in DOMAIN path |-> Namespace(path[i])])
-----------------------------------------------------------------------------
(***************************************************************************)
(* The dictionary.                                                         *)
(***************************************************************************)
\* The comment that exports an include is for the header only.
Stripped(include, strip_export) == [include EXCEPT !.export = @ /\ ~ strip_export]

\* Slip: an include is compared before the comment behind it is stripped.
ListedIncludesUnstripped(o, wheres, strip_export, drop) ==
    LET own == {Include(f, FALSE) : f \in IF o.make_interface THEN {o.interface_header} ELSE {}}
        all == UNION {MessageOutputs(o)[i][w] : i \in DOMAIN o.descriptors, w \in wheres} \cup own
        kept == SetToSeq(all \ drop)
    IN [k \in DOMAIN kept |-> Stripped(kept[k], strip_export)]

\* The includes of a section: one that is known with and without the comment is
\* listed twice when the comment is stripped.
ListedIncludes(o, wheres, strip_export, drop) ==
    LET own == {Include(f, FALSE) : f \in IF o.make_interface THEN {o.interface_header} ELSE {}}
        all == UNION {MessageOutputs(o)[i][w] : i \in DOMAIN o.descriptors, w \in wheres} \cup own
        kept == SetToSeq({i \in all : Stripped(i, strip_export) \notin drop})
    IN [k \in DOMAIN kept |-> Stripped(kept[k], strip_export)]

IncludeText(include) ==
    <<Word("#include", ""), Word(include.file, IF include.export THEN "exported" ELSE "included")>>

\* FillIncludes: system includes, an empty value for a separator, and the others.
FillIncludes(o, wheres, strip_export, drop) ==
    LET listed == ListedIncludes(o, wheres, strip_export, drop)
        system == SelectSeq(listed, LAMBDA i : i.system)
        others == SelectSeq(listed, LAMBDA i : ~ i.system)
        texts(includes) == [k \in DOMAIN includes |-> IncludeText(includes[k])]
        separator == IF system # <<>> /\ others # <<>> THEN << <<>> >> ELSE <<>>
        values == texts(system) \o separator \o texts(others)
    IN [i \in DOMAIN values |-> [INCLUDE |-> ValueOf(values[i])]]

\* The variables of the configured types.
VariableName(v) == v[1].prefix \o v[1].name \o v[2]

VariableText(config, v) ==
    LET type == Get(config[v[1]], "type")
        typed == IF type = NoType THEN <<>> ELSE <<Word(type.prefix \o type.name, "type")>>
        param == <<Word(v[1].name, "param")>>
        value == <<Word(Get(config[v[1]], "value"), "value")>>
    IN CASE v[2] = "" -> typed
         [] v[2] = "%param" -> param
         [] v[2] = "+param" -> typed \o param
         [] v[2] = "%value" -> value
         [] v[2] = "+param=value" -> typed \o param \o value

FillDictionaryBasics(o, m) ==
    LET d == m.descriptor
        expanded == ExpandedTypes(m.config)
        when(condition, text) == ValueOf(IF condition THEN text ELSE <<>>)
    IN [CLASS_NAME |-> ValueOf(<<Word(d.name, "builder")>>),
        INTERFACE_NAME |-> ValueOf(<<Word(d.name, "interface")>>),
        BASE_CLASSES |-> when(d.base_class # "", <<Word(d.base_class, "base class")>>),
        NAMESPACE |-> ValueOf(Joined(PackagePath(o))),
        PROTO_TYPE |-> ValueOf(<<Word(d.name, "message")>>),
        PROTO_TYPE_SHORT |-> ValueOf(<<Word(d.name, "short message")>>),
        ROOT_DATA |-> ValueOf(<<Word("data_", "")>>),
        VALIDATE_DATA |-> when(UseValidator(o, d), <<Word("ValidateData();", "")>>)]
       @@ [n \in {VariableName(v) : v \in expanded} |->
              ValueOf(VariableText(m.config, CHOOSE v \in expanded : VariableName(v) = n))]

\* MaybeAddSection for the options: of USE_X and NOT_X the one that applies.
OptionSections(o, m) ==
    LET basics == Sections(<<FillDictionaryBasics(o, m)>>)
        section(used, name) == (IF used THEN "USE_" \o name ELSE "NOT_" \o name) :> basics
    IN section(UseBuild(o, m.descriptor), "BUILD")
       @@ section(UseConversion(o, m.descriptor), "CONVERSION")
       @@ section(UseStatus(o, m.descriptor), "STATUS")
       @@ section(UseValidator(o, m.descriptor), "VALIDATOR")

GeneratedCode(o, d, where) == ValueOf(d.code[o.max_field_depth > 1][where])

BuilderDictionary(o, m) ==
    FillDictionaryBasics(o, m) @@ OptionSections(o, m)
    @@ [GENERATED_HEADER_CODE |-> GeneratedCode(o, m.descriptor, "HEADER"),
        GENERATED_INTERFACE_CODE |-> GeneratedCode(o, m.descriptor, "INTERFACE"),
        GENERATED_SOURCE_CODE |-> GeneratedCode(o, m.descriptor, "SOURCE")]

\* What the interface leaves out: itself, the header and what builders include.
DroppedByInterface(o) ==
    {Include(o.header, FALSE), Include(o.interface_header, FALSE)}
    \cup FormatIncludes(UNION {o.descriptors[i].builder_include : i \in DOMAIN o.descriptors})

\* A section that nothing was added to is not in the dictionary.
Filled(sections) ==
    [s \in {n \in DOMAIN sections : sections[n] # <<>>} |-> Sections(sections[s])]

FillDictionary(o) ==
    LET path == PackagePath(o)
        outputs == MessageOutputs(o)
        namespace(name) == [NAMESPACE |-> ValueOf(Namespace(name))]
        sections ==
            [INCLUDES |-> FillIncludes(o, {"HEADER", "SOURCE"}, FALSE, {}),
             HEADER_INCLUDES |-> FillIncludes(o, {"HEADER"}, FALSE, {}),
             INTERFACE_INCLUDES |-> FillIncludes(o, {"HEADER"}, FALSE, DroppedByInterface(o)),
             SOURCE_INCLUDES |-> FillIncludes(o, {"SOURCE"}, TRUE, {Include(o.header, FALSE)}),
             NAMESPACES |-> [i \in DOMAIN path |-> namespace(path[i])],
             ALL_NAMESPACES |-> <<[NAMESPACE |-> ValueOf(Joined(path))]>>,
             NAMESPACES_END |-> Reverse([i \in DOMAIN path |-> namespace(path[i])]),
             BUILDER |-> [i \in DOMAIN outputs |-> BuilderDictionary(o, outputs[i])]]
    IN [HEADER_GUARD |-> ValueOf(<<Word(o.header, "guard")>>),
        INTERFACE_GUARD |-> ValueOf(<<Word(o.header, "interface guard")>>),
        HEADER_FILE |-> ValueOf(<<Word(o.header, "included")>>)]
       @@ Filled(sections)
-----------------------------------------------------------------------------
(***************************************************************************)
(* The templates.                                                          *)
(***************************************************************************)
\* absl::StrSplit(text, '\n')
LinesOf(text) ==
    LET ends == FlattenSeq([i \in DOMAIN text |-> IF text[i] = Newline THEN <<i>> ELSE <<>>])
        cuts == <<0>> \o ends \o <<Len(text) + 1>>
    IN [k \in 1..Len(cuts) - 1 |-> SubSeq(text, cuts[k] + 1, cuts[k + 1] - 1)]

\* Tags that may be hidden in a comment of their own.
CommentTags == {Open("BUILDER"), Close("BUILDER")}
                 \cup {Tag("GENERATED_HEADER_CODE"), Tag("GENERATED_INTERFACE_CODE"),
                       Tag("GENERATED_SOURCE_CODE")}

Directives == {Word("#ifndef", ""), Word("#define", ""), Word("#endif //", "")}

\* These are tokens like those of any template. (The provers do not know that what
\* stands in quotes is a string.)
ASSUME TagsAssumption ==
    CommentTags \cup Directives \cup {Newline, Tag("HEADER_GUARD")} \subseteq Token

\* kReplacements, on one line: the tag in a comment, or in the header guard.
Replaced(line) ==
    LET text == SelectSeq(line, LAMBDA token : token.t # "space") IN
      IF Len(text) > 1 /\ text[1].t = "comment" /\ text[2] \in CommentTags THEN <<text[2]>>
      ELSE IF text # <<>> /\ text[1] \in Directives /\ Contains(text, Tag("HEADER_GUARD"))
        THEN <<text[1], Tag("HEADER_GUARD")>>
      ELSE line

\* What LoadTemplate puts into the cache; every line gets an end.
RawTemplate(text) ==
    LET lines == LinesOf(text) IN
      FlattenSeq([i \in DOMAIN lines |-> Append(Replaced(lines[i]), Newline)])

Targets(o) ==
    <<"HEADER", "SOURCE">> \o (IF o.make_interface THEN <<"INTERFACE">> ELSE <<>>)

\* The cache is keyed by the template, so one may not be used for two targets.
LoadsTemplates(o) ==
    \A i, j \in DOMAIN Targets(o) : o.tpl[Targets(o)[i]] = o.tpl[Targets(o)[j]] => i = j

\* Slip: lines are written as they come.
WrittenAsIs(text) == Append(LinesOf(text), <<>>)

\* The lines that target_writer_ lets through: no empty one at first or after
\* another. An empty line ends the file.
Written(text) ==
    LET lines == Append(LinesOf(text), <<>>) IN
      FlattenSeq([i \in DOMAIN lines |->
          IF lines[i] = <<>> /\ (i = 1 \/ lines[i - 1] = <<>>) THEN <<>> ELSE <<lines[i]>>])

BuildFailed(status) == [status |-> status, lines |-> <<>>]

\* What the constructor and the updates of the configuration check.
CanBuild(o) ==
    SamePackage(o) /\ \A i \in DOMAIN o.descriptors : CanUpdate(o.descriptors[i].type_map)

\* The constructor and WriteBuilder: the process dies, or there is an error, or
\* the lines for every target.
WriteBuilder(o) ==
    IF ~ CanBuild(o) THEN BuildFailed("died")
    ELSE IF ~ LoadsTemplates(o) THEN BuildFailed("error")
    ELSE LET targets == Targets(o)
             dict == FillDictionary(o)
             expanded == [w \in ToSet(targets) |-> Expand(dict, RawTemplate(o.tpl[w]))]
         IN IF \E w \in ToSet(targets) : ~ expanded[w].ok THEN BuildFailed("error")
            ELSE [status |-> "ok",
                  lines |-> [w \in ToSet(targets) |-> Written(expanded[w].output)]]
=============================================================================
