--------------------------- MODULE MessageWriter ---------------------------
(***************************************************************************)
(* MessageBuilder (message_builder.cc): which setters a builder class gets *)
(* for the fields of its message and, flattened, of the messages in it.    *)
(* The recursion of WriteMessage is an explicit stack of its activations.  *)
(* The include lists and the text of a setter are left out; a setter is    *)
(* the way down to its field and the field option it is written for.       *)
(***************************************************************************)
EXTENDS Naturals, Sequences

CONSTANTS
    Message,                 \* message types
    NoMessage,               \* what a field without a sub message refers to
    Schema,                  \* what WriteBuilder may be run on
    kMaxSubFieldSetterDepth

\* A field option, as an annotation gives it and as its macro, if any, would
\* fill it in; type_recurse is what the configuration says of its type.
FieldOption == [output : {"unset", "SKIP", "BOTH"}, macro_output : {"unset", "SKIP", "BOTH"},
                recurse : {"unset", "true", "false"},
                type_recurse : {"unset", "true", "false"}]

\* `message` is the type of a field that is a message and not repeated;
\* `automatic` says that the field's type has an automatic type.
FieldDescriptor == [message : Message \cup {NoMessage}, options : Seq(FieldOption),
                    automatic : BOOLEAN]

IsSchema(s) ==
    /\ s = [root |-> s.root, fields |-> s.fields, max_field_depth |-> s.max_field_depth]
    /\ s.root \in Message
    /\ s.fields \in [Message -> Seq(FieldDescriptor)]
    /\ s.max_field_depth \in Nat \ {0}

ASSUME SchemaAssumption ==
    /\ NoMessage \notin Message
    /\ kMaxSubFieldSetterDepth \in Nat
    /\ \A s \in Schema : IsSchema(s)

VARIABLES
    schema,
    messages_in_stack,  \* messages_in_subfield_setter_stack_
    frames,             \* activations of WriteMessage, the outermost first
    callee,             \* the arguments of the call of WriteMessage under way
    written,            \* the setters written
    pc                  \* "call", "loop" or "done"

vars == <<schema, messages_in_stack, frames, callee, written, pc>>

\* A field of a message, by its position, and the way down to one.
Step == Message \X (Nat \ {0})
FieldAt(step) == schema.fields[step[1]][step[2]]
-----------------------------------------------------------------------------
(***************************************************************************)
(* The field options.                                                      *)
(***************************************************************************)
\* MergeFieldBuilderOptions: an annotation overrides its macro. Neither of
\* them set, the output is BOTH.
Output(option) == IF option.output = "unset" THEN option.macro_output ELSE option.output

\* The `continue` of WriteMessage looks at the first annotation alone.
SkipsField(field) == field.options # <<>> /\ field.options[1].output = "SKIP"

Active(field) == {f \in DOMAIN field.options : Output(field.options[f]) # "SKIP"}

\* What WriteMethod is called for: field options by their position, or else the
\* default setter (0) and that of the automatic type.
Methods(field) ==
    IF field.options = <<>> THEN {0} \cup (IF field.automatic THEN {1} ELSE {})
                            ELSE Active(field)

OptionRecurses(option) ==
    IF option.recurse # "unset" THEN option.recurse = "true" ELSE option.type_recurse # "false"

\* What WriteField returns, and whether there is a message to descend into.
Recurses(field) ==
    /\ schema.max_field_depth > 1
    /\ \A f \in Active(field) : OptionRecurses(field.options[f])
    /\ field.message # NoMessage
-----------------------------------------------------------------------------
Init ==
    /\ schema \in Schema
    /\ messages_in_stack = {}
    /\ frames = <<>>
    /\ callee = [message |-> schema.root, path |-> <<>>]
    /\ written = {}
    /\ pc = "call"

Depth(call) == Len(call.path)

\* Slip: the limit is off by one.
TooDeepByOne(call) == Depth(call) > kMaxSubFieldSetterDepth + 1

TooDeep(call) == Depth(call) > kMaxSubFieldSetterDepth

\* Slip: the early return erases the message that an outer activation inserted.
RefuseMessageErasing ==
    /\ pc = "call"
    /\ TooDeep(callee) \/ callee.message \in messages_in_stack
    /\ messages_in_stack' = messages_in_stack \ {callee.message}
    /\ pc' = "loop"
    /\ UNCHANGED <<schema, frames, callee, written>>

\* The early returns of WriteMessage.
RefuseMessage ==
    /\ pc = "call"
    /\ TooDeep(callee) \/ callee.message \in messages_in_stack
    /\ pc' = "loop"
    /\ UNCHANGED <<schema, messages_in_stack, frames, callee, written>>

EnterMessage ==
    /\ pc = "call"
    /\ ~ TooDeep(callee) /\ callee.message \notin messages_in_stack
    /\ messages_in_stack' = messages_in_stack \cup {callee.message}
    /\ frames' = Append(frames, [message |-> callee.message, path |-> callee.path, i |-> 1])
    /\ pc' = "loop"
    /\ UNCHANGED <<schema, callee, written>>

Top == frames[Len(frames)]
HasField == pc = "loop" /\ frames # <<>> /\ Top.i <= Len(schema.fields[Top.message])
TopStep == <<Top.message, Top.i>>
TopPath == Append(Top.path, TopStep)

AdvanceField ==
    frames' = [frames EXCEPT ![Len(frames)] =
                  [message |-> Top.message, path |-> Top.path, i |-> Top.i + 1]]

\* Slip: the `continue` bypasses the increment.
SkipFieldNoAdvance ==
    /\ HasField /\ SkipsField(FieldAt(TopStep))
    /\ UNCHANGED vars

SkipField ==
    /\ HasField /\ SkipsField(FieldAt(TopStep))
    /\ AdvanceField
    /\ UNCHANGED <<schema, messages_in_stack, callee, written, pc>>

\* WriteField, and the call of WriteMessage it asks for.
WriteField ==
    /\ HasField /\ ~ SkipsField(FieldAt(TopStep))
    /\ AdvanceField
    /\ LET field == FieldAt(TopStep) IN
         /\ written' = written \cup {[path |-> TopPath, method |-> m] : m \in Methods(field)}
         /\ IF Recurses(field)
              THEN callee' = [message |-> field.message, path |-> TopPath] /\ pc' = "call"
              ELSE UNCHANGED <<callee, pc>>
    /\ UNCHANGED <<schema, messages_in_stack>>

\* Slip: the message stays in the set when its activation returns.
LeaveMessageInStack ==
    /\ pc = "loop" /\ frames # <<>> /\ ~ HasField
    /\ frames' = SubSeq(frames, 1, Len(frames) - 1)
    /\ UNCHANGED <<schema, messages_in_stack, callee, written, pc>>

LeaveMessage ==
    /\ pc = "loop" /\ frames # <<>> /\ ~ HasField
    /\ messages_in_stack' = messages_in_stack \ {Top.message}
    /\ frames' = SubSeq(frames, 1, Len(frames) - 1)
    /\ UNCHANGED <<schema, callee, written, pc>>

\* WriteBuilder returns.
Finish ==
    /\ pc = "loop" /\ frames = <<>>
    /\ pc' = "done"
    /\ UNCHANGED <<schema, messages_in_stack, frames, callee, written>>

Next == RefuseMessage \/ EnterMessage \/ SkipField \/ WriteField \/ LeaveMessage \/ Finish

Spec == Init /\ [][Next]_vars

\* The writer runs to its end: the process does nothing else meanwhile.
FairSpec == Spec /\ WF_vars(Next)
-----------------------------------------------------------------------------
TypeOK ==
    /\ IsSchema(schema)
    /\ messages_in_stack \subseteq Message
    /\ frames \in Seq([message : Message, path : Seq(Step), i : Nat \ {0}])
    /\ Len(frames) <= kMaxSubFieldSetterDepth + 1
    /\ callee \in [message : Message, path : Seq(Step)]
    /\ written \subseteq [path : Seq(Step), method : Nat]
    /\ pc \in {"call", "loop", "done"}

\* The set that stops the recursion always holds just the messages that are
\* being written, each in one activation: it neither loses one to an early
\* return, which would let a message into itself, nor keeps one that was left,
\* which would take the setters from the next field of that type.
StackMatches ==
    /\ messages_in_stack = {frames[d].message : d \in DOMAIN frames}
    /\ \A d, e \in DOMAIN frames : frames[d].message = frames[e].message => d = e

\* A way down from the root by fields that are recursed into, no message twice.
IsPath(p) ==
    /\ p[1][1] = schema.root
    /\ \A k \in DOMAIN p :
          /\ p[k][2] \in DOMAIN schema.fields[p[k][1]]
          /\ ~ SkipsField(FieldAt(p[k]))
          /\ \A l \in DOMAIN p : p[k][1] = p[l][1] => k = l
          /\ k < Len(p) => Recurses(FieldAt(p[k])) /\ FieldAt(p[k]).message = p[k + 1][1]

\* The ways down that the depth limit admits.
Paths ==
    LET FieldStep == UNION {{m} \X DOMAIN schema.fields[m] : m \in Message} IN
      {p \in UNION {[1..n -> FieldStep] : n \in 1..kMaxSubFieldSetterDepth + 1} : IsPath(p)}

\* A builder has a setter for every field that its options let it reach, at most
\* kMaxSubFieldSetterDepth messages below its own, and no other one: whatever
\* cycles and repeated types the schema has, and wherever they are met first.
WritesReachableFields ==
    pc = "done" =>
        written = UNION {{[path |-> p, method |-> m] : m \in Methods(FieldAt(p[Len(p)]))} :
                            p \in Paths}

\* The writer ends, even for messages that contain each other.
Termination == <>(pc = "done")
-----------------------------------------------------------------------------
(***************************************************************************)
(* Two statements of the documentation that the code does not keep.        *)
(***************************************************************************)
\* "Maximum message depth (1 = this only)" (message_builder.h): setters reach
\* down no further than the depth asked for.
MaxFieldDepthKept == \A w \in written : Len(w.path) <= schema.max_field_depth

\* "SKIP: Do not generate any code" (config.md): a field all of whose options
\* come to SKIP, be it by a macro, has no setter, nor have the fields in it.
SkippedFieldsWriteNothing ==
    \A w \in written : \A k \in DOMAIN w.path :
        FieldAt(w.path[k]).options # <<>> => Active(FieldAt(w.path[k])) # {}
=============================================================================
