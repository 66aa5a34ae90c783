-------------------------- MODULE DescriptorSearch --------------------------
(***************************************************************************)
(* GetDescriptorsFrom (descriptor_util.cc): the breadth first search for   *)
(* the messages of a file that get a builder, one action per decision of   *)
(* its loops. The nullptr checks are left out: PBCC_DIE_IF_NULL and the    *)
(* descriptor pool rule them out.                                          *)
(***************************************************************************)
EXTENDS ProtoSchema, Naturals

VARIABLES
    file,         \* file_desc
    search_mode,
    descriptors,  \* the result, in the order it is returned
    queue,
    msg,          \* the message whose fields are visited
    i,            \* the next field of msg
    expanded,     \* history: the messages whose fields were all visited
    pc            \* "collect", "search", "fields" or "done"

vars == <<file, search_mode, descriptors, queue, msg, i, expanded, pc>>

Init ==
    /\ \E s \in Search : file = s[1] /\ search_mode = s[2]
    /\ descriptors = <<>> /\ queue = <<>>
    /\ msg = NoMessage /\ i = 1
    /\ expanded = {}
    /\ pc = "collect"

\* Slip: the early return is forgotten, so every mode traverses.
CollectTopLevelAlwaysSearch ==
    /\ pc = "collect"
    /\ descriptors' = file.topLevel
    /\ queue' = file.topLevel
    /\ pc' = "search"
    /\ UNCHANGED <<file, search_mode, msg, i, expanded>>

\* The top level messages are results and start the search, which the two
\* modes that do not traverse never begin.
CollectTopLevel ==
    /\ pc = "collect"
    /\ descriptors' = file.topLevel
    /\ queue' = file.topLevel
    /\ pc' = IF search_mode \in TraversingMode THEN "search" ELSE "done"
    /\ UNCHANGED <<file, search_mode, msg, i, expanded>>

PopMessage ==
    /\ pc = "search" /\ queue # <<>>
    /\ msg' = Head(queue)
    /\ queue' = Tail(queue)
    /\ i' = 1
    /\ pc' = "fields"
    /\ UNCHANGED <<file, search_mode, descriptors, expanded>>

\* Slip: results are not looked up, so a message is collected per reference.
SkipsNoLookup(field) ==
    field.message = NoMessage \/ field.message \notin file.local

\* Slip: messages of imported files are not recognised.
SkipsNoFileCheck(field) ==
    field.message = NoMessage \/ field.message \in Range(descriptors)

\* The `continue`s: no message field, a message that is a result already, or
\* an imported one.
Skips(field) ==
    \/ field.message = NoMessage
    \/ field.message \in Range(descriptors)
    \/ field.message \notin file.local

\* Slip: the message type of a map's value is forgotten.
CollectsNoMaps(field) == field.label = "repeated" \/ search_mode = "kTransitiveAll"

\* Slip: the mode is not looked at.
CollectsAnyMode(field) == field.label # "singular"

\* The message gets a builder of its own.
Collects(field) == field.label # "singular" \/ search_mode = "kTransitiveAll"

VisitField ==
    /\ pc = "fields" /\ i <= Len(file.fields[msg])
    /\ i' = i + 1
    /\ UNCHANGED <<file, search_mode, msg, expanded, pc>>

\* Slip: a `continue` that bypasses the increment.
SkipFieldNoAdvance ==
    /\ pc = "fields" /\ i <= Len(file.fields[msg])
    /\ Skips(file.fields[msg][i])
    /\ UNCHANGED vars

SkipField ==
    /\ VisitField
    /\ Skips(file.fields[msg][i])
    /\ UNCHANGED <<descriptors, queue>>

\* A message that is not skipped is searched whether it is collected or not.
FollowField ==
    /\ VisitField
    /\ LET field == file.fields[msg][i] IN
       /\ ~ Skips(field)
       /\ descriptors' = IF Collects(field) THEN Append(descriptors, field.message)
                                            ELSE descriptors
       /\ queue' = Append(queue, field.message)

FinishMessage ==
    /\ pc = "fields" /\ i > Len(file.fields[msg])
    /\ expanded' = expanded \cup {msg}
    /\ pc' = "search"
    /\ UNCHANGED <<file, search_mode, descriptors, queue, msg, i>>

Return ==
    /\ pc = "search" /\ queue = <<>>
    /\ pc' = "done"
    /\ UNCHANGED <<file, search_mode, descriptors, queue, msg, i, expanded>>

Next == \/ CollectTopLevel \/ PopMessage \/ SkipField \/ FollowField
        \/ FinishMessage \/ Return

\* The search runs until it returns: the process does nothing else.
Spec == Init /\ [][Next]_vars
FairSpec == Spec /\ WF_vars(Next)
-----------------------------------------------------------------------------
TypeOK ==
    /\ IsFileDescriptor(file)
    /\ search_mode \in MessageSearchMode
    /\ descriptors \in Seq(file.local)
    /\ queue \in Seq(file.local)
    /\ msg \in file.local \cup {NoMessage}
    /\ pc = "fields" => msg \in file.local
    /\ i \in Nat \ {0}
    /\ expanded \subseteq file.local
    /\ pc \in {"collect", "search", "fields", "done"}

\* No message is returned twice, however many fields, maps and cycles lead to
\* it: a builder class that is written twice does not compile.
NoDuplicates == IsInjective(descriptors)

\* What the search returns are exactly the messages its mode asks for; no cycle,
\* import, map or order of fields makes it miss one or return another.
ReturnsWanted ==
    pc = "done" => Range(descriptors) = Wanted(file, search_mode)

\* Messages waiting to have their fields visited.
Pending == Range(queue) \cup (IF pc = "fields" THEN {msg} ELSE {})

\* In the mode that collects all messages no message is searched twice: the
\* queue holds a message once, and never one that was popped before. (In the
\* "*+" mode that is not so; see Termination.)
SearchedOnce ==
    search_mode = "kTransitiveAll" =>
        /\ IsInjective(queue)
        /\ Range(queue) \cap expanded = {}
        /\ pc = "fields" => msg \notin Range(queue) \cup expanded

\* The search is over for every schema and mode, except that in "*+" it needs
\* the nested messages not to refer to themselves by singular fields.
Termination ==
    (search_mode = "kTransitiveRepeated" => SingularAcyclic(file)) ~> pc = "done"

\* GetDescriptorsFrom implements the selection of builders.
Selection == INSTANCE BuilderSelection WITH
                selected <- Range(descriptors), done <- pc = "done"
SelectsWanted == Selection!Spec
-----------------------------------------------------------------------------
(***************************************************************************)
(* Two statements of the documentation that the code does not keep.        *)
(***************************************************************************)
\* "*+" generates builders for all messages used as repeated fields or map
\* values (usage.md): so the search must end, whatever the file declares.
SearchEnds == <>(pc = "done")

\* "**" generates builders for all messages defined in the proto file.
AllDefinedMessages ==
    pc = "done" /\ search_mode = "kTransitiveAll" => Range(descriptors) = file.local
=============================================================================
