---------------------------- MODULE ProtoSchema ----------------------------
(***************************************************************************)
(* The part of a proto file's descriptors that decides which messages get  *)
(* a builder: the messages, their fields and where they are declared.      *)
(* Descriptors come from the protobuf library; the shape below is what     *)
(* descriptor_util.cc reads of them.                                       *)
(***************************************************************************)
EXTENDS Functions, Sequences

CONSTANTS
    Message,    \* every message type the descriptor pool knows
    NoMessage,  \* the "type" of a field that is no TYPE_MESSAGE
    Search      \* the searches that may be asked for: pairs of a file and a mode

Label == {"singular", "repeated", "map"}

\* A field as the search sees it. `message` is the field's message type or, of
\* a map, its value's. It is NoMessage for scalars, enums and groups, and for
\* maps whose value is one of these.
Field == [label : Label, message : Message \cup {NoMessage}]

\* `local` are the messages declared in the file, nested ones included and the
\* synthetic map entries left out; `topLevel` lists the outermost of them.
IsFileDescriptor(file) ==
    /\ file = [topLevel |-> file.topLevel, local |-> file.local, fields |-> file.fields]
    /\ file.local \subseteq Message
    /\ file.topLevel \in Seq(file.local)
    /\ IsInjective(file.topLevel)
    /\ file.fields \in [Message -> Seq(Field)]

MessageSearchMode ==
    {"kExplicit", "kAllTopLevel", "kTransitiveRepeated", "kTransitiveAll"}

ASSUME SearchAssumption ==
    /\ NoMessage \notin Message
    /\ \A s \in Search : s = <<s[1], s[2]>> /\ IsFileDescriptor(s[1]) /\ s[2] \in MessageSearchMode

TraversingMode == {"kTransitiveRepeated", "kTransitiveAll"}
-----------------------------------------------------------------------------
(***************************************************************************)
(* What a mode asks for, stated without a traversal.                       *)
(***************************************************************************)
\* The messages of the file that m's fields refer to.
Successors(file, m) == {f.message : f \in Range(file.fields[m])} \cap file.local

\* Those of them that some repeated field or map of m refers to.
RepeatedSuccessors(file, m) ==
    {f.message : f \in {g \in Range(file.fields[m]) : g.label # "singular"}}
        \cap file.local

\* S has every top level message and everything its members refer to.
Closed(file, S) ==
    /\ Range(file.topLevel) \subseteq S
    /\ \A m \in S : Successors(file, m) \subseteq S

\* The messages reachable from the top level ones: the smallest closed set.
Reachable(file) ==
    {m \in file.local : \A S \in SUBSET file.local : Closed(file, S) => m \in S}

\* The messages that get a builder, per search mode.
Wanted(file, mode) ==
    {m \in file.local :
        \/ m \in Range(file.topLevel)
        \/ mode = "kTransitiveAll" /\ m \in Reachable(file)
        \/ /\ mode \in TraversingMode
           /\ \E n \in Reachable(file) : m \in RepeatedSuccessors(file, n)}

\* No set of nested messages refers to itself by singular fields only.
SingularAcyclic(file) ==
    ~ \E S \in SUBSET (file.local \ Range(file.topLevel)) :
        /\ S # {}
        /\ \A m \in S : \E f \in Range(file.fields[m]) :
              f.label = "singular" /\ f.message \in S
=============================================================================
