------------------------- MODULE MCDescriptorSearch -------------------------
(***************************************************************************)
(* Files for TLC: a top level message T, the messages N and M, and X of an *)
(* imported file. M is nested or a second top level message.               *)
(***************************************************************************)
EXTENDS DescriptorSearch, SequencesExt

CONSTANTS T, N, M, X

MCMessage == {T, N, M, X}

One(m)    == [label |-> "singular", message |-> m]
Many(m)   == [label |-> "repeated", message |-> m]
Mapped(m) == [label |-> "map", message |-> m]

\* Every file in which T has up to two fields, N up to two and M at most one.
File == { [topLevel |-> top, local |-> {T, N, M},
           fields |-> T :> t @@ N :> n @@ M :> m @@ X :> <<>>] :
            top \in {<<T>>, <<T, M>>},
            t \in BoundedSeq({One(N), Many(N), One(M), Mapped(M), One(X)}, 2),
            n \in BoundedSeq({One(N), Many(N), One(M), Many(M)}, 2),
            m \in BoundedSeq({One(N), Mapped(N), One(M), One(T), Many(NoMessage)}, 1) }

\* In "*+" the queue of a file whose singular fields branch and cycle grows
\* without bound; cycles without branches stay, their searches loop.
MCSearch ==
    { s \in File \X MessageSearchMode :
        s[2] = "kTransitiveRepeated" =>
            \/ SingularAcyclic(s[1])
            \/ \A m \in MCMessage : Len(s[1].fields[m]) <= 1 }

\* message T { optional N n; message N { optional N next; } message M {} }:
\* N is a linked list, nothing refers to M.
LinkedList == [topLevel |-> <<T>>, local |-> {T, N, M},
               fields |-> T :> <<One(N)>> @@ N :> <<One(N)>> @@ M :> <<>> @@ X :> <<>>]
LinkedListSearch == {LinkedList} \X MessageSearchMode
=============================================================================
