-------------------------- MODULE BuilderSelection --------------------------
(***************************************************************************)
(* What GetDescriptorsFrom promises: it selects messages, only wanted      *)
(* ones, drops none it selected, and is done with exactly the wanted ones. *)
(***************************************************************************)
EXTENDS ProtoSchema

VARIABLES
    file,         \* the file searched
    search_mode,  \* the mode asked for
    selected,     \* the messages selected so far
    done          \* the search has returned

vars == <<file, search_mode, selected, done>>

Init ==
    /\ <<file, search_mode>> \in Search
    /\ selected = {}
    /\ done = FALSE

Select(S, finished) ==
    /\ ~ done
    /\ S \subseteq Wanted(file, search_mode)
    /\ finished => selected \cup S = Wanted(file, search_mode)
    /\ selected' = selected \cup S
    /\ done' = finished
    /\ UNCHANGED <<file, search_mode>>

Next == \E S \in SUBSET Wanted(file, search_mode), finished \in BOOLEAN :
            Select(S, finished)

Spec == Init /\ [][Next]_vars
=============================================================================
