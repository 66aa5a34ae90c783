--------------------------- MODULE OutputPromise ---------------------------
(***************************************************************************)
(* What a build may rely on: a run of the tool brings the files it was     *)
(* asked for up to date one after the other, in their order; it succeeds   *)
(* only after the last, and may fail, or be killed, whenever it likes.     *)
(***************************************************************************)
EXTENDS Naturals, Sequences

CONSTANT Where    \* the targets

VARIABLES
    wanted,    \* the targets of the command, in order
    outputs,   \* of each file: "stale", "partial" or "complete" in this run
    outcome    \* "running", "ok" or "failed"

vars == <<wanted, outputs, outcome>>

Init ==
    /\ wanted \in Seq(Where)
    /\ outputs = [w \in Where |-> "stale"]
    /\ outcome = "running"

\* A file is begun when all before it are complete.
Begin(i) ==
    /\ outcome = "running"
    /\ \A j \in 1..i - 1 : outputs[wanted[j]] = "complete"
    /\ outputs[wanted[i]] = "stale"
    /\ outputs' = [outputs EXCEPT ![wanted[i]] = "partial"]
    /\ UNCHANGED <<wanted, outcome>>

Complete(i) ==
    /\ outcome = "running"
    /\ outputs[wanted[i]] = "partial"
    /\ outputs' = [outputs EXCEPT ![wanted[i]] = "complete"]
    /\ UNCHANGED <<wanted, outcome>>

Succeed ==
    /\ outcome = "running"
    /\ \A i \in DOMAIN wanted : outputs[wanted[i]] = "complete"
    /\ outcome' = "ok"
    /\ UNCHANGED <<wanted, outputs>>

Fail ==
    /\ outcome = "running"
    /\ outcome' = "failed"
    /\ UNCHANGED <<wanted, outputs>>

\* The next run trusts nothing that an earlier one left.
Restart ==
    /\ outcome # "running"
    /\ outcome' = "running"
    /\ outputs' = [w \in Where |-> "stale"]
    /\ UNCHANGED wanted

Next ==
    \/ \E i \in DOMAIN wanted : Begin(i) \/ Complete(i)
    \/ Succeed
    \/ Fail
    \/ Restart

Spec == Init /\ [][Next]_vars
=============================================================================
