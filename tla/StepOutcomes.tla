------------------------------- MODULE StepOutcomes -------------------------------
(***************************************************************************)
(* What callers of the command runner and of the health checks count on:   *)
(* steps are taken one after the other, each reports one outcome when it   *)
(* is over, and no outcome changes once it is reported.                    *)
(***************************************************************************)
EXTENDS Naturals

CONSTANT NumSteps

VARIABLE outcome

Steps == 1 .. NumSteps

Outcomes == {"succeeded", "failed", "timed_out", "skipped"}

\* A step comes when those before it have reported.
InTurn(i) == \A j \in Steps : j < i => outcome[j] \in Outcomes

Begin(i) ==
    /\ outcome[i] = "waiting"
    /\ InTurn(i)
    /\ outcome' = [outcome EXCEPT ![i] = "running"]

Report(i) ==
    /\ outcome[i] \notin Outcomes
    /\ InTurn(i)
    /\ \E o \in Outcomes : outcome' = [outcome EXCEPT ![i] = o]

\* Switched off, before anything began.
SkipAll ==
    /\ \A i \in Steps : outcome[i] = "waiting"
    /\ outcome' = [i \in Steps |-> "skipped"]

Init == outcome = [i \in Steps |-> "waiting"]

Next == SkipAll \/ \E i \in Steps : Begin(i) \/ Report(i)

Spec == Init /\ [][Next]_outcome

=============================================================================
