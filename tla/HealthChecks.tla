------------------------------- MODULE HealthChecks -------------------------------
(***************************************************************************)
(* runRuntimeHealthChecks (health-checks.ts): the health-check steps of a  *)
(* plan one after the other, each a command for the command runner, a URL  *)
(* that is fetched with retries, or neither.                               *)
(***************************************************************************)
EXTENDS CommandRunner, Sequences

CONSTANT Retries   \* 2

ASSUME RetriesAssumption == Retries \in Nat

VARIABLES
    enabled,  \* FALSE with --no-health
    kind,     \* the kind of each step
    at,       \* the step runSingleHealthCheck has come to
    tries     \* the answers to the fetches of each step

vars == <<runnerVars, enabled, kind, at, tries>>

Kinds == {"command", "url", "other"}

Answers == {"succeeded", "failed", "timed_out"}

\* Health checks switched off: every step is skipped.
SkipAll ==
    /\ ~enabled
    /\ at = 1
    /\ result' = [i \in Steps |-> "skipped"]
    /\ at' = NumSteps + 1
    /\ UNCHANGED <<nature, child, code, stdio, timer, timedOut, enabled, kind, tries>>

IsAt(i, k) == enabled /\ at = i /\ ~Reported(i) /\ kind[i] = k

CallCommand(i) == IsAt(i, "command") /\ Call(i) /\ UNCHANGED <<enabled, kind, at, tries>>

\* Neither a command nor an http(s) URL.
SkipStep(i) ==
    /\ IsAt(i, "other")
    /\ result' = [result EXCEPT ![i] = "skipped"]
    /\ UNCHANGED <<nature, child, code, stdio, timer, timedOut, enabled, kind, at, tries>>

LastTry(i) == Len(tries[i]) = Retries

\* One round of the loop.  fetchUrlHealthCheck answers in any case: its timer aborts the
\* fetch.
Fetch(i) ==
    /\ IsAt(i, "url")
    /\ \E answer \in Answers :
         /\ tries' = [tries EXCEPT ![i] = Append(@, answer)]
         /\ result' = [result EXCEPT ![i] =
                         IF answer = "succeeded" \/ LastTry(i) THEN answer ELSE @]
    /\ UNCHANGED <<nature, child, code, stdio, timer, timedOut, enabled, kind, at>>

\* Bug: the retries of a URL are not awaited.
RetryBehind ==
    /\ enabled
    /\ at \in Steps
    /\ Reported(at) \/ tries[at] # <<>>
    /\ at' = at + 1
    /\ UNCHANGED <<runnerVars, enabled, kind, tries>>

\* runSingleHealthCheck is awaited before the next step.
NextStep ==
    /\ enabled
    /\ at \in Steps
    /\ Reported(at)
    /\ at' = at + 1
    /\ UNCHANGED <<runnerVars, enabled, kind, tries>>

RunChecks ==
    \/ SkipAll
    \/ \E i \in Steps : CallCommand(i) \/ SkipStep(i) \/ Fetch(i)
    \/ NextStep

Next ==
    \/ RunChecks
    \/ \E i \in Steps : RunnerNext(i) /\ UNCHANGED <<enabled, kind, at, tries>>

Init ==
    /\ RunnerInit
    /\ enabled \in BOOLEAN
    /\ kind \in [Steps -> Kinds]
    /\ at = 1
    /\ tries = [i \in Steps |-> <<>>]

Spec == Init /\ [][Next]_vars

\* Board's own code goes on, and timers fire and events are delivered; what a program does
\* by itself is not counted on.
FairSpec ==
    /\ Spec
    /\ WF_vars(RunChecks)
    /\ \A i \in Steps : WF_vars(Proceed(i) /\ UNCHANGED <<enabled, kind, at, tries>>)

-----------------------------------------------------------------------------

\* Every variable keeps its type: at most one result a step, and of its own kind.
TypeOK ==
    /\ nature \in [Steps -> Nature]
    /\ child \in [Steps -> {"none", "unborn", "running", "signalled", "ended"}]
    /\ code \in [Steps -> {"zero", "other"}]
    /\ stdio \in [Steps -> {"open", "held", "free", "closed"}]
    /\ timer \subseteq Steps
    /\ timedOut \subseteq Steps
    /\ result \in [Steps -> Answers \cup {"skipped", "none"}]
    /\ enabled \in BOOLEAN
    /\ kind \in [Steps -> Kinds]
    /\ at \in 1 .. NumSteps + 1
    /\ tries \in [Steps -> Seq(Answers)]
    /\ \A i \in Steps : Len(tries[i]) <= Retries + 1

\* A command only succeeds by exiting with 0 before its time is over: one that exits with
\* 0 because it was told to terminate has timed out, however its events come.
SuccessIsEarned ==
    \A i \in Steps : kind[i] = "command" /\ result[i] = "succeeded" =>
        child[i] = "ended" /\ code[i] = "zero" /\ i \notin timedOut

\* No timer outlives the command it was for; it would keep a finished `board` waiting and
\* could still signal.
NoTimerLeft == \A i \in timer : ~Reported(i) /\ at = i

\* Steps do not overlap: when a step runs, the programs of those before it have ended, all
\* but those that may not be signalled.
RunsAlone ==
    \A i \in Steps : i < at /\ child[i] \in {"running", "signalled"} => ~nature[i].killable

\* A command that is reported is let go of, timer and program, before the next one runs
\* (runRuntimeCommand).
StepsInTurn == TypeOK /\ NoTimerLeft /\ RunsAlone

\* A URL is only given up when the last of its tries has failed, and reported as the last
\* try went.
TriesExhausted ==
    \A i \in Steps : kind[i] = "url" /\ Reported(i) /\ enabled =>
        /\ result[i] = tries[i][Len(tries[i])]
        /\ result[i] # "succeeded" => Len(tries[i]) = Retries + 1

\* Both kinds of steps report what they came to (runRuntimeCommand, runHealthChecks).
OutcomesAreEarned == SuccessIsEarned /\ TriesExhausted

\* To its callers a check is a step that reports one outcome once it is over, in its turn.
Outcome ==
    [i \in Steps |-> CASE Reported(i) -> result[i]
                       [] ~Reported(i) /\ (child[i] # "none" \/ tries[i] # <<>>) -> "running"
                       [] OTHER -> "waiting"]

Reporting == INSTANCE StepOutcomes WITH outcome <- Outcome

Implements == Reporting!Spec

\* A program Board can terminate is waited for no longer than its timeout: only one that
\* ignores SIGTERM, or whose descendants keep its output, can hold the checks for ever.
Obedient(i) == nature[i].obeys /\ ~nature[i].leaves

ChecksGoOn ==
    \A i \in Steps :
        at = i ~> \/ at > i
                  \/ child[i] \in {"running", "signalled", "ended"} /\ ~Obedient(i)

=============================================================================
