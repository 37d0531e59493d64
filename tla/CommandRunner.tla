------------------------------- MODULE CommandRunner -------------------------------
(***************************************************************************)
(* runRuntimeCommand (bootstrap-runtime command-runner.ts), which          *)
(* runVerificationCommand repeats for the checks of `board verify`: a      *)
(* child, a timer that sends it SIGTERM once, and the two events that      *)
(* settle the promise.  No caller passes an abort signal.                  *)
(***************************************************************************)
EXTENDS Naturals

CONSTANT NumSteps

ASSUME RunnerAssumption == NumSteps \in Nat

Steps == 1 .. NumSteps

VARIABLES
    nature,    \* what is run
    child,     \* the child process
    code,      \* its exit code
    stdio,     \* its output
    timer,     \* the steps whose timer is armed
    timedOut,  \* the steps whose timer has fired
    result     \* what the promise has been resolved to

runnerVars == <<nature, child, code, stdio, timer, timedOut, result>>

NoNature == [spawns |-> FALSE, obeys |-> FALSE, killable |-> FALSE, leaves |-> FALSE]

Nature ==
    {NoNature} \cup              \* there is no such program
    [spawns   : {TRUE},
     obeys    : BOOLEAN,         \* does it end on SIGTERM?
     killable : BOOLEAN,         \* may it be signalled?  (not so: EPERM, as for sudo)
     leaves   : BOOLEAN]         \* does it leave descendants that keep its output open?

Reported(i) == result[i] # "none"

\* settled, cleanup and resolve; whatever comes later finds it settled.
Settle(i, status) ==
    /\ result' = [result EXCEPT ![i] = IF Reported(i) THEN @ ELSE status]
    /\ timer' = timer \ {i}

\* spawn, and the timer.
Call(i) ==
    /\ child[i] = "none"
    /\ \E n \in Nature :
         /\ nature' = [nature EXCEPT ![i] = n]
         /\ child' = [child EXCEPT ![i] = IF n.spawns THEN "running" ELSE "unborn"]
    /\ timer' = timer \cup {i}
    /\ UNCHANGED <<code, stdio, timedOut, result>>

\* The program ends, by itself or because of the signal.
Exit(i) ==
    /\ child[i] \in {"running", "signalled"}
    /\ child' = [child EXCEPT ![i] = "ended"]
    /\ \E c \in {"zero", "other"} : code' = [code EXCEPT ![i] = c]
    /\ stdio' = [stdio EXCEPT ![i] = IF nature[i].leaves THEN "held" ELSE "free"]
    /\ UNCHANGED <<nature, timer, timedOut, result>>

\* The last of its descendants lets go of the output.
Release(i) ==
    /\ stdio[i] = "held"
    /\ stdio' = [stdio EXCEPT ![i] = "free"]
    /\ UNCHANGED <<nature, child, code, timer, timedOut, result>>

\* Bug: the child is not told.
OnlyTimedOut(i) ==
    /\ i \in timer
    /\ timedOut' = timedOut \cup {i}
    /\ timer' = timer \ {i}
    /\ UNCHANGED <<nature, child, code, stdio, result>>

\* Bug: the timeout settles the command, which may run on.
TimerSettles(i) ==
    /\ i \in timer
    /\ timedOut' = timedOut \cup {i}
    /\ Settle(i, "timed_out")
    /\ child' = [child EXCEPT ![i] = IF @ = "running" THEN "signalled" ELSE @]
    /\ UNCHANGED <<nature, code, stdio>>

\* The timer fires.  A child that may not be signalled makes kill() emit "error", which
\* settles the command while the child runs on.
TimerFires(i) ==
    /\ i \in timer
    /\ timedOut' = timedOut \cup {i}
    /\ IF child[i] = "running" /\ ~nature[i].killable
       THEN Settle(i, "failed") /\ UNCHANGED child
       ELSE /\ child' = [child EXCEPT ![i] = IF @ = "running" THEN "signalled" ELSE @]
            /\ timer' = timer \ {i}
            /\ UNCHANGED result
    /\ UNCHANGED <<nature, code, stdio>>

\* The "error" event of a program that could not be spawned; "close" follows it.
OnError(i) ==
    /\ child[i] = "unborn"
    /\ stdio[i] = "open"
    /\ stdio' = [stdio EXCEPT ![i] = "free"]
    /\ Settle(i, "failed")
    /\ UNCHANGED <<nature, child, code, timedOut>>

\* Bug: the exit code comes first.
ByExitCode(i) ==
    CASE code[i] = "zero" -> "succeeded"
      [] code[i] # "zero" /\ i \in timedOut -> "timed_out"
      [] OTHER -> "failed"

\* createCommandResult
StatusOf(i) ==
    CASE i \in timedOut -> "timed_out"
      [] i \notin timedOut /\ code[i] = "zero" -> "succeeded"
      [] OTHER -> "failed"

\* The "close" event: the child has ended and nobody holds its output.
OnClose(i) ==
    /\ stdio[i] = "free"
    /\ stdio' = [stdio EXCEPT ![i] = "closed"]
    /\ Settle(i, StatusOf(i))
    /\ UNCHANGED <<nature, child, code, timedOut>>

\* What comes of its own accord: timers and events do, and a child that obeys ends.
Proceed(i) ==
    \/ TimerFires(i)
    \/ OnError(i)
    \/ OnClose(i)
    \/ child[i] = "signalled" /\ nature[i].obeys /\ Exit(i)

RunnerNext(i) == Exit(i) \/ Release(i) \/ TimerFires(i) \/ OnError(i) \/ OnClose(i)

RunnerInit ==
    /\ nature = [i \in Steps |-> NoNature]
    /\ child = [i \in Steps |-> "none"]
    /\ code = [i \in Steps |-> "other"]
    /\ stdio = [i \in Steps |-> "open"]
    /\ timer = {}
    /\ timedOut = {}
    /\ result = [i \in Steps |-> "none"]

=============================================================================
