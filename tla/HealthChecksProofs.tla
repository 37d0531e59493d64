---------------------------- MODULE HealthChecksProofs ----------------------------
(***************************************************************************)
(* What TLAPS proves of CommandRunner and HealthChecks, for any number of  *)
(* steps and of retries: the steps report in turn and what they earned,    *)
(* and to the callers they are the steps of StepOutcomes.                  *)
(***************************************************************************)
EXTENDS HealthChecks, SequenceTheorems, TLAPS

\* Every step before the one the loop has come to has reported, and none after it; switched
\* off, they report together.
ReportedUpTo ==
    IF enabled
    THEN \A i \in Steps : (i < at => Reported(i)) /\ (i > at => ~Reported(i))
    ELSE \/ at = 1 /\ \A i \in Steps : ~Reported(i)
         \/ at = NumSteps + 1 /\ \A i \in Steps : result[i] = "skipped"

\* Only a step of its kind that the loop has come to has a child or an answer.
Owned ==
    \A i \in Steps :
        /\ child[i] # "none" => enabled /\ kind[i] = "command" /\ i <= at
        /\ tries[i] # <<>> => enabled /\ kind[i] = "url" /\ i <= at

\* The events of a child come after what they are about: the output of one that runs is
\* open, one that could not be spawned is reported by its first event, and one that is
\* reported while it runs may not be signalled.
EventsOfChild ==
    \A i \in Steps :
        /\ i \in timer => child[i] # "none" /\ ~Reported(i)
        /\ child[i] \in {"none", "running", "signalled"} => stdio[i] = "open"
        /\ child[i] = "unborn" /\ stdio[i] # "open" => Reported(i)
        /\ child[i] \in {"running", "signalled"} /\ Reported(i) => ~nature[i].killable

\* What the loop has fetched of a URL: no more than it may, and nothing after a success.
Fetched ==
    \A i \in Steps : kind[i] = "url" /\ ~Reported(i) => Len(tries[i]) <= Retries

IInv ==
    /\ TypeOK
    /\ ReportedUpTo
    /\ Owned
    /\ EventsOfChild
    /\ Fetched
    /\ OutcomesAreEarned

-----------------------------------------------------------------------------

LEMMA InitIInv == Init => IInv
BY RunnerAssumption, RetriesAssumption
   DEF Init, RunnerInit, IInv, TypeOK, ReportedUpTo, Owned, EventsOfChild, Fetched,
       OutcomesAreEarned, SuccessIsEarned, TriesExhausted, Reported, Nature, NoNature, Kinds,
       Answers, Steps

\* A child and its timer are those of the step the loop has come to, unless it has reported.
LEMMA OfTheCurrentStep ==
  ASSUME IInv, NEW i \in Steps, child[i] # "none"
  PROVE  /\ enabled /\ kind[i] = "command" /\ i <= at
         /\ ~Reported(i) => i = at
         /\ tries[i] = <<>>
BY RunnerAssumption DEF IInv, TypeOK, Owned, ReportedUpTo, Steps

LEMMA SkipAllKeeps == IInv /\ SkipAll => IInv'
<1> SUFFICES ASSUME IInv, SkipAll
             PROVE  IInv'
  OBVIOUS
<1> USE RunnerAssumption DEF IInv, SkipAll
<1>1. TypeOK' /\ Fetched'
  BY DEF TypeOK, Fetched, Steps, Reported
<1>2. Owned'
  BY <1>1 DEF Owned
<1>3. EventsOfChild'
  BY <1>1 DEF Owned, EventsOfChild, Reported, TypeOK
<1>4. ReportedUpTo' /\ OutcomesAreEarned'
  BY <1>1 DEF ReportedUpTo, OutcomesAreEarned, SuccessIsEarned, TriesExhausted, TypeOK
<1> QED
  BY <1>1, <1>2, <1>3, <1>4

LEMMA CallKeeps ==
  ASSUME IInv, NEW i \in Steps, CallCommand(i)
  PROVE  IInv'
<1> USE RunnerAssumption DEF IInv, CallCommand, Call, IsAt
<1>1. /\ tries[i] = <<>> /\ stdio[i] = "open"
      /\ enabled /\ at = i /\ ~Reported(i) /\ kind[i] = "command"
  BY DEF Owned, EventsOfChild, TypeOK
<1>2. TypeOK'
  <2>1. PICK n \in Nature : /\ nature' = [nature EXCEPT ![i] = n]
                            /\ child' = [child EXCEPT ![i] = IF n.spawns THEN "running" ELSE "unborn"]
    OBVIOUS
  <2> QED
    BY <2>1 DEF TypeOK
<1>3. /\ child'[i] \in {"running", "unborn"}
      /\ \A j \in Steps \ {i} : child'[j] = child[j] /\ nature'[j] = nature[j]
  BY DEF TypeOK
<1>4. ReportedUpTo' /\ Owned' /\ Fetched'
  BY <1>1, <1>3 DEF ReportedUpTo, Owned, Fetched, Reported, Steps
<1>5. EventsOfChild'
  BY <1>1, <1>3 DEF EventsOfChild, Reported
<1>6. OutcomesAreEarned'
  BY <1>1, <1>3 DEF OutcomesAreEarned, SuccessIsEarned, TriesExhausted, Reported
<1> QED
  BY <1>2, <1>4, <1>5, <1>6

LEMMA SkipStepKeeps ==
  ASSUME IInv, NEW i \in Steps, SkipStep(i)
  PROVE  IInv'
<1> USE RunnerAssumption DEF IInv, SkipStep, IsAt
<1>1. result'[i] = "skipped" /\ \A j \in Steps \ {i} : result'[j] = result[j]
  BY DEF TypeOK
<1>2. TypeOK' /\ Owned' /\ Fetched'
  BY <1>1 DEF TypeOK, Owned, Fetched, Reported
<1>3. ReportedUpTo'
  BY <1>1 DEF ReportedUpTo, Reported, Steps
<1>4. EventsOfChild' /\ OutcomesAreEarned'
  BY <1>1 DEF Owned, EventsOfChild, OutcomesAreEarned, SuccessIsEarned, TriesExhausted, Reported
<1> QED
  BY <1>2, <1>3, <1>4

LEMMA FetchKeeps ==
  ASSUME IInv, NEW i \in Steps, Fetch(i)
  PROVE  IInv'
<1> USE RunnerAssumption, RetriesAssumption DEF IInv, Fetch, IsAt
<1>1. PICK answer \in Answers :
        /\ tries' = [tries EXCEPT ![i] = Append(@, answer)]
        /\ result' = [result EXCEPT ![i] = IF answer = "succeeded" \/ LastTry(i) THEN answer ELSE @]
  OBVIOUS
<1>2. /\ tries[i] \in Seq(Answers) /\ Len(tries[i]) \in Nat /\ Len(tries[i]) <= Retries
      /\ result[i] = "none" /\ kind[i] = "url" /\ enabled /\ at = i
  BY DEF TypeOK, Fetched, Reported
<1>3. /\ tries'[i] = Append(tries[i], answer)
      /\ tries'[i] \in Seq(Answers)
      /\ Len(tries'[i]) = Len(tries[i]) + 1
      /\ tries'[i][Len(tries'[i])] = answer
      /\ \A j \in Steps \ {i} : tries'[j] = tries[j] /\ result'[j] = result[j]
      /\ result'[i] = IF answer = "succeeded" \/ LastTry(i) THEN answer ELSE "none"
  BY <1>1, <1>2, AppendProperties DEF TypeOK
<1>4. answer # "none"
  BY DEF Answers
<1>5. TypeOK'
  BY <1>1, <1>2, <1>3 DEF TypeOK
<1>6. ReportedUpTo' /\ Owned'
  BY <1>2, <1>3 DEF ReportedUpTo, Owned, Reported, Steps
<1>7. Fetched'
  BY <1>2, <1>3, <1>4 DEF Fetched, LastTry, Reported
<1>8. EventsOfChild'
  BY <1>2, <1>3 DEF Owned, EventsOfChild, Reported
<1>9. OutcomesAreEarned'
  BY <1>2, <1>3 DEF OutcomesAreEarned, SuccessIsEarned, TriesExhausted, LastTry, Reported
<1> QED
  BY <1>5, <1>6, <1>7, <1>8, <1>9

LEMMA NextStepKeeps == IInv /\ NextStep => IInv'
<1> SUFFICES ASSUME IInv, NextStep
             PROVE  IInv'
  OBVIOUS
<1> USE RunnerAssumption DEF IInv, NextStep, runnerVars
<1>1. TypeOK' /\ Owned' /\ Fetched'
  BY DEF TypeOK, Owned, Fetched, Reported, Steps
<1>2. ReportedUpTo'
  BY DEF ReportedUpTo, Reported, Steps
<1>3. EventsOfChild' /\ OutcomesAreEarned'
  BY DEF EventsOfChild, OutcomesAreEarned, SuccessIsEarned, TriesExhausted, Reported
<1> QED
  BY <1>1, <1>2, <1>3

\* What the events of a child and its timer have in common: only the first of them settles
\* the step, and only the step the loop has come to.
LEMMA SettleOnce ==
  ASSUME IInv, NEW i \in Steps, child[i] # "none",
         NEW status \in Answers, Settle(i, status), UNCHANGED <<enabled, kind, at, tries>>
  PROVE  /\ result' \in [Steps -> Answers \cup {"skipped", "none"}]
         /\ timer' \subseteq timer /\ i \notin timer'
         /\ Reported(i)'
         /\ \A j \in Steps : j # i \/ Reported(j) => result'[j] = result[j]
         /\ ~Reported(i) => result'[i] = status
         /\ ReportedUpTo' /\ Fetched'
<1> USE RunnerAssumption DEF IInv
<1>1. enabled /\ kind[i] = "command" /\ (~Reported(i) => i = at)
  BY OfTheCurrentStep
<1>2. /\ result' \in [Steps -> Answers \cup {"skipped", "none"}]
      /\ timer' \subseteq timer /\ i \notin timer'
      /\ Reported(i)'
      /\ \A j \in Steps : j # i \/ Reported(j) => result'[j] = result[j]
      /\ ~Reported(i) => result'[i] = status
  BY DEF Settle, TypeOK, Reported, Answers
<1>3. ReportedUpTo' /\ Fetched'
  BY <1>1, <1>2 DEF ReportedUpTo, Fetched, Reported, Steps, TypeOK
<1> QED
  BY <1>2, <1>3

LEMMA ExitKeeps ==
  ASSUME IInv, NEW i \in Steps, Exit(i), UNCHANGED <<enabled, kind, at, tries>>
  PROVE  IInv'
<1> USE RunnerAssumption DEF IInv, Exit
<1>1. /\ child'[i] = "ended" /\ stdio'[i] \in {"held", "free"}
      /\ \A j \in Steps \ {i} : child'[j] = child[j] /\ stdio'[j] = stdio[j] /\ code'[j] = code[j]
  BY DEF TypeOK
<1>2. TypeOK'
  BY <1>1 DEF TypeOK
<1>3. ReportedUpTo' /\ Owned' /\ Fetched'
  BY <1>1 DEF ReportedUpTo, Owned, Fetched, Reported
<1>4. EventsOfChild'
  BY <1>1 DEF EventsOfChild, Reported
<1>5. OutcomesAreEarned'
  BY <1>1 DEF OutcomesAreEarned, SuccessIsEarned, TriesExhausted, Reported
<1> QED
  BY <1>2, <1>3, <1>4, <1>5

LEMMA ReleaseKeeps ==
  ASSUME IInv, NEW i \in Steps, Release(i), UNCHANGED <<enabled, kind, at, tries>>
  PROVE  IInv'
<1> USE RunnerAssumption DEF IInv, Release
<1>1. stdio'[i] = "free" /\ \A j \in Steps \ {i} : stdio'[j] = stdio[j]
  BY DEF TypeOK
<1>2. TypeOK' /\ ReportedUpTo' /\ Owned' /\ Fetched'
  BY <1>1 DEF TypeOK, ReportedUpTo, Owned, Fetched, Reported
<1>3. EventsOfChild' /\ OutcomesAreEarned'
  BY <1>1 DEF EventsOfChild, OutcomesAreEarned, SuccessIsEarned, TriesExhausted, Reported
<1> QED
  BY <1>2, <1>3

LEMMA TimerFiresKeeps ==
  ASSUME IInv, NEW i \in Steps, TimerFires(i), UNCHANGED <<enabled, kind, at, tries>>
  PROVE  IInv'
<1> USE RunnerAssumption DEF IInv, TimerFires
<1>1. /\ child[i] # "none" /\ ~Reported(i) /\ i = at
      /\ enabled /\ kind[i] = "command" /\ tries[i] = <<>>
  BY OfTheCurrentStep DEF EventsOfChild
<1>2. CASE child[i] = "running" /\ ~nature[i].killable
  <2>1. "failed" \in Answers /\ Settle(i, "failed") /\ child' = child
    BY <1>2 DEF Answers
  <2>2. /\ result' \in [Steps -> Answers \cup {"skipped", "none"}]
        /\ timer' \subseteq timer /\ i \notin timer'
        /\ \A j \in Steps \ {i} : result'[j] = result[j]
        /\ result'[i] = "failed"
        /\ ReportedUpTo' /\ Fetched'
    BY <1>1, <2>1, SettleOnce
  <2>3. TypeOK' /\ Owned'
    BY <2>1, <2>2 DEF TypeOK, Owned
  <2>4. EventsOfChild'
    BY <1>2, <2>1, <2>2 DEF EventsOfChild, Reported
  <2>5. OutcomesAreEarned'
    BY <1>1, <2>1, <2>2 DEF OutcomesAreEarned, SuccessIsEarned, TriesExhausted, Reported
  <2> QED
    BY <2>2, <2>3, <2>4, <2>5
<1>3. CASE ~(child[i] = "running" /\ ~nature[i].killable)
  <2>1. /\ child'[i] = IF child[i] = "running" THEN "signalled" ELSE child[i]
        /\ \A j \in Steps \ {i} : child'[j] = child[j]
        /\ timer' = timer \ {i} /\ result' = result
    BY <1>3 DEF TypeOK
  <2>2. TypeOK'
    <3>1. child' = [child EXCEPT ![i] = IF child[i] = "running" THEN "signalled" ELSE child[i]]
      BY <1>3
    <3>2. child' \in [Steps -> {"none", "unborn", "running", "signalled", "ended"}]
      BY <3>1 DEF TypeOK
    <3> QED
      BY <2>1, <3>2 DEF TypeOK
  <2>3. ReportedUpTo' /\ Owned' /\ Fetched'
    BY <1>1, <2>1 DEF ReportedUpTo, Owned, Fetched, Reported
  <2>4. EventsOfChild'
    BY <1>1, <2>1 DEF EventsOfChild, Reported
  <2>5. OutcomesAreEarned'
    BY <1>1, <2>1 DEF OutcomesAreEarned, SuccessIsEarned, TriesExhausted, Reported
  <2> QED
    BY <2>2, <2>3, <2>4, <2>5
<1> QED
  BY <1>2, <1>3

LEMMA OnErrorKeeps ==
  ASSUME IInv, NEW i \in Steps, OnError(i), UNCHANGED <<enabled, kind, at, tries>>
  PROVE  IInv'
<1> USE RunnerAssumption DEF IInv, OnError
<1>1. /\ stdio'[i] = "free" /\ \A j \in Steps \ {i} : stdio'[j] = stdio[j]
      /\ enabled /\ kind[i] = "command" /\ "failed" \in Answers
  BY OfTheCurrentStep DEF TypeOK, Answers
<1>2. /\ result' \in [Steps -> Answers \cup {"skipped", "none"}]
      /\ timer' \subseteq timer /\ i \notin timer'
      /\ Reported(i)'
      /\ \A j \in Steps : j # i \/ Reported(j) => result'[j] = result[j]
      /\ ~Reported(i) => result'[i] = "failed"
      /\ ReportedUpTo' /\ Fetched'
  BY <1>1, SettleOnce
<1>3. TypeOK' /\ Owned'
  BY <1>1, <1>2 DEF TypeOK, Owned
<1>4. EventsOfChild'
  BY <1>1, <1>2 DEF EventsOfChild, Reported
<1>5. OutcomesAreEarned'
  BY <1>1, <1>2 DEF OutcomesAreEarned, SuccessIsEarned, TriesExhausted, Reported
<1> QED
  BY <1>2, <1>3, <1>4, <1>5

LEMMA OnCloseKeeps ==
  ASSUME IInv, NEW i \in Steps, OnClose(i), UNCHANGED <<enabled, kind, at, tries>>
  PROVE  IInv'
<1> USE RunnerAssumption DEF IInv, OnClose
<1>1. /\ stdio'[i] = "closed" /\ \A j \in Steps \ {i} : stdio'[j] = stdio[j]
      /\ StatusOf(i) \in Answers
  BY DEF TypeOK, Answers, StatusOf
<1>2. child[i] \in {"unborn", "ended"} /\ (~Reported(i) => child[i] = "ended")
  BY DEF EventsOfChild, TypeOK
<1>3. /\ result' \in [Steps -> Answers \cup {"skipped", "none"}]
      /\ timer' \subseteq timer /\ i \notin timer'
      /\ Reported(i)'
      /\ \A j \in Steps : j # i \/ Reported(j) => result'[j] = result[j]
      /\ ~Reported(i) => result'[i] = StatusOf(i)
      /\ ReportedUpTo' /\ Fetched'
  BY <1>1, <1>2, SettleOnce
<1>4. enabled /\ kind[i] = "command"
  BY <1>2, OfTheCurrentStep
<1>5. StatusOf(i) = "succeeded" => code[i] = "zero" /\ i \notin timedOut
  BY DEF StatusOf
<1>6. TypeOK' /\ Owned'
  BY <1>1, <1>3 DEF TypeOK, Owned
<1>7. EventsOfChild'
  BY <1>1, <1>2, <1>3 DEF EventsOfChild, Reported
<1>8. OutcomesAreEarned'
  BY <1>2, <1>3, <1>4, <1>5 DEF OutcomesAreEarned, SuccessIsEarned, TriesExhausted, Reported
<1> QED
  BY <1>3, <1>6, <1>7, <1>8

LEMMA IInvStep == IInv /\ [Next]_vars => IInv'
<1>1. ASSUME IInv, UNCHANGED vars
      PROVE  IInv'
  BY <1>1 DEF vars, runnerVars, IInv, TypeOK, ReportedUpTo, Owned, EventsOfChild, Fetched,
              OutcomesAreEarned, SuccessIsEarned, TriesExhausted, Reported
<1> QED
  BY <1>1, SkipAllKeeps, CallKeeps, SkipStepKeeps, FetchKeeps, NextStepKeeps, ExitKeeps,
     ReleaseKeeps, TimerFiresKeeps, OnErrorKeeps, OnCloseKeeps
     DEF Next, RunChecks, RunnerNext

LEMMA IInvHolds == Spec => []IInv
BY InitIInv, IInvStep, PTL DEF Spec

\* A step lets go of its timer and its program before the next one runs, but for a program
\* that may not be signalled (runRuntimeHealthChecks, runRuntimeCommand).
THEOREM StepsTakeTurns == Spec => []StepsInTurn
<1>1. ASSUME IInv, NEW i \in timer
      PROVE  ~Reported(i) /\ at = i
  <2>1. i \in Steps /\ child[i] # "none" /\ ~Reported(i)
    BY <1>1 DEF IInv, TypeOK, EventsOfChild
  <2> QED
    BY <1>1, <2>1, OfTheCurrentStep
<1>2. ASSUME IInv, NEW i \in Steps, i < at, child[i] \in {"running", "signalled"}
      PROVE  ~nature[i].killable
  <2>1. Reported(i)
    BY <1>2, OfTheCurrentStep, RunnerAssumption DEF IInv, ReportedUpTo
  <2> QED
    BY <1>2, <2>1 DEF IInv, EventsOfChild
<1>3. IInv => StepsInTurn
  BY <1>1, <1>2 DEF IInv, StepsInTurn, NoTimerLeft, RunsAlone
<1> QED
  BY <1>3, IInvHolds, PTL

\* A command succeeds only by exiting with 0 in time, and a URL is given up only after its
\* last try (createCommandResult, runHealthCheckAttempt).
THEOREM OutcomesEarned == Spec => []OutcomesAreEarned
<1>1. IInv => OutcomesAreEarned
  BY DEF IInv
<1> QED
  BY <1>1, IInvHolds, PTL

-----------------------------------------------------------------------------
(* The refinement of StepOutcomes. *)

LEMMA OutcomeOfStep ==
  ASSUME IInv, NEW i \in Steps
  PROVE  /\ Outcome[i] = IF Reported(i) THEN result[i]
                         ELSE IF child[i] # "none" \/ tries[i] # <<>> THEN "running" ELSE "waiting"
         /\ Outcome[i] \in Reporting!Outcomes <=> Reported(i)
BY DEF Outcome, Reporting!Outcomes, Reported, Answers, IInv, TypeOK

LEMMA OutcomesOfOthers ==
  ASSUME IInv, IInv', NEW i \in Steps,
         \A j \in Steps \ {i} : /\ result'[j] = result[j] /\ tries'[j] = tries[j]
                                /\ child'[j] = child[j]
  PROVE  Outcome' = [Outcome EXCEPT ![i] = Outcome'[i]]
<1>1. /\ Outcome = [j \in Steps |-> Outcome[j]]
      /\ Outcome' = [j \in Steps |-> Outcome'[j]]
  BY DEF Outcome
<1>2. \A j \in Steps \ {i} : Outcome'[j] = Outcome[j]
  BY DEF Outcome, Reported
<1> HIDE DEF Outcome
<1> QED
  BY <1>1, <1>2

\* A step that has reported keeps its outcome, one that has not is at its turn.
LEMMA StepImplements ==
  ASSUME IInv, IInv', NEW i \in Steps,
         \A j \in Steps \ {i} : /\ result'[j] = result[j] /\ tries'[j] = tries[j]
                                /\ child'[j] = child[j],
         Reported(i) => result'[i] = result[i],
         ~Reported(i) => enabled /\ i = at,
         child[i] # "none" => child'[i] # "none",
         tries[i] # <<>> => tries'[i] # <<>>
  PROVE  [Reporting!Next]_Outcome
<1> USE DEF Reported
<1>1. /\ Outcome' = [Outcome EXCEPT ![i] = Outcome'[i]]
      /\ Reporting!Steps = Steps
      /\ DOMAIN Outcome = Steps
  BY OutcomesOfOthers DEF Reporting!Steps, Steps, Outcome
<1>2. /\ Outcome[i] = IF Reported(i) THEN result[i]
                      ELSE IF child[i] # "none" \/ tries[i] # <<>> THEN "running" ELSE "waiting"
      /\ Outcome[i] \in Reporting!Outcomes <=> Reported(i)
  BY OutcomeOfStep
<1>3. Outcome'[i] = IF Reported(i)' THEN result'[i]
                    ELSE IF child'[i] # "none" \/ tries'[i] # <<>> THEN "running" ELSE "waiting"
  BY DEF Outcome
<1>4. Reported(i)' => Outcome'[i] \in Reporting!Outcomes
  BY <1>3 DEF Reporting!Outcomes, IInv, TypeOK, Answers
<1>5. CASE Reported(i)
  <2>1. Outcome'[i] = Outcome[i]
    BY <1>2, <1>3, <1>5
  <2>2. Outcome' = Outcome
    BY <1>1, <2>1 DEF Outcome
  <2> QED
    BY <2>2
<1>6. CASE ~Reported(i)
  <2>1. Reporting!InTurn(i)
    <3>1. \A j \in Steps : j < i => Reported(j)
      BY <1>6 DEF IInv, ReportedUpTo
    <3> QED
      BY <1>1, <3>1, OutcomeOfStep DEF Reporting!InTurn
  <2>2. CASE Reported(i)'
    <3>1. Reporting!Report(i)
      BY <1>1, <1>2, <1>4, <1>6, <2>1, <2>2 DEF Reporting!Report
    <3> QED
      BY <1>1, <3>1 DEF Reporting!Next
  <2>3. CASE ~Reported(i)' /\ Outcome[i] = "waiting" /\ Outcome'[i] = "running"
    <3>1. Reporting!Begin(i)
      BY <1>1, <2>1, <2>3 DEF Reporting!Begin
    <3> QED
      BY <1>1, <3>1 DEF Reporting!Next
  <2>4. CASE Outcome'[i] = Outcome[i]
    <3>1. Outcome' = Outcome
      BY <1>1, <2>4 DEF Outcome
    <3> QED
      BY <3>1
  <2> QED
    BY <1>2, <1>3, <1>6, <2>2, <2>3, <2>4
<1> QED
  BY <1>5, <1>6

LEMMA LoopImplements ==
  ASSUME IInv, IInv', RunChecks
  PROVE  [Reporting!Next]_Outcome
<1> USE DEF IInv, TypeOK
<1>1. CASE SkipAll
  <2>1. /\ \A i \in Steps : Outcome[i] = IF at = 1 /\ NumSteps # 0 THEN "waiting" ELSE "skipped"
        /\ Outcome' = [i \in Steps |-> "skipped"]
    <3>1. at = 1 /\ (NumSteps # 0 => \A i \in Steps : ~Reported(i)) /\ (NumSteps = 0 => Steps = {})
      BY <1>1, RunnerAssumption DEF SkipAll, ReportedUpTo, Steps
    <3>2. \A i \in Steps : child[i] = "none" /\ tries[i] = <<>>
      BY <1>1 DEF SkipAll, Owned
    <3>3. \A i \in Steps : result'[i] = "skipped" /\ Reported(i)'
      BY <1>1 DEF SkipAll, Reported
    <3> QED
      BY <3>1, <3>2, <3>3 DEF Outcome
  <2>2. Reporting!Steps = Steps /\ (NumSteps = 0 => Steps = {})
    BY RunnerAssumption DEF Reporting!Steps, Steps
  <2>3. at = 1
    BY <1>1 DEF SkipAll
  <2>4. Reporting!SkipAll
    BY <2>1, <2>2, <2>3 DEF Reporting!SkipAll
  <2> QED
    BY <2>4 DEF Reporting!Next
<1>2. ASSUME NEW i \in Steps, CallCommand(i)
      PROVE  [Reporting!Next]_Outcome
  <2>1. /\ enabled /\ i = at /\ ~Reported(i)
        /\ child'[i] # "none" /\ tries' = tries /\ result' = result
        /\ \A j \in Steps \ {i} : child'[j] = child[j]
    BY <1>2 DEF CallCommand, Call, IsAt
  <2> QED
    BY <2>1, StepImplements
<1>3. ASSUME NEW i \in Steps, SkipStep(i)
      PROVE  [Reporting!Next]_Outcome
  <2>1. /\ enabled /\ i = at /\ ~Reported(i) /\ child' = child /\ tries' = tries
        /\ \A j \in Steps \ {i} : result'[j] = result[j]
    BY <1>3 DEF SkipStep, IsAt
  <2> QED
    BY <2>1, StepImplements
<1>4. ASSUME NEW i \in Steps, Fetch(i)
      PROVE  [Reporting!Next]_Outcome
  <2>1. PICK answer \in Answers : tries' = [tries EXCEPT ![i] = Append(@, answer)]
    BY <1>4 DEF Fetch
  <2>2. tries'[i] # <<>>
    <3>1. tries[i] \in Seq(Answers) /\ tries'[i] = Append(tries[i], answer)
      BY <2>1
    <3>2. Len(tries[i]) \in Nat /\ Len(tries'[i]) = Len(tries[i]) + 1
      BY <3>1, AppendProperties
    <3> QED
      BY <3>2
  <2>3. /\ enabled /\ i = at /\ ~Reported(i) /\ child' = child
        /\ \A j \in Steps \ {i} : result'[j] = result[j] /\ tries'[j] = tries[j]
    BY <1>4 DEF Fetch, IsAt
  <2> QED
    BY <2>2, <2>3, StepImplements
<1>5. CASE NextStep
  BY <1>5 DEF NextStep, runnerVars, Outcome, Reported
<1> QED
  BY <1>1, <1>2, <1>3, <1>4, <1>5 DEF RunChecks

LEMMA EventsImplement ==
  ASSUME IInv, IInv', NEW i \in Steps, RunnerNext(i), UNCHANGED <<enabled, kind, at, tries>>
  PROVE  [Reporting!Next]_Outcome
<1>1. child[i] # "none"
  BY DEF RunnerNext, Exit, Release, TimerFires, OnError, OnClose, IInv, EventsOfChild
<1>2. enabled /\ (~Reported(i) => i = at)
  BY <1>1, OfTheCurrentStep
<1>3. child'[i] # "none" /\ \A j \in Steps \ {i} : child'[j] = child[j]
  BY <1>1 DEF RunnerNext, Exit, Release, TimerFires, OnError, OnClose, IInv, TypeOK
<1>4. /\ \A j \in Steps \ {i} : result'[j] = result[j]
      /\ Reported(i) => result'[i] = result[i]
  BY DEF RunnerNext, Exit, Release, TimerFires, OnError, OnClose, Settle, IInv, TypeOK
<1> QED
  BY <1>1, <1>2, <1>3, <1>4, StepImplements

\* To runRuntimeHealthChecks' callers, and to those of the command runner, a step is one that
\* reports a single outcome, in its turn: the module implements StepOutcomes.
THEOREM ChecksImplementOutcomes == Spec => Implements
<1>1. Init => Reporting!Init
  BY DEF Init, RunnerInit, Outcome, Reporting!Init, Reported, Reporting!Steps, Steps
<1>2. IInv /\ IInv' /\ [Next]_vars => [Reporting!Next]_Outcome
  <2>1. ASSUME UNCHANGED vars
        PROVE  Outcome' = Outcome
    BY <2>1 DEF vars, runnerVars, Outcome, Reported
  <2> QED
    BY <2>1, LoopImplements, EventsImplement DEF Next
<1> QED
  BY <1>1, <1>2, IInvHolds, PTL DEF Spec, Implements, Reporting!Spec

=============================================================================
