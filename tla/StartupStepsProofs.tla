--------------------------- MODULE StartupStepsProofs ---------------------------
(***************************************************************************)
(* Theorems about StartupSteps, for contracts of any size: what a startup  *)
(* starts after setup, what its final status says, and what being cut      *)
(* short does to the steps.                                                *)
(***************************************************************************)
EXTENDS StartupSteps, TLAPS, WellFoundedInduction

-----------------------------------------------------------------------------
(* Lemmas about the plan. *)

\* The kinds of steps do not overlap, and the plan has the steps of the skeleton.
LEMMA PlanSteps ==
  ASSUME TypeOK
  PROVE  /\ SkeletonSteps \subseteq plan.steps
         /\ SetupSteps \subseteq plan.steps
         /\ plan.steps \subseteq AllSteps
         /\ plan.composed \subseteq ServiceSteps
         /\ RecordState \in Nat
         /\ RecordState \notin SetupSteps \cup ServiceSteps \cup ApplicationSteps \cup CheckSteps
         /\ {LoadContract, InspectPrerequisites, ResolveEnvironment}
              \cap (SetupSteps \cup ServiceSteps \cup ApplicationSteps \cup CheckSteps) = {}
         /\ RecordState > 3
<1>1. /\ RecordState \in Nat
      /\ RecordState > 3
      /\ SetupSteps \subseteq AllSteps
      /\ ServiceSteps \subseteq AllSteps
      /\ ApplicationSteps \subseteq AllSteps
      /\ CheckSteps \subseteq AllSteps
      /\ SkeletonSteps \subseteq AllSteps
  BY StepsAssumption DEF RecordState, SetupSteps, ServiceSteps, ApplicationSteps, CheckSteps,
     AllSteps, SkeletonSteps, LoadContract, InspectPrerequisites, ResolveEnvironment
<1>2. PICK S \in Included, T \in {{}, CheckSteps} :
        plan.steps = SkeletonSteps \cup SetupSteps \cup S \cup T
  BY DEF TypeOK, Plans
<1>3. S \subseteq ServiceSteps \cup ApplicationSteps
  BY DEF Included
<1>4. /\ SkeletonSteps \cup SetupSteps \subseteq plan.steps
      /\ plan.steps \subseteq AllSteps
  BY <1>1, <1>2, <1>3
<1>5. plan.composed \subseteq ServiceSteps
  BY DEF TypeOK, Plans
<1>6. /\ RecordState \notin SetupSteps \cup ServiceSteps \cup ApplicationSteps \cup CheckSteps
      /\ {LoadContract, InspectPrerequisites, ResolveEnvironment}
           \cap (SetupSteps \cup ServiceSteps \cup ApplicationSteps \cup CheckSteps) = {}
  BY StepsAssumption DEF RecordState, SetupSteps, ServiceSteps, ApplicationSteps, CheckSteps,
     LoadContract, InspectPrerequisites, ResolveEnvironment
<1> QED
  BY <1>1, <1>4, <1>5, <1>6

LessThan == {p \in Nat \X Nat : p[1] < p[2]}

\* The first step of a set that is not empty is one of its steps.
LEMMA FirstStepOfSet ==
  ASSUME NEW S \in SUBSET AllSteps, S # {}
  PROVE  FirstStep(S) \in S
<1>1. S \subseteq Nat
  BY StepsAssumption DEF AllSteps, RecordState
<1>2. IsWellFoundedOn(LessThan, Nat)
  BY NatLessThanWellFounded DEF LessThan, OpToRel
<1>3. PICK i \in S : \A j \in S : <<j, i>> \notin LessThan
  BY <1>1, <1>2, WFMin
<1>4. ASSUME NEW j \in S
      PROVE  i <= j
  <2>1. i \in Nat /\ j \in Nat
    BY <1>1
  <2>2. j < i => <<j, i>> \in LessThan
    BY <2>1 DEF LessThan
  <2> QED
    BY <1>3, <2>1, <2>2
<1> QED
  BY <1>4 DEF FirstStep

\* Marking steps keeps a table a table of the same steps.
LEMMA MarkedType ==
  ASSUME NEW D, NEW table \in [D -> Status], NEW ids, NEW s \in Status
  PROVE  Marked(table, ids, s) \in [D -> Status]
BY DEF Marked

-----------------------------------------------------------------------------
(* Type correctness. *)

LEMMA InitType == Init => TypeOK
<1> SUFFICES ASSUME Init
             PROVE  TypeOK
  OBVIOUS
<1>1. Pending \in [plan.steps -> Status]
  BY DEF Pending, Status
<1>2. steps \in [plan.steps -> Status]
  BY <1>1, MarkedType DEF Init, Status
<1>3. 0 \in 0 .. 4 + NumSetup
  BY StepsAssumption
<1> QED
  BY <1>2, <1>3 DEF Init, TypeOK, Status, Phases

\* A step of the setup runner is a step of setup.
LEMMA BudgetSteps ==
  ASSUME TypeOK
  PROVE  /\ WithinBudget \subseteq SetupSteps
         /\ Tracked \subseteq ApplicationSteps
         /\ \A i \in SetupSteps : i + 1 \in 0 .. 4 + NumSetup
BY StepsAssumption DEF WithinBudget, Tracked, FirstOf, Of, SetupSteps

LEMMA PhaseType ==
  ASSUME TypeOK, Next
  PROVE  TypeOK'
<1> USE DEF TypeOK
<1> plan' = plan
  BY DEF Next, InspectPhase, EnvironmentPhase, PortsPhase, BeginSetup, SkipSetupStep,
     RunSetupStep, EndSetup, ComposePhase, ApplicationsPhase, ListeningPhase, HealthPhase,
     RecordPhase, CutShort
<1>1. CASE InspectPhase
  BY <1>1, MarkedType DEF InspectPhase, Status, Phases
<1>2. CASE EnvironmentPhase
  <2>1. plan.missing \in BOOLEAN
    BY DEF Plans
  <2> QED
    BY <1>2, <2>1, MarkedType DEF EnvironmentPhase, Status, Phases
<1>3. CASE PortsPhase
  BY <1>3 DEF PortsPhase, Phases
<1>4. CASE BeginSetup
  <2>1. 4 \in 0 .. 4 + NumSetup
    BY StepsAssumption
  <2> QED
    BY <1>4, <2>1, MarkedType DEF BeginSetup, Status, Phases
<1>5. CASE SkipSetupStep
  <2>1. done' \in [SetupSteps -> Status]
    BY <1>5 DEF SkipSetupStep, Status
  <2>2. errors' \in BOOLEAN
    BY <1>5 DEF SkipSetupStep
  <2>3. at' \in 0 .. 4 + NumSetup
    BY <1>5, BudgetSteps DEF SkipSetupStep
  <2>4. UNCHANGED <<plan, steps, up, unhealthy, status, pc>>
    BY <1>5 DEF SkipSetupStep
  <2> QED
    BY <2>1, <2>2, <2>3, <2>4
<1>6. CASE RunSetupStep
  BY <1>6, BudgetSteps DEF RunSetupStep, Status, Failure, IsError
<1>7. CASE EndSetup
  BY <1>7 DEF EndSetup, Status, Phases, UnlessErrors
<1>8. CASE ComposePhase
  <2>1. steps' \in [plan.steps -> Status]
    BY <1>8, MarkedType DEF ComposePhase, Status
  <2>2. up' \subseteq ServiceSteps \cup ApplicationSteps
    BY <1>8, PlanSteps DEF ComposePhase
  <2>3. errors' \in BOOLEAN /\ pc' \in Phases
    BY <1>8 DEF ComposePhase, Phases, UnlessErrors
  <2> QED
    BY <1>8, <2>1, <2>2, <2>3 DEF ComposePhase
<1>9. CASE ApplicationsPhase
  <2>1. PICK running \in SUBSET (Tracked \cap plan.runnable) :
          ApplicationsPhase!2!(running)
    BY <1>9 DEF ApplicationsPhase
  <2>2. Pending \in [plan.steps -> Status]
    BY DEF Pending, Status
  <2>3. steps' \in [plan.steps -> Status]
    BY <2>1, <2>2, MarkedType DEF Status
  <2>4. up' \subseteq ServiceSteps \cup ApplicationSteps
    BY <2>1, BudgetSteps
  <2> QED
    BY <1>9, <2>1, <2>3, <2>4 DEF ApplicationsPhase, Phases
<1>10. CASE ListeningPhase
  BY <1>10 DEF ListeningPhase, Phases
<1>11. CASE HealthPhase
  <2>1. PICK results \in [Of(CheckSteps) -> {"succeeded", "failed", "timed_out", "skipped"}] :
          /\ steps' = [i \in plan.steps |-> IF i \in CheckSteps THEN results[i] ELSE steps[i]]
          /\ unhealthy' = AnyFailure(results)
    BY <1>11 DEF HealthPhase
  <2>2. steps' \in [plan.steps -> Status]
    BY <2>1 DEF Status, Of
  <2> QED
    BY <1>11, <2>1, <2>2 DEF HealthPhase, Phases, AnyFailure
<1>12. CASE RecordPhase
  BY <1>12, MarkedType DEF RecordPhase, Status, Phases, FinalStatus
<1>13. ASSUME NEW cut \in {"interrupted", "timed_out"}, CutShort(cut)
       PROVE  TypeOK'
  <2>1. SkipPending(CutStep) \in [plan.steps -> Status]
    BY MarkedType DEF SkipPending, Status
  <2>2. steps' \in [plan.steps -> Status]
    BY <1>13, <2>1, MarkedType DEF CutShort, Status
  <2> QED
    BY <1>13, <2>2 DEF CutShort, Phases
<1> QED
  BY <1>1, <1>2, <1>3, <1>4, <1>5, <1>6, <1>7, <1>8, <1>9, <1>10, <1>11, <1>12, <1>13 DEF Next

\* The variables of a startup keep their types, whatever the contract declares.
THEOREM StepsTyped == Spec => []TypeOK
<1>1. TypeOK /\ [Next]_vars => TypeOK'
  <2>1. CASE UNCHANGED vars
    BY <2>1 DEF TypeOK, vars
  <2> QED
    BY <2>1, PhaseType
<1> QED
  BY InitType, <1>1, PTL DEF Spec

-----------------------------------------------------------------------------
(* What starts after setup. *)

BeforeServices == {"prerequisites", "environment", "ports", "setup", "runSetup", "compose"}

\* Whatever held setup back is among the errors before the services are reached, and
\* services and applications are only reached without errors.
Gated ==
    /\ pc \notin {"prerequisites", "environment"} => (plan.missing => errors)
    /\ SetupFailed => errors /\ pc \notin {"prerequisites", "environment", "ports", "setup"}
    /\ pc \in {"compose", "applications"} => ~errors
    /\ pc \in BeforeServices => up = {}
    /\ NothingStartsAfterFailedSetup

\* Errors are only ever added: no later phase makes up for a failed setup.
LEMMA GatedStep ==
  ASSUME TypeOK, Gated, Next
  PROVE  Gated'
<1> USE DEF Gated, NothingStartsAfterFailedSetup, BeforeServices
<1> plan' = plan
  BY DEF Next, InspectPhase, EnvironmentPhase, PortsPhase, BeginSetup, SkipSetupStep,
     RunSetupStep, EndSetup, ComposePhase, ApplicationsPhase, ListeningPhase, HealthPhase,
     RecordPhase, CutShort
<1>0. ASSUME done' = done
      PROVE  SetupFailed' = SetupFailed
  BY <1>0 DEF SetupFailed, Required
<1>1. CASE InspectPhase
  BY <1>0, <1>1 DEF InspectPhase
<1>2. CASE EnvironmentPhase
  <2>1. ~SetupFailed
    BY <1>2 DEF EnvironmentPhase
  <2> QED
    BY <1>0, <1>2, <2>1 DEF EnvironmentPhase
<1>3. CASE PortsPhase
  BY <1>0, <1>3 DEF PortsPhase
<1>4. CASE BeginSetup
  <2>1. SetupFailed' => SetupFailed
    BY <1>4 DEF BeginSetup, SetupFailed, Required, Marked, Failure, TypeOK
  <2> QED
    BY <1>4, <2>1 DEF BeginSetup
<1>5. CASE SkipSetupStep
  <2>1. SetupFailed' => SetupFailed
    BY <1>5 DEF SkipSetupStep, SetupFailed, Required, Failure, TypeOK
  <2>2. errors => errors'
    BY <1>5 DEF SkipSetupStep
  <2> QED
    BY <1>5, <2>1, <2>2 DEF SkipSetupStep
<1>6. CASE RunSetupStep
  <2>1. PICK result \in {"succeeded"} \cup Failure :
          /\ done' = [done EXCEPT ![at] = result]
          /\ errors' = (errors \/ IsError(at, result))
    BY <1>6 DEF RunSetupStep
  <2>2. SetupFailed' => SetupFailed \/ IsError(at, result)
    BY <1>6, <2>1 DEF SetupFailed, Required, IsError, TypeOK
  <2> QED
    BY <1>6, <2>1, <2>2 DEF RunSetupStep
<1>7. CASE EndSetup
  BY <1>0, <1>7 DEF EndSetup, UnlessErrors
<1>8. CASE ComposePhase
  <2>1. ~errors /\ ~SetupFailed /\ ~plan.missing
    BY <1>8 DEF ComposePhase, TypeOK
  <2> QED
    BY <1>0, <1>8, <2>1 DEF ComposePhase, UnlessErrors
<1>9. CASE ApplicationsPhase
  <2>1. ~errors /\ ~SetupFailed /\ ~plan.missing
    BY <1>9 DEF ApplicationsPhase, TypeOK
  <2> QED
    BY <1>0, <1>9, <2>1 DEF ApplicationsPhase
<1>10. CASE ListeningPhase
  BY <1>0, <1>10 DEF ListeningPhase
<1>11. CASE HealthPhase
  BY <1>0, <1>11 DEF HealthPhase
<1>12. CASE RecordPhase
  BY <1>0, <1>12 DEF RecordPhase
<1>13. ASSUME NEW cut \in {"interrupted", "timed_out"}, CutShort(cut)
       PROVE  Gated'
  BY <1>0, <1>13 DEF CutShort
<1> QED
  BY <1>1, <1>2, <1>3, <1>4, <1>5, <1>6, <1>7, <1>8, <1>9, <1>10, <1>11, <1>12, <1>13 DEF Next

LEMMA GatedAlways == Spec => []Gated
<1>1. Init => Gated
  BY DEF Init, Gated, SetupFailed, Failure, NothingStartsAfterFailedSetup
<1>2. TypeOK /\ Gated /\ [Next]_vars => Gated'
  <2>1. CASE UNCHANGED vars
    BY <2>1 DEF Gated, SetupFailed, Required, NothingStartsAfterFailedSetup, vars
  <2> QED
    BY <2>1, GatedStep
<1> QED
  BY <1>1, <1>2, StepsTyped, PTL DEF Spec

\* Neither a service nor an application ever starts after a required setup step failed or
\* timed out or required environment was missing, for every contract and every budget.
THEOREM SetupGuardsTheRest == Spec => []NothingStartsAfterFailedSetup
<1>1. Gated => NothingStartsAfterFailedSetup
  BY DEF Gated
<1> QED
  BY <1>1, GatedAlways, PTL

-----------------------------------------------------------------------------
(* What the final status says. *)

AfterServices == {"applications", "listening", "health", "record"}
AfterApplications == {"listening", "health", "record"}

\* Without errors, what should be up is up; without unhealthy checks, none failed.
Honest ==
    /\ pc \in AfterServices /\ ~errors => plan.composed \subseteq up
    /\ pc \in AfterApplications /\ ~errors => Tracked \cap plan.runnable \subseteq up
    /\ pc = "record" /\ ~unhealthy => \A i \in Of(CheckSteps) : steps[i] \notin Failure
    /\ FinalStatusIsHonest

LEMMA HonestStep ==
  ASSUME TypeOK, Gated, Honest, Next
  PROVE  Honest'
<1> USE DEF Honest, FinalStatusIsHonest, AfterServices, AfterApplications
<1> plan' = plan
  BY DEF Next, InspectPhase, EnvironmentPhase, PortsPhase, BeginSetup, SkipSetupStep,
     RunSetupStep, EndSetup, ComposePhase, ApplicationsPhase, ListeningPhase, HealthPhase,
     RecordPhase, CutShort
<1> Tracked' = Tracked /\ Of(CheckSteps)' = Of(CheckSteps)
  BY DEF Tracked, Of
<1>1. CASE InspectPhase
  BY <1>1 DEF InspectPhase
<1>2. CASE EnvironmentPhase
  BY <1>2 DEF EnvironmentPhase
<1>3. CASE PortsPhase
  BY <1>3 DEF PortsPhase
<1>4. CASE BeginSetup
  BY <1>4 DEF BeginSetup
<1>5. CASE SkipSetupStep
  BY <1>5 DEF SkipSetupStep
<1>6. CASE RunSetupStep
  BY <1>6 DEF RunSetupStep
<1>7. CASE EndSetup
  BY <1>7 DEF EndSetup, UnlessErrors
<1>8. CASE ComposePhase
  BY <1>8 DEF ComposePhase, UnlessErrors
<1>9. CASE ApplicationsPhase
  <2>1. plan.composed \subseteq up
    BY <1>9 DEF ApplicationsPhase, Gated
  <2>2. PICK running \in SUBSET (Tracked \cap plan.runnable) :
          /\ up' = up \cup running
          /\ errors' = (errors \/ (Tracked \cap plan.runnable) \ running # {})
    BY <1>9 DEF ApplicationsPhase
  <2> QED
    BY <1>9, <2>1, <2>2 DEF ApplicationsPhase
<1>10. CASE ListeningPhase
  BY <1>10 DEF ListeningPhase
<1>11. CASE HealthPhase
  <2>1. PICK results \in [Of(CheckSteps) -> {"succeeded", "failed", "timed_out", "skipped"}] :
          /\ steps' = [i \in plan.steps |-> IF i \in CheckSteps THEN results[i] ELSE steps[i]]
          /\ unhealthy' = AnyFailure(results)
    BY <1>11 DEF HealthPhase
  <2>2. ~unhealthy' => \A i \in Of(CheckSteps) : steps'[i] \notin Failure
    BY <2>1 DEF AnyFailure, Of
  <2> QED
    BY <1>11, <2>2 DEF HealthPhase
<1>12. CASE RecordPhase
  <2>1. \A i \in Of(CheckSteps) : steps'[i] = steps[i]
    BY <1>12, PlanSteps DEF RecordPhase, Marked, TypeOK, Of
  <2>2. CASE errors \/ unhealthy
    BY <1>12, <2>2 DEF RecordPhase, FinalStatus
  <2>3. CASE ~errors /\ ~unhealthy
    <3>1. ~SetupFailed' /\ ~plan.missing
      BY <1>12, <2>3 DEF RecordPhase, Gated, SetupFailed, Required
    <3> QED
      BY <1>12, <2>1, <2>3, <3>1 DEF RecordPhase, FinalStatus
  <2> QED
    BY <2>2, <2>3
<1>13. ASSUME NEW cut \in {"interrupted", "timed_out"}, CutShort(cut)
       PROVE  Honest'
  BY <1>13 DEF CutShort
<1> QED
  BY <1>1, <1>2, <1>3, <1>4, <1>5, <1>6, <1>7, <1>8, <1>9, <1>10, <1>11, <1>12, <1>13 DEF Next

\* A session that ends "running" or "succeeded" got there honestly, for every contract.
THEOREM StatusIsHonest == Spec => []FinalStatusIsHonest
<1>1. Init => Honest
  BY DEF Init, Honest, FinalStatusIsHonest, AfterServices, AfterApplications
<1>2. TypeOK /\ Gated /\ Honest /\ [Next]_vars => Honest'
  <2>1. CASE UNCHANGED vars
    BY <2>1 DEF Honest, FinalStatusIsHonest, SetupFailed, Required, Tracked, Of, vars
  <2> QED
    BY <2>1, HonestStep
<1>3. Honest => FinalStatusIsHonest
  BY DEF Honest
<1> QED
  BY <1>1, <1>2, <1>3, StepsTyped, GatedAlways, PTL DEF Spec

-----------------------------------------------------------------------------
(* Being cut short. *)

\* The steps the checkpoints name without looking are still pending there.
Untouched ==
    /\ pc = "prerequisites" => steps[InspectPrerequisites] = "pending"
    /\ pc \in {"prerequisites", "environment"} => steps[ResolveEnvironment] = "pending"
    /\ pc # "done" => steps[RecordState] = "pending"

LEMMA UntouchedStep ==
  ASSUME TypeOK, Untouched, Next
  PROVE  Untouched'
<1> USE DEF Untouched
<1> plan' = plan
  BY DEF Next, InspectPhase, EnvironmentPhase, PortsPhase, BeginSetup, SkipSetupStep,
     RunSetupStep, EndSetup, ComposePhase, ApplicationsPhase, ListeningPhase, HealthPhase,
     RecordPhase, CutShort
<1>a. RecordState \in plan.steps /\ ResolveEnvironment \in plan.steps
  BY PlanSteps DEF SkeletonSteps
<1>b. ResolveEnvironment # InspectPrerequisites
  BY DEF ResolveEnvironment, InspectPrerequisites
<1>c. RecordState # InspectPrerequisites /\ RecordState # ResolveEnvironment
  BY PlanSteps DEF ResolveEnvironment, InspectPrerequisites
<1>d. /\ RecordState \notin SetupSteps
      /\ RecordState \notin plan.composed
      /\ RecordState \notin ApplicationSteps
      /\ RecordState \notin CheckSteps
  BY PlanSteps
<1>1. CASE InspectPhase
  BY <1>1, <1>a, <1>b, <1>c DEF InspectPhase, Marked, TypeOK
<1>2. CASE EnvironmentPhase
  BY <1>2, <1>a, <1>c DEF EnvironmentPhase, Marked, TypeOK
<1>3. CASE PortsPhase
  BY <1>3 DEF PortsPhase
<1>4. CASE BeginSetup
  BY <1>4 DEF BeginSetup
<1>5. CASE SkipSetupStep
  BY <1>5 DEF SkipSetupStep
<1>6. CASE RunSetupStep
  BY <1>6 DEF RunSetupStep
<1>7. CASE EndSetup
  <2>1. steps'[RecordState] = "pending"
    BY <1>7, <1>a, <1>d DEF EndSetup
  <2>2. pc' \notin {"prerequisites", "environment"}
    BY <1>7 DEF EndSetup, UnlessErrors
  <2> QED
    BY <2>1, <2>2
<1>8. CASE ComposePhase
  <2>1. steps'[RecordState] = "pending"
    BY <1>8, <1>a, <1>d DEF ComposePhase, Marked, TypeOK
  <2>2. pc' \notin {"prerequisites", "environment"}
    BY <1>8 DEF ComposePhase, UnlessErrors
  <2> QED
    BY <2>1, <2>2
<1>9. CASE ApplicationsPhase
  <2>1. PICK running \in SUBSET (Tracked \cap plan.runnable) :
          steps' = Marked(Marked(Marked(Pending, running, "running"),
                                 (Tracked \cap plan.runnable) \ running, "failed"),
                          Of(ApplicationSteps) \ Tracked, "skipped")
    BY <1>9 DEF ApplicationsPhase
  <2>2. /\ RecordState \notin running
        /\ RecordState \notin (Tracked \cap plan.runnable) \ running
        /\ RecordState \notin Of(ApplicationSteps) \ Tracked
    BY <1>d, BudgetSteps DEF Of
  <2>3. steps'[RecordState] = "pending"
    BY <2>1, <2>2, <1>a DEF Marked, Pending
  <2> QED
    BY <1>9, <2>3 DEF ApplicationsPhase
<1>10. CASE ListeningPhase
  BY <1>10 DEF ListeningPhase
<1>11. CASE HealthPhase
  BY <1>11, <1>a, <1>d DEF HealthPhase
<1>12. CASE RecordPhase
  BY <1>12 DEF RecordPhase
<1>13. ASSUME NEW cut \in {"interrupted", "timed_out"}, CutShort(cut)
       PROVE  Untouched'
  BY <1>13 DEF CutShort
<1> QED
  BY <1>1, <1>2, <1>3, <1>4, <1>5, <1>6, <1>7, <1>8, <1>9, <1>10, <1>11, <1>12, <1>13 DEF Next

LEMMA UntouchedAlways == Spec => []Untouched
<1>1. Init => Untouched
  <2> SUFFICES ASSUME Init
               PROVE  Untouched
    OBVIOUS
  <2>1. TypeOK
    BY InitType
  <2>2. /\ {InspectPrerequisites, ResolveEnvironment, RecordState} \subseteq plan.steps
        /\ RecordState # LoadContract
    BY <2>1, PlanSteps DEF SkeletonSteps, LoadContract
  <2> QED
    BY <2>2 DEF Init, Untouched, Marked, Pending, LoadContract, InspectPrerequisites,
       ResolveEnvironment
<1>2. TypeOK /\ Untouched /\ [Next]_vars => Untouched'
  <2>1. CASE UNCHANGED vars
    BY <2>1 DEF Untouched, vars
  <2> QED
    BY <2>1, UntouchedStep
<1> QED
  BY <1>1, <1>2, StepsTyped, PTL DEF Spec

\* firstPendingStepId falls back on record-state, which is pending until the end.
LEMMA FirstPendingIsPending ==
  ASSUME TypeOK, Untouched, pc # "done", NEW kind
  PROVE  FirstPending(kind) \in PendingOf(plan.steps)
<1>1. RecordState \in PendingOf(plan.steps)
  BY PlanSteps DEF Untouched, PendingOf, SkeletonSteps
<1>2. PendingOf(plan.steps) \subseteq AllSteps /\ PendingOf(Of(kind)) \subseteq PendingOf(plan.steps)
  BY PlanSteps DEF PendingOf, Of
<1>3. CASE PendingOf(Of(kind)) # {}
  <2>1. FirstStep(PendingOf(Of(kind))) \in PendingOf(Of(kind))
    BY <1>2, <1>3, FirstStepOfSet
  <2> QED
    BY <1>2, <1>3, <2>1 DEF FirstPending
<1>4. CASE PendingOf(Of(kind)) = {}
  <2>1. FirstStep(PendingOf(plan.steps)) \in PendingOf(plan.steps)
    BY <1>1, <1>2, FirstStepOfSet
  <2> QED
    BY <1>1, <1>4, <2>1 DEF FirstPending
<1> QED
  BY <1>3, <1>4

\* At every checkpoint the step named is a pending step of the session.
LEMMA CutStepIsPending ==
  ASSUME TypeOK, Untouched, pc \notin {"runSetup", "done"}
  PROVE  CutStep \in PendingOf(plan.steps)
<1>1. \A kind : FirstPending(kind) \in PendingOf(plan.steps)
  BY FirstPendingIsPending
<1>2. {InspectPrerequisites, ResolveEnvironment, RecordState} \subseteq plan.steps
  BY PlanSteps DEF SkeletonSteps
<1>3. CASE pc \in {"prerequisites", "environment", "record"}
  BY <1>2, <1>3 DEF CutStep, Untouched, PendingOf
<1>4. CASE pc \in {"ports", "setup", "compose", "applications", "listening", "health"}
  BY <1>1, <1>4 DEF CutStep
<1> QED
  BY <1>3, <1>4 DEF TypeOK, Phases

\* A session that was cut short has no pending step, and a step that reads as it does.
THEOREM CutsAreNamed == Spec => []CutNamesAStep
<1> DEFINE Cut == {"interrupted", "timed_out"}
           Inv == CutNamesAStep /\ (status \in Cut => pc = "done")
<1>1. Init => Inv
  BY DEF Init, CutNamesAStep
<1>2. TypeOK /\ Untouched /\ Inv /\ [Next]_vars => Inv'
  <2> SUFFICES ASSUME TypeOK, Untouched, Inv, [Next]_vars
               PROVE  Inv'
    OBVIOUS
  <2>1. ASSUME NEW cut \in Cut, CutShort(cut)
        PROVE  Inv'
    <3>1. CutStep \in PendingOf(plan.steps)
      BY <2>1, CutStepIsPending DEF CutShort
    <3>2. /\ steps' = Marked(SkipPending(CutStep), {CutStep}, cut)
          /\ plan' = plan /\ status' = cut /\ pc' = "done"
      BY <2>1 DEF CutShort
    <3>3. DOMAIN steps = plan.steps
      BY DEF TypeOK
    <3>4. \A i \in plan.steps : steps'[i] # "pending"
      BY <3>2, <3>3 DEF Marked, SkipPending, PendingOf
    <3>5. steps'[CutStep] = cut /\ CutStep \in plan.steps
      BY <3>1, <3>2, <3>3 DEF Marked, SkipPending, PendingOf
    <3> QED
      BY <3>2, <3>4, <3>5 DEF CutNamesAStep, PendingOf
  <2>2. CASE UNCHANGED vars
    BY <2>2 DEF CutNamesAStep, PendingOf, vars
  <2>3. CASE RecordPhase
    BY <2>3 DEF RecordPhase, FinalStatus, CutNamesAStep
  <2>4. ASSUME status' = status, pc # "done"
        PROVE  Inv'
    BY <2>4 DEF CutNamesAStep
  <2> QED
    BY <2>1, <2>2, <2>3, <2>4 DEF Next, InspectPhase, EnvironmentPhase, PortsPhase,
       BeginSetup, SkipSetupStep, RunSetupStep, EndSetup, ComposePhase, ApplicationsPhase,
       ListeningPhase, HealthPhase
<1>3. Inv => CutNamesAStep
  OBVIOUS
<1> QED
  BY <1>1, <1>2, <1>3, StepsTyped, UntouchedAlways, PTL DEF Spec

\* Being cut short never overwrites the outcome of a step, for every contract.
THEOREM CutsKeepOutcomes == Spec => CutKeepsOutcomes
<1> DEFINE Kept == status' # status /\ status' \in {"interrupted", "timed_out"} =>
                     \A i \in plan.steps : steps[i] # "pending" => steps'[i] = steps[i]
<1>1. ASSUME TypeOK, Untouched, [Next]_vars
      PROVE  Kept
  <2>1. ASSUME NEW cut \in {"interrupted", "timed_out"}, CutShort(cut)
        PROVE  Kept
    <3>1. CutStep \in PendingOf(plan.steps)
      BY <1>1, <2>1, CutStepIsPending DEF CutShort
    <3>2. steps' = Marked(SkipPending(CutStep), {CutStep}, cut) /\ DOMAIN steps = plan.steps
      BY <1>1, <2>1 DEF CutShort, TypeOK
    <3>3. ASSUME NEW i \in plan.steps, steps[i] # "pending"
          PROVE  steps'[i] = steps[i]
      BY <3>1, <3>2, <3>3 DEF Marked, SkipPending, PendingOf
    <3> QED
      BY <3>3
  <2>2. CASE RecordPhase
    BY <2>2 DEF RecordPhase, FinalStatus
  <2>3. CASE status' = status
    BY <2>3
  <2> QED
    BY <1>1, <2>1, <2>2, <2>3 DEF Next, InspectPhase, EnvironmentPhase, PortsPhase,
       BeginSetup, SkipSetupStep, RunSetupStep, EndSetup, ComposePhase, ApplicationsPhase,
       ListeningPhase, HealthPhase, vars
<1>2. TypeOK /\ Untouched /\ [Next]_vars => [Kept]_vars
  BY <1>1
<1> QED
  BY <1>2, StepsTyped, UntouchedAlways, PTL DEF Spec, CutKeepsOutcomes

=============================================================================
