------------------------------ MODULE StartupSteps ------------------------------
(***************************************************************************)
(* One startup, at the level of the steps of its plan: what each phase of  *)
(* startRuntime (orchestrator.ts) does to the steps of the session, the    *)
(* setup runner (setup-runner.ts) with its dependencies, optional steps,   *)
(* missing environment and budget, and what is left when the startup is    *)
(* cut short.  The files and the processes are RuntimeStart's subject.     *)
(***************************************************************************)
EXTENDS Naturals, FiniteSets

\* How many setup steps, services, applications and health checks the contract declares.
CONSTANTS NumSetup, NumServices, NumApplications, NumChecks

ASSUME StepsAssumption ==
    /\ NumSetup \in Nat
    /\ NumServices \in Nat
    /\ NumApplications \in Nat
    /\ NumChecks \in Nat

VARIABLES
    plan,    \* what the contract and the options of the command make of the startup
    steps,   \* the steps of the session as persisted: the status of each
    done,    \* completedSteps of the setup runner, "pending" where it has no entry
    up,      \* services and applications the session reports running
    errors,  \* have errors been collected?
    unhealthy, \* did a health check fail or time out?
    status,  \* the status of the session
    pc,      \* the phase that comes next
    at       \* the next step within the phase

vars == <<plan, steps, done, up, errors, unhealthy, status, pc, at>>

-----------------------------------------------------------------------------
(* The plan: steps are numbered in the order createBootstrapPlan lists them. *)

LoadContract         == 1
InspectPrerequisites == 2
ResolveEnvironment   == 3
SetupSteps           == 4 .. 3 + NumSetup
ServiceSteps         == 4 + NumSetup .. 3 + NumSetup + NumServices
ApplicationSteps     ==
    4 + NumSetup + NumServices .. 3 + NumSetup + NumServices + NumApplications
CheckSteps           ==
    4 + NumSetup + NumServices + NumApplications ..
    3 + NumSetup + NumServices + NumApplications + NumChecks
RecordState          == 4 + NumSetup + NumServices + NumApplications + NumChecks

SkeletonSteps == {LoadContract, InspectPrerequisites, ResolveEnvironment, RecordState}
AllSteps == 1 .. RecordState

Status == {"pending", "running", "succeeded", "failed", "interrupted", "skipped", "timed_out"}

\* --only keeps one id, which may be that of a service, an application, both or neither.
Included ==
    {S \in SUBSET (ServiceSteps \cup ApplicationSteps) :
       \/ S = ServiceSteps \cup ApplicationSteps
       \/ Cardinality(S \cap ServiceSteps) <= 1 /\ Cardinality(S \cap ApplicationSteps) <= 1}

\* Setup steps depend on any setup steps, in any order: the contract only refuses unknown
\* ids.  --no-health-check leaves the checks out; --skip-setup makes every setup step
\* optional and takes its command away.
Plans ==
    {p \in [steps        : {SkeletonSteps \cup SetupSteps \cup S \cup T :
                               S \in Included, T \in {{}, CheckSteps}},
            depends      : [SetupSteps -> SUBSET SetupSteps],
            optional     : SUBSET SetupSteps,
            blocked      : SUBSET SetupSteps,       \* blockedStepIds of the environment
            missing      : BOOLEAN,                 \* is a required variable not set?
            skipSetup    : BOOLEAN,
            composed     : SUBSET ServiceSteps,     \* services with a Compose service
            runnable     : SUBSET ApplicationSteps, \* applications with a command
            maxSetup     : 1 .. NumSetup + 1,
            maxProcesses : 1 .. NumApplications + 1] :
       /\ p.blocked # {} => p.missing
       /\ p.blocked \cap p.optional = {}
       /\ p.skipSetup => p.optional = SetupSteps
       /\ p.runnable \subseteq p.steps}

Of(kind) == kind \cap plan.steps

\* The first n steps of a set of steps: slice(0, n).
FirstOf(S, n) == {i \in S : Cardinality({j \in S : j < i}) < n}

Required(i) == i \notin plan.optional

Failure == {"failed", "timed_out"}

Pending == [i \in plan.steps |-> "pending"]

\* markStep and updateStepsByIds: ids without a step are ignored.
Marked(table, ids, s) == [i \in DOMAIN table |-> IF i \in ids THEN s ELSE table[i]]

\* The first step of a set that is not empty.
FirstStep(S) == CHOOSE i \in S : \A j \in S : i <= j

-----------------------------------------------------------------------------
(* The phases before anything runs. *)

\* createBootstrapPlan, and the session createSession writes.
Init ==
    /\ plan \in Plans
    /\ steps = Marked(Pending, {LoadContract}, "succeeded")
    /\ done = [i \in SetupSteps |-> "pending"]
    /\ up = {}
    /\ errors = FALSE
    /\ unhealthy = FALSE
    /\ status = "running"
    /\ pc = "prerequisites"
    /\ at = 0

InspectPhase ==
    /\ pc = "prerequisites"
    /\ steps' = Marked(steps, {InspectPrerequisites}, "succeeded")
    /\ pc' = "environment"
    /\ UNCHANGED <<plan, done, up, errors, unhealthy, status, at>>

EnvironmentPhase ==
    /\ pc = "environment"
    /\ steps' = Marked(steps, {ResolveEnvironment},
                       IF plan.missing THEN "failed" ELSE "succeeded")
    /\ errors' = plan.missing
    /\ pc' = "ports"
    /\ UNCHANGED <<plan, done, up, unhealthy, status, at>>

\* Ports only concern the resources of the session.
PortsPhase ==
    /\ pc = "ports"
    /\ pc' = "setup"
    /\ UNCHANGED <<plan, steps, done, up, errors, unhealthy, status, at>>

-----------------------------------------------------------------------------
(* runSetupSteps: the steps within the budget, one by one, in their order. *)

WithinBudget == FirstOf(SetupSteps, plan.maxSetup)

BeginSetup ==
    /\ pc = "setup"
    /\ done' = Marked(done, SetupSteps \ WithinBudget, "skipped")
    /\ at' = 4
    /\ pc' = "runSetup"
    /\ UNCHANGED <<plan, steps, up, errors, unhealthy, status>>

\* findFailedRequiredDependency: a direct dependency that was itself skipped is no obstacle.
DependencyFailed(i) ==
    \E j \in plan.depends[i] : Required(j) /\ done[j] \in Failure

\* Bug: a command that times out is no failure.
OnlyFailed(i, result) == Required(i) /\ result = "failed"

\* What a command's result adds to the errors: nothing, for an optional step.
IsError(i, result) == Required(i) /\ result \in Failure

SkipSetupStep ==
    /\ pc = "runSetup"
    /\ at \in WithinBudget
    /\ DependencyFailed(at) \/ at \in plan.blocked \/ plan.skipSetup
    /\ done' = [done EXCEPT ![at] = "skipped"]
    /\ errors' = (errors \/ (~DependencyFailed(at) /\ at \in plan.blocked))
    /\ at' = at + 1
    /\ UNCHANGED <<plan, steps, up, unhealthy, status, pc>>

RunSetupStep ==
    /\ pc = "runSetup"
    /\ at \in WithinBudget
    /\ ~DependencyFailed(at) /\ at \notin plan.blocked /\ ~plan.skipSetup
    /\ \E result \in {"succeeded"} \cup Failure :
         /\ done' = [done EXCEPT ![at] = result]
         /\ errors' = (errors \/ IsError(at, result))
    /\ at' = at + 1
    /\ UNCHANGED <<plan, steps, up, unhealthy, status, pc>>

\* Services and applications are only started while there are no errors.
UnlessErrors(failed, phase) == IF failed THEN "listening" ELSE phase

\* The steps are rebuilt from the plan: those that are no setup step are pending again.
EndSetup ==
    /\ pc = "runSetup"
    /\ at \notin WithinBudget
    /\ steps' = [i \in plan.steps |-> IF i \in SetupSteps THEN done[i] ELSE "pending"]
    /\ pc' = UnlessErrors(errors, "compose")
    /\ UNCHANGED <<plan, done, up, errors, unhealthy, status, at>>

-----------------------------------------------------------------------------
(* Services and applications. *)

\* getComposeServiceTargets goes by the contract: --only does not limit it.
ComposePhase ==
    /\ pc = "compose"
    /\ \/ /\ steps' = Marked(steps, plan.composed, "running")
          /\ up' = up \cup plan.composed
          /\ UNCHANGED errors
       \/ /\ plan.composed # {}
          /\ steps' = Marked(steps, plan.composed, "failed")
          /\ errors' = TRUE
          /\ UNCHANGED up
    /\ pc' = UnlessErrors(errors', "applications")
    /\ UNCHANGED <<plan, done, unhealthy, status, at>>

Tracked == FirstOf(Of(ApplicationSteps), plan.maxProcesses)

\* startApplicationProcesses: each application runs, or fails to start and the rest goes
\* on; here too the steps are rebuilt from the plan, those of setup included.
ApplicationsPhase ==
    /\ pc = "applications"
    /\ \E running \in SUBSET (Tracked \cap plan.runnable) :
         LET failed  == (Tracked \cap plan.runnable) \ running
             skipped == Of(ApplicationSteps) \ Tracked IN
         /\ steps' = Marked(Marked(Marked(Pending, running, "running"),
                                   failed, "failed"), skipped, "skipped")
         /\ up' = up \cup running
         /\ errors' = (errors \/ failed # {})
    /\ pc' = "listening"
    /\ UNCHANGED <<plan, done, unhealthy, status, at>>

ListeningPhase ==
    /\ pc = "listening"
    /\ pc' = "health"
    /\ UNCHANGED <<plan, steps, done, up, errors, unhealthy, status, at>>

AnyFailure(results) == \E i \in DOMAIN results : results[i] \in Failure

\* Health checks run in any case, also after errors.
HealthPhase ==
    /\ pc = "health"
    /\ \E results \in [Of(CheckSteps) -> {"succeeded", "failed", "timed_out", "skipped"}] :
         /\ steps' = [i \in plan.steps |->
                        IF i \in CheckSteps THEN results[i] ELSE steps[i]]
         /\ unhealthy' = AnyFailure(results)
    /\ pc' = "record"
    /\ UNCHANGED <<plan, done, up, errors, status, at>>

\* Bug: running resources come first, so that what failed does not count.
ResourcesFirst ==
    IF up # {} THEN "running" ELSE IF errors \/ unhealthy THEN "failed" ELSE "succeeded"

\* summarizeSessionStatus (orchestrator.ts)
FinalStatus ==
    IF errors \/ unhealthy THEN "failed"
    ELSE IF up # {} THEN "running" ELSE "succeeded"

RecordPhase ==
    /\ pc = "record"
    /\ status' = FinalStatus
    /\ steps' = Marked(steps, {RecordState}, "succeeded")
    /\ pc' = "done"
    /\ UNCHANGED <<plan, done, up, errors, unhealthy, at>>

-----------------------------------------------------------------------------
(* An interrupt, or the startup timeout, between two phases. *)

PendingOf(S) == {i \in S : steps[i] = "pending"}

\* firstPendingStepId: of the kind, else of the session, else record-state.
FirstPending(kind) ==
    CASE PendingOf(Of(kind)) # {} -> FirstStep(PendingOf(Of(kind)))
      [] PendingOf(Of(kind)) = {} /\ PendingOf(plan.steps) # {} ->
            FirstStep(PendingOf(plan.steps))
      [] OTHER -> RecordState

\* The step each throwIfStartupTimedOut and throwIfStartupInterrupted names.
CutStep ==
    CASE pc = "prerequisites"           -> InspectPrerequisites
      [] pc = "environment"             -> ResolveEnvironment
      [] pc \in {"ports", "setup"}      -> FirstPending(SetupSteps)
      [] pc = "compose"                 -> FirstPending(ServiceSteps)
      [] pc = "applications"            -> FirstPending(ApplicationSteps)
      [] pc \in {"listening", "health"} -> FirstPending(CheckSteps)
      [] pc = "record"                  -> RecordState

\* Bug: only the pending steps of the plan after the one named are marked.
SkipRest(cut) == Marked(steps, {i \in PendingOf(plan.steps) : i > cut}, "skipped")

\* Bug: steps with an outcome are skipped too.
SkipAll(cut) == Marked(steps, plan.steps, "skipped")

\* markPendingSteps: wherever in the plan they are.
SkipPending(cut) == Marked(steps, PendingOf(plan.steps), "skipped")

\* recordInterruptedStartup and recordTimedOutStartup; stopRuntime leaves the steps alone
\* and no resource of the session is reported running after it.
CutShort(cut) ==
    /\ pc \notin {"runSetup", "done"}
    /\ steps' = Marked(SkipPending(CutStep), {CutStep}, cut)
    /\ status' = cut
    /\ errors' = TRUE
    /\ up' = {}
    /\ pc' = "done"
    /\ UNCHANGED <<plan, done, unhealthy, at>>

Next ==
    \/ InspectPhase \/ EnvironmentPhase \/ PortsPhase
    \/ BeginSetup \/ SkipSetupStep \/ RunSetupStep \/ EndSetup
    \/ ComposePhase \/ ApplicationsPhase \/ ListeningPhase \/ HealthPhase
    \/ RecordPhase
    \/ CutShort("interrupted") \/ CutShort("timed_out")

Spec == Init /\ [][Next]_vars

-----------------------------------------------------------------------------

Phases ==
    {"prerequisites", "environment", "ports", "setup", "runSetup", "compose",
     "applications", "listening", "health", "record", "done"}

\* Every variable keeps its type; the session has the steps of the plan, always.
TypeOK ==
    /\ plan \in Plans
    /\ steps \in [plan.steps -> Status]
    /\ done \in [SetupSteps -> Status]
    /\ up \subseteq ServiceSteps \cup ApplicationSteps
    /\ errors \in BOOLEAN
    /\ unhealthy \in BOOLEAN
    /\ status \in {"running", "succeeded", "failed", "interrupted", "timed_out"}
    /\ pc \in Phases
    /\ at \in 0 .. 4 + NumSetup

SetupFailed == \E i \in SetupSteps : Required(i) /\ done[i] \in Failure

\* startRuntime starts neither services nor applications once setup has failed, or when
\* required environment is missing, whatever the dependencies, the optional steps and the
\* budget made of the setup steps.
NothingStartsAfterFailedSetup == up # {} => ~SetupFailed /\ ~plan.missing

\* A session that ends "running" or "succeeded" got there honestly: setup did not fail,
\* every Compose service and every application attempted runs, and no check failed.
FinalStatusIsHonest ==
    pc = "done" /\ status \in {"running", "succeeded"} =>
        /\ ~SetupFailed /\ ~plan.missing
        /\ plan.composed \cup (Tracked \cap plan.runnable) \subseteq up
        /\ \A i \in Of(CheckSteps) : steps[i] \notin Failure
        /\ status = "succeeded" => up = {}

\* A startup that was cut short says where: no step is left pending, and a step reads
\* as the session does.
CutNamesAStep ==
    status \in {"interrupted", "timed_out"} =>
        /\ PendingOf(plan.steps) = {}
        /\ \E i \in plan.steps : steps[i] = status

\* The step named is one that had not run: being cut short never overwrites an outcome
\* the session has recorded, wherever the ten checkpoints of startRuntime take effect.
CutKeepsOutcomes ==
    [][status' # status /\ status' \in {"interrupted", "timed_out"} =>
         \A i \in plan.steps : steps[i] # "pending" => steps'[i] = steps[i]]_vars

=============================================================================
