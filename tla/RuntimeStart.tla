------------------------------ MODULE RuntimeStart ------------------------------
(***************************************************************************)
(* startRuntime (orchestrator.ts) and startManagedProcess                  *)
(* (process-manager.ts), as the other commands see them: every persist of  *)
(* the session, every step on processes.json and on the process table, and *)
(* the points at which an interrupt or the startup timeout takes effect.   *)
(* What the phases do to the steps of the session is the subject of        *)
(* StartupSteps.                                                           *)
(***************************************************************************)
EXTENDS RuntimeStop

CONSTANTS
    UsesCompose,        \* BOOLEAN: does the contract declare Compose services?
    ProbeOutlastsWrites, \* BOOLEAN: is a file write shorter than the readiness probe?
    Troubles    \* what may go wrong in a startup without being an error of it

ASSUME StartAssumption ==
    /\ UsesCompose \in BOOLEAN
    /\ ProbeOutlastsWrites \in BOOLEAN
    /\ Troubles \subseteq {"warnings", "ports", "health"}

VARIABLES
    mem,    \* the session object the command holds
    todo,   \* applications not attempted yet
    child,  \* the process spawned and not settled yet
    late    \* registerProcess writes left running after their start had settled

startVars == <<mem, todo, child, late>>

Ownership(s) == [owner |-> s, state |-> "alive"]

NewSession ==
    [status |-> "running", errors |-> FALSE, warnings |-> FALSE,
     apps |-> [a \in Apps |-> "absent"], compose |-> "absent",
     portFailed |-> FALSE, health |-> "succeeded"]

\* Whether trouble of the kind `kind` is met.
Trouble(kind) == IF kind \in Troubles THEN BOOLEAN ELSE {FALSE}

\* Warnings only ever add up.
Warned(record, warned) == [record EXCEPT !.warnings = @ \/ warned]

\* Bug: a new session has the status of its steps.
PendingSession(warned) == Warned([NewSession EXCEPT !.status = "pending"], warned)

\* The contract may have been loaded, and the plan made, with warnings.
CreatedSession(warned) == Warned(NewSession, warned)

\* The session is persisted as `record`, which the command also keeps.
Persist(s, record) ==
    /\ mem' = [mem EXCEPT ![s] = record]
    /\ UpdateSession(s, s, record)

-----------------------------------------------------------------------------
(* The phases before anything is started. *)

\* Bug: the pointer is written before the session file.
CreatePointerFirst(s) ==
    /\ pc[s] = "idle"
    /\ latest' = s
    /\ mem' = [mem EXCEPT ![s] = NewSession]
    /\ Goto(s, "prerequisites")
    /\ UNCHANGED <<sessionFile, processes, worldVars, buf, latestDue, stopVars, todo, child, late>>

CreateSession(s) ==
    /\ pc[s] = "idle"
    /\ \E warned \in Trouble("warnings") : Persist(s, CreatedSession(warned))
    /\ Goto(s, "prerequisites")
    /\ UNCHANGED <<latest, processes, worldVars, buf, stopVars, todo, child, late>>

Following ==
    [prerequisites |-> "environment", environment |-> "ports", ports |-> "setup",
     listening |-> "health", health |-> "record"]

\* What prerequisites, ports and health checks may leave in the session: a warning, a port
\* resource that reads "failed" (those of the second look replace those of the first), the
\* result of the health checks.
Observed(s) ==
    CASE pc[s] = "prerequisites" -> {Warned(mem[s], warned) : warned \in Trouble("warnings")}
      [] pc[s] \in {"ports", "listening"} ->
           {[mem[s] EXCEPT !.portFailed = failed] : failed \in Trouble("ports")}
      [] pc[s] = "health" ->
           {[mem[s] EXCEPT !.health = result] :
              result \in IF "health" \in Troubles THEN HealthResults ELSE {"succeeded"}}

\* Prerequisites, ports and health checks run and the session is persisted.
ObservingPhase(s) ==
    /\ pc[s] \in {"prerequisites", "ports", "listening", "health"}
    /\ Ready(s)
    /\ \E record \in Observed(s) : Persist(s, record)
    /\ Goto(s, Following[pc[s]])
    /\ UNCHANGED <<latest, processes, worldVars, buf, stopVars, todo, child, late>>

\* Missing environment is an error of the session, but setup still follows.
EnvironmentPhase(s) ==
    /\ pc[s] = "environment"
    /\ Ready(s)
    /\ \E missing \in BOOLEAN, warned \in Trouble("warnings") :
         Persist(s, Warned([mem[s] EXCEPT !.errors = missing], warned))
    /\ Goto(s, Following["environment"])
    /\ UNCHANGED <<latest, processes, worldVars, buf, stopVars, todo, child, late>>

\* Bug: services and applications start although setup failed.
IgnoringErrors(errors, label) == label

AfterErrorsOr(errors, label) == IF errors THEN "listening" ELSE label

SetupPhase(s) ==
    /\ pc[s] = "setup"
    /\ Ready(s)
    /\ \E failed \in BOOLEAN, warned \in Trouble("warnings") :
         LET errors == mem[s].errors \/ failed IN
         /\ Persist(s, Warned([mem[s] EXCEPT !.errors = errors], warned))
         /\ Goto(s, AfterErrorsOr(errors, "compose"))
    /\ UNCHANGED <<latest, processes, worldVars, buf, stopVars, todo, child, late>>

-----------------------------------------------------------------------------
(* Compose services. *)

SkipCompose(s) ==
    /\ ~UsesCompose
    /\ pc[s] = "compose"
    /\ Ready(s)
    /\ Goto(s, "applications")
    /\ UNCHANGED <<fileVars, worldVars, buf, latestDue, stopVars, startVars>>

\* `compose up` may bring containers up and still fail.
ComposeUp(s) ==
    /\ UsesCompose
    /\ pc[s] = "compose"
    /\ Ready(s)
    /\ \/ /\ compose' = [compose EXCEPT ![s] = TRUE]
          /\ mem' = [mem EXCEPT ![s] = [@ EXCEPT !.compose = "running"]]
       \/ /\ compose' = compose
          /\ mem' = [mem EXCEPT ![s] = [@ EXCEPT !.compose = "failed", !.errors = TRUE]]
       \/ /\ compose' = [compose EXCEPT ![s] = TRUE]
          /\ mem' = [mem EXCEPT ![s] = [@ EXCEPT !.compose = "failed", !.errors = TRUE]]
    /\ Goto(s, "composed")
    /\ UNCHANGED <<fileVars, os, buf, latestDue, stopVars, todo, child, late>>

\* The project name enters the session only now.
ComposePersist(s) ==
    /\ pc[s] = "composed"
    /\ Persist(s, mem[s])
    /\ Goto(s, AfterErrorsOr(mem[s].errors, "applications"))
    /\ UNCHANGED <<latest, processes, worldVars, buf, stopVars, todo, child, late>>

-----------------------------------------------------------------------------
(* Applications, one after the other. *)

SpawnApplication(s) ==
    /\ pc[s] = "applications"
    /\ Ready(s)
    /\ \E a \in todo[s], p \in Pids :
         /\ Available(p)
         /\ os' = [os EXCEPT ![p] = Ownership(s)]
         /\ child' = [child EXCEPT ![s] = [pid |-> p, session |-> s, app |-> a]]
         /\ todo' = [todo EXCEPT ![s] = @ \ {a}]
    /\ Goto(s, "probe")
    /\ UNCHANGED <<fileVars, compose, buf, latestDue, stopVars, mem, late>>

\* The "error" event: the command could not be spawned.
SpawnError(s) ==
    /\ pc[s] = "applications"
    /\ Ready(s)
    /\ \E a \in todo[s] : todo' = [todo EXCEPT ![s] = @ \ {a}]
    /\ mem' = [mem EXCEPT ![s].errors = TRUE]
    /\ UNCHANGED <<fileVars, worldVars, cmdVars, stopVars, child, late>>

\* The readiness timer fires: the child is taken to be running, and registerProcess
\* reads processes.json.
ProbeElapsed(s) ==
    /\ pc[s] = "probe"
    /\ ProbeOutlastsWrites => late[s] = {}
    /\ ReadProcesses(s)
    /\ Goto(s, "register")
    /\ UNCHANGED <<fileVars, worldVars, latestDue, stopVars, startVars>>

\* Bug: the application is reported running and its record is never written.
Unregistered(s) == processes

\* Bug: the record is filed under the latest session.
RegisteredForLatest(s) == Registered(buf[s], [child[s] EXCEPT !.session = latest])

AfterRegistration(s) == Registered(buf[s], child[s])

RegisterWrite(s) ==
    /\ pc[s] = "register"
    /\ processes' = AfterRegistration(s)
    /\ mem' = [mem EXCEPT ![s].apps[child[s].app] = "running"]
    /\ child' = [child EXCEPT ![s] = NoRecord]
    /\ buf' = [buf EXCEPT ![s] = {}]
    /\ Goto(s, "applications")
    /\ UNCHANGED <<sessionFile, latest, worldVars, latestDue, stopVars, todo, late>>

HasExited(s) ==
    \/ os[child[s].pid].owner # s
    \/ ~Alive(child[s].pid)

\* The "exit" event settles the start as failed; a registerProcess under way goes on.
ChildExits(s) ==
    /\ pc[s] \in {"probe", "register"}
    /\ HasExited(s)
    /\ late' = IF pc[s] = "register"
               THEN [late EXCEPT ![s] = @ \cup {AfterRegistration(s)}]
               ELSE late
    /\ mem' = [mem EXCEPT ![s].errors = TRUE]
    /\ child' = [child EXCEPT ![s] = NoRecord]
    /\ buf' = [buf EXCEPT ![s] = {}]
    /\ Goto(s, "applications")
    /\ UNCHANGED <<fileVars, worldVars, latestDue, stopVars, todo>>

LateWrite(s) ==
    /\ pc[s] # "crashed"
    /\ \E content \in late[s] :
         /\ processes' = content
         /\ late' = [late EXCEPT ![s] = @ \ {content}]
    /\ UNCHANGED <<sessionFile, latest, worldVars, cmdVars, stopVars, mem, todo, child>>

ApplicationsPersist(s) ==
    /\ pc[s] = "applications"
    /\ Ready(s)
    /\ todo[s] = {}
    /\ \E warned \in Trouble("warnings") : Persist(s, Warned(mem[s], warned))
    /\ Goto(s, "listening")
    /\ UNCHANGED <<latest, processes, worldVars, buf, stopVars, todo, child, late>>

-----------------------------------------------------------------------------
(* The end of a startup, and its cleanup when it is cut short. *)

\* summarizeSessionStatus: errors and health checks first; the port resources are not looked at.
FinalStatus(record) ==
    CASE record.errors \/ record.health # "succeeded" -> "failed"
      [] \/ record.compose = "running"
         \/ \E a \in Apps : record.apps[a] = "running" -> "running"
      [] OTHER -> "succeeded"

RecordState(s) ==
    /\ pc[s] = "record"
    /\ Ready(s)
    /\ Persist(s, [mem[s] EXCEPT !.status = FinalStatus(mem[s])])
    /\ Goto(s, "done")
    /\ UNCHANGED <<latest, processes, worldVars, buf, stopVars, todo, child, late>>

\* throwIfStartupTimedOut and throwIfStartupInterrupted stand before each phase.
Checkpoint(s) ==
    \/ pc[s] \in {"prerequisites", "environment", "ports", "setup", "compose",
                  "listening", "health", "record"}
    \/ pc[s] = "applications" /\ todo[s] = Apps

\* Bug: the cleanup is as graceful as a plain `board stop`.
GracefulCleanup(s) == [mode |-> "session", session |-> s, force |-> FALSE]

CleanupRequest(s) == [mode |-> "session", session |-> s, force |-> TRUE]

\* recordInterruptedStartup, recordTimedOutStartup: persist, with a warning and an error, then
\* stopRuntime.
CutShort(s, status) ==
    /\ Checkpoint(s)
    /\ Ready(s)
    /\ Persist(s, [mem[s] EXCEPT !.status = status, !.errors = TRUE, !.warnings = TRUE])
    /\ request' = [request EXCEPT ![s] = CleanupRequest(s)]
    /\ Goto(s, "list")
    /\ UNCHANGED <<latest, processes, worldVars, buf, targets, records, cur, victim,
                   todo, child, late>>

\* The session stopRuntime left behind is read back, the status put on it again.
CleanupRead(s) ==
    /\ pc[s] = "stopped"
    /\ Ready(s)
    /\ mem' = [mem EXCEPT ![s] = [sessionFile[s] EXCEPT !.status = mem[s].status,
                                                        !.errors = TRUE, !.warnings = TRUE]]
    /\ Goto(s, "cleaned")
    /\ UNCHANGED <<fileVars, worldVars, buf, latestDue, stopVars, todo, child, late>>

CleanupPersist(s) ==
    /\ pc[s] = "cleaned"
    /\ Persist(s, mem[s])
    /\ request' = [request EXCEPT ![s] = NoRequest]
    /\ Goto(s, "done")
    /\ UNCHANGED <<latest, processes, worldVars, buf, targets, records, cur, victim,
                   todo, child, late>>

\* The steps of startRuntime other than its beginning and being cut short.
StartRuntime(s) ==
    \/ ObservingPhase(s) \/ EnvironmentPhase(s) \/ SetupPhase(s)
    \/ SkipCompose(s) \/ ComposeUp(s) \/ ComposePersist(s)
    \/ SpawnApplication(s) \/ SpawnError(s) \/ ProbeElapsed(s) \/ RegisterWrite(s)
    \/ ChildExits(s) \/ LateWrite(s) \/ ApplicationsPersist(s)
    \/ RecordState(s) \/ CleanupRead(s) \/ CleanupPersist(s)

StartInit ==
    /\ mem = [s \in Sessions |-> NewSession]
    /\ todo = [s \in Sessions |-> Apps]
    /\ child = [s \in Sessions |-> NoRecord]
    /\ late = [s \in Sessions |-> {}]

=============================================================================
