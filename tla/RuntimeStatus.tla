------------------------------ MODULE RuntimeStatus ------------------------------
(***************************************************************************)
(* What `board status` says of a session (status.ts, cli commands/         *)
(* status.ts), as a function of the files and of the process table at the  *)
(* moment it is asked: it writes nothing, and its reads, which follow each *)
(* other at once, are looked at as one.  The repository's root and its     *)
(* contract are found and valid.                                           *)
(***************************************************************************)
EXTENDS RuntimeLifecycle

\* Bug: the processes of every session are looked at.
EveryProcess(s) == processes

SessionProcesses(s) == {r \in processes : r.session = s}

\* getManagedProcessStatus
ProcessStatus(r) == IF Alive(r.pid) THEN "running" ELSE "stopped"

\* mergeResources: the status of a process on record goes before that in the session.
MergedApps(s) ==
    [a \in Apps |->
       IF \E r \in SessionProcesses(s) : r.app = a
       THEN ProcessStatus(CHOOSE r \in SessionProcesses(s) : r.app = a)
       ELSE sessionFile[s].apps[a]]

\* The processes of the session that are on record and do not run.
StaleProcesses(s) == {r \in SessionProcesses(s) : ProcessStatus(r) # "running"}

\* A resource that reads "failed": a Compose service, a port, a health check (one that timed
\* out reads "timed_out").
ResourceFailed(record) ==
    record.compose = "failed" \/ record.portFailed \/ record.health = "failed"

\* summarizeStatus: the status of the session counts last, but for one cut short.
SummarizedStatus(s) ==
    LET record == sessionFile[s]
        running == record.compose = "running" \/ \E a \in Apps : MergedApps(s)[a] = "running" IN
    CASE record.status \in {"interrupted", "timed_out"} -> record.status
      [] record.status \notin {"interrupted", "timed_out"}
         /\ (record.errors \/ ResourceFailed(record)) -> "failed"
      [] OTHER -> IF running THEN "running" ELSE record.status

\* The session asked for, or that of the pointer; without its file nothing is known.
Asked(session) == IF session = NoSession THEN latest ELSE session

Recorded(s) == s # NoSession /\ sessionFile[s] # NoFile

RuntimeReport(session) ==
    LET s == Asked(session) IN
    IF ~Recorded(s)
    THEN [session |-> NoSession, status |-> "unknown", ok |-> FALSE, warnings |-> FALSE,
          stale |-> {}, next |-> "start"]
    ELSE [session |-> s, status |-> SummarizedStatus(s), ok |-> ~sessionFile[s].errors,
          warnings |-> sessionFile[s].warnings, stale |-> StaleProcesses(s),
          next |-> IF StaleProcesses(s) = {} THEN "stop" ELSE "stop --force"]

\* statusCommand: a warning for those of the session, for what is stale and for an unknown
\* session, not for a failed one.
CommandResult(session) ==
    LET report == RuntimeReport(session) IN
    IF report.warnings \/ report.stale # {} \/ report.session = NoSession
    THEN "warning" ELSE "success"

-----------------------------------------------------------------------------

Killed(c) == pc[c] = "crashed"

\* A stop, or the cleanup of a startup, that has not come to its end.
Stopping(c) == pc[c] \in {"list", "pointer", "select", "records", "session", "signal",
                          "removeRead", "remove", "persist"}

\* Each session that was started has a process in the table, running or not: with one application
\* each, no session was given the pid of another.  A stop of one removes every record of its pid.
OwnPids == \A s \in Sessions : Recorded(s) => \E p \in Pids : os[p].owner = s

\* An application the session lists as running has its process on record, so that a later
\* `board status` can tell that it has died, and `board stop` finds it: all but a stop that is
\* under way or was killed between removing the record and writing the session keep the two files
\* together, whatever starts, exits and is killed.
RunningIsOnRecord ==
    OwnPids => \A s \in Sessions : Recorded(s) =>
        \/ \E c \in Commands : Stopping(c)
        \/ \E c \in Stops \cup {s} : Killed(c)
        \/ \A a \in Apps : sessionFile[s].apps[a] = "running" =>
             \E r \in SessionProcesses(s) : r.app = a

\* What of a startup outlasts its stop: errors, a port or a health check that failed.
StartupFailed(record) == record.errors \/ record.portFailed \/ record.health = "failed"

\* `board status` agrees with the `board stop` before it.  A session whose file says "stopped"
\* is never reported running: it is reported stopped, or failed if its startup had recorded
\* errors, or a port or a health check that failed, which a stop leaves in the session.  Without
\* errors nothing on record asks for another stop, and the only warnings are those of the
\* startup.  With errors there may be more: a process that exits while it is registered can be
\* recorded after everything was stopped.  But for a stop that was killed earlier: what it had
\* removed from the record is "running" in the session for ever.
StopIsReported ==
    OwnPids => \A s \in Sessions : Recorded(s) /\ sessionFile[s].status = "stopped" =>
        \/ \E c \in Stops : Killed(c)
        \/ /\ RuntimeReport(s).status = IF StartupFailed(sessionFile[s]) THEN "failed" ELSE "stopped"
           /\ ~sessionFile[s].errors =>
                /\ RuntimeReport(s).next = "stop"
                /\ CommandResult(s) = IF sessionFile[s].warnings THEN "warning" ELSE "success"

=============================================================================
