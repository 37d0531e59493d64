------------------------------- MODULE RuntimeStop -------------------------------
(***************************************************************************)
(* stopRuntime (stop.ts) and stopManagedProcess (process-manager.ts): one  *)
(* action per await.  `board stop` runs it, and so does a `board start`    *)
(* that was interrupted or timed out, to clean up after itself.            *)
(***************************************************************************)
EXTENDS RuntimeStore

VARIABLES
    request,   \* what the command was asked to stop
    targets,   \* the selected sessions, as they were when they were read
    records,   \* the process records still to stop, as they were when read
    cur,       \* the session being stopped
    victim     \* the process record being stopped

stopVars == <<request, targets, records, cur, victim>>

Request ==
    [mode : {"latest", "session", "all"}, session : Sessions \cup {NoSession}, force : BOOLEAN]

Requests ==
    [mode : {"latest", "all"}, session : {NoSession}, force : BOOLEAN] \cup
    [mode : {"session"}, session : Sessions, force : BOOLEAN]

NoRequest == [mode |-> "latest", session |-> NoSession, force |-> FALSE]

NoTargets == [s \in Sessions |-> NoFile]

\* The snapshot `listing` restricted to the sessions of the set `chosen`.
Restricted(listing, chosen) ==
    [s \in Sessions |-> IF s \in chosen THEN listing[s] ELSE NoFile]

-----------------------------------------------------------------------------

StopList(c) ==
    /\ pc[c] = "list"
    /\ Ready(c)
    /\ targets' = [targets EXCEPT ![c] = sessionFile]
    /\ Goto(c, "pointer")
    /\ UNCHANGED <<fileVars, worldVars, buf, latestDue, request, records, cur, victim>>

\* readLatestSession, first read: the pointer.
StopReadPointer(c) ==
    /\ pc[c] = "pointer"
    /\ cur' = [cur EXCEPT ![c] = latest]
    /\ Goto(c, "select")
    /\ UNCHANGED <<fileVars, worldVars, buf, latestDue, request, targets, records, victim>>

\* selectTargetSessions; without --all or --session the latest session is read anew.
Selected(c) ==
    CASE request[c].mode = "all" -> targets[c]
      [] request[c].mode = "session" -> Restricted(targets[c], {request[c].session})
      [] request[c].mode = "latest" -> Restricted(sessionFile, {cur[c]})

StopSelect(c) ==
    /\ pc[c] = "select"
    /\ targets' = [targets EXCEPT ![c] = Selected(c)]
    /\ cur' = [cur EXCEPT ![c] = NoSession]
    /\ Goto(c, IF Selected(c) = NoTargets THEN "stopped" ELSE "records")
    /\ UNCHANGED <<fileVars, worldVars, buf, latestDue, request, records, victim>>

\* One read of processes.json serves the whole command.
StopReadRecords(c) ==
    /\ pc[c] = "records"
    /\ records' = [records EXCEPT ![c] = processes]
    /\ Goto(c, "session")
    /\ UNCHANGED <<fileVars, worldVars, buf, latestDue, request, targets, cur, victim>>

StopNextSession(c) ==
    /\ pc[c] = "session"
    /\ Ready(c)
    /\ \E s \in Sessions :
         /\ targets[c][s] # NoFile
         /\ cur' = [cur EXCEPT ![c] = s]
    /\ Goto(c, "signal")
    /\ UNCHANGED <<fileVars, worldVars, buf, latestDue, request, targets, records, victim>>

\* Bug: every record of the snapshot is taken for one of the session.
AllRecords(c) == records[c]

\* Bug: the records of the latest session are taken for those of the session.
LatestRecords(c) == {r \in records[c] : r.session = latest}

SessionRecords(c) == {r \in records[c] : r.session = cur[c]}

\* stopManagedProcess: a live pid is signalled, whatever process it now names.
StopSignal(c) ==
    /\ pc[c] = "signal"
    /\ \E r \in SessionRecords(c) :
         /\ victim' = [victim EXCEPT ![c] = r]
         /\ os' = IF Alive(r.pid) THEN Signalled(r.pid, request[c].force) ELSE os
    /\ Goto(c, "removeRead")
    /\ UNCHANGED <<fileVars, compose, buf, latestDue, request, targets, records, cur>>

StopRemoveRead(c) ==
    /\ pc[c] = "removeRead"
    /\ ReadProcesses(c)
    /\ Goto(c, "remove")
    /\ UNCHANGED <<fileVars, worldVars, latestDue, stopVars>>

\* The record goes and the process resource reads "stopped", dead or not.
StopRemoveWrite(c) ==
    /\ pc[c] = "remove"
    /\ processes' = Removed(buf[c], victim[c].pid)
    /\ targets' = [targets EXCEPT ![c][cur[c]].apps[victim[c].app] = "stopped"]
    /\ records' = [records EXCEPT ![c] = @ \ {victim[c]}]
    /\ victim' = [victim EXCEPT ![c] = NoRecord]
    /\ buf' = [buf EXCEPT ![c] = {}]
    /\ Goto(c, "signal")
    /\ UNCHANGED <<sessionFile, latest, worldVars, latestDue, request, cur>>

\* stopSessionComposeProjects: only a project name the session recorded is stopped.
StopCompose(c) ==
    LET recorded == targets[c][cur[c]].compose # "absent" IN
    /\ pc[c] = "signal"
    /\ SessionRecords(c) = {}
    /\ \/ /\ ~recorded
          /\ UNCHANGED <<compose, targets>>
       \/ /\ recorded
          /\ compose' = [compose EXCEPT ![cur[c]] = FALSE]
          /\ targets' = [targets EXCEPT ![c][cur[c]].compose = "stopped"]
       \/ /\ recorded
          /\ targets' = [targets EXCEPT ![c][cur[c]].compose = "failed"]
          /\ UNCHANGED compose
    /\ Goto(c, "persist")
    /\ UNCHANGED <<fileVars, os, buf, latestDue, request, records, cur, victim>>

\* buildStoppedSession: the snapshot, with the resources just stopped.
StoppedSession(record) ==
    [record EXCEPT !.status = IF record.compose = "failed" THEN "failed" ELSE "stopped"]

\* Bug: the session just stopped stays selected.
StillSelected(c) == targets[c]

Remaining(c) == [targets[c] EXCEPT ![cur[c]] = NoFile]

StopPersist(c) ==
    /\ pc[c] = "persist"
    /\ UpdateSession(c, cur[c], StoppedSession(targets[c][cur[c]]))
    /\ targets' = [targets EXCEPT ![c] = Remaining(c)]
    /\ cur' = [cur EXCEPT ![c] = NoSession]
    /\ IF Remaining(c) = NoTargets
       THEN Goto(c, "stopped") /\ records' = [records EXCEPT ![c] = {}]
       ELSE Goto(c, "session") /\ UNCHANGED records
    /\ UNCHANGED <<latest, processes, worldVars, buf, request, victim>>

\* The steps of stopRuntime, whoever runs it.
StopRuntime(c) ==
    \/ StopList(c) \/ StopReadPointer(c) \/ StopSelect(c) \/ StopReadRecords(c)
    \/ StopNextSession(c) \/ StopSignal(c) \/ StopRemoveRead(c)
    \/ StopRemoveWrite(c) \/ StopCompose(c) \/ StopPersist(c)

StopInit ==
    /\ request = [c \in Commands |-> NoRequest]
    /\ targets = [c \in Commands |-> NoTargets]
    /\ records = [c \in Commands |-> {}]
    /\ cur = [c \in Commands |-> NoSession]
    /\ victim = [c \in Commands |-> NoRecord]

=============================================================================
