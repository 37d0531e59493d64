---------------------------- MODULE RuntimeLifecycle ----------------------------
(***************************************************************************)
(* Board commands running against one repository: any number of `board     *)
(* start` and `board stop` processes over the same files and the same      *)
(* machine, each of which may be killed between any two of its steps.      *)
(***************************************************************************)
EXTENDS RuntimeStart

CONSTANT Serial  \* BOOLEAN: is a command only issued when no other is running?

ASSUME LifecycleAssumption == Serial \in BOOLEAN

vars == <<fileVars, worldVars, cmdVars, stopVars, startVars>>

Finished(c) ==
    \/ pc[c] = "crashed"
    \/ pc[c] = "done" /\ Ready(c) /\ (c \in Sessions => late[c] = {})

MayBegin(c) == Serial => \A d \in Commands \ {c} : pc[d] = "idle" \/ Finished(d)

BeginStart(s) == MayBegin(s) /\ CreateSession(s)

BeginStop(c) ==
    /\ MayBegin(c)
    /\ pc[c] = "idle"
    /\ \E r \in Requests : request' = [request EXCEPT ![c] = r]
    /\ Goto(c, "list")
    /\ UNCHANGED <<fileVars, worldVars, buf, latestDue, targets, records, cur, victim, startVars>>

EndStop(c) ==
    /\ pc[c] = "stopped"
    /\ Ready(c)
    /\ Goto(c, "done")
    /\ request' = [request EXCEPT ![c] = NoRequest]
    /\ UNCHANGED <<fileVars, worldVars, buf, latestDue, targets, records, cur, victim, startVars>>

Forgotten(f, c, empty) == [d \in DOMAIN f |-> IF d = c THEN empty ELSE f[d]]

\* The command is killed, or a file operation fails and its error is not caught: what it
\* started stays (`child` still names a process it had not settled), the rest of its
\* memory is gone.
Crash(c) ==
    /\ pc[c] \notin {"idle", "done", "crashed"}
    /\ Goto(c, "crashed")
    /\ buf' = Forgotten(buf, c, {})
    /\ latestDue' = Forgotten(latestDue, c, NoSession)
    /\ request' = Forgotten(request, c, NoRequest)
    /\ targets' = Forgotten(targets, c, NoTargets)
    /\ records' = Forgotten(records, c, {})
    /\ cur' = Forgotten(cur, c, NoSession)
    /\ victim' = Forgotten(victim, c, NoRecord)
    /\ mem' = Forgotten(mem, c, NewSession)
    /\ todo' = Forgotten(todo, c, Apps)
    /\ late' = Forgotten(late, c, {})
    /\ UNCHANGED <<fileVars, worldVars, child>>

World == \E p \in Pids :
    (ProcessExit(p) \/ ForeignSpawn(p)) /\ UNCHANGED <<stopVars, startVars>>

Progress(c) ==
    \/ (WriteLatest(c) /\ UNCHANGED <<stopVars, startVars>>)
    \/ (StopRuntime(c) /\ UNCHANGED startVars)
    \/ (c \in Sessions /\ StartRuntime(c))
    \/ (c \in Stops /\ EndStop(c))

Next ==
    \/ \E s \in Sessions : BeginStart(s)
    \/ \E s \in Sessions : CutShort(s, "interrupted") \/ CutShort(s, "timed_out")
    \/ \E c \in Stops : BeginStop(c)
    \/ \E c \in Commands : Progress(c) \/ Crash(c)
    \/ World

Init == StoreInit /\ StopInit /\ StartInit

Spec == Init /\ [][Next]_vars

\* A command that is not killed keeps running: its file operations, its children's
\* events and the external commands it awaits complete.
FairSpec == Spec /\ \A c \in Commands : WF_vars(Progress(c))

-----------------------------------------------------------------------------

Labels ==
    {"idle", "prerequisites", "environment", "ports", "setup", "compose", "composed",
     "applications", "probe", "register", "listening", "health", "record", "list",
     "pointer", "select", "records", "session", "signal", "removeRead", "remove",
     "persist", "stopped", "cleaned", "done", "crashed"}

\* Every variable keeps its type: the shape of the files and of the commands' memory.
TypeOK ==
    /\ sessionFile \in [Sessions -> SessionRecord \cup {NoFile}]
    /\ latest \in Sessions \cup {NoSession}
    /\ processes \in SUBSET ProcessRecord
    /\ os \in [Pids -> OsProcess]
    /\ compose \in [Sessions -> BOOLEAN]
    /\ pc \in [Commands -> Labels]
    /\ buf \in [Commands -> SUBSET ProcessRecord]
    /\ latestDue \in [Commands -> Sessions \cup {NoSession}]
    /\ request \in [Commands -> Request]
    /\ targets \in [Commands -> [Sessions -> SessionRecord \cup {NoFile}]]
    /\ records \in [Commands -> SUBSET ProcessRecord]
    /\ cur \in [Commands -> Sessions \cup {NoSession}]
    /\ victim \in [Commands -> ProcessRecord \cup {NoRecord}]
    /\ mem \in [Sessions -> SessionRecord]
    /\ todo \in [Sessions -> SUBSET Apps]
    /\ child \in [Sessions -> ProcessRecord \cup {NoRecord}]
    /\ late \in [Sessions -> SUBSET SUBSET ProcessRecord]

\* latest.json never names a session whose file does not exist, so that `board status`
\* and `board stop` without --session find one whenever the pointer is set; a command
\* killed between its two writes leaves the older pointer, not a dangling one.
LatestIsRecorded == latest # NoSession => sessionFile[latest] # NoFile

\* No interleaving of read-modify-writes puts a record into processes.json that names a
\* process of another session.  (Without pid reuse: a record is never renewed.)
RecordsAreOwned == \A r \in processes : os[r.pid].owner = r.session

\* "Board only stops resources it started and recorded" (README, Process Ownership): a
\* stop only signals processes of the session it is stopping.
SignalsOnlyTheSession ==
    [][\A c \in Commands, p \in Pids :
          pc[c] = "signal" /\ pc'[c] # pc[c] /\ os'[p] # os[p]
          => os[p].owner = cur[c]]_vars

\* A startup that has recorded an error spawns nothing any more (startRuntime starts
\* services and applications only while session.errors is empty).
NoSpawnAfterErrors ==
    [][\A p \in Pids :
          os'[p].owner # os[p].owner /\ os'[p].owner \in Sessions
          => ~sessionFile[os'[p].owner].errors]_vars

\* Every live process Board started is in processes.json, or is the child a startup has
\* not settled yet (the readiness probe; for ever, if the startup was killed there), or
\* has at least been told to terminate.
Tracked ==
    \A p \in Pids :
        os[p].state = "alive" /\ os[p].owner \in Sessions =>
            \/ child[os[p].owner] # NoRecord /\ child[os[p].owner].pid = p
            \/ \E r \in processes : r.pid = p /\ r.session = os[p].owner

\* A startup that reports being interrupted or timed out has left no process behind:
\* recordInterruptedStartup and recordTimedOutStartup clean up by force before they end.
CleanupComplete ==
    \A s \in Sessions :
        pc[s] = "done" /\ mem[s].status \in {"interrupted", "timed_out"} =>
            \A p \in Pids : os[p].owner = s => ~Alive(p)

\* A session file that reads "stopped" tells the truth: no process of the session runs
\* undisturbed, a child orphaned in its probe window excepted, and no Compose project the
\* session recorded is up.
StoppedIsDown ==
    \A s \in Sessions :
        sessionFile[s] # NoFile /\ sessionFile[s].status = "stopped" =>
            /\ \A p \in Pids :
                 os[p] = Ownership(s) => child[s] # NoRecord /\ child[s].pid = p
            /\ sessionFile[s].compose # "absent" => ~compose[s]

\* Every command ends, unless it is killed: no step waits for another command.
CommandsEnd == \A c \in Commands : pc[c] # "idle" ~> Finished(c)

=============================================================================
