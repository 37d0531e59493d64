------------------------------ MODULE RuntimeStore ------------------------------
(***************************************************************************)
(* The state the `board` commands share: the JSON files below the          *)
(* repository's runtime state root (state-store.ts), the operating         *)
(* system's process table, and the Compose projects.  Every command is a   *)
(* process of its own; nothing locks the files.  A file write is atomic    *)
(* (write a temporary file, rename it), a read-modify-write is not.        *)
(***************************************************************************)
EXTENDS Naturals, FiniteSets

CONSTANTS
    Sessions,   \* `board start` invocations; each creates the session it is named by
    Stops,      \* `board stop` invocations
    Apps,       \* applications of the contract within the process budget
    Pids,       \* process ids the operating system hands out
    Foreign,    \* owner of a process Board did not start
    NoSession, NoFile, NoRecord,
    PidReuse    \* BOOLEAN: may the id of an exited process be given out again?

Commands == Sessions \cup Stops

SessionStatus ==
    {"running", "succeeded", "failed", "interrupted", "timed_out", "stopped"}

HealthResults == {"succeeded", "timed_out", "failed"}

\* What the other commands can tell of a session file: its status, whether warnings and errors
\* were recorded, the process resource of each application, the Compose resource, whether some
\* port resource reads "failed", and the worst of the health checks.
SessionRecord ==
    [status     : SessionStatus,
     errors     : BOOLEAN,
     warnings   : BOOLEAN,
     apps       : [Apps -> {"absent", "running", "stopped"}],
     compose    : {"absent", "running", "failed", "stopped"},
     portFailed : BOOLEAN,
     health     : HealthResults]

ProcessRecord == [pid : Pids, session : Sessions, app : Apps]

ASSUME StoreAssumption ==
    /\ Sessions \cap Stops = {}
    /\ NoSession \notin Sessions
    /\ Foreign \notin Sessions \cup {NoSession}
    /\ NoFile \notin SessionRecord
    /\ NoRecord \notin ProcessRecord
    /\ PidReuse \in BOOLEAN

OsProcess ==
    [owner : Sessions \cup {Foreign, NoSession},
     state : {"free", "alive", "terminating", "exited"}]

VARIABLES
    sessionFile,  \* sessions/<id>.json
    latest,       \* latest.json
    processes,    \* processes.json
    os,           \* the process table
    compose,      \* are the containers of the session's Compose project up?
    pc,           \* where each command is between two of its awaits
    buf,          \* processes.json as read by a read-modify-write under way
    latestDue     \* the session whose pointer a session write still has to write

fileVars  == <<sessionFile, latest, processes>>
worldVars == <<os, compose>>
cmdVars   == <<pc, buf, latestDue>>

Goto(c, label) == pc' = [pc EXCEPT ![c] = label]

-----------------------------------------------------------------------------
(* The process table. *)

\* isProcessAlive: signal 0 reaches the pid, whoever owns it.
Alive(p) == os[p].state \in {"alive", "terminating"}

Available(p) == os[p].state = "free" \/ (PidReuse /\ os[p].state = "exited")

\* SIGKILL ends the process; SIGTERM only asks it to end.
Signalled(p, force) ==
    [os EXCEPT ![p].state = IF force THEN "exited" ELSE "terminating"]

\* A process Board started ends by itself, or obeys the SIGTERM it was sent.
ProcessExit(p) ==
    /\ Alive(p)
    /\ os[p].owner \in Sessions
    /\ os' = [os EXCEPT ![p].state = "exited"]
    /\ UNCHANGED <<fileVars, compose, cmdVars>>

\* The operating system gives the pid of an exited process to an unrelated one.
ForeignSpawn(p) ==
    /\ PidReuse
    /\ os[p].state = "exited"
    /\ os' = [os EXCEPT ![p] = [owner |-> Foreign, state |-> "alive"]]
    /\ UNCHANGED <<fileVars, compose, cmdVars>>

-----------------------------------------------------------------------------
(* The operations of the store. *)

\* A command is ready for its next step once the pointer write is behind it.
Ready(c) == latestDue[c] = NoSession

\* createSession and updateSession write the session file, then the pointer.
UpdateSession(c, s, record) ==
    /\ sessionFile' = [sessionFile EXCEPT ![s] = record]
    /\ latestDue' = [latestDue EXCEPT ![c] = s]

WriteLatest(c) ==
    /\ ~Ready(c)
    /\ latest' = latestDue[c]
    /\ latestDue' = [latestDue EXCEPT ![c] = NoSession]
    /\ UNCHANGED <<sessionFile, processes, worldVars, pc, buf>>

\* The read of registerProcess and of removeProcess.
ReadProcesses(c) == buf' = [buf EXCEPT ![c] = processes]

\* The write of registerProcess: what was read, and the new record.
Registered(content, record) == content \cup {record}

\* Bug: the records of processes that do not run go as well.
RemovedWithStale(content, pid) == {r \in content : r.pid # pid /\ Alive(r.pid)}

\* The write of removeProcess: what was read, without any record of the pid.
Removed(content, pid) == {r \in content : r.pid # pid}

StoreInit ==
    /\ sessionFile = [s \in Sessions |-> NoFile]
    /\ latest = NoSession
    /\ processes = {}
    /\ os = [p \in Pids |-> [owner |-> NoSession, state |-> "free"]]
    /\ compose = [s \in Sessions |-> FALSE]
    /\ pc = [c \in Commands |-> "idle"]
    /\ buf = [c \in Commands |-> {}]
    /\ latestDue = [c \in Commands |-> NoSession]

=============================================================================
