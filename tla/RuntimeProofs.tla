------------------------------ MODULE RuntimeProofs ------------------------------
(***************************************************************************)
(* Theorems about RuntimeLifecycle and RuntimeStatus, for any sets of      *)
(* commands, applications and pids: first what holds however commands      *)
(* interleave and wherever they are killed; then what holds as well if a   *)
(* command is only issued when no other is running (Serial), and a file    *)
(* write takes less time than the readiness probe (ProbeOutlastsWrites).   *)
(* That the session files and the records agree is proved where no pid is  *)
(* given out again; the rest of the second part, whichever are.            *)
(***************************************************************************)
EXTENDS RuntimeStatus, TLAPS

InSession == {"signal", "removeRead", "remove", "persist"}

\* What the commands rely on between two steps: a session being stopped was read from its
\* file, a victim and an unsettled child are process records, a startup has its file.
InHand ==
    /\ \A c \in Commands :
         /\ pc[c] \in InSession => cur[c] \in Sessions /\ targets[c][cur[c]] \in SessionRecord
         /\ pc[c] \in {"removeRead", "remove"} => victim[c] \in ProcessRecord
    /\ \A s \in Sessions :
         /\ pc[s] \in {"probe", "register"} => child[s] \in ProcessRecord
         /\ pc[s] # "idle" => sessionFile[s] \in SessionRecord

\* A pending pointer write names a session whose file was written.
PointersRecorded ==
    /\ \A c \in Commands :
         latestDue[c] # NoSession => sessionFile[latestDue[c]] \in SessionRecord
    /\ latest # NoSession => sessionFile[latest] \in SessionRecord

\* The process records that name a process of their session.
Owned == {r \in ProcessRecord : os[r.pid].owner = r.session}

\* Every copy of a process record, in the file or in the memory of a command, is owned, and
\* a pid never given out has no owner.
AllOwned ==
    /\ processes \subseteq Owned
    /\ \A c \in Commands : buf[c] \subseteq Owned /\ records[c] \subseteq Owned
    /\ \A s \in Sessions :
         /\ \A content \in late[s] : content \subseteq Owned
         /\ child[s] # NoRecord => child[s].session = s /\ child[s] \in Owned
    /\ \A p \in Pids : os[p].state = "free" => os[p].owner = NoSession

\* Neither the file of the session nor a stop's copy of it records an error.
Clean(s) ==
    /\ sessionFile[s] # NoFile => ~sessionFile[s].errors
    /\ \A c \in Commands : targets[c][s] # NoFile => ~targets[c][s].errors

\* A startup that may still spawn has recorded no error, and no stop can put one there.
CleanUntilErrors ==
    \A s \in Sessions :
        /\ pc[s] \in {"idle", "prerequisites", "environment", "compose"} => ~mem[s].errors
        /\ pc[s] \in {"idle", "prerequisites", "environment", "applications", "probe",
                       "register"} => Clean(s)
        /\ pc[s] \in {"ports", "setup", "compose", "composed"} /\ ~mem[s].errors => Clean(s)

LEMMA InitialTypes == Init => TypeOK /\ InHand
<1> SUFFICES ASSUME Init PROVE TypeOK /\ InHand
  OBVIOUS
<1> USE StoreAssumption DEF Init, StoreInit, StopInit, StartInit
<1>1. TypeOK
  BY DEF TypeOK, Labels, OsProcess, Request, NoRequest, NoTargets, NewSession,
         SessionRecord, SessionStatus, HealthResults, Commands
<1>2. InHand
  BY DEF InHand, InSession, Commands
<1> QED
  BY <1>1, <1>2

\* What a record says of the processes and containers of its session.
Alike(record, other) ==
    /\ record.status = other.status /\ record.errors = other.errors
    /\ record.apps = other.apps /\ record.compose = other.compose

\* A warning changes nothing else.
LEMMA WarnedIsAlike ==
  ASSUME NEW record \in SessionRecord, NEW kind, NEW warned \in Trouble(kind)
  PROVE  Warned(record, warned) \in SessionRecord /\ Alike(Warned(record, warned), record)
<1>1. warned \in BOOLEAN
  BY DEF Trouble
<1> QED
  BY <1>1 DEF Warned, Alike, SessionRecord

LEMMA CreatedTypes ==
  ASSUME NEW warned \in Trouble("warnings")
  PROVE  CreatedSession(warned) \in SessionRecord /\ Alike(CreatedSession(warned), NewSession)
<1>1. NewSession \in SessionRecord
  BY DEF NewSession, SessionRecord, SessionStatus, HealthResults
<1> QED
  BY <1>1, WarnedIsAlike DEF CreatedSession

\* A phase that observes leaves everything else as it is.
LEMMA ObservedIsAlike ==
  ASSUME TypeOK, NEW s \in Sessions, ObservingPhase(s)
  PROVE  \E record \in SessionRecord : Persist(s, record) /\ Alike(record, mem[s])
<1>1. mem[s] \in SessionRecord
  BY DEF TypeOK
<1>2. PICK record \in Observed(s) : Persist(s, record)
  BY DEF ObservingPhase
<1>3. CASE pc[s] = "prerequisites"
  <2>1. PICK warned \in Trouble("warnings") : record = Warned(mem[s], warned)
    BY <1>2, <1>3 DEF Observed
  <2> QED
    BY <1>1, <1>2, <2>1, WarnedIsAlike
<1>4. CASE pc[s] \in {"ports", "listening"}
  <2>1. PICK failed \in BOOLEAN : record = [mem[s] EXCEPT !.portFailed = failed]
    BY <1>2, <1>4 DEF Observed, Trouble
  <2>2. record \in SessionRecord /\ Alike(record, mem[s])
    BY <1>1, <2>1 DEF SessionRecord, Alike
  <2> QED
    BY <1>2, <2>2
<1>5. CASE pc[s] = "health"
  <2>1. PICK result \in HealthResults : record = [mem[s] EXCEPT !.health = result]
    BY <1>2, <1>5 DEF Observed, HealthResults
  <2>2. record \in SessionRecord /\ Alike(record, mem[s])
    BY <1>1, <2>1 DEF SessionRecord, Alike
  <2> QED
    BY <1>2, <2>2
<1> QED
  BY <1>3, <1>4, <1>5 DEF ObservingPhase

\* The record another phase leaves, with its errors.
PhaseRecord(s, record, errors) ==
    /\ Persist(s, record) /\ record.errors = errors /\ record.status = mem[s].status
    /\ record.apps = mem[s].apps

LEMMA EnvironmentRecord ==
  ASSUME TypeOK, NEW s \in Sessions, EnvironmentPhase(s)
  PROVE  \E record \in SessionRecord, missing \in BOOLEAN : PhaseRecord(s, record, missing)
<1>1. PICK missing \in BOOLEAN, warned \in Trouble("warnings") :
        Persist(s, Warned([mem[s] EXCEPT !.errors = missing], warned))
  BY DEF EnvironmentPhase
<1> DEFINE record == [mem[s] EXCEPT !.errors = missing]
<1>2. /\ record \in SessionRecord /\ record.errors = missing /\ record.status = mem[s].status
      /\ record.apps = mem[s].apps
  BY DEF TypeOK, SessionRecord
<1>3. Persist(s, Warned(record, warned))
  BY <1>1
<1> HIDE DEF record
<1> QED
  BY <1>2, <1>3, WarnedIsAlike DEF Alike, PhaseRecord

LEMMA SetupRecord ==
  ASSUME TypeOK, NEW s \in Sessions, SetupPhase(s)
  PROVE  \E record \in SessionRecord, errors \in BOOLEAN :
           /\ PhaseRecord(s, record, errors) /\ (mem[s].errors => errors)
           /\ Goto(s, AfterErrorsOr(errors, "compose"))
<1>1. PICK failed \in BOOLEAN, warned \in Trouble("warnings") :
        /\ Persist(s, Warned([mem[s] EXCEPT !.errors = mem[s].errors \/ failed], warned))
        /\ Goto(s, AfterErrorsOr(mem[s].errors \/ failed, "compose"))
  BY DEF SetupPhase
<1> DEFINE errors == mem[s].errors \/ failed
           record == [mem[s] EXCEPT !.errors = errors]
<1>2. errors \in BOOLEAN
  OBVIOUS
<1>3. /\ record \in SessionRecord /\ record.errors = errors /\ record.status = mem[s].status
      /\ record.apps = mem[s].apps
  BY <1>2 DEF TypeOK, SessionRecord
<1>4. Persist(s, Warned(record, warned)) /\ Goto(s, AfterErrorsOr(errors, "compose"))
  BY <1>1
<1>5. mem[s].errors => errors
  OBVIOUS
<1> HIDE DEF record, errors
<1>6. PhaseRecord(s, Warned(record, warned), errors) /\ Warned(record, warned) \in SessionRecord
  BY <1>3, <1>4, WarnedIsAlike DEF Alike, PhaseRecord
<1> QED
  BY <1>2, <1>4, <1>5, <1>6

LEMMA ApplicationsRecord ==
  ASSUME TypeOK, NEW s \in Sessions, ApplicationsPersist(s)
  PROVE  \E record \in SessionRecord : Persist(s, record) /\ Alike(record, mem[s])
<1>1. mem[s] \in SessionRecord
  BY DEF TypeOK
<1>2. PICK warned \in Trouble("warnings") : Persist(s, Warned(mem[s], warned))
  BY DEF ApplicationsPersist
<1> QED
  BY <1>1, <1>2, WarnedIsAlike

\* A signal changes the state of one process and the owner of none.
LEMMA SignalledProcess ==
  ASSUME TypeOK, NEW p \in Pids, NEW force \in BOOLEAN
  PROVE  /\ Signalled(p, force) \in [Pids -> OsProcess]
         /\ \A q \in Pids : Signalled(p, force)[q].owner = os[q].owner
         /\ \A q \in Pids : q # p => Signalled(p, force)[q] = os[q]
         /\ Signalled(p, force)[p].state # "free"
<1> DEFINE end == IF force THEN "exited" ELSE "terminating"
           ended == [os[p] EXCEPT !.state = end]
<1>1. os \in [Pids -> OsProcess] /\ os[p] \in OsProcess
  BY DEF TypeOK
<1>2. ended \in OsProcess /\ ended.owner = os[p].owner /\ ended.state # "free"
  <2>1. end \in {"exited", "terminating"}
    OBVIOUS
  <2> HIDE DEF end
  <2> QED
    BY <1>1, <2>1 DEF OsProcess
<1>3. Signalled(p, force) = [os EXCEPT ![p] = ended]
  BY DEF Signalled
<1> QED
  BY <1>1, <1>2, <1>3

LEMMA StoppedRecord ==
  ASSUME NEW record \in SessionRecord
  PROVE  StoppedSession(record) \in SessionRecord
<1> DEFINE end == IF record.compose = "failed" THEN "failed" ELSE "stopped"
<1>1. end \in SessionStatus
  BY DEF SessionStatus
<1> HIDE DEF end
<1>2. [record EXCEPT !.status = end] \in SessionRecord
  BY <1>1 DEF SessionRecord
<1> QED
  BY <1>2 DEF StoppedSession, end

LEMMA StopStepTypes ==
  ASSUME TypeOK, InHand, NEW c \in Commands, StopRuntime(c), UNCHANGED startVars
  PROVE  TypeOK' /\ InHand'
<1> USE StoreAssumption DEF startVars, fileVars, worldVars, Goto, Ready
<1>1. CASE StopList(c)
  <2>1. TypeOK'
    BY <1>1 DEF TypeOK, StopList, Labels
  <2>2. InHand'
    BY <1>1 DEF TypeOK, InHand, StopList, InSession, Commands
  <2> QED
    BY <2>1, <2>2
<1>2. CASE StopReadPointer(c)
  <2>1. TypeOK'
    BY <1>2 DEF TypeOK, StopReadPointer, Labels
  <2>2. InHand'
    BY <1>2 DEF TypeOK, InHand, StopReadPointer, InSession, Commands
  <2> QED
    BY <2>1, <2>2
<1>3. CASE StopSelect(c)
  <2>1. Selected(c) \in [Sessions -> SessionRecord \cup {NoFile}]
    BY DEF Selected, Restricted, TypeOK, Request
  <2>2. TypeOK'
    BY <1>3, <2>1 DEF TypeOK, StopSelect, Labels
  <2>3. InHand'
    BY <1>3 DEF TypeOK, InHand, StopSelect, InSession, Commands
  <2> QED
    BY <2>2, <2>3
<1>4. CASE StopReadRecords(c)
  <2>1. TypeOK'
    BY <1>4 DEF TypeOK, StopReadRecords, Labels
  <2>2. InHand'
    BY <1>4 DEF TypeOK, InHand, StopReadRecords, InSession, Commands
  <2> QED
    BY <2>1, <2>2
<1>5. CASE StopNextSession(c)
  <2>1. TypeOK'
    BY <1>5 DEF TypeOK, StopNextSession, Labels
  <2>2. InHand'
    BY <1>5 DEF TypeOK, InHand, StopNextSession, InSession, Commands
  <2> QED
    BY <2>1, <2>2
<1>6. CASE StopSignal(c)
  <2>1. PICK r \in SessionRecords(c) :
          /\ victim' = [victim EXCEPT ![c] = r]
          /\ os' = IF Alive(r.pid) THEN Signalled(r.pid, request[c].force) ELSE os
    BY <1>6 DEF StopSignal
  <2>2. r \in ProcessRecord
    BY DEF SessionRecords, TypeOK
  <2>3. os' \in [Pids -> OsProcess]
    <3>1. request[c].force \in BOOLEAN /\ r.pid \in Pids
      BY <2>2 DEF TypeOK, Request, ProcessRecord
    <3> QED
      BY <2>1, <3>1, SignalledProcess DEF TypeOK
  <2>4. TypeOK'
    BY <1>6, <2>1, <2>2, <2>3 DEF TypeOK, StopSignal, Labels
  <2>5. InHand'
    BY <1>6, <2>1, <2>2 DEF TypeOK, InHand, StopSignal, InSession, Commands
  <2> QED
    BY <2>4, <2>5
<1>7. CASE StopRemoveRead(c)
  <2>1. TypeOK'
    BY <1>7 DEF TypeOK, StopRemoveRead, ReadProcesses, stopVars, Labels
  <2>2. InHand'
    BY <1>7 DEF TypeOK, InHand, StopRemoveRead, ReadProcesses, stopVars, InSession, Commands
  <2> QED
    BY <2>1, <2>2
<1>8. CASE StopRemoveWrite(c)
  <2> DEFINE stoppedApp == [targets[c][cur[c]] EXCEPT !.apps[victim[c].app] = "stopped"]
  <2>1. cur[c] \in Sessions /\ targets[c][cur[c]] \in SessionRecord /\ victim[c] \in ProcessRecord
    BY <1>8 DEF InHand, StopRemoveWrite, InSession
  <2>2. stoppedApp \in SessionRecord
    BY <2>1 DEF SessionRecord, ProcessRecord
  <2>3. targets' = [targets EXCEPT ![c] = [targets[c] EXCEPT ![cur[c]] = stoppedApp]]
    BY <1>8 DEF StopRemoveWrite
  <2>4. Removed(buf[c], victim[c].pid) \in SUBSET ProcessRecord
    BY DEF Removed, TypeOK
  <2> HIDE DEF stoppedApp
  <2>5. targets' \in [Commands -> [Sessions -> SessionRecord \cup {NoFile}]]
    BY <2>1, <2>2, <2>3 DEF TypeOK
  <2>6. TypeOK'
    BY <1>8, <2>4, <2>5 DEF TypeOK, StopRemoveWrite, Labels
  <2>7. InHand'
    BY <1>8, <2>1, <2>2, <2>3 DEF TypeOK, InHand, StopRemoveWrite, InSession, Commands
  <2> QED
    BY <2>6, <2>7
<1>9. CASE StopCompose(c)
  <2> DEFINE composed(end) == [targets[c][cur[c]] EXCEPT !.compose = end]
  <2>1. cur[c] \in Sessions /\ targets[c][cur[c]] \in SessionRecord
    BY <1>9 DEF InHand, StopCompose, InSession
  <2>2. \A end \in {"stopped", "failed"} : composed(end) \in SessionRecord
    BY <2>1 DEF SessionRecord
  <2>3. \/ targets' = targets
        \/ \E end \in {"stopped", "failed"} :
             targets' = [targets EXCEPT ![c] = [targets[c] EXCEPT ![cur[c]] = composed(end)]]
    BY <1>9 DEF StopCompose
  <2>4. compose' \in [Sessions -> BOOLEAN]
    BY <1>9, <2>1 DEF StopCompose, TypeOK
  <2> HIDE DEF composed
  <2>5. /\ targets' \in [Commands -> [Sessions -> SessionRecord \cup {NoFile}]]
        /\ targets'[c][cur[c]] \in SessionRecord
        /\ \A d \in Commands : d # c => targets'[d] = targets[d]
    <3>1. CASE targets' = targets
      BY <2>1, <3>1 DEF TypeOK
    <3>2. CASE targets' # targets
      <4>1. PICK snapshot \in SessionRecord :
              targets' = [targets EXCEPT ![c] = [targets[c] EXCEPT ![cur[c]] = snapshot]]
        BY <2>2, <2>3, <3>2
      <4>2. [targets[c] EXCEPT ![cur[c]] = snapshot] \in [Sessions -> SessionRecord \cup {NoFile}]
        BY <2>1 DEF TypeOK
      <4> QED
        BY <2>1, <4>1, <4>2 DEF TypeOK
    <3> QED
      BY <3>1, <3>2
  <2>6. /\ pc' = [pc EXCEPT ![c] = "persist"]
        /\ UNCHANGED <<fileVars, os, buf, latestDue, request, records, cur, victim>>
    BY <1>9 DEF StopCompose
  <2>7. TypeOK'
    BY <2>4, <2>5, <2>6 DEF TypeOK, Labels
  <2>8. /\ pc[c] = "signal" /\ pc'[c] = "persist"
        /\ \A d \in Commands : d # c => pc'[d] = pc[d]
        /\ cur' = cur /\ victim' = victim /\ sessionFile' = sessionFile /\ child' = child
    BY <1>9, <2>6 DEF TypeOK, StopCompose
  <2>9. InHand'
    BY <2>1, <2>5, <2>8 DEF InHand, InSession, Commands
  <2> QED
    BY <2>7, <2>9
<1>10. CASE StopPersist(c)
  <2>1. cur[c] \in Sessions /\ targets[c][cur[c]] \in SessionRecord
    BY <1>10 DEF InHand, StopPersist, InSession
  <2>2. StoppedSession(targets[c][cur[c]]) \in SessionRecord
    BY <2>1, StoppedRecord
  <2>3. Remaining(c) \in [Sessions -> SessionRecord \cup {NoFile}]
    BY <2>1 DEF TypeOK, Remaining
  <2>4. PICK label \in {"stopped", "session"} : pc' = [pc EXCEPT ![c] = label]
    BY <1>10 DEF StopPersist
  <2>5. records' \in [Commands -> SUBSET ProcessRecord]
    BY <1>10 DEF StopPersist, TypeOK
  <2>6. /\ sessionFile' = [sessionFile EXCEPT ![cur[c]] = StoppedSession(targets[c][cur[c]])]
        /\ latestDue' = [latestDue EXCEPT ![c] = cur[c]]
        /\ targets' = [targets EXCEPT ![c] = Remaining(c)]
        /\ cur' = [cur EXCEPT ![c] = NoSession]
        /\ UNCHANGED <<latest, processes, worldVars, buf, request, victim>>
    BY <1>10 DEF StopPersist, UpdateSession
  <2>7. TypeOK'
    BY <2>1, <2>2, <2>3, <2>4, <2>5, <2>6 DEF TypeOK, Labels
  <2>8. \A s \in Sessions : sessionFile'[s] = sessionFile[s] \/ sessionFile'[s] \in SessionRecord
    BY <2>2, <2>6 DEF TypeOK
  <2>9. \A d \in Commands : d # c => /\ pc'[d] = pc[d]
                                     /\ cur'[d] = cur[d]
                                     /\ targets'[d] = targets[d]
    BY <2>4, <2>6 DEF TypeOK
  <2>10. pc'[c] = label /\ pc[c] # "idle"
    BY <1>10, <2>4 DEF StopPersist, TypeOK
  <2>11. child' = child /\ victim' = victim
    BY <2>6
  <2>12. InHand'
    BY <2>8, <2>9, <2>10, <2>11 DEF InHand, InSession, Commands
  <2> QED
    BY <2>7, <2>12
<1> QED
  BY <1>1, <1>2, <1>3, <1>4, <1>5, <1>6, <1>7, <1>8, <1>9, <1>10 DEF StopRuntime

Unhanded == Labels \ (InSession \cup {"idle", "probe", "register"})

\* A startup that persists its session and goes on to a label that holds nothing in hand.
LEMMA PersistTypes ==
  ASSUME TypeOK, InHand, NEW s \in Sessions, NEW record \in SessionRecord,
         NEW label \in Unhanded, Persist(s, record), Goto(s, label),
         request' \in [Commands -> Request],
         UNCHANGED <<latest, processes, worldVars, buf, targets, records, cur, victim,
                     todo, child, late>>
  PROVE  TypeOK' /\ InHand'
<1> USE StoreAssumption DEF worldVars
<1>1. /\ sessionFile' = [sessionFile EXCEPT ![s] = record]
      /\ latestDue' = [latestDue EXCEPT ![s] = s]
      /\ mem' = [mem EXCEPT ![s] = record]
      /\ pc' = [pc EXCEPT ![s] = label]
  BY DEF Persist, UpdateSession, Goto
<1>2. s \in Commands /\ label \in Labels
  BY DEF Commands, Unhanded
<1>3. TypeOK'
  BY <1>1, <1>2 DEF TypeOK
<1>4. /\ pc'[s] = label
      /\ \A d \in Commands : d # s => pc'[d] = pc[d]
      /\ sessionFile'[s] = record
      /\ \A t \in Sessions : t # s => sessionFile'[t] = sessionFile[t]
      /\ targets' = targets /\ cur' = cur /\ victim' = victim /\ child' = child
  BY <1>1, <1>2 DEF TypeOK
<1>5. label \notin InSession \cup {"probe", "register"}
  BY DEF Unhanded
<1>6. InHand'
  BY <1>4, <1>5 DEF InHand, Commands, InSession
<1> QED
  BY <1>3, <1>6

\* The steps that begin, persist, cut short or end a startup.
LEMMA PersistingStepTypes ==
  ASSUME TypeOK, InHand, NEW s \in Sessions,
         \/ CreateSession(s) \/ ObservingPhase(s) \/ EnvironmentPhase(s) \/ SetupPhase(s)
         \/ ComposePersist(s) \/ ApplicationsPersist(s) \/ RecordState(s) \/ CleanupPersist(s)
         \/ CutShort(s, "interrupted") \/ CutShort(s, "timed_out")
  PROVE  TypeOK' /\ InHand'
<1> USE StoreAssumption DEF stopVars
<1>1. mem[s] \in SessionRecord /\ request \in [Commands -> Request] /\ s \in Commands
  BY DEF TypeOK, Commands
<1>2. CASE CreateSession(s)
  <2>1. PICK warned \in Trouble("warnings") : Persist(s, CreatedSession(warned))
    BY <1>2 DEF CreateSession
  <2>2. "prerequisites" \in Unhanded
    BY DEF Unhanded, Labels, InSession
  <2> QED
    BY <1>1, <1>2, <2>1, <2>2, CreatedTypes, PersistTypes DEF CreateSession
<1>3. CASE ObservingPhase(s)
  <2>1. Following[pc[s]] \in Unhanded
    BY <1>3 DEF ObservingPhase, Following, Unhanded, Labels, InSession
  <2>2. PICK record \in SessionRecord : Persist(s, record)
    BY <1>3, ObservedIsAlike
  <2> QED
    BY <1>1, <1>3, <2>1, <2>2, PersistTypes DEF ObservingPhase
<1>4. CASE EnvironmentPhase(s)
  <2>1. PICK record \in SessionRecord : Persist(s, record)
    BY <1>4, EnvironmentRecord DEF PhaseRecord
  <2>2. Following["environment"] \in Unhanded
    BY DEF Following, Unhanded, Labels, InSession
  <2> QED
    BY <1>1, <1>4, <2>1, <2>2, PersistTypes DEF EnvironmentPhase
<1>5. CASE SetupPhase(s)
  <2>1. PICK record \in SessionRecord, errors \in BOOLEAN :
          Persist(s, record) /\ Goto(s, AfterErrorsOr(errors, "compose"))
    BY <1>5, SetupRecord DEF PhaseRecord
  <2>2. AfterErrorsOr(errors, "compose") \in Unhanded
    BY DEF AfterErrorsOr, Unhanded, Labels, InSession
  <2> QED
    BY <1>1, <1>5, <2>1, <2>2, PersistTypes DEF SetupPhase
<1>6. CASE ComposePersist(s)
  <2>1. AfterErrorsOr(mem[s].errors, "applications") \in Unhanded
    BY DEF AfterErrorsOr, Unhanded, Labels, InSession
  <2> QED
    BY <1>1, <1>6, <2>1, PersistTypes DEF ComposePersist
<1>7. CASE ApplicationsPersist(s)
  <2>1. "listening" \in Unhanded
    BY DEF Unhanded, Labels, InSession
  <2>2. PICK record \in SessionRecord : Persist(s, record)
    BY <1>7, ApplicationsRecord
  <2> QED
    BY <1>1, <1>7, <2>1, <2>2, PersistTypes DEF ApplicationsPersist
<1>8. CASE RecordState(s)
  <2>1. FinalStatus(mem[s]) \in SessionStatus
    BY DEF FinalStatus, SessionStatus
  <2>2. [mem[s] EXCEPT !.status = FinalStatus(mem[s])] \in SessionRecord
    BY <1>1, <2>1 DEF SessionRecord
  <2>3. "done" \in Unhanded
    BY DEF Unhanded, Labels, InSession
  <2> QED
    BY <1>1, <1>8, <2>2, <2>3, PersistTypes DEF RecordState
<1>9. CASE CleanupPersist(s)
  <2>1. [request EXCEPT ![s] = NoRequest] \in [Commands -> Request]
    BY <1>1 DEF NoRequest, Request
  <2>2. "done" \in Unhanded
    BY DEF Unhanded, Labels, InSession
  <2> QED
    BY <1>1, <1>9, <2>1, <2>2, PersistTypes DEF CleanupPersist
<1>10. ASSUME NEW status \in {"interrupted", "timed_out"}, CutShort(s, status)
       PROVE  TypeOK' /\ InHand'
  <2>1. [request EXCEPT ![s] = CleanupRequest(s)] \in [Commands -> Request]
    BY <1>1 DEF CleanupRequest, Request
  <2>2. [mem[s] EXCEPT !.status = status, !.errors = TRUE, !.warnings = TRUE] \in SessionRecord
    BY <1>1 DEF SessionRecord, SessionStatus
  <2>3. "list" \in Unhanded
    BY DEF Unhanded, Labels, InSession
  <2> QED
    BY <1>1, <1>10, <2>1, <2>2, <2>3, PersistTypes DEF CutShort
<1> QED
  BY <1>2, <1>3, <1>4, <1>5, <1>6, <1>7, <1>8, <1>9, <1>10

LEMMA StartStepTypes ==
  ASSUME TypeOK, InHand, NEW s \in Sessions, StartRuntime(s)
  PROVE  TypeOK' /\ InHand'
<1> USE StoreAssumption DEF stopVars, startVars, fileVars, worldVars, cmdVars, Goto
<1>1. mem[s] \in SessionRecord /\ s \in Commands
  BY DEF TypeOK, Commands
<1>2. CASE SkipCompose(s)
  <2>1. TypeOK'
    BY <1>1, <1>2 DEF SkipCompose, TypeOK, Labels
  <2>2. InHand'
    BY <1>1, <1>2 DEF SkipCompose, TypeOK, InHand, InSession, Commands
  <2> QED
    BY <2>1, <2>2
<1>3. CASE ComposeUp(s)
  <2>1. /\ [mem[s] EXCEPT !.compose = "running"] \in SessionRecord
        /\ [mem[s] EXCEPT !.compose = "failed", !.errors = TRUE] \in SessionRecord
    BY <1>1 DEF SessionRecord
  <2>2. PICK record \in SessionRecord : mem' = [mem EXCEPT ![s] = record]
    <3>1. \/ mem' = [mem EXCEPT ![s] = [mem[s] EXCEPT !.compose = "running"]]
          \/ mem' = [mem EXCEPT ![s] = [mem[s] EXCEPT !.compose = "failed", !.errors = TRUE]]
      BY <1>3 DEF ComposeUp
    <3> QED
      BY <2>1, <3>1
  <2>3. compose' \in [Sessions -> BOOLEAN]
    <3>1. compose' = compose \/ compose' = [compose EXCEPT ![s] = TRUE]
      BY <1>3 DEF ComposeUp
    <3>2. compose \in [Sessions -> BOOLEAN]
      BY DEF TypeOK
    <3> QED
      BY <3>1, <3>2
  <2>4. /\ pc' = [pc EXCEPT ![s] = "composed"] /\ pc[s] = "compose"
        /\ UNCHANGED <<fileVars, os, buf, latestDue, stopVars, todo, child, late>>
    BY <1>3 DEF ComposeUp
  <2>5. TypeOK'
    BY <1>1, <2>2, <2>3, <2>4 DEF TypeOK, Labels
  <2>6. InHand'
    BY <1>1, <2>4 DEF TypeOK, InHand, InSession, Commands
  <2> QED
    BY <2>5, <2>6
<1>4. CASE SpawnApplication(s)
  <2>1. PICK a \in todo[s], p \in Pids :
          /\ os' = [os EXCEPT ![p] = Ownership(s)]
          /\ child' = [child EXCEPT ![s] = [pid |-> p, session |-> s, app |-> a]]
          /\ todo' = [todo EXCEPT ![s] = @ \ {a}]
    BY <1>4 DEF SpawnApplication
  <2>2. [pid |-> p, session |-> s, app |-> a] \in ProcessRecord
    BY DEF ProcessRecord, TypeOK
  <2>3. Ownership(s) \in OsProcess
    BY DEF Ownership, OsProcess
  <2>4. /\ pc' = [pc EXCEPT ![s] = "probe"] /\ pc[s] = "applications"
        /\ UNCHANGED <<fileVars, compose, buf, latestDue, stopVars, mem, late>>
    BY <1>4 DEF SpawnApplication
  <2>5. TypeOK'
    BY <1>1, <2>1, <2>2, <2>3, <2>4 DEF TypeOK, Labels
  <2>6. InHand'
    BY <1>1, <2>1, <2>2, <2>4 DEF TypeOK, InHand, InSession, Commands
  <2> QED
    BY <2>5, <2>6
<1>5. CASE SpawnError(s)
  <2>1. [mem[s] EXCEPT !.errors = TRUE] \in SessionRecord
    BY <1>1 DEF SessionRecord
  <2>2. mem' = [mem EXCEPT ![s] = [mem[s] EXCEPT !.errors = TRUE]]
    BY <1>5 DEF SpawnError
  <2>3. todo' \in [Sessions -> SUBSET Apps]
    BY <1>5 DEF SpawnError, TypeOK
  <2>4. UNCHANGED <<fileVars, worldVars, cmdVars, stopVars, child, late>>
    BY <1>5 DEF SpawnError
  <2>5. TypeOK'
    BY <2>1, <2>2, <2>3, <2>4 DEF TypeOK
  <2>6. InHand'
    BY <2>4 DEF InHand
  <2> QED
    BY <2>5, <2>6
<1>6. CASE ProbeElapsed(s)
  <2>1. TypeOK'
    BY <1>1, <1>6 DEF ProbeElapsed, ReadProcesses, TypeOK, Labels
  <2>2. InHand'
    BY <1>1, <1>6 DEF ProbeElapsed, ReadProcesses, TypeOK, InHand, InSession, Commands
  <2> QED
    BY <2>1, <2>2
<1>7. CASE RegisterWrite(s)
  <2>1. child[s] \in ProcessRecord /\ pc[s] = "register"
    BY <1>7 DEF RegisterWrite, InHand
  <2>2. AfterRegistration(s) \in SUBSET ProcessRecord
    BY <1>1, <2>1 DEF AfterRegistration, Registered, TypeOK
  <2> DEFINE apps == [mem[s].apps EXCEPT ![child[s].app] = "running"]
  <2>3. [mem[s] EXCEPT !.apps = apps] \in SessionRecord
    <3>1. apps \in [Apps -> {"absent", "running", "stopped"}]
      BY <1>1, <2>1 DEF SessionRecord, ProcessRecord
    <3> HIDE DEF apps
    <3> QED
      BY <1>1, <3>1 DEF SessionRecord
  <2>4. mem' = [mem EXCEPT ![s] = [mem[s] EXCEPT !.apps = apps]]
    BY <1>7 DEF RegisterWrite
  <2> HIDE DEF apps
  <2>5. /\ pc' = [pc EXCEPT ![s] = "applications"]
        /\ processes' = AfterRegistration(s)
        /\ child' = [child EXCEPT ![s] = NoRecord]
        /\ buf' = [buf EXCEPT ![s] = {}]
        /\ UNCHANGED <<sessionFile, latest, worldVars, latestDue, stopVars, todo, late>>
    BY <1>7 DEF RegisterWrite
  <2>6. TypeOK'
    BY <1>1, <2>2, <2>3, <2>4, <2>5 DEF TypeOK, Labels
  <2>7. InHand'
    BY <1>1, <2>1, <2>5 DEF TypeOK, InHand, InSession, Commands
  <2> QED
    BY <2>6, <2>7
<1>8. CASE ChildExits(s)
  <2>1. child[s] \in ProcessRecord /\ pc[s] \in {"probe", "register"}
    BY <1>8 DEF ChildExits, InHand
  <2>2. AfterRegistration(s) \in SUBSET ProcessRecord
    BY <1>1, <2>1 DEF AfterRegistration, Registered, TypeOK
  <2>3. late' \in [Sessions -> SUBSET SUBSET ProcessRecord]
    <3>1. CASE pc[s] = "register"
      BY <1>8, <2>2, <3>1 DEF ChildExits, TypeOK
    <3>2. CASE pc[s] # "register"
      BY <1>8, <3>2 DEF ChildExits, TypeOK
    <3> QED
      BY <3>1, <3>2
  <2>4. [mem[s] EXCEPT !.errors = TRUE] \in SessionRecord
    BY <1>1 DEF SessionRecord
  <2>5. /\ mem' = [mem EXCEPT ![s] = [mem[s] EXCEPT !.errors = TRUE]]
        /\ pc' = [pc EXCEPT ![s] = "applications"]
        /\ child' = [child EXCEPT ![s] = NoRecord]
        /\ buf' = [buf EXCEPT ![s] = {}]
        /\ UNCHANGED <<fileVars, worldVars, latestDue, stopVars, todo>>
    BY <1>8 DEF ChildExits
  <2>6. TypeOK'
    BY <1>1, <2>3, <2>4, <2>5 DEF TypeOK, Labels
  <2>7. InHand'
    BY <1>1, <2>1, <2>5 DEF TypeOK, InHand, InSession, Commands
  <2> QED
    BY <2>6, <2>7
<1>9. CASE LateWrite(s)
  <2>1. TypeOK'
    BY <1>1, <1>9 DEF LateWrite, TypeOK
  <2>2. InHand'
    BY <1>9 DEF LateWrite, InHand
  <2> QED
    BY <2>1, <2>2
<1>10. CASE CleanupRead(s)
  <2>1. pc[s] = "stopped" /\ sessionFile[s] \in SessionRecord
    BY <1>10 DEF CleanupRead, InHand
  <2>2. [sessionFile[s] EXCEPT !.status = mem[s].status, !.errors = TRUE, !.warnings = TRUE] \in SessionRecord
    BY <1>1, <2>1 DEF SessionRecord
  <2>3. /\ mem' = [mem EXCEPT ![s] = [sessionFile[s] EXCEPT !.status = mem[s].status,
                                                            !.errors = TRUE, !.warnings = TRUE]]
        /\ pc' = [pc EXCEPT ![s] = "cleaned"]
        /\ UNCHANGED <<fileVars, worldVars, buf, latestDue, stopVars, todo, child, late>>
    BY <1>10 DEF CleanupRead
  <2>4. TypeOK'
    BY <1>1, <2>2, <2>3 DEF TypeOK, Labels
  <2>5. InHand'
    BY <1>1, <2>1, <2>3 DEF TypeOK, InHand, InSession, Commands
  <2> QED
    BY <2>4, <2>5
<1> QED
  BY <1>2, <1>3, <1>4, <1>5, <1>6, <1>7, <1>8, <1>9, <1>10, PersistingStepTypes
     DEF StartRuntime

\* Beginning and ending a stop, the pointer write, a crash and the world around.
LEMMA OtherStepTypes ==
  ASSUME TypeOK, InHand,
         \/ \E c \in Stops : BeginStop(c) \/ EndStop(c)
         \/ \E c \in Commands :
              Crash(c) \/ (WriteLatest(c) /\ UNCHANGED <<stopVars, startVars>>)
         \/ World
         \/ UNCHANGED vars
  PROVE  TypeOK' /\ InHand'
<1> USE StoreAssumption DEF stopVars, startVars, fileVars, worldVars, cmdVars, Goto, Ready
<1>1. ASSUME NEW c \in Stops, BeginStop(c)
      PROVE  TypeOK' /\ InHand'
  <2>1. c \in Commands /\ c \notin Sessions
    BY DEF Commands
  <2>2. TypeOK'
    BY <1>1, <2>1 DEF BeginStop, TypeOK, Labels, Requests, Request
  <2>3. InHand'
    BY <1>1, <2>1 DEF BeginStop, TypeOK, InHand, InSession, Commands
  <2> QED
    BY <2>2, <2>3
<1>2. ASSUME NEW c \in Stops, EndStop(c)
      PROVE  TypeOK' /\ InHand'
  <2>1. c \in Commands /\ c \notin Sessions
    BY DEF Commands
  <2>2. TypeOK'
    BY <1>2, <2>1 DEF EndStop, TypeOK, Labels, NoRequest, Request
  <2>3. InHand'
    BY <1>2, <2>1 DEF EndStop, TypeOK, InHand, InSession, Commands
  <2> QED
    BY <2>2, <2>3
<1>3. ASSUME NEW c \in Commands, Crash(c)
      PROVE  TypeOK' /\ InHand'
  <2>1. /\ NoRequest \in Request
        /\ NoTargets \in [Sessions -> SessionRecord \cup {NoFile}]
        /\ NewSession \in SessionRecord
    BY DEF NoRequest, Request, NoTargets, NewSession, SessionRecord, SessionStatus, HealthResults
  <2>2. pc' = [pc EXCEPT ![c] = "crashed"] /\ pc[c] # "idle"
    BY <1>3 DEF Crash
  <2>3. /\ latestDue' = [d \in Commands |-> IF d = c THEN NoSession ELSE latestDue[d]]
        /\ buf' = [d \in Commands |-> IF d = c THEN {} ELSE buf[d]]
        /\ request' = [d \in Commands |-> IF d = c THEN NoRequest ELSE request[d]]
        /\ targets' = [d \in Commands |-> IF d = c THEN NoTargets ELSE targets[d]]
        /\ records' = [d \in Commands |-> IF d = c THEN {} ELSE records[d]]
        /\ cur' = [d \in Commands |-> IF d = c THEN NoSession ELSE cur[d]]
        /\ victim' = [d \in Commands |-> IF d = c THEN NoRecord ELSE victim[d]]
    BY <1>3 DEF Crash, Forgotten, TypeOK
  <2>4. /\ mem' = [s \in Sessions |-> IF s = c THEN NewSession ELSE mem[s]]
        /\ todo' = [s \in Sessions |-> IF s = c THEN Apps ELSE todo[s]]
        /\ late' = [s \in Sessions |-> IF s = c THEN {} ELSE late[s]]
        /\ UNCHANGED <<fileVars, worldVars, child>>
    BY <1>3 DEF Crash, Forgotten, TypeOK
  <2>5. TypeOK'
    BY <2>1, <2>2, <2>3, <2>4 DEF TypeOK, Labels
  <2>6. InHand'
    BY <2>2, <2>3, <2>4 DEF TypeOK, InHand, InSession, Commands
  <2> QED
    BY <2>5, <2>6
<1>4. ASSUME NEW c \in Commands, WriteLatest(c), UNCHANGED <<stopVars, startVars>>
      PROVE  TypeOK' /\ InHand'
  <2>1. TypeOK'
    BY <1>4 DEF WriteLatest, TypeOK
  <2>2. InHand'
    BY <1>4 DEF WriteLatest, TypeOK, InHand
  <2> QED
    BY <2>1, <2>2
<1>5. ASSUME World
      PROVE  TypeOK' /\ InHand'
  <2>1. PICK p \in Pids : ProcessExit(p) \/ ForeignSpawn(p)
    BY <1>5 DEF World
  <2>2. os' \in [Pids -> OsProcess]
    <3>1. CASE ProcessExit(p)
      <4>1. [os[p] EXCEPT !.state = "exited"] \in OsProcess
        <5>1. os[p] \in OsProcess
          BY DEF TypeOK
        <5> QED
          BY <5>1 DEF OsProcess
      <4>2. os' = [os EXCEPT ![p] = [os[p] EXCEPT !.state = "exited"]]
        BY <3>1 DEF ProcessExit
      <4> QED
        BY <4>1, <4>2 DEF TypeOK
    <3>2. CASE ForeignSpawn(p)
      <4>1. [owner |-> Foreign, state |-> "alive"] \in OsProcess
        BY DEF OsProcess
      <4> QED
        BY <3>2, <4>1 DEF ForeignSpawn, TypeOK
    <3> QED
      BY <2>1, <3>1, <3>2
  <2>3. UNCHANGED <<fileVars, compose, cmdVars, stopVars, startVars>>
    BY <1>5, <2>1 DEF World, ProcessExit, ForeignSpawn
  <2>4. TypeOK'
    BY <2>2, <2>3 DEF TypeOK
  <2>5. InHand'
    BY <2>3 DEF InHand
  <2> QED
    BY <2>4, <2>5
<1>6. CASE UNCHANGED vars
  <2>1. TypeOK'
    BY <1>6 DEF TypeOK, vars
  <2>2. InHand'
    BY <1>6 DEF InHand, vars
  <2> QED
    BY <2>1, <2>2
<1> QED
  BY <1>1, <1>2, <1>3, <1>4, <1>5, <1>6

LEMMA StepTypes == TypeOK /\ InHand /\ [Next]_vars => TypeOK' /\ InHand'
<1> SUFFICES ASSUME TypeOK, InHand, [Next]_vars
             PROVE  TypeOK' /\ InHand'
  OBVIOUS
<1>1. ASSUME NEW s \in Sessions,
             BeginStart(s) \/ CutShort(s, "interrupted") \/ CutShort(s, "timed_out")
      PROVE  TypeOK' /\ InHand'
  BY <1>1, PersistingStepTypes DEF BeginStart
<1>2. ASSUME NEW c \in Commands, Progress(c)
      PROVE  TypeOK' /\ InHand'
  BY <1>2, OtherStepTypes, StopStepTypes, StartStepTypes DEF Progress
<1>3. CASE World \/ UNCHANGED vars
  BY <1>3, OtherStepTypes
<1>4. ASSUME NEW c \in Commands, (c \in Stops /\ BeginStop(c)) \/ Crash(c)
      PROVE  TypeOK' /\ InHand'
  BY <1>4, OtherStepTypes
<1> QED
  BY <1>1, <1>2, <1>3, <1>4 DEF Next, Commands

LEMMA TypesInvariant == Spec => [](TypeOK /\ InHand)
<1>1. Init => TypeOK /\ InHand
  BY InitialTypes
<1>2. TypeOK /\ InHand /\ [Next]_vars => TypeOK' /\ InHand'
  BY StepTypes
<1> QED
  BY <1>1, <1>2, PTL DEF Spec

\* The files keep their shape, and so does the memory of every command: no command
\* updates a session, or settles a child, that it does not hold (RuntimeStop, RuntimeStart).
THEOREM TypeCorrect == Spec => []TypeOK
BY TypesInvariant, PTL

\* What a step does to the session files and the pointer.
PointerStep ==
    \/ UNCHANGED <<sessionFile, latest, latestDue>>
    \/ \E c \in Commands :
         /\ latestDue' = [latestDue EXCEPT ![c] = NoSession]
         /\ latest' \in {latest, latestDue[c]}
         /\ UNCHANGED sessionFile
    \/ \E c \in Commands, s \in Sessions, record \in SessionRecord :
         UpdateSession(c, s, record) /\ UNCHANGED latest

LEMMA StartPointerStep ==
  ASSUME TypeOK, InHand, NEW s \in Sessions,
         \/ StartRuntime(s) \/ CreateSession(s)
         \/ CutShort(s, "interrupted") \/ CutShort(s, "timed_out")
  PROVE  PointerStep
<1> USE DEF fileVars, cmdVars
<1>1. CASE \E record : Persist(s, record) /\ UNCHANGED latest
  <2>1. PICK record : Persist(s, record) /\ UNCHANGED latest
    BY <1>1
  <2>2. s \in Commands /\ sessionFile'[s] = record
    BY <2>1 DEF Persist, UpdateSession, TypeOK, Commands
  <2>3. mem'[s] = record /\ mem'[s] \in SessionRecord
    <3>1. TypeOK'
      BY StartStepTypes, PersistingStepTypes
    <3> QED
      BY <2>1, <3>1 DEF TypeOK, Persist
  <2> QED
    BY <2>1, <2>2, <2>3 DEF PointerStep, Persist
<1>2. CASE UNCHANGED <<sessionFile, latest, latestDue>>
  BY <1>2 DEF PointerStep
<1>3. ASSUME \/ CreateSession(s) \/ ObservingPhase(s) \/ EnvironmentPhase(s) \/ SetupPhase(s)
             \/ ComposePersist(s) \/ ApplicationsPersist(s) \/ RecordState(s)
             \/ CleanupPersist(s) \/ CutShort(s, "interrupted") \/ CutShort(s, "timed_out")
      PROVE  \E record : Persist(s, record) /\ UNCHANGED latest
  BY <1>3 DEF CreateSession, ObservingPhase, EnvironmentPhase, SetupPhase, ComposePersist,
              ApplicationsPersist, RecordState, CleanupPersist, CutShort
<1>4. ASSUME \/ SkipCompose(s) \/ ComposeUp(s) \/ SpawnApplication(s) \/ SpawnError(s)
             \/ ProbeElapsed(s) \/ RegisterWrite(s) \/ ChildExits(s) \/ LateWrite(s)
             \/ CleanupRead(s)
      PROVE  UNCHANGED <<sessionFile, latest, latestDue>>
  BY <1>4 DEF SkipCompose, ComposeUp, SpawnApplication, SpawnError, ProbeElapsed,
              RegisterWrite, ChildExits, LateWrite, CleanupRead
<1> QED
  BY <1>1, <1>2, <1>3, <1>4 DEF StartRuntime

LEMMA StopPointerStep ==
  ASSUME TypeOK, InHand, NEW c \in Commands, StopRuntime(c)
  PROVE  PointerStep
<1> USE DEF fileVars, cmdVars
<1>1. CASE StopPersist(c)
  <2>1. cur[c] \in Sessions /\ StoppedSession(targets[c][cur[c]]) \in SessionRecord
    BY <1>1, StoppedRecord DEF StopPersist, InHand, InSession
  <2> QED
    BY <1>1, <2>1 DEF StopPersist, PointerStep
<1>2. ASSUME \/ StopList(c) \/ StopReadPointer(c) \/ StopSelect(c) \/ StopReadRecords(c)
             \/ StopNextSession(c) \/ StopSignal(c) \/ StopRemoveRead(c)
             \/ StopRemoveWrite(c) \/ StopCompose(c)
      PROVE  PointerStep
  BY <1>2 DEF StopList, StopReadPointer, StopSelect, StopReadRecords, StopNextSession,
              StopSignal, StopRemoveRead, StopRemoveWrite, StopCompose, PointerStep
<1> QED
  BY <1>1, <1>2 DEF StopRuntime

LEMMA EveryPointerStep == TypeOK /\ InHand /\ [Next]_vars => PointerStep
<1> SUFFICES ASSUME TypeOK, InHand, [Next]_vars
             PROVE  PointerStep
  OBVIOUS
<1> USE DEF fileVars, cmdVars
<1>1. ASSUME NEW s \in Sessions,
             BeginStart(s) \/ CutShort(s, "interrupted") \/ CutShort(s, "timed_out")
      PROVE  PointerStep
  BY <1>1, StartPointerStep DEF BeginStart
<1>2. ASSUME NEW c \in Stops, BeginStop(c) \/ EndStop(c)
      PROVE  PointerStep
  BY <1>2 DEF BeginStop, EndStop, PointerStep
<1>3. ASSUME NEW c \in Commands, Crash(c)
      PROVE  PointerStep
  <2>1. latestDue' = [latestDue EXCEPT ![c] = NoSession]
    BY <1>3 DEF Crash, Forgotten, TypeOK
  <2> QED
    BY <1>3, <2>1 DEF Crash, PointerStep
<1>4. ASSUME NEW c \in Commands, WriteLatest(c)
      PROVE  PointerStep
  BY <1>4 DEF WriteLatest, PointerStep
<1>5. CASE World \/ UNCHANGED vars
  BY <1>5 DEF World, ProcessExit, ForeignSpawn, vars, PointerStep
<1> QED
  BY <1>1, <1>2, <1>3, <1>4, <1>5, StartPointerStep, StopPointerStep DEF Next, Progress, Commands

LEMMA PointersStep ==
  ASSUME TypeOK, PointersRecorded, PointerStep
  PROVE  PointersRecorded'
<1> USE StoreAssumption
<1>1. CASE UNCHANGED <<sessionFile, latest, latestDue>>
  BY <1>1 DEF PointersRecorded
<1>2. ASSUME NEW c \in Commands,
             latestDue' = [latestDue EXCEPT ![c] = NoSession],
             latest' \in {latest, latestDue[c]},
             UNCHANGED sessionFile
      PROVE  PointersRecorded'
  BY <1>2 DEF PointersRecorded, TypeOK
<1>3. ASSUME NEW c \in Commands, NEW s \in Sessions, NEW record \in SessionRecord,
             UpdateSession(c, s, record), UNCHANGED latest
      PROVE  PointersRecorded'
  BY <1>3 DEF PointersRecorded, UpdateSession, TypeOK
<1> QED
  BY <1>1, <1>2, <1>3 DEF PointerStep

\* Whatever is killed when, latest.json never dangles: updateSession writes the session file
\* before the pointer (state-store.ts), and no command removes a session file.
THEOREM LatestAlwaysRecorded == Spec => []LatestIsRecorded
<1>1. Init => PointersRecorded
  BY DEF Init, StoreInit, PointersRecorded
<1>2. PointersRecorded /\ TypeOK /\ InHand /\ [Next]_vars => PointersRecorded'
  BY EveryPointerStep, PointersStep
<1>3. PointersRecorded => LatestIsRecorded
  BY StoreAssumption DEF PointersRecorded, LatestIsRecorded
<1> QED
  BY <1>1, <1>2, <1>3, TypesInvariant, PTL DEF Spec

\* Only a signal, a spawn and the world around change the process table.
LEMMA TableChanges ==
  ASSUME [Next]_vars
  PROVE  \/ UNCHANGED os
         \/ World
         \/ \E c \in Commands : StopSignal(c)
         \/ \E s \in Sessions : SpawnApplication(s)
<1> USE DEF fileVars, worldVars, cmdVars, vars
<1>1. ASSUME NEW s \in Sessions, StartRuntime(s)
      PROVE  UNCHANGED os \/ SpawnApplication(s)
  BY <1>1 DEF StartRuntime, ObservingPhase, EnvironmentPhase, SetupPhase, SkipCompose,
     ComposeUp, ComposePersist, SpawnError, ProbeElapsed, RegisterWrite, ChildExits,
     LateWrite, ApplicationsPersist, RecordState, CleanupRead, CleanupPersist
<1>2. ASSUME NEW c \in Commands, StopRuntime(c)
      PROVE  UNCHANGED os \/ StopSignal(c)
  BY <1>2 DEF StopRuntime, StopList, StopReadPointer, StopSelect, StopReadRecords,
     StopNextSession, StopRemoveRead, StopRemoveWrite, StopCompose, StopPersist
<1>3. ASSUME \/ \E s \in Sessions : BeginStart(s)
             \/ \E s \in Sessions : CutShort(s, "interrupted") \/ CutShort(s, "timed_out")
             \/ \E c \in Stops : BeginStop(c) \/ EndStop(c)
             \/ \E c \in Commands : Crash(c) \/ WriteLatest(c)
             \/ UNCHANGED vars
      PROVE  UNCHANGED os
  BY <1>3 DEF BeginStart, CreateSession, CutShort, BeginStop, EndStop, Crash, WriteLatest
<1> QED
  BY <1>1, <1>2, <1>3 DEF Next, Progress

\* Without pid reuse a process keeps its owner for good, and a pid only gets one when it is
\* given out.
LEMMA OwnersKept ==
  ASSUME TypeOK, AllOwned, PidReuse = FALSE, [Next]_vars
  PROVE  /\ Owned \subseteq Owned'
         /\ \A p \in Pids : os'[p].state = "free" => os'[p].owner = NoSession
<1> USE StoreAssumption
<1>1. CASE UNCHANGED os
  BY <1>1 DEF AllOwned, Owned
<1>2. ASSUME NEW p \in Pids, ProcessExit(p) \/ ForeignSpawn(p)
      PROVE  /\ Owned \subseteq Owned'
             /\ \A q \in Pids : os'[q].state = "free" => os'[q].owner = NoSession
  <2>1. os[p] \in OsProcess /\ os' = [os EXCEPT ![p] = [os[p] EXCEPT !.state = "exited"]]
    BY <1>2 DEF ProcessExit, ForeignSpawn, TypeOK
  <2>2. /\ \A q \in Pids : os'[q].owner = os[q].owner
        /\ \A q \in Pids : os'[q].state = "free" => os[q].state = "free"
    BY <2>1 DEF TypeOK, OsProcess
  <2> QED
    BY <2>2 DEF AllOwned, Owned, ProcessRecord
<1>3. ASSUME NEW c \in Commands, StopSignal(c)
      PROVE  /\ Owned \subseteq Owned'
             /\ \A q \in Pids : os'[q].state = "free" => os'[q].owner = NoSession
  <2>1. PICK r \in SessionRecords(c) :
          os' = IF Alive(r.pid) THEN Signalled(r.pid, request[c].force) ELSE os
    BY <1>3 DEF StopSignal
  <2>2. request[c].force \in BOOLEAN /\ r.pid \in Pids
    BY DEF TypeOK, Request, SessionRecords, ProcessRecord
  <2>3. /\ \A q \in Pids : os'[q].owner = os[q].owner
        /\ \A q \in Pids : os'[q].state = "free" => os[q].state = "free"
    BY <2>1, <2>2, SignalledProcess
  <2> QED
    BY <2>3 DEF AllOwned, Owned, ProcessRecord
<1>4. ASSUME NEW s \in Sessions, SpawnApplication(s)
      PROVE  /\ Owned \subseteq Owned'
             /\ \A q \in Pids : os'[q].state = "free" => os'[q].owner = NoSession
  <2>1. PICK p \in Pids : Available(p) /\ os' = [os EXCEPT ![p] = Ownership(s)]
    BY <1>4 DEF SpawnApplication
  <2>2. os[p].owner = NoSession
    BY <2>1 DEF Available, AllOwned
  <2>3. \A r \in Owned : r.pid \in Pids /\ r.pid # p
    BY <2>2 DEF Owned, ProcessRecord
  <2> QED
    BY <2>1, <2>3 DEF AllOwned, Owned, Ownership, TypeOK
<1> QED
  BY <1>1, <1>2, <1>3, <1>4, TableChanges DEF World

copies == <<processes, buf, records, child, late>>

\* The copies of process records that a command passes on are copies of owned records.
LEMMA CopiesOwned ==
  ASSUME TypeOK, InHand, AllOwned, [Next]_vars, Owned \subseteq Owned',
         \A p \in Pids : os'[p].state = "free" => os'[p].owner = NoSession
  PROVE  AllOwned'
<1> USE StoreAssumption DEF fileVars, worldVars, cmdVars, stopVars, startVars
<1>1. CASE UNCHANGED copies
  BY <1>1 DEF copies, AllOwned
<1>2. ASSUME NEW c \in Commands, StopReadRecords(c) \/ StopPersist(c), UNCHANGED startVars
      PROVE  AllOwned'
  <2>1. records' \in {records, [records EXCEPT ![c] = processes], [records EXCEPT ![c] = {}]}
    BY <1>2 DEF StopReadRecords, StopPersist
  <2>2. UNCHANGED <<processes, buf, child, late>>
    BY <1>2 DEF StopReadRecords, StopPersist
  <2>3. \A d \in Commands : records'[d] \in {records[d], processes, {}}
    BY <2>1 DEF TypeOK
  <2>4. \A d \in Commands : records'[d] \subseteq Owned
    BY <2>3 DEF AllOwned
  <2> QED
    BY <2>2, <2>4 DEF AllOwned
<1>3. ASSUME NEW c \in Commands, ReadProcesses(c), UNCHANGED <<processes, records, child, late>>
      PROVE  AllOwned'
  BY <1>3 DEF ReadProcesses, AllOwned, TypeOK
<1>4. ASSUME NEW c \in Commands, StopSignal(c)
      PROVE  UNCHANGED <<processes, buf, records>>
  BY <1>4 DEF StopSignal
<1>5. ASSUME NEW c \in Commands, StopRemoveWrite(c), UNCHANGED startVars
      PROVE  AllOwned'
  <2>1. /\ processes' \subseteq buf[c]
        /\ records' = [records EXCEPT ![c] = records[c] \ {victim[c]}]
        /\ buf' = [buf EXCEPT ![c] = {}]
        /\ UNCHANGED <<child, late>>
    BY <1>5 DEF StopRemoveWrite, Removed
  <2> QED
    BY <2>1 DEF AllOwned, TypeOK
<1>6. ASSUME NEW s \in Sessions, SpawnApplication(s)
      PROVE  AllOwned'
  <2>1. PICK a \in todo[s], p \in Pids :
          /\ os' = [os EXCEPT ![p] = Ownership(s)]
          /\ child' = [child EXCEPT ![s] = [pid |-> p, session |-> s, app |-> a]]
    BY <1>6 DEF SpawnApplication
  <2>2. [pid |-> p, session |-> s, app |-> a] \in Owned'
    BY <2>1 DEF TypeOK, Owned, Ownership, ProcessRecord
  <2>3. UNCHANGED <<processes, buf, records, late>>
    BY <1>6 DEF SpawnApplication
  <2> QED
    BY <2>1, <2>2, <2>3 DEF AllOwned, TypeOK
<1>7. ASSUME NEW s \in Sessions, RegisterWrite(s)
      PROVE  AllOwned'
  <2>1. s \in Commands /\ child[s] # NoRecord
    BY <1>7 DEF RegisterWrite, InHand, Commands
  <2>2. /\ processes' = buf[s] \cup {child[s]}
        /\ child' = [child EXCEPT ![s] = NoRecord]
        /\ buf' = [buf EXCEPT ![s] = {}]
        /\ UNCHANGED <<records, late>>
    BY <1>7 DEF RegisterWrite, AfterRegistration, Registered
  <2> QED
    BY <2>1, <2>2 DEF AllOwned, TypeOK
<1>8. ASSUME NEW s \in Sessions, ChildExits(s)
      PROVE  AllOwned'
  <2>1. s \in Commands /\ child[s] # NoRecord
    BY <1>8 DEF ChildExits, InHand, Commands
  <2>2. buf[s] \cup {child[s]} \subseteq Owned
    BY <2>1 DEF AllOwned
  <2>3. \A t \in Sessions : \A content \in late'[t] : content \subseteq Owned
    <3>1. \/ late' = late
          \/ late' = [late EXCEPT ![s] = late[s] \cup {buf[s] \cup {child[s]}}]
      BY <1>8 DEF ChildExits, AfterRegistration, Registered
    <3>2. \A t \in Sessions : \A content \in late'[t] :
            content \in late[t] \/ content = buf[s] \cup {child[s]}
      <4>1. late \in [Sessions -> SUBSET SUBSET ProcessRecord]
        BY DEF TypeOK
      <4> DEFINE pending == buf[s] \cup {child[s]}
      <4>2. late' = late \/ late' = [late EXCEPT ![s] = late[s] \cup {pending}]
        BY <3>1
      <4> HIDE DEF pending
      <4>3. \A t \in Sessions : late'[t] \subseteq late[t] \cup {pending}
        BY <4>1, <4>2
      <4> QED
        BY <4>3 DEF pending
    <3> QED
      BY <2>2, <3>2 DEF AllOwned
  <2>4. /\ child' = [child EXCEPT ![s] = NoRecord]
        /\ buf' = [buf EXCEPT ![s] = {}]
        /\ UNCHANGED <<processes, records>>
    BY <1>8 DEF ChildExits
  <2> QED
    BY <2>1, <2>3, <2>4 DEF AllOwned, TypeOK
<1>9. ASSUME NEW s \in Sessions, LateWrite(s)
      PROVE  AllOwned'
  <2>1. PICK content \in late[s] :
          processes' = content /\ late' = [late EXCEPT ![s] = late[s] \ {content}]
    BY <1>9 DEF LateWrite
  <2>2. UNCHANGED <<buf, records, child>>
    BY <1>9 DEF LateWrite
  <2> QED
    BY <2>1, <2>2 DEF AllOwned, TypeOK
<1>10. ASSUME NEW c \in Commands, Crash(c)
       PROVE  AllOwned'
  <2>1. /\ buf' = [d \in Commands |-> IF d = c THEN {} ELSE buf[d]]
        /\ records' = [d \in Commands |-> IF d = c THEN {} ELSE records[d]]
        /\ late' = [s \in Sessions |-> IF s = c THEN {} ELSE late[s]]
        /\ UNCHANGED <<processes, child>>
    BY <1>10 DEF Crash, Forgotten, TypeOK
  <2> QED
    BY <2>1 DEF AllOwned, TypeOK
<1>11. ASSUME NEW c \in Commands, StopRuntime(c), UNCHANGED startVars
       PROVE  AllOwned'
  <2>1. CASE StopReadRecords(c) \/ StopPersist(c) \/ StopRemoveWrite(c)
    BY <1>2, <1>5, <1>11, <2>1
  <2>2. CASE StopRemoveRead(c)
    BY <1>3, <1>11, <2>2 DEF StopRemoveRead
  <2>3. CASE \/ StopList(c) \/ StopReadPointer(c) \/ StopSelect(c) \/ StopNextSession(c)
             \/ StopSignal(c) \/ StopCompose(c)
    BY <1>1, <1>11, <2>3 DEF StopList, StopReadPointer, StopSelect, StopNextSession,
       StopSignal, StopCompose, copies
  <2> QED
    BY <1>11, <2>1, <2>2, <2>3 DEF StopRuntime
<1>12. ASSUME NEW s \in Sessions, StartRuntime(s)
       PROVE  AllOwned'
  <2>1. CASE SpawnApplication(s) \/ RegisterWrite(s) \/ ChildExits(s) \/ LateWrite(s)
    BY <1>6, <1>7, <1>8, <1>9, <2>1
  <2>2. CASE ProbeElapsed(s)
    BY <1>3, <2>2 DEF ProbeElapsed, Commands
  <2>3. CASE \/ ObservingPhase(s) \/ EnvironmentPhase(s) \/ SetupPhase(s) \/ SkipCompose(s)
             \/ ComposeUp(s) \/ ComposePersist(s) \/ SpawnError(s) \/ ApplicationsPersist(s)
             \/ RecordState(s) \/ CleanupRead(s) \/ CleanupPersist(s)
    BY <1>1, <2>3 DEF ObservingPhase, EnvironmentPhase, SetupPhase, SkipCompose, ComposeUp,
       ComposePersist, SpawnError, ApplicationsPersist, RecordState, CleanupRead,
       CleanupPersist, copies
  <2> QED
    BY <1>12, <2>1, <2>2, <2>3 DEF StartRuntime
<1>13. ASSUME \/ \E s \in Sessions : BeginStart(s)
              \/ \E s \in Sessions : CutShort(s, "interrupted") \/ CutShort(s, "timed_out")
              \/ \E c \in Stops : BeginStop(c) \/ EndStop(c)
              \/ \E c \in Commands : WriteLatest(c) /\ UNCHANGED <<stopVars, startVars>>
              \/ World
              \/ UNCHANGED vars
       PROVE  UNCHANGED copies
  BY <1>13 DEF BeginStart, CreateSession, CutShort, BeginStop, EndStop, WriteLatest, World,
     ProcessExit, ForeignSpawn, vars, copies
<1> QED
  BY <1>1, <1>10, <1>11, <1>12, <1>13 DEF Next, Progress

LEMMA OwnershipInvariant ==
  ASSUME PidReuse = FALSE
  PROVE  Spec => []AllOwned
<1>1. Init => AllOwned
  BY StoreAssumption DEF Init, StoreInit, StopInit, StartInit, AllOwned
<1>2. TypeOK /\ InHand /\ AllOwned /\ [Next]_vars => AllOwned'
  BY OwnersKept, CopiesOwned
<1> QED
  BY <1>1, <1>2, TypesInvariant, PTL DEF Spec

\* As long as the system does not give out the pid of an exited process again, however the
\* unlocked read-modify-writes of any number of commands interleave and whichever of them
\* are killed, processes.json never files a process under a session that did not start it.
THEOREM RecordsStayOwned ==
  ASSUME PidReuse = FALSE
  PROVE  Spec => []RecordsAreOwned
<1>1. AllOwned => RecordsAreOwned
  BY DEF AllOwned, Owned, RecordsAreOwned
<1> QED
  BY <1>1, OwnershipInvariant, PTL

\* Under the same condition, `board stop` and the cleanup of a startup only ever signal
\* processes of the session they are stopping (README, Process Ownership).
THEOREM StopSignalsOnlyTheSession ==
  ASSUME PidReuse = FALSE
  PROVE  Spec => SignalsOnlyTheSession
<1> DEFINE step ==
      \A c \in Commands, p \in Pids :
          pc[c] = "signal" /\ pc'[c] # pc[c] /\ os'[p] # os[p] => os[p].owner = cur[c]
<1>1. TypeOK /\ AllOwned /\ [Next]_vars => [step]_vars
  <2> SUFFICES ASSUME TypeOK, AllOwned, [Next]_vars, NEW c \in Commands, NEW p \in Pids,
                      pc[c] = "signal", pc'[c] # pc[c], os'[p] # os[p]
               PROVE  os[p].owner = cur[c]
    OBVIOUS
  <2>1. ASSUME World PROVE FALSE
    BY <2>1 DEF World, ProcessExit, ForeignSpawn, cmdVars
  <2>2. ASSUME NEW s \in Sessions, SpawnApplication(s) PROVE FALSE
    BY <2>2 DEF SpawnApplication, Goto, TypeOK, Commands
  <2>3. ASSUME NEW d \in Commands, StopSignal(d) PROVE os[p].owner = cur[c]
    <3>1. d = c
      BY <2>3 DEF StopSignal, Goto, TypeOK
    <3>2. PICK r \in SessionRecords(c) :
            os' = IF Alive(r.pid) THEN Signalled(r.pid, request[c].force) ELSE os
      BY <2>3, <3>1 DEF StopSignal
    <3>3. request[c].force \in BOOLEAN /\ r.pid \in Pids
      BY <3>2 DEF TypeOK, Request, SessionRecords, ProcessRecord
    <3>4. p = r.pid
      BY <3>2, <3>3, SignalledProcess
    <3>5. r.session = cur[c] /\ r \in Owned
      BY <3>2 DEF SessionRecords, AllOwned
    <3> QED
      BY <3>4, <3>5 DEF Owned
  <2> QED
    BY <2>1, <2>2, <2>3, TableChanges
<1> QED
  BY <1>1, TypesInvariant, OwnershipInvariant, PTL DEF Spec, SignalsOnlyTheSession

LEMMA StopKeepsClean ==
  ASSUME TypeOK, InHand, NEW c \in Commands, StopRuntime(c), NEW t \in Sessions, Clean(t)
  PROVE  Clean(t)'
<1> USE StoreAssumption DEF fileVars
<1>1. /\ sessionFile[t] \in SessionRecord \cup {NoFile}
      /\ \A d \in Commands : targets[d][t] \in SessionRecord \cup {NoFile}
  BY DEF TypeOK
<1>2. CASE StopList(c)
  BY <1>1, <1>2 DEF StopList, Clean, TypeOK
<1>3. CASE StopSelect(c)
  <2>1. Selected(c)[t] \in {targets[c][t], sessionFile[t], NoFile}
    BY DEF Selected, Restricted, TypeOK, Request
  <2>2. \A d \in Commands : targets'[d][t] \in {targets[d][t], sessionFile[t], NoFile}
    BY <1>3, <2>1 DEF StopSelect, TypeOK
  <2>3. UNCHANGED sessionFile
    BY <1>3 DEF StopSelect
  <2> QED
    BY <2>2, <2>3 DEF Clean
<1>4. CASE StopRemoveWrite(c)
  <2>1. cur[c] \in Sessions /\ targets[c][cur[c]] \in SessionRecord
    BY <1>4 DEF InHand, StopRemoveWrite, InSession
  <2> DEFINE stoppedApp == [targets[c][cur[c]].apps EXCEPT ![victim[c].app] = "stopped"]
             snapshot == [targets[c][cur[c]] EXCEPT !.apps = stoppedApp]
  <2>2. snapshot.errors = targets[c][cur[c]].errors
    BY <2>1 DEF SessionRecord
  <2>3. targets' = [targets EXCEPT ![c] = [targets[c] EXCEPT ![cur[c]] = snapshot]]
    BY <1>4 DEF StopRemoveWrite
  <2>4. UNCHANGED sessionFile
    BY <1>4 DEF StopRemoveWrite
  <2> HIDE DEF snapshot
  <2>5. \A d \in Commands : \/ targets'[d][t] = targets[d][t]
                            \/ /\ d = c /\ t = cur[c]
                               /\ targets'[d][t] = snapshot
    BY <2>1, <2>3 DEF TypeOK
  <2>6. targets[c][cur[c]] # NoFile
    BY <2>1
  <2> QED
    BY <2>2, <2>4, <2>5, <2>6 DEF Clean
<1>5. CASE StopCompose(c)
  <2>1. cur[c] \in Sessions /\ targets[c][cur[c]] \in SessionRecord
    BY <1>5 DEF InHand, StopCompose, InSession
  <2>2. UNCHANGED sessionFile
    BY <1>5 DEF StopCompose
  <2>3. CASE targets' = targets
    BY <2>2, <2>3 DEF Clean
  <2>4. CASE targets' # targets
    <3>1. PICK end \in {"stopped", "failed"} :
            targets' = [targets EXCEPT ![c] =
                          [targets[c] EXCEPT ![cur[c]] =
                             [targets[c][cur[c]] EXCEPT !.compose = end]]]
      BY <1>5, <2>4 DEF StopCompose
    <3> DEFINE snapshot == [targets[c][cur[c]] EXCEPT !.compose = end]
    <3>2. snapshot.errors = targets[c][cur[c]].errors
      BY <2>1 DEF SessionRecord
    <3> HIDE DEF snapshot
    <3>3. \A d \in Commands : \/ targets'[d][t] = targets[d][t]
                              \/ /\ d = c /\ t = cur[c]
                                 /\ targets'[d][t] = snapshot
      BY <2>1, <3>1 DEF TypeOK, snapshot
    <3>4. targets[c][cur[c]] # NoFile
      BY <2>1
    <3> QED
      BY <2>2, <3>2, <3>3, <3>4 DEF Clean
  <2> QED
    BY <2>3, <2>4
<1>6. CASE StopPersist(c)
  <2>1. cur[c] \in Sessions /\ targets[c][cur[c]] \in SessionRecord
    BY <1>6 DEF InHand, StopPersist, InSession
  <2>2. StoppedSession(targets[c][cur[c]]).errors = targets[c][cur[c]].errors
    BY <2>1 DEF StoppedSession, SessionRecord
  <2>3. \/ sessionFile'[t] = sessionFile[t]
        \/ t = cur[c] /\ sessionFile'[t] = StoppedSession(targets[c][cur[c]])
    BY <1>6, <2>1 DEF StopPersist, UpdateSession, TypeOK
  <2>4. \A d \in Commands : targets'[d][t] \in {targets[d][t], NoFile}
    BY <1>6, <2>1 DEF StopPersist, Remaining, TypeOK
  <2>5. targets[c][cur[c]] # NoFile
    BY <2>1
  <2> QED
    BY <2>2, <2>3, <2>4, <2>5 DEF Clean
<1>7. CASE \/ StopReadPointer(c) \/ StopReadRecords(c) \/ StopNextSession(c)
           \/ StopSignal(c) \/ StopRemoveRead(c)
  BY <1>7 DEF StopReadPointer, StopReadRecords, StopNextSession, StopSignal,
     StopRemoveRead, stopVars, Clean
<1> QED
  BY <1>2, <1>3, <1>4, <1>5, <1>6, <1>7 DEF StopRuntime

StopLabels ==
    {"list", "pointer", "select", "records", "session", "stopped"} \cup InSession

LEMMA StopStaysInStop ==
  ASSUME TypeOK, NEW c \in Commands, StopRuntime(c)
  PROVE  /\ pc'[c] \in StopLabels
         /\ \A d \in Commands : d # c => pc'[d] = pc[d]
<1>1. PICK label \in StopLabels : pc' = [pc EXCEPT ![c] = label]
  BY DEF StopRuntime, StopList, StopReadPointer, StopSelect, StopReadRecords,
     StopNextSession, StopSignal, StopRemoveRead, StopRemoveWrite, StopCompose, StopPersist,
     Goto, StopLabels, InSession
<1> QED
  BY <1>1 DEF TypeOK

\* A startup touches its own session only.
LEMMA StartKeepsOthers ==
  ASSUME TypeOK, NEW s \in Sessions,
         \/ StartRuntime(s) \/ CreateSession(s)
         \/ CutShort(s, "interrupted") \/ CutShort(s, "timed_out")
  PROVE  /\ targets' = targets
         /\ \A t \in Sessions : t # s => /\ sessionFile'[t] = sessionFile[t]
                                         /\ pc'[t] = pc[t]
                                         /\ mem'[t] = mem[t]
<1> USE DEF fileVars, cmdVars, stopVars, startVars, Goto, Commands
<1>1. CASE \/ CreateSession(s) \/ ObservingPhase(s) \/ EnvironmentPhase(s) \/ SetupPhase(s)
           \/ ComposePersist(s) \/ ApplicationsPersist(s) \/ RecordState(s)
           \/ CleanupPersist(s) \/ CutShort(s, "interrupted") \/ CutShort(s, "timed_out")
  <2>1. PICK record, label : /\ sessionFile' = [sessionFile EXCEPT ![s] = record]
                             /\ mem' = [mem EXCEPT ![s] = record]
                             /\ pc' = [pc EXCEPT ![s] = label]
    BY <1>1 DEF CreateSession, ObservingPhase, EnvironmentPhase, SetupPhase, ComposePersist,
       ApplicationsPersist, RecordState, CleanupPersist, CutShort, Persist, UpdateSession
  <2>2. targets' = targets
    BY <1>1 DEF CreateSession, ObservingPhase, EnvironmentPhase, SetupPhase, ComposePersist,
       ApplicationsPersist, RecordState, CleanupPersist, CutShort
  <2> QED
    BY <2>1, <2>2 DEF TypeOK
<1>2. CASE SkipCompose(s) \/ ProbeElapsed(s) \/ SpawnApplication(s) \/ LateWrite(s)
  BY <1>2 DEF SkipCompose, ProbeElapsed, SpawnApplication, LateWrite, TypeOK
<1>3. CASE \/ ComposeUp(s) \/ SpawnError(s) \/ RegisterWrite(s) \/ ChildExits(s)
           \/ CleanupRead(s)
  <2>1. PICK record : mem' = [mem EXCEPT ![s] = record]
    BY <1>3 DEF ComposeUp, SpawnError, RegisterWrite, ChildExits, CleanupRead
  <2>2. pc' = pc \/ \E label : pc' = [pc EXCEPT ![s] = label]
    BY <1>3 DEF ComposeUp, SpawnError, RegisterWrite, ChildExits, CleanupRead
  <2>3. UNCHANGED <<sessionFile, targets>>
    BY <1>3 DEF ComposeUp, SpawnError, RegisterWrite, ChildExits, CleanupRead
  <2> QED
    BY <2>1, <2>2, <2>3 DEF TypeOK
<1> QED
  BY <1>1, <1>2, <1>3 DEF StartRuntime

SpawnSoon(label, errors) ==
    \/ label \in {"idle", "prerequisites", "environment", "applications", "probe", "register"}
    \/ label \in {"ports", "setup", "compose", "composed"} /\ ~errors

\* What a startup writes and where it goes keep CleanUntilErrors for its own session.
LEMMA StartKeepsClean ==
  ASSUME TypeOK, InHand, CleanUntilErrors, NEW s \in Sessions,
         \/ StartRuntime(s) \/ CreateSession(s)
         \/ CutShort(s, "interrupted") \/ CutShort(s, "timed_out")
  PROVE  CleanUntilErrors'
<1> USE StoreAssumption DEF fileVars, cmdVars, stopVars, startVars, Goto, Commands
<1>1. /\ targets' = targets
      /\ \A t \in Sessions : t # s => /\ sessionFile'[t] = sessionFile[t]
                                      /\ pc'[t] = pc[t]
                                      /\ mem'[t] = mem[t]
  BY StartKeepsOthers
<1>2. mem[s] \in SessionRecord
  BY DEF TypeOK
<1>3. SUFFICES /\ pc'[s] \in {"idle", "prerequisites", "environment", "compose"}
                    => ~mem'[s].errors
               /\ SpawnSoon(pc'[s], mem'[s].errors) => Clean(s)'
  BY <1>1 DEF CleanUntilErrors, SpawnSoon, Clean
<1>4. SpawnSoon(pc[s], mem[s].errors) => Clean(s)
  BY DEF CleanUntilErrors, SpawnSoon
<1>5. ASSUME NEW record, Persist(s, record), record.errors = FALSE, Clean(s)
      PROVE  Clean(s)' /\ mem'[s] = record
  BY <1>1, <1>5 DEF Persist, UpdateSession, TypeOK, Clean
<1>6. CASE CreateSession(s)
  <2>1. PICK warned \in Trouble("warnings") : Persist(s, CreatedSession(warned))
    BY <1>6 DEF CreateSession
  <2>2. CreatedSession(warned).errors = FALSE
    BY CreatedTypes DEF NewSession, Alike
  <2>3. Clean(s)
    BY <1>4, <1>6 DEF CreateSession, SpawnSoon
  <2> QED
    BY <1>5, <1>6, <2>1, <2>2, <2>3 DEF CreateSession
<1>7. CASE ObservingPhase(s)
  <2>1. PICK record \in SessionRecord : Persist(s, record) /\ Alike(record, mem[s])
    BY <1>7, ObservedIsAlike
  <2>2. mem'[s] = record /\ record.errors = mem[s].errors
    BY <2>1 DEF Persist, TypeOK, Alike
  <2>3. pc[s] \in {"prerequisites", "ports", "listening", "health"} /\ pc'[s] = Following[pc[s]]
    BY <1>7 DEF ObservingPhase, TypeOK
  <2>4. CASE pc[s] = "prerequisites"
    <3>1. pc'[s] = "environment" /\ ~mem[s].errors /\ Clean(s)
      BY <2>3, <2>4 DEF Following, CleanUntilErrors
    <3>2. record.errors = FALSE
      BY <1>2, <2>2, <3>1 DEF SessionRecord
    <3> QED
      BY <1>5, <2>1, <2>2, <3>1, <3>2
  <2>5. CASE pc[s] = "ports"
    <3>1. pc'[s] = "setup"
      BY <2>3, <2>5 DEF Following
    <3>2. CASE record.errors = FALSE
      <4>1. Clean(s)
        BY <1>4, <2>2, <2>5, <3>2 DEF SpawnSoon
      <4>2. Clean(s)'
        BY <1>5, <2>1, <3>2, <4>1
      <4> QED
        BY <2>2, <3>1, <4>2
    <3>3. CASE record.errors = TRUE
      BY <2>2, <3>1, <3>3 DEF SpawnSoon
    <3> QED
      BY <2>1, <3>2, <3>3 DEF SessionRecord
  <2>6. CASE pc[s] \in {"listening", "health"}
    BY <2>3, <2>6 DEF Following, SpawnSoon
  <2> QED
    BY <2>3, <2>4, <2>5, <2>6
<1>8. CASE EnvironmentPhase(s)
  <2>1. PICK record \in SessionRecord, missing \in BOOLEAN : Persist(s, record) /\ record.errors = missing
    BY <1>8, EnvironmentRecord DEF PhaseRecord
  <2>2. pc'[s] = "ports" /\ Clean(s)
    BY <1>8 DEF EnvironmentPhase, Following, TypeOK, CleanUntilErrors
  <2>3. mem'[s].errors = missing
    BY <2>1 DEF Persist, TypeOK
  <2> QED
    BY <1>5, <2>1, <2>2, <2>3 DEF SpawnSoon
<1>9. CASE SetupPhase(s)
  <2>1. PICK record \in SessionRecord, errors \in BOOLEAN :
          /\ Persist(s, record) /\ record.errors = errors /\ (mem[s].errors => errors)
          /\ Goto(s, AfterErrorsOr(errors, "compose"))
    BY <1>9, SetupRecord DEF PhaseRecord
  <2>2. mem'[s].errors = errors
    BY <2>1 DEF Persist, TypeOK
  <2>3. pc[s] = "setup" /\ pc'[s] = IF errors THEN "listening" ELSE "compose"
    BY <1>9, <2>1 DEF SetupPhase, TypeOK, AfterErrorsOr
  <2>4. CASE errors
    BY <2>3, <2>4 DEF SpawnSoon
  <2>5. CASE ~errors
    <3>1. Clean(s)
      BY <1>4, <2>1, <2>3, <2>5 DEF SpawnSoon
    <3>2. record.errors = FALSE
      BY <2>1, <2>5
    <3> QED
      BY <1>5, <2>1, <2>2, <2>5, <3>1, <3>2
  <2> QED
    BY <2>4, <2>5
<1>10. CASE ComposePersist(s)
  <2>1. Persist(s, mem[s]) /\ pc[s] = "composed"
    BY <1>10 DEF ComposePersist
  <2>2. pc'[s] = IF mem[s].errors THEN "listening" ELSE "applications"
    BY <1>10 DEF ComposePersist, TypeOK, AfterErrorsOr
  <2>3. CASE mem[s].errors = TRUE
    BY <2>2, <2>3 DEF SpawnSoon
  <2>4. CASE mem[s].errors = FALSE
    BY <1>4, <1>5, <2>1, <2>2, <2>4 DEF SpawnSoon
  <2> QED
    BY <1>2, <2>3, <2>4 DEF SessionRecord
<1>11. CASE \/ ApplicationsPersist(s) \/ RecordState(s) \/ CleanupPersist(s)
            \/ CutShort(s, "interrupted") \/ CutShort(s, "timed_out")
  <2>1. pc'[s] \in {"listening", "done", "list"}
    BY <1>11 DEF ApplicationsPersist, RecordState, CleanupPersist, CutShort, TypeOK
  <2> QED
    BY <2>1 DEF SpawnSoon
<1>12. CASE SkipCompose(s)
  <2>1. pc[s] = "compose" /\ pc'[s] = "applications" /\ UNCHANGED sessionFile
    BY <1>12 DEF SkipCompose, TypeOK
  <2>2. Clean(s)
    BY <2>1 DEF CleanUntilErrors
  <2> QED
    BY <1>1, <2>1, <2>2 DEF Clean
<1>13. CASE ComposeUp(s)
  <2>1. pc[s] = "compose" /\ pc'[s] = "composed" /\ UNCHANGED sessionFile
    BY <1>13 DEF ComposeUp, TypeOK
  <2>2. Clean(s)
    BY <2>1 DEF CleanUntilErrors
  <2> QED
    BY <1>1, <2>1, <2>2 DEF Clean
<1>14. CASE SpawnApplication(s) \/ SpawnError(s) \/ ProbeElapsed(s) \/ RegisterWrite(s)
            \/ ChildExits(s)
  <2>1. /\ pc[s] \in {"applications", "probe", "register"}
        /\ pc'[s] \in {"applications", "probe", "register"}
        /\ UNCHANGED sessionFile
    BY <1>14 DEF SpawnApplication, SpawnError, ProbeElapsed, RegisterWrite, ChildExits, TypeOK
  <2>2. Clean(s)
    BY <2>1 DEF CleanUntilErrors
  <2> QED
    BY <1>1, <2>1, <2>2 DEF Clean
<1>15. CASE LateWrite(s)
  <2>1. UNCHANGED <<sessionFile, pc, mem>>
    BY <1>15 DEF LateWrite
  <2> QED
    BY <1>1, <1>4, <2>1 DEF CleanUntilErrors, Clean
<1>16. CASE CleanupRead(s)
  <2>1. pc'[s] = "cleaned"
    BY <1>16 DEF CleanupRead, TypeOK
  <2> QED
    BY <2>1 DEF SpawnSoon
<1> QED
  BY <1>6, <1>7, <1>8, <1>9, <1>10, <1>11, <1>12, <1>13, <1>14, <1>15, <1>16
     DEF StartRuntime

LEMMA CleanStep == TypeOK /\ InHand /\ CleanUntilErrors /\ [Next]_vars => CleanUntilErrors'
<1> SUFFICES ASSUME TypeOK, InHand, CleanUntilErrors, [Next]_vars
             PROVE  CleanUntilErrors'
  OBVIOUS
<1> USE DEF fileVars, cmdVars, stopVars, startVars
<1>1. ASSUME NEW s \in Sessions,
             \/ BeginStart(s) \/ StartRuntime(s)
             \/ CutShort(s, "interrupted") \/ CutShort(s, "timed_out")
      PROVE  CleanUntilErrors'
  BY <1>1, StartKeepsClean DEF BeginStart
<1>2. ASSUME NEW c \in Commands, StopRuntime(c), UNCHANGED startVars
      PROVE  CleanUntilErrors'
  <2>1. \A t \in Sessions : Clean(t) => Clean(t)'
    BY <1>2, StopKeepsClean
  <2>2. /\ pc'[c] \in StopLabels
        /\ \A t \in Sessions : t # c => pc'[t] = pc[t]
    BY <1>2, StopStaysInStop DEF Commands
  <2>3. mem' = mem
    BY <1>2
  <2> QED
    BY <2>1, <2>2, <2>3 DEF CleanUntilErrors, StopLabels, InSession
<1>3. ASSUME NEW c \in Commands, Crash(c)
      PROVE  CleanUntilErrors'
  <2>1. /\ \A d \in Commands : targets'[d] \in {targets[d], NoTargets}
        /\ \A s \in Sessions : s # c => mem'[s] = mem[s] /\ pc'[s] = pc[s]
        /\ pc'[c] = "crashed"
        /\ UNCHANGED sessionFile
    BY <1>3 DEF Crash, Forgotten, Goto, TypeOK, Commands
  <2>2. \A t \in Sessions : Clean(t) => Clean(t)'
    BY <2>1 DEF Clean, NoTargets
  <2> QED
    BY <2>1, <2>2 DEF CleanUntilErrors
<1>4. ASSUME \/ \E c \in Stops : BeginStop(c) \/ EndStop(c)
             \/ \E c \in Commands : WriteLatest(c) /\ UNCHANGED <<stopVars, startVars>>
             \/ World
             \/ UNCHANGED vars
      PROVE  CleanUntilErrors'
  <2>1. UNCHANGED <<sessionFile, targets, mem>>
    BY <1>4 DEF BeginStop, EndStop, WriteLatest, World, ProcessExit, ForeignSpawn, vars
  <2>2. \A s \in Sessions : pc'[s] = pc[s]
    BY <1>4, StoreAssumption DEF BeginStop, EndStop, WriteLatest, World, ProcessExit,
       ForeignSpawn, vars, Goto, TypeOK, Commands
  <2> QED
    BY <2>1, <2>2 DEF CleanUntilErrors, Clean
<1> QED
  BY <1>1, <1>2, <1>3, <1>4 DEF Next, Progress

\* A startup whose file records an error spawns nothing any more, whatever stops rewrite
\* that file from older copies of it: startRuntime starts services and applications only
\* while session.errors is empty (orchestrator.ts), and no copy can have an error before.
THEOREM ErrorsEndSpawning == Spec => NoSpawnAfterErrors
<1> DEFINE step ==
      \A p \in Pids :
          os'[p].owner # os[p].owner /\ os'[p].owner \in Sessions
          => ~sessionFile[os'[p].owner].errors
<1>1. Init => CleanUntilErrors
  BY DEF Init, StoreInit, StopInit, StartInit, CleanUntilErrors, Clean, NewSession, NoTargets,
     Commands
<1>2. TypeOK /\ InHand /\ CleanUntilErrors /\ [Next]_vars => [step]_vars
  <2> SUFFICES ASSUME TypeOK, InHand, CleanUntilErrors, [Next]_vars, NEW p \in Pids,
                      os'[p].owner # os[p].owner, os'[p].owner \in Sessions
               PROVE  ~sessionFile[os'[p].owner].errors
    OBVIOUS
  <2>1. ASSUME World PROVE FALSE
    <3>1. PICK q \in Pids :
            \/ os' = [os EXCEPT ![q] = [os[q] EXCEPT !.state = "exited"]]
            \/ os' = [os EXCEPT ![q] = [owner |-> Foreign, state |-> "alive"]]
      BY <2>1 DEF World, ProcessExit, ForeignSpawn
    <3>2. os[q] \in OsProcess /\ os \in [Pids -> OsProcess]
      BY DEF TypeOK
    <3> QED
      BY <3>1, <3>2, StoreAssumption DEF OsProcess
  <2>2. ASSUME NEW c \in Commands, StopSignal(c) PROVE FALSE
    <3>1. PICK r \in SessionRecords(c) :
            os' = IF Alive(r.pid) THEN Signalled(r.pid, request[c].force) ELSE os
      BY <2>2 DEF StopSignal
    <3>2. request[c].force \in BOOLEAN /\ r.pid \in Pids
      BY <3>1 DEF TypeOK, Request, SessionRecords, ProcessRecord
    <3> QED
      BY <3>1, <3>2, SignalledProcess
  <2>3. ASSUME NEW s \in Sessions, SpawnApplication(s)
        PROVE  ~sessionFile[os'[p].owner].errors
    <3>1. PICK q \in Pids : os' = [os EXCEPT ![q] = Ownership(s)]
      BY <2>3 DEF SpawnApplication
    <3>2. os'[p].owner = s
      BY <3>1 DEF TypeOK, Ownership
    <3>3. pc[s] = "applications"
      BY <2>3 DEF SpawnApplication
    <3>4. Clean(s) /\ sessionFile[s] \in SessionRecord
      BY <3>3 DEF CleanUntilErrors, InHand
    <3> QED
      BY <3>2, <3>4, StoreAssumption DEF Clean
  <2> QED
    BY <2>1, <2>2, <2>3, TableChanges
<1> QED
  BY <1>1, <1>2, CleanStep, TypesInvariant, PTL DEF Spec, NoSpawnAfterErrors

-----------------------------------------------------------------------------
(* One command at a time. *)

StartLabels ==
    {"prerequisites", "environment", "ports", "setup", "compose", "composed", "applications",
     "probe", "register", "listening", "health", "record"}

Resting(c) == pc[c] = "idle" \/ Finished(c)

OneRuns == \A c, d \in Commands : c # d => Resting(c) \/ Resting(d)

\* In the process table `table`: the process p runs undisturbed and belongs to s.
Runs(table, p, s) == table[p].owner = s /\ table[p].state = "alive"

IsChild(children, p, s) == children[s] # NoRecord /\ children[s].pid = p

\* Each running process of a session is its child, or one of the records names it.
Tracks(table, children, content) ==
    \A s \in Sessions, p \in Pids :
        Runs(table, p, s) =>
            IsChild(children, p, s) \/ \E r \in content : r.pid = p /\ r.session = s

\* No process of the session runs but a child.
Down(table, children, s) ==
    \A p \in Pids : Runs(table, p, s) => IsChild(children, p, s)

\* Every copy of the records that a command goes by has every running process; what it is about
\* to remove does not run, and a session it is about to call stopped is down.
CommandInv(c) ==
    /\ pc[c] \in {"idle", "crashed"} => Ready(c)
    /\ pc[c] \in {"register", "remove"} => Tracks(os, child, buf[c])
    /\ pc[c] \in {"session"} \cup InSession => Tracks(os, child, records[c])
    /\ pc[c] \in {"removeRead", "remove"} => \A s \in Sessions : ~Runs(os, victim[c].pid, s)
    /\ pc[c] \in StopLabels \ {"list"} =>
           \A s \in Sessions : targets[c][s] # NoFile => pc[s] # "idle"
    /\ pc[c] = "persist" =>
           /\ Down(os, child, cur[c])
           /\ \/ targets[c][cur[c]].compose \in {"absent", "failed"}
              \/ targets[c][cur[c]].compose = "stopped" /\ ~compose[cur[c]]

\* A file that says "stopped" tells the truth, and its session starts nothing any more.
StoppedTruly(s) ==
    sessionFile[s] # NoFile /\ sessionFile[s].status = "stopped" =>
        /\ Down(os, child, s)
        /\ sessionFile[s].compose # "absent" => ~compose[s]
        /\ pc[s] \notin StartLabels \cup {"idle"}

\* What is so of a session as long as its startup runs, and afterwards.
SessionBase(s) ==
    /\ pc[s] = "idle" => sessionFile[s] = NoFile /\ \A p \in Pids : os[p].owner # s
    /\ child[s] # NoRecord => child[s].session = s /\ pc[s] \in {"probe", "register", "crashed"}
    /\ pc[s] \in {"idle", "crashed", "register"} => late[s] = {}
    /\ \A content \in late[s] : Tracks(os, child, content)
    /\ mem[s].status # "stopped"
    /\ \A p \in Pids : os[p].owner = s /\ os[p].state = "terminating" => pc[s] \in {"done", "crashed"}
    /\ pc[s] = "done" /\ mem[s].status \in {"interrupted", "timed_out"} =>
           \A p \in Pids : os[p].owner = s => ~Alive(p)
    /\ StoppedTruly(s)

\* The cleanup of a startup stops its own session, by force, and all of it.
Cleaning(s) ==
    /\ pc[s] \in StopLabels \cup {"cleaned"} => request[s] = CleanupRequest(s)
    /\ pc[s] \in {"pointer", "select"} => targets[s][s] # NoFile
    /\ pc[s] \in {"records", "session"} \cup InSession => \A t \in Sessions \ {s} : targets[s][t] = NoFile
    /\ pc[s] \in InSession => cur[s] = s
    /\ pc[s] \in {"stopped", "cleaned"} => Down(os, child, s)

SerialInv ==
    /\ OneRuns
    /\ Tracks(os, child, processes)
    /\ \A c \in Commands : CommandInv(c)
    /\ \A s \in Sessions : SessionBase(s) /\ Cleaning(s)

\* The conditions under which all of this holds.
Orderly == Serial = TRUE /\ ProbeOutlastsWrites = TRUE

-----------------------------------------------------------------------------
(* The records and the process table *)

\* No process runs that did not run before.
Shrinks(after, before) ==
    \A s \in Sessions, p \in Pids : Runs(after, p, s) => Runs(before, p, s)

LEMMA ShrinksKeeps ==
  ASSUME NEW before, NEW after, NEW children, Shrinks(after, before)
  PROVE  /\ \A content : Tracks(before, children, content) => Tracks(after, children, content)
         /\ \A s \in Sessions : Down(before, children, s) => Down(after, children, s)
BY DEF Shrinks, Tracks, Down

\* A new process is its session's child.
LEMMA SpawnKeeps ==
  ASSUME NEW before \in [Pids -> OsProcess], NEW children \in [Sessions -> ProcessRecord \cup {NoRecord}],
         NEW s \in Sessions, NEW r \in ProcessRecord, children[s] = NoRecord
  PROVE  \A content : Tracks(before, children, content) =>
             Tracks([before EXCEPT ![r.pid] = Ownership(s)], [children EXCEPT ![s] = r], content)
<1> DEFINE after == [before EXCEPT ![r.pid] = Ownership(s)]
           with == [children EXCEPT ![s] = r]
<1> SUFFICES ASSUME NEW content, Tracks(before, children, content), NEW t \in Sessions, NEW p \in Pids,
                    Runs(after, p, t)
             PROVE  IsChild(with, p, t) \/ \E x \in content : x.pid = p /\ x.session = t
  BY DEF Tracks
<1>1. CASE p = r.pid
  <2>1. t = s
    BY <1>1 DEF Runs, Ownership
  <2> QED
    BY <1>1, <2>1, StoreAssumption DEF IsChild
<1>2. CASE p # r.pid
  <2>1. Runs(before, p, t)
    BY <1>2 DEF Runs
  <2>2. IsChild(children, p, t) => IsChild(with, p, t)
    BY DEF IsChild
  <2> QED
    BY <2>1, <2>2 DEF Tracks
<1> QED
  BY <1>1, <1>2

\* A child that settles is recorded, or does not run.
LEMMA SettledKeeps ==
  ASSUME NEW table, NEW children \in [Sessions -> ProcessRecord \cup {NoRecord}], NEW s \in Sessions,
         children[s].session = s, NEW content, Tracks(table, children, content)
  PROVE  /\ Tracks(table, [children EXCEPT ![s] = NoRecord], content \cup {children[s]})
         /\ ~Runs(table, children[s].pid, s) => Tracks(table, [children EXCEPT ![s] = NoRecord], content)
<1> DEFINE without == [children EXCEPT ![s] = NoRecord]
<1>1. \A t \in Sessions, p \in Pids :
          IsChild(children, p, t) => IsChild(without, p, t) \/ (t = s /\ p = children[s].pid)
  BY DEF IsChild
<1> HIDE DEF without
<1>2. Tracks(table, without, content \cup {children[s]})
  BY <1>1 DEF Tracks
<1>3. ~Runs(table, children[s].pid, s) => Tracks(table, without, content)
  BY <1>1 DEF Tracks
<1> QED
  BY <1>2, <1>3 DEF without

\* What is removed is of no running process.
LEMMA RemovalKeeps ==
  ASSUME NEW table, NEW children, NEW content, Tracks(table, children, content),
         NEW pid, \A s \in Sessions : ~Runs(table, pid, s)
  PROVE  /\ Tracks(table, children, Removed(content, pid))
         /\ \A r : r.pid = pid => Tracks(table, children, content \ {r})
BY DEF Tracks, Removed

LEMMA MoreTrack ==
  ASSUME NEW table, NEW children, NEW content, NEW more, Tracks(table, children, content), content \subseteq more
  PROVE  Tracks(table, children, more)
BY DEF Tracks

\* What no record of a session is left of is down.
LEMMA NothingLeft ==
  ASSUME NEW table, NEW children, NEW content, Tracks(table, children, content),
         NEW s \in Sessions, \A r \in content : r.session # s
  PROVE  Down(table, children, s)
BY DEF Tracks, Down
-----------------------------------------------------------------------------
(* The commands that do not run *)

\* What another command may do to the processes of a session.
Falls(s) ==
    \A p \in Pids : os'[p].owner = s =>
        /\ os[p].owner = s
        /\ os'[p].state = "alive" => os[p].state = "alive"
        /\ os'[p].state = "terminating" => os[p].state \in {"alive", "terminating"}

\* What a stop may write to the file of a session.
Written(s) ==
    \/ sessionFile'[s] = sessionFile[s]
    \/ /\ pc[s] \notin StartLabels \cup {"idle"} /\ sessionFile'[s] \in SessionRecord
       /\ sessionFile'[s].status = "stopped" =>
              Down(os, child, s) /\ (sessionFile'[s].compose # "absent" => ~compose[s])

\* A step of the command c, as the others see it.
Frame(c) ==
    /\ \A d \in Commands \ {c} : pc'[d] = pc[d] /\ latestDue'[d] = latestDue[d]
    /\ \A s \in Sessions \ {c} :
           /\ child'[s] = child[s] /\ late'[s] = late[s] /\ mem'[s] = mem[s]
           /\ Falls(s) /\ (compose'[s] => compose[s]) /\ Written(s)

LEMMA RestingKept ==
  ASSUME NEW d \in Commands, Resting(d), pc'[d] = pc[d], latestDue'[d] = latestDue[d],
         d \in Sessions => late'[d] = late[d]
  PROVE  Resting(d)'
BY DEF Resting, Finished, Ready

LEMMA OthersKept ==
  ASSUME TypeOK, SerialInv, NEW c \in Commands, \A d \in Commands \ {c} : Resting(d), Frame(c)
  PROVE  /\ OneRuns'
         /\ \A d \in Commands \ {c} : CommandInv(d)'
         /\ \A s \in Sessions \ {c} : SessionBase(s)' /\ Cleaning(s)'
<1>1. \A d \in Commands \ {c} : Resting(d)'
  BY RestingKept DEF Frame, Commands
<1>2. OneRuns'
  BY <1>1 DEF OneRuns
<1>3. ASSUME NEW d \in Commands \ {c}
      PROVE  CommandInv(d)'
  <2>1. pc[d] \in {"idle", "done", "crashed"} /\ pc'[d] = pc[d] /\ latestDue'[d] = latestDue[d]
    BY DEF Resting, Finished, Frame
  <2>2. pc[d] \in {"idle", "crashed"} => Ready(d)'
    BY <2>1 DEF SerialInv, CommandInv, Ready
  <2> QED
    BY <2>1, <2>2 DEF CommandInv, StopLabels, InSession
<1>4. ASSUME NEW s \in Sessions \ {c}
      PROVE  SessionBase(s)' /\ Cleaning(s)'
  <2>1. /\ s \in Commands \ {c} /\ Resting(s) /\ SessionBase(s)
        /\ pc[s] \in {"idle", "done", "crashed"} /\ pc'[s] = pc[s] /\ late[s] = {}
    BY DEF Commands, Resting, Finished, SerialInv, SessionBase, Frame
  <2>2. /\ child'[s] = child[s] /\ late'[s] = late[s] /\ mem'[s] = mem[s]
        /\ Falls(s) /\ (compose'[s] => compose[s]) /\ Written(s)
    BY DEF Frame
  <2>3. Down(os, child, s) => Down(os', child', s)
    BY <2>2 DEF Down, Falls, Runs, IsChild
  <2>4. StoppedTruly(s)'
    <3>1. CASE sessionFile'[s] = sessionFile[s]
      BY <2>1, <2>2, <2>3, <3>1 DEF SessionBase, StoppedTruly
    <3>2. CASE sessionFile'[s] # sessionFile[s]
      BY <2>1, <2>2, <2>3, <3>2 DEF Written, StoppedTruly
    <3> QED
      BY <3>1, <3>2
  <2>5. pc'[s] = "idle" => sessionFile'[s] = NoFile /\ \A p \in Pids : os'[p].owner # s
    BY <2>1, <2>2 DEF SessionBase, Falls, Written
  <2>6. \A p \in Pids : os'[p].owner = s /\ os'[p].state = "terminating" => pc'[s] \in {"done", "crashed"}
    BY <2>1, <2>2 DEF SessionBase, Falls
  <2>7. pc'[s] = "done" /\ mem'[s].status \in {"interrupted", "timed_out"} =>
           \A p \in Pids : os'[p].owner = s => ~Alive(p)'
    BY <2>1, <2>2 DEF SessionBase, Falls, Alive
  <2>8. SessionBase(s)'
    BY <2>1, <2>2, <2>4, <2>5, <2>6, <2>7 DEF SessionBase
  <2> QED
    BY <2>1, <2>8 DEF Cleaning, StopLabels, InSession
<1> QED
  BY <1>2, <1>3, <1>4

-----------------------------------------------------------------------------
(* The steps of a stop *)

\* A stop asks processes to end, or kills them, and starts none.
LEMMA StopTable ==
  ASSUME TypeOK, NEW c \in Commands, StopRuntime(c)
  PROVE  \A p \in Pids :
             /\ os'[p].owner = os[p].owner
             /\ os'[p].state = "alive" => os[p].state = "alive"
             /\ os'[p].state = "terminating" =>
                    os[p].state = "terminating" \/ (os[p].state = "alive" /\ ~request[c].force)
<1>1. CASE StopSignal(c)
  <2>1. PICK r \in SessionRecords(c) :
          os' = IF Alive(r.pid) THEN Signalled(r.pid, request[c].force) ELSE os
    BY <1>1 DEF StopSignal
  <2>2. request[c].force \in BOOLEAN /\ r.pid \in Pids /\ os \in [Pids -> OsProcess]
    BY DEF TypeOK, Request, SessionRecords, ProcessRecord
  <2>3. CASE Alive(r.pid)
    <3>1. os' = [os EXCEPT ![r.pid] = [os[r.pid] EXCEPT !.state = IF request[c].force THEN "exited" ELSE "terminating"]]
      BY <2>1, <2>3 DEF Signalled
    <3> QED
      BY <2>2, <2>3, <3>1 DEF OsProcess, Alive
  <2> QED
    BY <2>1, <2>3
<1>2. ASSUME ~StopSignal(c)
      PROVE  os' = os
  BY <1>2 DEF StopRuntime, StopList, StopReadPointer, StopSelect, StopReadRecords, StopNextSession,
     StopRemoveRead, StopRemoveWrite, StopCompose, StopPersist, worldVars
<1> QED
  BY <1>1, <1>2

LEMMA StopFrame ==
  ASSUME TypeOK, InHand, SerialInv, NEW c \in Commands, StopRuntime(c), UNCHANGED startVars
  PROVE  /\ \A d \in Commands \ {c} : Resting(d)
         /\ Frame(c) /\ pc[c] \in StopLabels \ {"stopped"} /\ pc'[c] \in StopLabels
         /\ \A s \in Sessions : Falls(s) /\ (compose'[s] => compose[s]) /\ Written(s)
<1>1. pc[c] \in StopLabels \ {"stopped"}
  BY DEF StopRuntime, StopList, StopReadPointer, StopSelect, StopReadRecords, StopNextSession, StopSignal,
     StopRemoveRead, StopRemoveWrite, StopCompose, StopPersist, StopLabels, InSession
<1>2. \A d \in Commands \ {c} : Resting(d)
  BY <1>1 DEF SerialInv, OneRuns, Resting, Finished, StopLabels, InSession
<1>3. pc'[c] \in StopLabels /\ \A d \in Commands \ {c} : pc'[d] = pc[d]
  BY StopStaysInStop
<1>4. \A d \in Commands \ {c} : latestDue'[d] = latestDue[d]
  BY DEF StopRuntime, StopList, StopReadPointer, StopSelect, StopReadRecords, StopNextSession, StopSignal,
     StopRemoveRead, StopRemoveWrite, StopCompose, StopPersist, UpdateSession, TypeOK
<1>5. \A s \in Sessions : Falls(s)
  BY StopTable DEF Falls
<1>6. \A s \in Sessions : compose'[s] => compose[s]
  <2>1. CASE StopCompose(c)
    BY <2>1 DEF StopCompose, TypeOK
  <2>2. CASE ~StopCompose(c)
    BY <2>2 DEF StopRuntime, StopList, StopReadPointer, StopSelect, StopReadRecords, StopNextSession, StopSignal,
       StopRemoveRead, StopRemoveWrite, StopPersist, worldVars
  <2> QED
    BY <2>1, <2>2
<1>7. ASSUME NEW s \in Sessions
      PROVE  Written(s)
  <2>1. CASE StopPersist(c) /\ s = cur[c]
    <3>1. targets[c][s] \in SessionRecord /\ pc[c] = "persist" /\ CommandInv(c)
      BY <2>1 DEF StopPersist, InHand, InSession, SerialInv
    <3>2. sessionFile'[s] = StoppedSession(targets[c][s])
      BY <2>1 DEF StopPersist, UpdateSession, TypeOK
    <3>3. pc[s] \notin StartLabels \cup {"idle"}
      <4>1. pc[s] # "idle"
        BY <3>1, StoreAssumption DEF CommandInv, StopLabels, InSession
      <4> QED
        BY <1>1, <1>2, <4>1 DEF Resting, Finished, Commands, StartLabels, StopLabels, InSession
    <3>4. Down(os, child, s)
      BY <2>1, <3>1 DEF CommandInv
    <3>5. sessionFile'[s] \in SessionRecord
      BY <3>1, <3>2, StoppedRecord
    <3>6. sessionFile'[s].status = "stopped" => (sessionFile'[s].compose # "absent" => ~compose[s])
      <4>1. targets[c][s].compose \in {"absent", "failed"} \/ (targets[c][s].compose = "stopped" /\ ~compose[s])
        BY <2>1, <3>1 DEF CommandInv
      <4> QED
        BY <3>1, <3>2, <4>1 DEF StoppedSession, SessionRecord
    <3> QED
      BY <3>3, <3>4, <3>5, <3>6 DEF Written
  <2>2. CASE ~(StopPersist(c) /\ s = cur[c])
    <3>1. sessionFile'[s] = sessionFile[s]
      BY <2>2 DEF StopRuntime, StopList, StopReadPointer, StopSelect, StopReadRecords, StopNextSession, StopSignal,
         StopRemoveRead, StopRemoveWrite, StopCompose, StopPersist, UpdateSession, TypeOK, fileVars
    <3> QED
      BY <3>1 DEF Written
  <2> QED
    BY <2>1, <2>2
<1>8. Frame(c)
  BY <1>3, <1>4, <1>5, <1>6, <1>7 DEF Frame, startVars
<1> QED
  BY <1>1, <1>2, <1>3, <1>5, <1>6, <1>7, <1>8

\* The startup of the session in whose cleanup the stop is.
LEMMA StopBase ==
  ASSUME TypeOK, InHand, SerialInv, NEW s \in Sessions, StopRuntime(s), UNCHANGED startVars
  PROVE  SessionBase(s)'
<1> USE DEF startVars, StopLabels, InSession
<1>1. /\ s \in Commands /\ SessionBase(s) /\ Cleaning(s)
      /\ pc[s] \in StopLabels /\ pc'[s] \in StopLabels
      /\ Falls(s) /\ (compose'[s] => compose[s]) /\ Written(s)
  BY StopFrame DEF SerialInv, Commands
<1>2. Shrinks(os', os)
  BY <1>1, StopFrame DEF Shrinks, Falls, Runs
<1>3. /\ \A content \in late'[s] : Tracks(os', child', content)
      /\ Down(os, child, s) => Down(os', child', s)
  BY <1>1, <1>2, ShrinksKeeps DEF SessionBase
<1>4. StoppedTruly(s)'
  <2>1. CASE sessionFile'[s] = sessionFile[s]
    BY <1>1, <1>3, <2>1 DEF SessionBase, StoppedTruly, StartLabels
  <2>2. CASE sessionFile'[s] # sessionFile[s]
    BY <1>1, <1>3, <2>2 DEF Written, StoppedTruly, StartLabels
  <2> QED
    BY <2>1, <2>2
<1>5. \A p \in Pids : ~(os'[p].owner = s /\ os'[p].state = "terminating")
  <2>1. request[s].force = TRUE
    BY <1>1 DEF Cleaning, CleanupRequest
  <2>2. \A p \in Pids : ~(os[p].owner = s /\ os[p].state = "terminating")
    BY <1>1 DEF SessionBase
  <2> QED
    BY <1>1, <2>1, <2>2, StopTable
<1>6. child[s] = NoRecord
  BY <1>1 DEF SessionBase
<1> QED
  BY <1>1, <1>3, <1>4, <1>5, <1>6 DEF SessionBase

\* What a stop selects is on file.
LEMMA StopTargets ==
  ASSUME TypeOK, InHand, SerialInv, NEW c \in Commands, StopRuntime(c), UNCHANGED startVars
  PROVE  \A s \in Sessions : targets'[c][s] # NoFile => pc'[s] # "idle"
<1> SUFFICES ASSUME NEW s \in Sessions, targets'[c][s] # NoFile
             PROVE  pc'[s] # "idle"
  OBVIOUS
<1>1. pc'[s] = pc[s] \/ (s = c /\ pc'[s] \in StopLabels)
  BY StopFrame DEF Frame, Commands
<1>2. sessionFile[s] # NoFile => pc[s] # "idle"
  BY DEF SerialInv, SessionBase
<1>3. pc[c] \in StopLabels \ {"list"} /\ targets[c][s] # NoFile => pc[s] # "idle"
  BY DEF SerialInv, CommandInv
<1>4. CASE StopList(c)
  <2>1. sessionFile[s] # NoFile
    BY <1>4 DEF StopList, TypeOK
  <2> QED
    BY <1>1, <1>2, <2>1 DEF StopLabels, InSession
<1>5. CASE StopSelect(c)
  <2>1. targets'[c][s] = Selected(c)[s] /\ pc[c] = "select"
    BY <1>5 DEF StopSelect, TypeOK
  <2>2. targets[c][s] # NoFile \/ sessionFile[s] # NoFile
    BY <2>1 DEF Selected, Restricted, TypeOK, Request
  <2> QED
    BY <1>1, <1>2, <1>3, <2>1, <2>2 DEF StopLabels, InSession
<1>6. ASSUME ~StopList(c), ~StopSelect(c)
      PROVE  pc'[s] # "idle"
  <2>1. pc[c] \in StopLabels \ {"list"}
    BY <1>6 DEF StopRuntime, StopReadPointer, StopReadRecords, StopNextSession, StopSignal,
       StopRemoveRead, StopRemoveWrite, StopCompose, StopPersist, StopLabels, InSession
  <2>2. targets[c][s] # NoFile
    <3>1. CASE StopRemoveWrite(c) \/ StopCompose(c)
      <4>1. cur[c] \in Sessions /\ targets[c][cur[c]] \in SessionRecord
        BY <3>1 DEF StopRemoveWrite, StopCompose, InHand, InSession
      <4>2. s # cur[c] => targets'[c][s] = targets[c][s]
        BY <3>1 DEF StopRemoveWrite, StopCompose, TypeOK
      <4> QED
        BY <4>1, <4>2, StoreAssumption
    <3>2. CASE StopPersist(c)
      BY <3>2 DEF StopPersist, Remaining, TypeOK
    <3>3. ASSUME ~StopRemoveWrite(c), ~StopCompose(c), ~StopPersist(c)
          PROVE  targets' = targets
      BY <1>6, <3>3 DEF StopRuntime, StopReadPointer, StopReadRecords, StopNextSession, StopSignal,
         StopRemoveRead, stopVars
    <3> QED
      BY <3>1, <3>2, <3>3
  <2> QED
    BY <1>1, <1>3, <2>1, <2>2 DEF StopLabels, InSession
<1> QED
  BY <1>4, <1>5, <1>6

\* The records a stop goes by, and the file of the records after it.
LEMMA StopCommand ==
  ASSUME TypeOK, InHand, SerialInv, NEW c \in Commands, StopRuntime(c), UNCHANGED startVars
  PROVE  CommandInv(c)' /\ Tracks(os', child', processes')
<1> USE DEF startVars, fileVars, worldVars, Goto, InSession
<1>1. /\ CommandInv(c) /\ Tracks(os, child, processes)
      /\ \A s \in Sessions : targets'[c][s] # NoFile => pc'[s] # "idle"
      /\ child' = child
  BY StopTargets DEF SerialInv
<1>2. Shrinks(os', os) /\ \A s \in Sessions : compose'[s] => compose[s]
  BY StopFrame DEF Shrinks, Falls, Runs
<1>3. /\ \A content : Tracks(os, child, content) => Tracks(os', child', content)
      /\ \A s \in Sessions : Down(os, child, s) => Down(os', child', s)
  BY <1>1, <1>2, ShrinksKeeps
<1>4. CASE StopList(c) \/ StopReadPointer(c) \/ StopSelect(c)
  <2>1. pc'[c] \in {"pointer", "select", "stopped", "records"} /\ processes' = processes
    BY <1>4 DEF StopList, StopReadPointer, StopSelect, TypeOK
  <2> QED
    BY <1>1, <1>3, <2>1 DEF CommandInv
<1>5. CASE StopReadRecords(c)
  <2>1. pc'[c] = "session" /\ records'[c] = processes /\ processes' = processes
    BY <1>5 DEF StopReadRecords, TypeOK
  <2> QED
    BY <1>1, <1>3, <2>1 DEF CommandInv
<1>6. CASE StopNextSession(c)
  <2>1. pc[c] = "session" /\ pc'[c] = "signal" /\ records'[c] = records[c] /\ processes' = processes
    BY <1>6 DEF StopNextSession, TypeOK
  <2> QED
    BY <1>1, <1>3, <2>1 DEF CommandInv
<1>7. CASE StopSignal(c)
  <2>1. PICK r \in SessionRecords(c) :
          /\ victim' = [victim EXCEPT ![c] = r]
          /\ os' = IF Alive(r.pid) THEN Signalled(r.pid, request[c].force) ELSE os
    BY <1>7 DEF StopSignal
  <2>2. pc[c] = "signal" /\ pc'[c] = "removeRead" /\ records' = records /\ processes' = processes /\ victim'[c] = r
    BY <1>7, <2>1 DEF StopSignal, TypeOK
  <2>3. os'[r.pid].state # "alive"
    <3>1. r.pid \in Pids /\ os \in [Pids -> OsProcess]
      BY DEF TypeOK, SessionRecords, ProcessRecord
    <3>2. CASE Alive(r.pid)
      BY <2>1, <3>1, <3>2 DEF Signalled, OsProcess
    <3> QED
      BY <2>1, <3>2 DEF Alive
  <2>4. \A s \in Sessions : ~Runs(os', victim'[c].pid, s)
    BY <2>2, <2>3 DEF Runs
  <2> QED
    BY <1>1, <1>3, <2>2, <2>4 DEF CommandInv
<1>8. CASE StopRemoveRead(c)
  <2>1. /\ pc[c] = "removeRead" /\ pc'[c] = "remove" /\ buf'[c] = processes
        /\ UNCHANGED <<records, processes, victim, os>>
    BY <1>8 DEF StopRemoveRead, ReadProcesses, stopVars, TypeOK
  <2>2. \A s \in Sessions : ~Runs(os', victim'[c].pid, s)
    BY <1>1, <2>1 DEF CommandInv
  <2> QED
    BY <1>1, <1>3, <2>1, <2>2 DEF CommandInv
<1>9. CASE StopRemoveWrite(c)
  <2>1. /\ pc[c] = "remove" /\ pc'[c] = "signal" /\ os' = os
        /\ processes' = Removed(buf[c], victim[c].pid) /\ records'[c] = records[c] \ {victim[c]}
    BY <1>9 DEF StopRemoveWrite, TypeOK
  <2>2. Tracks(os, child, processes') /\ Tracks(os, child, records'[c])
    BY <1>1, <2>1, RemovalKeeps DEF CommandInv
  <2> QED
    BY <1>1, <2>1, <2>2 DEF CommandInv
<1>10. CASE StopCompose(c)
  <2>1. /\ pc[c] = "signal" /\ pc'[c] = "persist" /\ SessionRecords(c) = {}
        /\ UNCHANGED <<processes, os, cur, records>>
    BY <1>10 DEF StopCompose, TypeOK
  <2>2. cur[c] \in Sessions /\ targets[c][cur[c]] \in SessionRecord
    BY <2>1 DEF InHand, InSession
  <2>3. Down(os, child, cur[c])
    <3>1. Tracks(os, child, records[c])
      BY <1>1, <2>1 DEF CommandInv
    <3> QED
      BY <2>1, <2>2, <3>1, NothingLeft DEF SessionRecords
  <2>4. \/ targets'[c][cur[c]].compose \in {"absent", "failed"}
        \/ targets'[c][cur[c]].compose = "stopped" /\ ~compose'[cur[c]]
    BY <1>10, <2>2 DEF StopCompose, TypeOK, SessionRecord
  <2> QED
    BY <1>1, <2>1, <2>3, <2>4 DEF CommandInv
<1>11. CASE StopPersist(c)
  <2>1. /\ pc[c] = "persist" /\ processes' = processes /\ os' = os
        /\ (pc'[c] = "stopped" \/ (pc'[c] = "session" /\ records' = records))
    BY <1>11 DEF StopPersist, TypeOK
  <2> QED
    BY <1>1, <2>1 DEF CommandInv
<1> QED
  BY <1>4, <1>5, <1>6, <1>7, <1>8, <1>9, <1>10, <1>11 DEF StopRuntime

\* The cleanup of a startup selects its own session, and ends when that is down.
LEMMA StopCleaning ==
  ASSUME TypeOK, InHand, SerialInv, NEW s \in Sessions, StopRuntime(s), UNCHANGED startVars
  PROVE  Cleaning(s)'
<1> USE DEF startVars, fileVars, worldVars, Goto, Ready, StopLabels, InSession
<1>1. s \in Commands /\ Cleaning(s) /\ CommandInv(s) /\ pc[s] \in StopLabels
  BY StopFrame DEF SerialInv, Commands
<1>2. request' = request /\ request[s] = CleanupRequest(s)
  BY <1>1 DEF Cleaning, StopRuntime, StopList, StopReadPointer, StopSelect, StopReadRecords, StopNextSession,
     StopSignal, StopRemoveRead, StopRemoveWrite, StopCompose, StopPersist, stopVars
<1>3. ASSUME NEW label \in {"pointer", "select"}, pc'[s] = label, targets'[s][s] # NoFile
      PROVE  Cleaning(s)'
  BY <1>2, <1>3 DEF Cleaning, CleanupRequest
<1>4. ASSUME NEW label \in {"records", "session"} \cup InSession, pc'[s] = label,
             \A t \in Sessions \ {s} : targets'[s][t] = NoFile, label \in InSession => cur'[s] = s
      PROVE  Cleaning(s)'
  BY <1>2, <1>4 DEF Cleaning, CleanupRequest
<1>5. CASE StopList(s)
  <2>1. pc'[s] = "pointer" /\ targets'[s] = sessionFile /\ sessionFile[s] # NoFile
    BY <1>1, <1>5, StoreAssumption DEF StopList, TypeOK, InHand
  <2> QED
    BY <1>3, <2>1
<1>6. CASE StopReadPointer(s)
  <2>1. pc[s] = "pointer" /\ pc'[s] = "select" /\ targets' = targets
    BY <1>1, <1>6 DEF StopReadPointer, TypeOK
  <2> QED
    BY <1>1, <1>3, <2>1 DEF Cleaning
<1>7. CASE StopSelect(s)
  <2>1. /\ pc[s] = "select" /\ targets'[s] = Selected(s)
        /\ pc'[s] = IF Selected(s) = NoTargets THEN "stopped" ELSE "records"
    BY <1>1, <1>7 DEF StopSelect, TypeOK
  <2>2. Selected(s) = Restricted(targets[s], {s})
    BY <1>2 DEF Selected, CleanupRequest
  <2>3. Selected(s)[s] # NoFile /\ \A t \in Sessions \ {s} : Selected(s)[t] = NoFile
    BY <1>1, <2>1, <2>2 DEF Restricted, Cleaning
  <2>4. Selected(s) # NoTargets
    BY <2>3 DEF NoTargets
  <2> QED
    BY <1>4, <2>1, <2>3, <2>4
<1>8. CASE StopReadRecords(s)
  <2>1. pc[s] = "records" /\ pc'[s] = "session" /\ targets' = targets
    BY <1>1, <1>8 DEF StopReadRecords, TypeOK
  <2> QED
    BY <1>1, <1>4, <2>1 DEF Cleaning
<1>9. CASE StopNextSession(s)
  <2>1. /\ pc[s] = "session" /\ pc'[s] = "signal" /\ targets' = targets
        /\ \E t \in Sessions : targets[s][t] # NoFile /\ cur'[s] = t
    BY <1>1, <1>9 DEF StopNextSession, TypeOK
  <2>2. \A t \in Sessions \ {s} : targets[s][t] = NoFile
    BY <1>1, <2>1 DEF Cleaning
  <2>3. cur'[s] = s
    BY <2>1, <2>2
  <2> QED
    BY <1>4, <2>1, <2>2, <2>3
<1>10. CASE StopSignal(s) \/ StopRemoveRead(s) \/ StopRemoveWrite(s) \/ StopCompose(s)
  <2>1. /\ pc[s] \in InSession /\ pc'[s] \in InSession /\ cur' = cur
    BY <1>1, <1>10 DEF StopSignal, StopRemoveRead, StopRemoveWrite, StopCompose, TypeOK, stopVars
  <2>2. cur[s] = s /\ \A t \in Sessions \ {s} : targets[s][t] = NoFile
    BY <1>1, <2>1 DEF Cleaning
  <2>3. \A t \in Sessions \ {s} : targets'[s][t] = targets[s][t]
    BY <1>10, <2>2 DEF StopSignal, StopRemoveRead, StopRemoveWrite, StopCompose, TypeOK, stopVars
  <2> QED
    BY <1>4, <2>1, <2>2, <2>3
<1>11. CASE StopPersist(s)
  <2>1. /\ pc[s] = "persist" /\ targets'[s] = Remaining(s) /\ os' = os
        /\ pc'[s] = IF Remaining(s) = NoTargets THEN "stopped" ELSE "session"
    BY <1>1, <1>11 DEF StopPersist, TypeOK
  <2>2. cur[s] = s /\ \A t \in Sessions \ {s} : targets[s][t] = NoFile
    BY <1>1, <2>1 DEF Cleaning
  <2>3. Remaining(s) = NoTargets
    <3>1. DOMAIN targets[s] = Sessions
      BY <1>1 DEF TypeOK
    <3>2. Remaining(s) = [t \in Sessions |-> IF t = s THEN NoFile ELSE targets[s][t]]
      BY <2>2, <3>1 DEF Remaining
    <3> QED
      BY <2>2, <3>2 DEF NoTargets
  <2>4. Down(os', child', s)
    BY <1>1, <2>1, <2>2 DEF CommandInv
  <2> QED
    BY <1>2, <2>1, <2>3, <2>4 DEF Cleaning, CleanupRequest
<1> QED
  BY <1>5, <1>6, <1>7, <1>8, <1>9, <1>10, <1>11 DEF StopRuntime

LEMMA StopSerial ==
  ASSUME TypeOK, InHand, SerialInv, NEW c \in Commands, StopRuntime(c), UNCHANGED startVars
  PROVE  SerialInv'
<1>1. /\ OneRuns'
      /\ \A d \in Commands \ {c} : CommandInv(d)'
      /\ \A s \in Sessions \ {c} : SessionBase(s)' /\ Cleaning(s)'
  BY StopFrame, OthersKept
<1>2. CommandInv(c)' /\ Tracks(os', child', processes')
  BY StopCommand
<1>3. c \in Sessions => SessionBase(c)' /\ Cleaning(c)'
  BY StopBase, StopCleaning
<1> QED
  BY <1>1, <1>2, <1>3 DEF SerialInv

-----------------------------------------------------------------------------
(* The steps of a start *)

StartStep(s) ==
    StartRuntime(s) \/ CreateSession(s) \/ CutShort(s, "interrupted") \/ CutShort(s, "timed_out")

\* A startup goes on with itself only.
LEMMA StartOwnMemory ==
  ASSUME TypeOK, NEW s \in Sessions, StartStep(s)
  PROVE  /\ \A d \in Commands \ {s} : pc'[d] = pc[d] /\ latestDue'[d] = latestDue[d]
         /\ \A t \in Sessions \ {s} : child'[t] = child[t] /\ late'[t] = late[t] /\ compose'[t] = compose[t]
<1> USE DEF fileVars, cmdVars, worldVars, stopVars, startVars, Goto, Commands
<1>1. CASE \/ CreateSession(s) \/ ObservingPhase(s) \/ EnvironmentPhase(s) \/ SetupPhase(s)
           \/ ComposePersist(s) \/ ApplicationsPersist(s) \/ RecordState(s)
           \/ CleanupPersist(s) \/ CutShort(s, "interrupted") \/ CutShort(s, "timed_out")
  <2>1. \E label : pc' = [pc EXCEPT ![s] = label]
    BY <1>1 DEF CreateSession, ObservingPhase, EnvironmentPhase, SetupPhase, ComposePersist,
       ApplicationsPersist, RecordState, CleanupPersist, CutShort
  <2>2. latestDue' = [latestDue EXCEPT ![s] = s] /\ UNCHANGED <<child, late, compose>>
    BY <1>1 DEF CreateSession, ObservingPhase, EnvironmentPhase, SetupPhase, ComposePersist,
       ApplicationsPersist, RecordState, CleanupPersist, CutShort, Persist, UpdateSession
  <2> QED
    BY <2>1, <2>2 DEF TypeOK
<1>2. CASE SkipCompose(s) \/ SpawnError(s) \/ ProbeElapsed(s) \/ CleanupRead(s)
  BY <1>2 DEF SkipCompose, SpawnError, ProbeElapsed, CleanupRead, TypeOK
<1>3. CASE SpawnApplication(s) \/ RegisterWrite(s)
  BY <1>3 DEF SpawnApplication, RegisterWrite, TypeOK
<1>4. CASE ChildExits(s)
  <2>1. /\ pc' = [pc EXCEPT ![s] = "applications"] /\ child' = [child EXCEPT ![s] = NoRecord]
        /\ UNCHANGED <<latestDue, compose>>
        /\ late' = late \/ \E contents : late' = [late EXCEPT ![s] = contents]
    BY <1>4 DEF ChildExits
  <2> QED
    BY <2>1 DEF TypeOK
<1>5. CASE LateWrite(s)
  <2>1. UNCHANGED <<pc, latestDue, child, compose>> /\ \E contents : late' = [late EXCEPT ![s] = contents]
    BY <1>5 DEF LateWrite
  <2> QED
    BY <2>1 DEF TypeOK
<1>6. CASE ComposeUp(s)
  <2>1. /\ pc' = [pc EXCEPT ![s] = "composed"] /\ UNCHANGED <<latestDue, child, late>>
        /\ compose' = compose \/ compose' = [compose EXCEPT ![s] = TRUE]
    BY <1>6 DEF ComposeUp
  <2> QED
    BY <2>1 DEF TypeOK
<1> QED
  BY <1>1, <1>2, <1>3, <1>4, <1>5, <1>6 DEF StartStep, StartRuntime

\* A startup spawns its own processes only.
LEMMA StartTable ==
  ASSUME TypeOK, NEW s \in Sessions, StartStep(s)
  PROVE  /\ \A t \in Sessions \ {s} : Falls(t)
         /\ ~SpawnApplication(s) => os' = os
<1>1. CASE SpawnApplication(s)
  <2>1. PICK p \in Pids : os' = [os EXCEPT ![p] = Ownership(s)]
    BY <1>1 DEF SpawnApplication
  <2> QED
    BY <1>1, <2>1 DEF TypeOK, Falls, Ownership
<1>2. ASSUME ~SpawnApplication(s)
      PROVE  os' = os
  BY <1>2 DEF StartStep, StartRuntime, CreateSession, CutShort, ObservingPhase, EnvironmentPhase, SetupPhase,
     SkipCompose, ComposeUp, ComposePersist, SpawnError, ProbeElapsed, RegisterWrite, ChildExits, LateWrite,
     ApplicationsPersist, RecordState, CleanupRead, CleanupPersist, worldVars
<1> QED
  BY <1>1, <1>2 DEF Falls

LEMMA StartFrame ==
  ASSUME TypeOK, SerialInv, NEW s \in Sessions, StartStep(s), CreateSession(s) => MayBegin(s), Orderly
  PROVE  (\A d \in Commands \ {s} : Resting(d)) /\ Frame(s)
<1>1. ASSUME ~CreateSession(s)
      PROVE  ~Resting(s)
  <2>1. CASE LateWrite(s)
    <3>1. late[s] # {} /\ SessionBase(s) /\ pc[s] # "crashed"
      BY <2>1 DEF LateWrite, SerialInv
    <3> QED
      BY <3>1 DEF SessionBase, Resting, Finished
  <2>2. ASSUME ~LateWrite(s)
        PROVE  pc[s] \in StartLabels \cup {"stopped", "cleaned"}
    BY <1>1, <2>2 DEF StartStep, StartRuntime, CutShort, Checkpoint, ObservingPhase, EnvironmentPhase, SetupPhase,
       SkipCompose, ComposeUp, ComposePersist, SpawnApplication, SpawnError, ProbeElapsed, RegisterWrite,
       ChildExits, ApplicationsPersist, RecordState, CleanupRead, CleanupPersist, StartLabels
  <2> QED
    BY <2>1, <2>2 DEF Resting, Finished, StartLabels
<1>2. \A d \in Commands \ {s} : Resting(d)
  <2>1. CASE CreateSession(s)
    BY <2>1 DEF MayBegin, Orderly, Resting
  <2>2. CASE ~CreateSession(s)
    BY <1>1, <2>2 DEF SerialInv, OneRuns, Commands
  <2> QED
    BY <2>1, <2>2
<1>3. \A t \in Sessions \ {s} : sessionFile'[t] = sessionFile[t] /\ mem'[t] = mem[t]
  BY StartKeepsOthers DEF StartStep
<1>4. Frame(s)
  BY <1>3, StartOwnMemory, StartTable DEF Frame, Written
<1> QED
  BY <1>2, <1>4

\* Where a startup has nothing in hand, nothing has to be known of its command.
LEMMA StartCommand ==
  ASSUME NEW s \in Sessions, pc'[s] \in (StartLabels \ {"register"}) \cup {"list", "cleaned", "done"}
  PROVE  CommandInv(s)'
BY DEF CommandInv, StartLabels, StopLabels, InSession

\* A startup that persists its session.
LEMMA PersistSerial ==
  ASSUME TypeOK, InHand, SerialInv, NEW s \in Sessions, NEW record \in SessionRecord, record.status # "stopped",
         NEW label \in (StartLabels \ {"register"}) \cup {"list", "done"}, Persist(s, record), Goto(s, label),
         pc[s] \notin {"probe", "register", "done", "crashed"},
         label = "list" => request'[s] = CleanupRequest(s),
         label = "done" /\ record.status \in {"interrupted", "timed_out"} => Down(os, child, s),
         UNCHANGED <<processes, worldVars, child, late>>
  PROVE  CommandInv(s)' /\ SessionBase(s)' /\ Cleaning(s)' /\ Tracks(os', child', processes')
<1> USE DEF worldVars, StopLabels, InSession, StartLabels
<1>1. pc'[s] = label /\ mem'[s] = record /\ sessionFile'[s] = record
  BY DEF Persist, UpdateSession, Goto, TypeOK, Commands
<1>2. SessionBase(s) /\ Tracks(os, child, processes) /\ child[s] = NoRecord
  BY DEF SerialInv, SessionBase
<1>3. \A p \in Pids : ~(os[p].owner = s /\ os[p].state = "terminating")
  BY <1>2 DEF SessionBase
<1>4. CommandInv(s)'
  BY <1>1, StartCommand
<1>5. Cleaning(s)'
  BY <1>1 DEF Cleaning, CleanupRequest
<1>6. label = "done" /\ record.status \in {"interrupted", "timed_out"} =>
          \A p \in Pids : os[p].owner = s => ~Alive(p)
  BY <1>2, <1>3 DEF Down, Runs, IsChild, Alive
<1>7. SessionBase(s)'
  BY <1>1, <1>2, <1>3, <1>6 DEF SessionBase, StoppedTruly, Alive
<1> QED
  BY <1>2, <1>4, <1>5, <1>7

\* What is to be shown of the startup that takes a step.
OwnKept(s) == CommandInv(s)' /\ SessionBase(s)' /\ Cleaning(s)' /\ Tracks(os', child', processes')

LEMMA PersistingSerial ==
  ASSUME TypeOK, InHand, SerialInv, NEW s \in Sessions,
         \/ CreateSession(s) \/ ObservingPhase(s) \/ EnvironmentPhase(s) \/ SetupPhase(s)
         \/ ComposePersist(s) \/ ApplicationsPersist(s) \/ RecordState(s) \/ CleanupPersist(s)
         \/ CutShort(s, "interrupted") \/ CutShort(s, "timed_out")
  PROVE  OwnKept(s)
<1> USE DEF StartLabels
<1>1. /\ mem[s] \in SessionRecord /\ mem[s].status # "stopped" /\ Cleaning(s)
      /\ UNCHANGED <<processes, worldVars, child, late>>
  BY DEF TypeOK, SerialInv, SessionBase, CreateSession, ObservingPhase, EnvironmentPhase, SetupPhase,
     ComposePersist, ApplicationsPersist, RecordState, CleanupPersist, CutShort
<1>2. ASSUME NEW record \in SessionRecord, record.status # "stopped", NEW label \in StartLabels \ {"register"},
             Persist(s, record), Goto(s, label), pc[s] \notin {"probe", "register", "done", "crashed"}
      PROVE  OwnKept(s)
  BY <1>1, <1>2, PersistSerial DEF OwnKept
<1>3. CASE CreateSession(s)
  <2>1. PICK warned \in Trouble("warnings") : Persist(s, CreatedSession(warned))
    BY <1>3 DEF CreateSession
  <2>2. CreatedSession(warned) \in SessionRecord /\ CreatedSession(warned).status # "stopped"
    BY CreatedTypes DEF NewSession, Alike
  <2> QED
    BY <1>2, <1>3, <2>1, <2>2 DEF CreateSession
<1>4. CASE ObservingPhase(s)
  <2>1. Following[pc[s]] \in StartLabels \ {"register"}
    BY <1>4 DEF ObservingPhase, Following
  <2>2. PICK record \in SessionRecord : Persist(s, record) /\ record.status = mem[s].status
    BY <1>4, ObservedIsAlike DEF Alike
  <2> QED
    BY <1>1, <1>2, <1>4, <2>1, <2>2 DEF ObservingPhase
<1>5. CASE EnvironmentPhase(s)
  <2>1. PICK record \in SessionRecord : Persist(s, record) /\ record.status = mem[s].status
    BY <1>5, EnvironmentRecord DEF PhaseRecord
  <2>2. Following["environment"] \in StartLabels \ {"register"}
    BY DEF Following
  <2> QED
    BY <1>1, <1>2, <1>5, <2>1, <2>2 DEF EnvironmentPhase
<1>6. CASE SetupPhase(s)
  <2>1. PICK record \in SessionRecord, errors \in BOOLEAN :
          /\ Persist(s, record) /\ record.status = mem[s].status
          /\ Goto(s, AfterErrorsOr(errors, "compose"))
    BY <1>6, SetupRecord DEF PhaseRecord
  <2>2. AfterErrorsOr(errors, "compose") \in StartLabels \ {"register"}
    BY DEF AfterErrorsOr
  <2> QED
    BY <1>1, <1>2, <1>6, <2>1, <2>2 DEF SetupPhase
<1>7. CASE ComposePersist(s) \/ ApplicationsPersist(s)
  <2>1. AfterErrorsOr(mem[s].errors, "applications") \in StartLabels \ {"register"}
    BY DEF AfterErrorsOr
  <2>2. ApplicationsPersist(s) => \E record \in SessionRecord : Persist(s, record) /\ record.status = mem[s].status
    BY ApplicationsRecord DEF Alike
  <2> QED
    BY <1>1, <1>2, <1>7, <2>1, <2>2 DEF ComposePersist, ApplicationsPersist
<1>8. CASE RecordState(s)
  <2> DEFINE record == [mem[s] EXCEPT !.status = FinalStatus(mem[s])]
  <2>1. FinalStatus(mem[s]) \in {"failed", "running", "succeeded"}
    BY DEF FinalStatus
  <2>2. record \in SessionRecord /\ record.status \in {"failed", "running", "succeeded"}
    BY <1>1, <2>1 DEF SessionRecord, SessionStatus
  <2>3. pc[s] = "record" /\ Goto(s, "done") /\ Persist(s, record)
    BY <1>8 DEF RecordState
  <2> HIDE DEF record
  <2> QED
    BY <1>1, <2>2, <2>3, PersistSerial DEF OwnKept
<1>9. CASE CleanupPersist(s)
  <2>1. pc[s] = "cleaned" /\ Goto(s, "done") /\ Persist(s, mem[s])
    BY <1>9 DEF CleanupPersist
  <2>2. Down(os, child, s)
    BY <1>1, <2>1 DEF Cleaning
  <2> QED
    BY <1>1, <2>1, <2>2, PersistSerial DEF OwnKept
<1>10. ASSUME NEW status \in {"interrupted", "timed_out"}, CutShort(s, status)
       PROVE  OwnKept(s)
  <2> DEFINE record == [mem[s] EXCEPT !.status = status, !.errors = TRUE, !.warnings = TRUE]
  <2>1. record \in SessionRecord /\ record.status = status
    BY <1>1 DEF SessionRecord, SessionStatus
  <2>2. /\ Goto(s, "list") /\ Persist(s, record) /\ Checkpoint(s)
        /\ request' = [request EXCEPT ![s] = CleanupRequest(s)]
    BY <1>10 DEF CutShort
  <2>3. request'[s] = CleanupRequest(s) /\ pc[s] \notin {"probe", "register", "done", "crashed"}
    BY <2>2 DEF TypeOK, Commands, Checkpoint
  <2> HIDE DEF record
  <2> QED
    BY <1>1, <2>1, <2>2, <2>3, PersistSerial DEF OwnKept
<1> QED
  BY <1>3, <1>4, <1>5, <1>6, <1>7, <1>8, <1>9, <1>10

\* A step between two applications or phases that leaves the process table and the records alone.
LEMMA BetweenSerial ==
  ASSUME TypeOK, SerialInv, NEW s \in Sessions, SkipCompose(s) \/ ComposeUp(s) \/ SpawnError(s)
  PROVE  OwnKept(s)
<1> USE DEF fileVars, worldVars, cmdVars, stopVars, startVars, Goto, StartLabels, StopLabels, InSession
<1>1. /\ pc[s] \in {"compose", "applications"} /\ pc'[s] \in {"applications", "composed"}
      /\ UNCHANGED <<os, processes, child, late, sessionFile>>
  BY DEF SkipCompose, ComposeUp, SpawnError, TypeOK, Commands
<1>2. mem'[s].status = mem[s].status
  <2>1. \/ mem' = mem
        \/ mem' = [mem EXCEPT ![s] = [mem[s] EXCEPT !.compose = "running"]]
        \/ mem' = [mem EXCEPT ![s] = [mem[s] EXCEPT !.compose = "failed", !.errors = TRUE]]
        \/ mem' = [mem EXCEPT ![s] = [mem[s] EXCEPT !.errors = TRUE]]
    BY DEF SkipCompose, ComposeUp, SpawnError
  <2>2. PICK record : mem' = [mem EXCEPT ![s] = record] /\ record.status = mem[s].status
    <3>1. mem \in [Sessions -> SessionRecord] /\ mem[s] \in SessionRecord
      BY DEF TypeOK
    <3>2. /\ [mem[s] EXCEPT !.compose = "running"].status = mem[s].status
          /\ [mem[s] EXCEPT !.compose = "failed", !.errors = TRUE].status = mem[s].status
          /\ [mem[s] EXCEPT !.errors = TRUE].status = mem[s].status
      BY <3>1 DEF SessionRecord
    <3>3. mem = [mem EXCEPT ![s] = mem[s]]
      BY <3>1
    <3> QED
      BY <2>1, <3>2, <3>3
  <2> QED
    BY <2>2 DEF TypeOK
<1>3. SessionBase(s) /\ Tracks(os, child, processes)
  BY DEF SerialInv
<1>4. CommandInv(s)' /\ Cleaning(s)'
  BY <1>1, StartCommand DEF Cleaning
<1>5. SessionBase(s)'
  BY <1>1, <1>2, <1>3 DEF SessionBase, StoppedTruly
<1> QED
  BY <1>1, <1>3, <1>4, <1>5 DEF OwnKept

LEMMA SpawnSerial ==
  ASSUME TypeOK, SerialInv, NEW s \in Sessions, SpawnApplication(s)
  PROVE  OwnKept(s)
<1> USE DEF fileVars, Goto, StartLabels, StopLabels, InSession
<1>1. PICK a \in todo[s], p \in Pids :
        /\ os' = [os EXCEPT ![p] = Ownership(s)]
        /\ child' = [child EXCEPT ![s] = [pid |-> p, session |-> s, app |-> a]]
  BY DEF SpawnApplication
<1> DEFINE r == [pid |-> p, session |-> s, app |-> a]
<1>2. /\ pc[s] = "applications" /\ pc'[s] = "probe"
      /\ UNCHANGED <<sessionFile, processes, compose, mem, late>>
  BY DEF SpawnApplication, TypeOK, Commands
<1>3. SessionBase(s) /\ Tracks(os, child, processes) /\ child[s] = NoRecord
  BY <1>2 DEF SerialInv, SessionBase
<1>4. \A content : Tracks(os, child, content) => Tracks(os', child', content)
  <2>1. r \in ProcessRecord /\ r.pid = p
    BY DEF TypeOK, ProcessRecord
  <2>2. os \in [Pids -> OsProcess] /\ child \in [Sessions -> ProcessRecord \cup {NoRecord}]
    BY DEF TypeOK
  <2>3. os' = [os EXCEPT ![r.pid] = Ownership(s)] /\ child' = [child EXCEPT ![s] = r]
    BY <1>1
  <2> HIDE DEF r
  <2> QED
    BY <1>3, <2>1, <2>2, <2>3, SpawnKeeps
<1>5. CommandInv(s)' /\ Cleaning(s)'
  BY <1>2, StartCommand DEF Cleaning
<1>6. child'[s].session = s
  BY <1>1 DEF TypeOK
<1>7. \A q \in Pids : ~(os'[q].owner = s /\ os'[q].state = "terminating")
  BY <1>1, <1>2, <1>3 DEF SessionBase, TypeOK, Ownership
<1>8. SessionBase(s)'
  BY <1>2, <1>3, <1>4, <1>6, <1>7 DEF SessionBase, StoppedTruly
<1> QED
  BY <1>2, <1>3, <1>4, <1>5, <1>8 DEF OwnKept

LEMMA ProbeSerial ==
  ASSUME TypeOK, SerialInv, NEW s \in Sessions, ProbeElapsed(s), Orderly
  PROVE  OwnKept(s)
<1> USE DEF fileVars, worldVars, stopVars, startVars, Goto, StartLabels, StopLabels, InSession
<1>1. /\ pc[s] = "probe" /\ pc'[s] = "register" /\ buf'[s] = processes /\ late[s] = {}
      /\ UNCHANGED <<sessionFile, processes, os, compose, child, mem, late>>
  BY DEF ProbeElapsed, ReadProcesses, TypeOK, Commands, Orderly
<1>2. SessionBase(s) /\ Tracks(os, child, processes)
  BY DEF SerialInv
<1>3. CommandInv(s)' /\ Cleaning(s)'
  BY <1>1, <1>2 DEF CommandInv, Cleaning
<1>4. SessionBase(s)'
  BY <1>1, <1>2 DEF SessionBase, StoppedTruly, Alive
<1> QED
  BY <1>1, <1>2, <1>3, <1>4 DEF OwnKept

\* The child is on record, or was seen to have exited.
LEMMA SettleSerial ==
  ASSUME TypeOK, InHand, SerialInv, NEW s \in Sessions, RegisterWrite(s) \/ ChildExits(s)
  PROVE  OwnKept(s)
<1> USE DEF fileVars, worldVars, stopVars, Goto, StartLabels, StopLabels, InSession
<1>1. /\ pc[s] \in {"probe", "register"} /\ pc'[s] = "applications" /\ child' = [child EXCEPT ![s] = NoRecord]
      /\ UNCHANGED <<sessionFile, os, compose>>
  BY DEF RegisterWrite, ChildExits, TypeOK, Commands
<1>2. /\ SessionBase(s) /\ CommandInv(s) /\ Tracks(os, child, processes)
      /\ child[s] \in ProcessRecord /\ child[s].session = s
  BY <1>1, StoreAssumption DEF SerialInv, SessionBase, InHand, Commands
<1>3. mem'[s].status = mem[s].status
  <2>1. \E apps : \/ mem' = [mem EXCEPT ![s] = [mem[s] EXCEPT !.apps = apps]]
                  \/ mem' = [mem EXCEPT ![s] = [mem[s] EXCEPT !.errors = TRUE]]
    BY DEF RegisterWrite, ChildExits
  <2> QED
    BY <2>1 DEF TypeOK, SessionRecord
<1>4. child \in [Sessions -> ProcessRecord \cup {NoRecord}]
  BY DEF TypeOK
<1>5. \A content : Tracks(os, child, content) =>
        /\ Tracks(os, child', content \cup {child[s]})
        /\ ~Runs(os, child[s].pid, s) => Tracks(os, child', content)
  BY <1>1, <1>2, <1>4, SettledKeeps
<1>6. pc[s] = "register" => Tracks(os, child', AfterRegistration(s)) /\ late[s] = {}
  BY <1>2, <1>5 DEF CommandInv, AfterRegistration, Registered, SessionBase
<1>7. Tracks(os, child', processes') /\ \A content \in late'[s] : Tracks(os, child', content)
  <2>1. CASE RegisterWrite(s)
    BY <1>6, <2>1 DEF RegisterWrite
  <2>2. CASE ChildExits(s)
    <3>1. ~Runs(os, child[s].pid, s)
      BY <2>2 DEF ChildExits, HasExited, Runs, Alive
    <3>2. processes' = processes
      BY <2>2 DEF ChildExits
    <3>3. late'[s] = late[s] \/ (pc[s] = "register" /\ late'[s] = late[s] \cup {AfterRegistration(s)})
      <4> DEFINE more == late[s] \cup {AfterRegistration(s)}
      <4>1. late' = late \/ (pc[s] = "register" /\ late' = [late EXCEPT ![s] = more])
        BY <2>2 DEF ChildExits
      <4> HIDE DEF more
      <4>2. late'[s] = late[s] \/ (pc[s] = "register" /\ late'[s] = more)
        BY <4>1 DEF TypeOK
      <4> QED
        BY <4>2 DEF more
    <3>4. \A content \in late[s] : Tracks(os, child, content)
      BY <1>2 DEF SessionBase
    <3> QED
      BY <1>2, <1>5, <1>6, <3>1, <3>2, <3>3, <3>4
  <2> QED
    BY <2>1, <2>2
<1>8. CommandInv(s)' /\ Cleaning(s)'
  BY <1>1, StartCommand DEF Cleaning
<1>9. child'[s] = NoRecord
  BY <1>1 DEF TypeOK
<1>10. SessionBase(s)'
  BY <1>1, <1>2, <1>3, <1>7, <1>9 DEF SessionBase, StoppedTruly
<1> QED
  BY <1>1, <1>7, <1>8, <1>10 DEF OwnKept

LEMMA LateSerial ==
  ASSUME TypeOK, SerialInv, NEW s \in Sessions, LateWrite(s)
  PROVE  OwnKept(s)
<1> USE DEF worldVars, cmdVars, stopVars
<1>1. PICK content \in late[s] : processes' = content /\ late' = [late EXCEPT ![s] = late[s] \ {content}]
  BY DEF LateWrite
<1>2. UNCHANGED <<sessionFile, os, compose, pc, buf, latestDue, request, targets, records, cur, victim, mem, child>>
  BY DEF LateWrite
<1>3. SessionBase(s) /\ CommandInv(s) /\ Cleaning(s)
  BY DEF SerialInv, Commands
<1>4. late'[s] \subseteq late[s]
  BY <1>1 DEF TypeOK
<1>5. CommandInv(s)' /\ Cleaning(s)'
  BY <1>2, <1>3 DEF CommandInv, Cleaning, CleanupRequest, Ready
<1>6. SessionBase(s)'
  BY <1>2, <1>3, <1>4 DEF SessionBase, StoppedTruly, Alive
<1> QED
  BY <1>1, <1>2, <1>3, <1>5, <1>6 DEF OwnKept, SessionBase

LEMMA ReadBackSerial ==
  ASSUME TypeOK, InHand, SerialInv, NEW s \in Sessions, CleanupRead(s)
  PROVE  OwnKept(s)
<1> USE DEF fileVars, worldVars, stopVars, Goto, StartLabels, StopLabels, InSession
<1>1. /\ pc[s] = "stopped" /\ pc'[s] = "cleaned"
      /\ UNCHANGED <<sessionFile, os, compose, child, late, processes, request>>
  BY DEF CleanupRead, TypeOK, Commands
<1>2. mem'[s].status = mem[s].status
  <2> DEFINE back == [sessionFile[s] EXCEPT !.status = mem[s].status, !.errors = TRUE, !.warnings = TRUE]
  <2>1. sessionFile[s] \in SessionRecord
    BY <1>1 DEF InHand
  <2>2. back.status = mem[s].status
    BY <2>1 DEF SessionRecord
  <2>3. mem' = [mem EXCEPT ![s] = back]
    BY DEF CleanupRead
  <2> HIDE DEF back
  <2> QED
    BY <2>2, <2>3 DEF TypeOK
<1>3. SessionBase(s) /\ Cleaning(s) /\ Tracks(os, child, processes)
  BY DEF SerialInv
<1>4. CommandInv(s)'
  BY <1>1, StartCommand
<1>5. Cleaning(s)'
  BY <1>1, <1>3 DEF Cleaning, CleanupRequest
<1>6. SessionBase(s)'
  BY <1>1, <1>2, <1>3 DEF SessionBase, StoppedTruly
<1> QED
  BY <1>1, <1>3, <1>4, <1>5, <1>6 DEF OwnKept

LEMMA StartSerial ==
  ASSUME TypeOK, InHand, SerialInv, NEW s \in Sessions, StartStep(s), CreateSession(s) => MayBegin(s), Orderly
  PROVE  SerialInv'
<1>1. /\ OneRuns'
      /\ \A d \in Commands \ {s} : CommandInv(d)'
      /\ \A t \in Sessions \ {s} : SessionBase(t)' /\ Cleaning(t)'
  BY StartFrame, OthersKept DEF Commands
<1>2. OwnKept(s)
  BY PersistingSerial, BetweenSerial, SpawnSerial, ProbeSerial, SettleSerial, LateSerial, ReadBackSerial
     DEF StartStep, StartRuntime
<1> QED
  BY <1>1, <1>2 DEF SerialInv, OwnKept

-----------------------------------------------------------------------------
(* The other steps *)

\* A step that changes neither a command's memory nor the files but the pointer, and starts no process.
Calm ==
    /\ UNCHANGED <<sessionFile, processes, compose, pc, buf, stopVars, startVars>>
    /\ \A c \in Commands : latestDue'[c] \in {latestDue[c], NoSession}
    /\ \A s \in Sessions : Falls(s)
    /\ \A p \in Pids : os'[p].state = "terminating" => os[p].state = "terminating" /\ os'[p].owner = os[p].owner

LEMMA CalmSerial == ASSUME InHand, SerialInv, Calm PROVE SerialInv'
<1> USE DEF Calm, stopVars, startVars
<1>1. Shrinks(os', os)
  BY DEF Shrinks, Falls, Runs
<1>2. /\ \A content : Tracks(os, child, content) => Tracks(os', child', content)
      /\ \A s \in Sessions : Down(os, child, s) => Down(os', child', s)
  BY <1>1, ShrinksKeeps
<1>3. Tracks(os', child', processes')
  BY <1>2 DEF SerialInv
<1>4. \A c \in Commands : (Resting(c) => Resting(c)') /\ (Ready(c) => Ready(c)')
  BY DEF Resting, Finished, Ready
<1>5. OneRuns'
  BY <1>4 DEF SerialInv, OneRuns
<1>6. ASSUME NEW c \in Commands
      PROVE  CommandInv(c)'
  <2>1. CommandInv(c)
    BY DEF SerialInv
  <2>2. \A s \in Sessions : ~Runs(os, victim[c].pid, s) => ~Runs(os', victim[c].pid, s) \/ victim[c].pid \notin Pids
    BY <1>1 DEF Shrinks
  <2>3. pc[c] \in {"removeRead", "remove"} => victim[c].pid \in Pids
    BY DEF InHand, ProcessRecord
  <2>4. pc[c] = "persist" => cur[c] \in Sessions
    BY DEF InHand, InSession
  <2> QED
    BY <1>2, <1>4, <2>1, <2>2, <2>3, <2>4 DEF CommandInv
<1>7. ASSUME NEW s \in Sessions
      PROVE  SessionBase(s)' /\ Cleaning(s)'
  <2>1. SessionBase(s) /\ Cleaning(s) /\ Falls(s)
    BY DEF SerialInv
  <2>2. StoppedTruly(s)'
    BY <1>2, <2>1 DEF SessionBase, StoppedTruly
  <2>3. SessionBase(s)'
    BY <1>2, <2>1, <2>2 DEF SessionBase, Falls, Alive
  <2>4. Cleaning(s)'
    BY <1>2, <2>1 DEF Cleaning, CleanupRequest
  <2> QED
    BY <2>3, <2>4
<1> QED
  BY <1>3, <1>5, <1>6, <1>7 DEF SerialInv

LEMMA WorldIsCalm == ASSUME TypeOK, World PROVE Calm
<1> USE StoreAssumption DEF World, fileVars, cmdVars
<1>1. PICK p \in Pids : ProcessExit(p) \/ ForeignSpawn(p)
  OBVIOUS
<1>2. /\ UNCHANGED <<sessionFile, processes, compose, pc, buf, latestDue, stopVars, startVars>>
  BY DEF ProcessExit, ForeignSpawn
<1>3. os \in [Pids -> OsProcess] /\ os[p] \in OsProcess
  BY DEF TypeOK
<1>4. PICK after : os' = [os EXCEPT ![p] = after] /\ after.state # "terminating" /\
                   (after.owner \in Sessions => after.owner = os[p].owner /\ after.state = "exited")
  <2> DEFINE exited == [os[p] EXCEPT !.state = "exited"]
             given == [owner |-> Foreign, state |-> "alive"]
  <2>1. os' = [os EXCEPT ![p] = exited] \/ os' = [os EXCEPT ![p] = given]
    BY <1>1 DEF ProcessExit, ForeignSpawn
  <2>2. exited.owner = os[p].owner /\ exited.state = "exited"
    BY <1>3 DEF OsProcess
  <2>3. given.owner = Foreign /\ given.state = "alive"
    OBVIOUS
  <2> HIDE DEF exited, given
  <2> QED
    BY <2>1, <2>2, <2>3
<1>6. \A s \in Sessions : Falls(s)
  BY <1>3, <1>4 DEF Falls
<1>7. \A q \in Pids : os'[q].state = "terminating" => os[q].state = "terminating" /\ os'[q].owner = os[q].owner
  BY <1>3, <1>4
<1> QED
  BY <1>2, <1>6, <1>7 DEF Calm

LEMMA StillIsCalm ==
  ASSUME TypeOK, \/ UNCHANGED vars
                 \/ \E c \in Commands : WriteLatest(c) /\ UNCHANGED <<stopVars, startVars>>
  PROVE  Calm
<1> USE DEF vars, fileVars, worldVars, cmdVars
<1>1. os' = os
  BY DEF WriteLatest
<1>2. UNCHANGED <<sessionFile, processes, compose, pc, buf, stopVars, startVars>>
  BY DEF WriteLatest
<1>3. \A c \in Commands : latestDue'[c] \in {latestDue[c], NoSession}
  BY DEF WriteLatest, TypeOK
<1> QED
  BY <1>1, <1>2, <1>3 DEF Calm, Falls

LEMMA StopEndsSerial ==
  ASSUME TypeOK, SerialInv, NEW c \in Stops, BeginStop(c) \/ EndStop(c), Orderly
  PROVE  SerialInv'
<1> USE DEF fileVars, worldVars, startVars, Goto, Orderly
<1>1. c \in Commands /\ c \notin Sessions
  BY StoreAssumption DEF Commands
<1>2. \A d \in Commands \ {c} : Resting(d)
  <2>1. CASE BeginStop(c)
    BY <2>1 DEF BeginStop, MayBegin, Resting
  <2>2. CASE EndStop(c)
    BY <1>1, <2>2 DEF EndStop, SerialInv, OneRuns, Resting, Finished
  <2> QED
    BY <2>1, <2>2
<1>3. /\ pc'[c] \in {"list", "done"} /\ \A d \in Commands \ {c} : pc'[d] = pc[d]
      /\ UNCHANGED <<sessionFile, processes, os, compose, latestDue, child, late, mem>>
  BY <1>1 DEF BeginStop, EndStop, TypeOK
<1>4. Frame(c)
  BY <1>3 DEF Frame, Falls, Written
<1>5. CommandInv(c)'
  BY <1>3 DEF CommandInv, StopLabels, InSession
<1> QED
  BY <1>1, <1>2, <1>3, <1>4, <1>5, OthersKept DEF SerialInv

LEMMA CrashSerial ==
  ASSUME TypeOK, SerialInv, NEW c \in Commands, Crash(c)
  PROVE  SerialInv'
<1> USE DEF fileVars, worldVars, Goto
<1>1. \A d \in Commands \ {c} : Resting(d)
  BY DEF Crash, SerialInv, OneRuns, Resting, Finished
<1>2. /\ pc'[c] = "crashed" /\ \A d \in Commands \ {c} : pc'[d] = pc[d]
      /\ latestDue'[c] = NoSession /\ \A d \in Commands \ {c} : latestDue'[d] = latestDue[d]
      /\ UNCHANGED <<sessionFile, processes, os, compose, child>>
  BY DEF Crash, Forgotten, TypeOK
<1>3. \A s \in Sessions : /\ s # c => late'[s] = late[s] /\ mem'[s] = mem[s]
                          /\ s = c => late'[s] = {} /\ mem'[s] = NewSession
  BY DEF Crash, Forgotten, TypeOK
<1>4. Frame(c)
  BY <1>2, <1>3 DEF Frame, Falls, Written
<1>5. CommandInv(c)'
  BY <1>2 DEF CommandInv, StopLabels, InSession, Ready
<1>6. c \in Sessions => SessionBase(c)' /\ Cleaning(c)'
  <2> SUFFICES ASSUME c \in Sessions PROVE SessionBase(c)' /\ Cleaning(c)'
    OBVIOUS
  <2>1. SessionBase(c) /\ NewSession.status # "stopped"
    BY DEF SerialInv, NewSession
  <2>2. SessionBase(c)'
    BY <1>2, <1>3, <2>1 DEF SessionBase, StoppedTruly, StartLabels
  <2>3. Cleaning(c)'
    BY <1>2 DEF Cleaning, StopLabels, InSession
  <2> QED
    BY <2>2, <2>3
<1> QED
  BY <1>1, <1>2, <1>4, <1>5, <1>6, OthersKept DEF SerialInv

-----------------------------------------------------------------------------
(* The theorems *)

LEMMA InitSerial == Init => SerialInv
<1> SUFFICES ASSUME Init PROVE SerialInv
  OBVIOUS
<1> USE StoreAssumption DEF Init, StoreInit, StopInit, StartInit, Commands
<1>1. \A c \in Commands : pc[c] = "idle" /\ Ready(c)
  BY DEF Ready
<1>2. \A s \in Sessions, p \in Pids : ~Runs(os, p, s) /\ os[p].owner # s
  BY DEF Runs
<1>3. OneRuns /\ Tracks(os, child, processes)
  BY <1>1, <1>2 DEF OneRuns, Resting, Tracks
<1>4. \A c \in Commands : CommandInv(c)
  BY <1>1 DEF CommandInv, StopLabels, InSession
<1>5. \A s \in Sessions : SessionBase(s) /\ Cleaning(s)
  BY <1>1, <1>2 DEF SessionBase, Cleaning, StoppedTruly, StopLabels, InSession, NewSession
<1> QED
  BY <1>3, <1>4, <1>5 DEF SerialInv

\* A startup begins once.
LEMMA StartGoesOn == ASSUME TypeOK, NEW s \in Sessions, StartRuntime(s) PROVE ~CreateSession(s)
<1> SUFFICES ASSUME CreateSession(s) PROVE FALSE
  OBVIOUS
<1>1. pc[s] = "idle" /\ pc'[s] = "prerequisites"
  BY DEF CreateSession, Goto, TypeOK, Commands
<1>2. LateWrite(s)
  BY <1>1 DEF StartRuntime, ObservingPhase, EnvironmentPhase, SetupPhase, SkipCompose, ComposeUp,
     ComposePersist, SpawnApplication, SpawnError, ProbeElapsed, RegisterWrite, ChildExits,
     ApplicationsPersist, RecordState, CleanupRead, CleanupPersist
<1> QED
  BY <1>1, <1>2 DEF LateWrite, cmdVars

LEMMA NextSerial == ASSUME Orderly PROVE TypeOK /\ InHand /\ SerialInv /\ [Next]_vars => SerialInv'
<1> SUFFICES ASSUME TypeOK, InHand, SerialInv, [Next]_vars PROVE SerialInv'
  OBVIOUS
<1>1. ASSUME NEW s \in Sessions,
             BeginStart(s) \/ CutShort(s, "interrupted") \/ CutShort(s, "timed_out")
      PROVE  SerialInv'
  <2>1. StartStep(s) /\ (CreateSession(s) => MayBegin(s))
    BY <1>1 DEF BeginStart, StartStep, CreateSession, CutShort, Checkpoint
  <2> QED
    BY <2>1, StartSerial
<1>2. ASSUME NEW c \in Stops, BeginStop(c) \/ EndStop(c)
      PROVE  SerialInv'
  BY <1>2, StopEndsSerial
<1>3. ASSUME NEW s \in Sessions, StartRuntime(s)
      PROVE  SerialInv'
  BY <1>3, StartGoesOn, StartSerial DEF StartStep
<1>4. ASSUME NEW c \in Commands, Progress(c)
      PROVE  SerialInv'
  BY <1>2, <1>3, <1>4, StillIsCalm, CalmSerial, StopSerial DEF Progress
<1>5. ASSUME NEW c \in Commands, Crash(c)
      PROVE  SerialInv'
  BY <1>5, CrashSerial
<1>6. CASE World \/ UNCHANGED vars
  BY <1>6, WorldIsCalm, StillIsCalm, CalmSerial
<1> QED
  BY <1>1, <1>2, <1>4, <1>5, <1>6 DEF Next

LEMMA SerialInvariant == ASSUME Orderly PROVE Spec => [](TypeOK /\ SerialInv)
<1>1. TypeOK /\ InHand /\ SerialInv /\ [Next]_vars => SerialInv'
  BY NextSerial
<1> QED
  BY <1>1, InitSerial, TypesInvariant, PTL DEF Spec

\* Whatever is killed, and whichever pids the system gives out again: of every live process that
\* Board started there is a record to stop it by, as long as its startup is not still to settle it
\* (startManagedProcess, registerProcess).
THEOREM ProcessesStayTracked == ASSUME Orderly PROVE Spec => []Tracked
<1>1. SerialInv => Tracked
  <2> SUFFICES ASSUME SerialInv, NEW p \in Pids, os[p].state = "alive", os[p].owner \in Sessions
               PROVE  \/ child[os[p].owner] # NoRecord /\ child[os[p].owner].pid = p
                      \/ \E r \in processes : r.pid = p /\ r.session = os[p].owner
    BY DEF Tracked
  <2>1. Runs(os, p, os[p].owner)
    BY DEF Runs
  <2> QED
    BY <2>1 DEF SerialInv, Tracks, IsChild
<1> QED
  BY <1>1, SerialInvariant, PTL

\* A startup that was interrupted or ran out of time, and says so, has killed everything that it
\* had started (recordInterruptedStartup, recordTimedOutStartup).
THEOREM CleanupLeavesNothing == ASSUME Orderly PROVE Spec => []CleanupComplete
<1>1. SerialInv => CleanupComplete
  BY DEF SerialInv, SessionBase, CleanupComplete
<1> QED
  BY <1>1, SerialInvariant, PTL

\* What the file of a session says was stopped is down: no process of it runs undisturbed but a
\* child that its startup left behind when it was killed, and no Compose project that it
\* recorded is up (stopRuntime).
THEOREM StoppedStaysDown == ASSUME Orderly PROVE Spec => []StoppedIsDown
<1>1. TypeOK /\ SerialInv => StoppedIsDown
  <2> SUFFICES ASSUME SerialInv, NEW s \in Sessions, sessionFile[s] # NoFile, sessionFile[s].status = "stopped"
               PROVE  /\ \A p \in Pids : os[p] = Ownership(s) => child[s] # NoRecord /\ child[s].pid = p
                      /\ sessionFile[s].compose # "absent" => ~compose[s]
    BY DEF StoppedIsDown
  <2>1. StoppedTruly(s)
    BY DEF SerialInv, SessionBase
  <2> QED
    BY <2>1 DEF StoppedTruly, Down, Runs, IsChild, Ownership
<1> QED
  BY <1>1, SerialInvariant, PTL

-----------------------------------------------------------------------------
(* The session files and the records *)

StopKilled == \E c \in Stops : Killed(c)

\* The session may keep as running what is not on record any more, for ever.
Broken(s) == StopKilled \/ (Killed(s) /\ sessionFile[s] # NoFile /\ sessionFile[s].errors)

InTheWorks(s) == \E c \in Commands : pc[c] \in InSession /\ cur[c] = s

RunningApps(record) == {a \in Apps : record.apps[a] = "running"}

\* What the session, or the startup that will write it, has as running.
Claimed(s) ==
    (IF sessionFile[s] # NoFile THEN RunningApps(sessionFile[s]) ELSE {})
    \cup (IF pc[s] \in StartLabels \cup {"cleaned"} THEN RunningApps(mem[s]) ELSE {})

\* The applications of each session that have to be on record.
Due == [s \in Sessions |-> IF Broken(s) \/ InTheWorks(s) THEN {} ELSE Claimed(s)]

StoppedCleanly(s) ==
    ~StopKilled /\ sessionFile[s] # NoFile /\ sessionFile[s].status = "stopped" /\ ~sessionFile[s].errors

\* The sessions of which nothing may be on record.
Gone == {s \in Sessions : StoppedCleanly(s)}

Has(content, s, a) == \E r \in content : r.session = s /\ r.app = a

\* What the two files have to say of each other, for some content of the records.
Agrees(due, gone, content) ==
    /\ \A s \in Sessions : \A a \in due[s] : Has(content, s, a)
    /\ \A r \in content : r.session \notin gone

\* What a command is about to write agrees with the sessions; what a stop read is as it was read,
\* and a running application is among the records that it still has to stop.
RecordsInv(c) ==
    /\ pc[c] \in {"register", "remove"} => Agrees(Due, Gone, buf[c])
    /\ pc[c] \in {"pointer", "select", "records"} =>
           \A s \in Sessions : targets[c][s] \in {NoFile, sessionFile[s]}
    /\ pc[c] \in {"session"} \cup InSession =>
           \A s \in Sessions : targets[c][s] # NoFile =>
               /\ ~Broken(s) => \A a \in RunningApps(targets[c][s]) : Has(records[c], s, a)
               /\ targets[c][s].errors = sessionFile[s].errors
               /\ c \in Stops =>
                      /\ \A r \in processes : r.session = s => r \in records[c]
                      /\ pc[c] = "remove" => \A r \in buf[c] : r.session = s => r \in records[c]
    /\ pc[c] \in {"removeRead", "remove"} => victim[c] \in records[c] /\ victim[c].session = cur[c]
    /\ pc[c] = "persist" => SessionRecords(c) = {}

\* Late writes agree too; a cleanup follows an error; and what was stopped reads so.
ReportInv(s) ==
    /\ \A content \in late[s] : Agrees(Due, Gone, content)
    /\ pc[s] \in StopLabels \cup {"cleaned"} => sessionFile[s].errors
    /\ StoppedCleanly(s) => RunningApps(sessionFile[s]) = {} /\ sessionFile[s].compose \in {"absent", "stopped"}

StatusInv ==
    /\ Agrees(Due, Gone, processes)
    /\ \A c \in Commands : RecordsInv(c)
    /\ \A s \in Sessions : ReportInv(s)

LEMMA LessAgrees ==
  ASSUME NEW due, NEW more, \A s \in Sessions : due[s] \subseteq more[s], NEW gone, NEW most, gone \subseteq most
  PROVE  \A content : Agrees(more, most, content) => Agrees(due, gone, content)
BY DEF Agrees

\* A record of a session that is still to be stopped may be added.
LEMMA AddedAgrees ==
  ASSUME NEW due, NEW more, NEW r, r.session \in Sessions,
         \A s \in Sessions \ {r.session} : due[s] \subseteq more[s],
         due[r.session] \subseteq more[r.session] \cup {r.app},
         NEW gone, NEW most, gone \subseteq most, r.session \notin most,
         NEW content, Agrees(more, most, content)
  PROVE  Agrees(due, gone, content \cup {r})
<1>1. ASSUME NEW s \in Sessions, NEW a \in due[s]
      PROVE  Has(content \cup {r}, s, a)
  <2>1. a \in more[s] \/ (s = r.session /\ a = r.app)
    OBVIOUS
  <2> QED
    BY <2>1 DEF Agrees, Has
<1>2. \A x \in content \cup {r} : x.session \notin gone
  BY DEF Agrees
<1> QED
  BY <1>1, <1>2 DEF Agrees

\* So may every record of a session of which nothing is due be removed.
LEMMA RemovedAgrees ==
  ASSUME NEW due, NEW gone, NEW content, Agrees(due, gone, content), NEW pid, NEW s,
         \A r \in content : r.pid = pid => r.session = s, s \in Sessions => due[s] = {}
  PROVE  Agrees(due, gone, Removed(content, pid))
BY DEF Agrees, Has, Removed

LEMMA DueIs ==
  ASSUME NEW s \in Sessions
  PROVE  /\ Due[s] = IF Broken(s) \/ InTheWorks(s) THEN {} ELSE Claimed(s)
         /\ Due'[s] = IF Broken(s)' \/ InTheWorks(s)' THEN {} ELSE Claimed(s)'
BY DEF Due

\* A command that does not run relies on nothing, and its session stays as it was reported.
LEMMA RestingReports ==
  ASSUME TypeOK, SerialInv, StatusInv, NEW c \in Commands, \A d \in Commands \ {c} : Resting(d), Frame(c),
         StopKilled => StopKilled'
  PROVE  /\ \A d \in Commands \ {c} : RecordsInv(d)'
         /\ \A s \in Sessions \ {c} :
                /\ late'[s] = {} /\ pc'[s] \notin StopLabels \cup StartLabels \cup {"cleaned"}
                /\ sessionFile'[s] = sessionFile[s] => ReportInv(s)'
<1>1. \A d \in Commands \ {c} : pc[d] \in {"idle", "done", "crashed"} /\ pc'[d] = pc[d]
  BY DEF Resting, Finished, Frame
<1>2. \A d \in Commands \ {c} : RecordsInv(d)'
  BY <1>1 DEF RecordsInv, InSession
<1>3. ASSUME NEW s \in Sessions \ {c}
      PROVE  /\ late'[s] = {} /\ pc'[s] \notin StopLabels \cup StartLabels \cup {"cleaned"}
             /\ sessionFile'[s] = sessionFile[s] => ReportInv(s)'
  <2>1. s \in Commands \ {c} /\ Resting(s) /\ SessionBase(s) /\ ReportInv(s)
    BY DEF Commands, SerialInv, StatusInv
  <2>2. late'[s] = {}
    BY <2>1 DEF Resting, Finished, SessionBase, Frame
  <2>3. pc'[s] \notin StopLabels \cup StartLabels \cup {"cleaned"}
    BY <1>1, <2>1 DEF StopLabels, InSession, StartLabels
  <2>4. sessionFile'[s] = sessionFile[s] => ReportInv(s)'
    BY <2>1, <2>2, <2>3 DEF ReportInv, StoppedCleanly
  <2> QED
    BY <2>2, <2>3, <2>4
<1> QED
  BY <1>2, <1>3

-----------------------------------------------------------------------------
(* A stop keeps the two files together *)

\* Nothing becomes due, nothing breaks, and no error is forgotten.
LEMMA StopDue ==
  ASSUME TypeOK, InHand, SerialInv, StatusInv, NEW c \in Commands, StopRuntime(c), UNCHANGED startVars
  PROVE  /\ StopKilled' = StopKilled
         /\ \A s \in Sessions : /\ Broken(s)' = Broken(s)
                                /\ Due'[s] \subseteq Due[s]
                                /\ sessionFile[s] # NoFile => sessionFile'[s].errors = sessionFile[s].errors
         /\ \A s \in Sessions : ~(StopPersist(c) /\ s = cur[c]) => sessionFile'[s] = sessionFile[s]
<1> USE DEF startVars
<1>1. /\ \A d \in Commands \ {c} : Resting(d)
      /\ pc[c] \in StopLabels \ {"stopped"} /\ pc'[c] \in StopLabels
      /\ \A d \in Commands \ {c} : pc'[d] = pc[d]
  BY StopFrame DEF Frame
<1>2. \A d \in Commands : Killed(d)' = Killed(d)
  BY <1>1 DEF Killed, StopLabels, InSession
<1>3. StopKilled' = StopKilled
  BY <1>2 DEF StopKilled, Commands
<1>4. ASSUME NEW s \in Sessions, ~(StopPersist(c) /\ s = cur[c])
      PROVE  sessionFile'[s] = sessionFile[s]
  BY <1>4 DEF StopRuntime, StopList, StopReadPointer, StopSelect, StopReadRecords, StopNextSession, StopSignal,
     StopRemoveRead, StopRemoveWrite, StopCompose, StopPersist, UpdateSession, fileVars, TypeOK
<1>5. ASSUME StopPersist(c)
      PROVE  /\ pc[c] = "persist" /\ cur[c] \in Sessions /\ targets[c][cur[c]] \in SessionRecord
             /\ sessionFile'[cur[c]] = StoppedSession(targets[c][cur[c]])
             /\ sessionFile'[cur[c]].errors = sessionFile[cur[c]].errors
             /\ sessionFile'[cur[c]].apps = targets[c][cur[c]].apps
             /\ sessionFile'[cur[c]] # NoFile
  <2>1. pc[c] = "persist" /\ cur[c] \in Sessions /\ targets[c][cur[c]] \in SessionRecord /\ RecordsInv(c)
    BY <1>5 DEF StopPersist, InHand, InSession, StatusInv
  <2>2. sessionFile'[cur[c]] = StoppedSession(targets[c][cur[c]])
    BY <1>5, <2>1 DEF StopPersist, UpdateSession, TypeOK
  <2>3. targets[c][cur[c]] # NoFile /\ targets[c][cur[c]].errors = sessionFile[cur[c]].errors
    BY <2>1, StoreAssumption DEF RecordsInv, InSession
  <2>4. sessionFile'[cur[c]] \in SessionRecord
    BY <2>1, <2>2, StoppedRecord
  <2> QED
    BY <2>1, <2>2, <2>3, <2>4, StoreAssumption DEF StoppedSession, SessionRecord
<1>6. ASSUME NEW s \in Sessions
      PROVE  sessionFile'[s] # NoFile => sessionFile[s] # NoFile /\ sessionFile'[s].errors = sessionFile[s].errors
  <2>1. CASE StopPersist(c) /\ s = cur[c]
    <3>1. pc[s] # "idle"
      BY <1>5, <2>1, StoreAssumption DEF SerialInv, CommandInv, StopLabels, InSession
    <3> QED
      BY <1>5, <2>1, <3>1, StoreAssumption DEF InHand
  <2> QED
    BY <1>4, <2>1
<1>7. ASSUME NEW s \in Sessions, sessionFile[s] # NoFile
      PROVE  sessionFile'[s] # NoFile
  BY <1>4, <1>5, <1>7
<1>8. ASSUME NEW s \in Sessions
      PROVE  Broken(s)' = Broken(s)
  BY <1>2, <1>3, <1>6, <1>7 DEF Broken, Commands
<1>9. ASSUME NEW s \in Sessions
      PROVE  Due'[s] \subseteq Due[s]
  <2>1. mem' = mem /\ (pc'[s] \in StartLabels \cup {"cleaned"} => pc[s] \in StartLabels \cup {"cleaned"})
    BY <1>1 DEF StartLabels, StopLabels, InSession, Commands
  <2>2. CASE StopPersist(c) /\ s = cur[c]
    <3> SUFFICES ASSUME ~Broken(s)'
                 PROVE  Claimed(s)' = {}
      BY DueIs
    <3>1. RunningApps(targets[c][s]) = {}
      <4>1. RecordsInv(c) /\ pc[c] = "persist" /\ targets[c][s] # NoFile
        BY <1>5, <2>2, StoreAssumption DEF StatusInv
      <4>2. \A a \in RunningApps(targets[c][s]) : Has(records[c], s, a)
        BY <1>8, <4>1 DEF RecordsInv, InSession
      <4>3. SessionRecords(c) = {}
        BY <4>1 DEF RecordsInv
      <4> QED
        BY <2>2, <4>2, <4>3 DEF Has, SessionRecords
    <3>2. RunningApps(sessionFile'[s]) = {}
      BY <1>5, <2>2, <3>1 DEF RunningApps
    <3>3. pc'[s] \notin StartLabels \cup {"cleaned"}
      <4>1. pc[s] # "idle"
        BY <1>5, <2>2, StoreAssumption DEF SerialInv, CommandInv, StopLabels, InSession
      <4>2. s # c => Resting(s) /\ pc'[s] = pc[s]
        BY <1>1 DEF Commands
      <4> QED
        BY <1>1, <4>2 DEF Resting, Finished, StartLabels, StopLabels, InSession
    <3> QED
      BY <3>2, <3>3 DEF Claimed
  <2>3. CASE ~(StopPersist(c) /\ s = cur[c])
    <3>1. Claimed(s)' \subseteq Claimed(s)
      BY <1>4, <2>1, <2>3 DEF Claimed
    <3>2. InTheWorks(s) => InTheWorks(s)'
      <4> SUFFICES ASSUME NEW d \in Commands, pc[d] \in InSession, cur[d] = s
                   PROVE  pc'[d] \in InSession /\ cur'[d] = s
        BY DEF InTheWorks
      <4>1. d = c
        BY <1>1 DEF Resting, Finished, InSession
      <4>2. ~StopPersist(c)
        BY <2>3, <4>1
      <4> QED
        BY <4>1, <4>2 DEF StopRuntime, StopList, StopReadPointer, StopSelect, StopReadRecords, StopNextSession,
           StopSignal, StopRemoveRead, StopRemoveWrite, StopCompose, InSession, Goto, TypeOK, stopVars
    <3> QED
      BY <1>8, <3>1, <3>2, DueIs
  <2> QED
    BY <2>2, <2>3
<1> QED
  BY <1>3, <1>4, <1>6, <1>7, <1>8, <1>9

\* Only a plain stop calls a session cleanly stopped, and then has no record of it left.
LEMMA StopGone ==
  ASSUME TypeOK, InHand, SerialInv, StatusInv, NEW c \in Commands, StopRuntime(c), UNCHANGED startVars,
         NEW s \in Gone', StopPersist(c), s = cur[c]
  PROVE  /\ c \in Stops /\ processes' = processes
         /\ \A r \in processes : r.session # s
         /\ RunningApps(sessionFile'[s]) = {} /\ sessionFile'[s].compose \in {"absent", "stopped"}
<1>1. s \in Sessions /\ StoppedCleanly(s)'
  BY DEF Gone
<1>2. StopPersist(c) /\ s = cur[c]
  OBVIOUS
<1>3. pc[c] = "persist" /\ targets[c][s] \in SessionRecord /\ targets[c][s] # NoFile /\ processes' = processes
  BY <1>2, StoreAssumption DEF StopPersist, InHand, InSession
<1>4. /\ sessionFile'[s] = StoppedSession(targets[c][s])
      /\ sessionFile'[s].apps = targets[c][s].apps /\ sessionFile'[s].compose = targets[c][s].compose
      /\ sessionFile'[s].errors = targets[c][s].errors
      /\ sessionFile'[s].status = "stopped" => targets[c][s].compose # "failed"
  <2>1. sessionFile'[s] = StoppedSession(targets[c][s])
    BY <1>2, <1>1 DEF StopPersist, UpdateSession, TypeOK
  <2> QED
    BY <1>3, <2>1 DEF StoppedSession, SessionRecord
<1>5. RecordsInv(c) /\ SessionRecords(c) = {}
  BY <1>3 DEF StatusInv, RecordsInv
<1>6. ~StopKilled /\ ~sessionFile[s].errors /\ ~Broken(s)
  <2>1. ~StopKilled' /\ ~sessionFile'[s].errors
    BY <1>1 DEF StoppedCleanly
  <2>2. targets[c][s].errors = sessionFile[s].errors
    BY <1>1, <1>3, <1>5 DEF RecordsInv, InSession
  <2> QED
    BY <1>4, <2>1, <2>2, StopDue DEF Broken
<1>7. c \in Stops
  <2> SUFFICES ASSUME c \in Sessions PROVE FALSE
    BY DEF Commands
  <2>1. cur[c] = c
    BY <1>3 DEF SerialInv, Cleaning, InSession
  <2>2. sessionFile[c].errors
    BY <1>3 DEF StatusInv, ReportInv, StopLabels, InSession
  <2> QED
    BY <1>2, <1>6, <2>1, <2>2
<1>8. \A r \in processes : r.session # s
  <2>1. \A r \in processes : r.session = s => r \in records[c]
    BY <1>1, <1>3, <1>5, <1>7 DEF RecordsInv, InSession
  <2> QED
    BY <1>2, <1>5, <2>1 DEF SessionRecords
<1>9. RunningApps(sessionFile'[s]) = {}
  <2>1. \A a \in RunningApps(targets[c][s]) : Has(records[c], s, a)
    BY <1>1, <1>3, <1>5, <1>6 DEF RecordsInv, InSession
  <2>2. RunningApps(targets[c][s]) = {}
    BY <1>2, <1>5, <2>1 DEF Has, SessionRecords
  <2> QED
    BY <1>4, <2>2 DEF RunningApps
<1>10. sessionFile'[s].compose \in {"absent", "stopped"}
  <2>1. targets[c][s].compose \in {"absent", "failed", "stopped"}
    BY <1>2, <1>3 DEF SerialInv, CommandInv
  <2> QED
    BY <1>1, <1>4, <2>1 DEF StoppedCleanly
<1> QED
  BY <1>2, <1>3, <1>7, <1>8, <1>9, <1>10

LEMMA StopReports ==
  ASSUME TypeOK, InHand, SerialInv, StatusInv, NEW c \in Commands, StopRuntime(c), UNCHANGED startVars
  PROVE  \A s \in Sessions : ReportInv(s)'
<1> USE DEF startVars
<1>1. /\ \A d \in Commands \ {c} : Resting(d)
      /\ Frame(c) /\ pc[c] \in StopLabels /\ pc'[c] \in StopLabels
  BY StopFrame
<1>2. /\ StopKilled' = StopKilled
      /\ \A s \in Sessions : /\ Due'[s] \subseteq Due[s]
                             /\ sessionFile[s] # NoFile => sessionFile'[s].errors = sessionFile[s].errors
      /\ \A s \in Sessions : ~(StopPersist(c) /\ s = cur[c]) => sessionFile'[s] = sessionFile[s]
  BY StopDue
<1>3. ASSUME NEW s \in Sessions, s # c
      PROVE  ReportInv(s)'
  <2>1. /\ late'[s] = {} /\ pc'[s] \notin StopLabels \cup StartLabels \cup {"cleaned"}
        /\ sessionFile'[s] = sessionFile[s] => ReportInv(s)'
    BY <1>1, <1>2, <1>3, RestingReports
  <2>2. CASE StopPersist(c) /\ s = cur[c] /\ s \in Gone'
    <3>1. RunningApps(sessionFile'[s]) = {} /\ sessionFile'[s].compose \in {"absent", "stopped"}
      BY <2>2, StopGone
    <3> QED
      BY <2>1, <3>1 DEF ReportInv
  <2>3. CASE s \notin Gone'
    BY <2>1, <2>3 DEF ReportInv, Gone
  <2> QED
    BY <1>2, <2>1, <2>2, <2>3
<1>4. ASSUME c \in Sessions
      PROVE  ReportInv(c)'
  <2>1. ReportInv(c) /\ sessionFile[c].errors /\ sessionFile[c] # NoFile
    BY <1>1, <1>4, StoreAssumption DEF StatusInv, ReportInv, InHand, StopLabels, InSession
  <2>2. sessionFile'[c].errors
    BY <1>2, <1>4, <2>1
  <2>3. c \notin Stops
    BY <1>4, StoreAssumption
  <2>4. Gone' \subseteq Gone
    BY <1>2, <2>3, StopGone DEF Gone, StoppedCleanly
  <2>5. \A content \in late'[c] : Agrees(Due', Gone', content)
    BY <1>2, <2>1, <2>4, LessAgrees DEF ReportInv
  <2> QED
    BY <2>2, <2>5 DEF ReportInv, StoppedCleanly
<1> QED
  BY <1>3, <1>4

\* What a stop knows of the session s, in the middle of its work.
Listed(c, s) ==
    targets[c][s] # NoFile =>
        /\ ~Broken(s) => \A a \in RunningApps(targets[c][s]) : Has(records[c], s, a)
        /\ targets[c][s].errors = sessionFile[s].errors
        /\ c \in Stops => \A r \in processes : r.session = s => r \in records[c]

LEMMA StopRecords ==
  ASSUME TypeOK, InHand, SerialInv, StatusInv, AllOwned, NEW c \in Commands, StopRuntime(c), UNCHANGED startVars
  PROVE  RecordsInv(c)' /\ Agrees(Due', Gone', processes')
<1> USE DEF startVars, fileVars, worldVars, Goto, InSession
<1>1. /\ pc[c] \in StopLabels /\ RecordsInv(c) /\ Agrees(Due, Gone, processes)
      /\ \A s \in Sessions : /\ Broken(s)' = Broken(s)
                             /\ sessionFile[s] # NoFile => sessionFile'[s].errors = sessionFile[s].errors
  BY StopFrame, StopDue DEF StatusInv
<1>2. ~StopPersist(c) => /\ \A s \in Sessions : sessionFile'[s] = sessionFile[s]
                         /\ \A content : Agrees(Due, Gone, content) => Agrees(Due', Gone', content)
  <2>1. ~StopPersist(c) => Gone' \subseteq Gone
    BY StopDue DEF Gone, StoppedCleanly
  <2> QED
    BY <2>1, StopDue, LessAgrees
<1>3. ASSUME NEW s \in Sessions, targets[c][s] # NoFile, pc[c] # "list"
      PROVE  sessionFile[s] # NoFile
  <2>1. pc[s] # "idle"
    BY <1>1, <1>3 DEF SerialInv, CommandInv
  <2> QED
    BY <2>1, StoreAssumption DEF InHand
<1>4. CASE StopList(c) \/ StopReadPointer(c) \/ StopSelect(c)
  <2>1. /\ ~StopPersist(c) /\ processes' = processes
        /\ pc[c] \in {"list", "pointer", "select"}
        /\ pc'[c] \in {"pointer", "select", "stopped", "records"}
    BY <1>4 DEF StopList, StopReadPointer, StopSelect, StopPersist, TypeOK
  <2>2. \A s \in Sessions : targets'[c][s] \in {NoFile, sessionFile[s]}
    <3>1. CASE StopList(c)
      BY <3>1 DEF StopList, TypeOK
    <3>2. CASE StopReadPointer(c)
      BY <1>1, <3>2 DEF StopReadPointer, RecordsInv
    <3>3. CASE StopSelect(c)
      <4>1. targets'[c] = Selected(c) /\ \A s \in Sessions : targets[c][s] \in {NoFile, sessionFile[s]}
        BY <1>1, <3>3 DEF StopSelect, RecordsInv, TypeOK
      <4>2. request[c].mode \in {"latest", "session", "all"}
        BY DEF TypeOK, Request
      <4> QED
        BY <4>1, <4>2 DEF Selected, Restricted
    <3> QED
      BY <1>4, <3>1, <3>2, <3>3
  <2> QED
    BY <1>1, <1>2, <2>1, <2>2 DEF RecordsInv
<1>5. CASE StopReadRecords(c)
  <2>1. /\ ~StopPersist(c) /\ pc[c] = "records" /\ pc'[c] = "session" /\ records'[c] = processes
        /\ UNCHANGED <<processes, targets>>
    BY <1>5 DEF StopReadRecords, StopPersist, TypeOK
  <2>2. ASSUME NEW s \in Sessions, targets[c][s] # NoFile
        PROVE  targets[c][s] = sessionFile[s] /\
               (~Broken(s) => \A a \in RunningApps(targets[c][s]) : Has(processes, s, a))
    <3>1. targets[c][s] = sessionFile[s]
      BY <1>1, <2>1, <2>2 DEF RecordsInv
    <3>2. ~InTheWorks(s)
      BY <2>1, StopFrame DEF InTheWorks, Resting, Finished
    <3>3. ~Broken(s) => RunningApps(sessionFile[s]) \subseteq Due[s]
      BY <2>2, <3>1, <3>2, DueIs DEF Claimed
    <3> QED
      BY <1>1, <3>1, <3>3 DEF Agrees
  <2> QED
    BY <1>1, <1>2, <2>1, <2>2 DEF RecordsInv
<1>6. ASSUME pc[c] \in {"session"} \cup InSession
      PROVE  \A s \in Sessions : Listed(c, s)
  BY <1>1, <1>6 DEF RecordsInv, Listed
<1>7. CASE StopNextSession(c) \/ StopSignal(c) \/ StopRemoveRead(c)
  <2>1. /\ ~StopPersist(c) /\ pc[c] \in {"session"} \cup InSession /\ pc'[c] \in {"signal", "removeRead", "remove"}
        /\ UNCHANGED <<processes, targets, records>>
    BY <1>7 DEF StopNextSession, StopSignal, StopRemoveRead, StopPersist, TypeOK, stopVars
  <2>2. \A s \in Sessions : Listed(c, s)'
    BY <1>1, <1>2, <1>6, <2>1 DEF Listed
  <2>3. pc'[c] \in {"removeRead", "remove"} => victim'[c] \in records'[c] /\ victim'[c].session = cur'[c]
    <3>1. CASE StopSignal(c)
      BY <2>1, <3>1 DEF StopSignal, SessionRecords, TypeOK
    <3>2. CASE StopRemoveRead(c)
      BY <1>1, <3>2 DEF StopRemoveRead, RecordsInv, stopVars
    <3>3. CASE StopNextSession(c)
      BY <3>3 DEF StopNextSession, TypeOK
    <3> QED
      BY <1>7, <3>1, <3>2, <3>3
  <2>4. pc'[c] = "remove" => buf'[c] = processes
    BY <1>7 DEF StopNextSession, StopSignal, StopRemoveRead, ReadProcesses, TypeOK
  <2> QED
    BY <1>1, <1>2, <2>1, <2>2, <2>3, <2>4 DEF RecordsInv, Listed
<1>8. CASE StopRemoveWrite(c)
  <2>1. /\ ~StopPersist(c) /\ pc[c] = "remove" /\ pc'[c] = "signal" /\ cur[c] \in Sessions
        /\ targets[c][cur[c]] \in SessionRecord
        /\ processes' = Removed(buf[c], victim[c].pid) /\ records'[c] = records[c] \ {victim[c]}
        /\ \A s \in Sessions \ {cur[c]} : targets'[c][s] = targets[c][s]
        /\ targets'[c][cur[c]] = [targets[c][cur[c]] EXCEPT !.apps = [@ EXCEPT ![victim[c].app] = "stopped"]]
    BY <1>8 DEF StopRemoveWrite, StopPersist, InHand, TypeOK
  <2>2. victim[c] \in records[c] /\ victim[c].session = cur[c] /\ Agrees(Due, Gone, buf[c])
    BY <1>1, <2>1 DEF RecordsInv
  <2>3. \A r \in buf[c] : r.pid = victim[c].pid => r.session = cur[c]
    BY <2>2 DEF AllOwned, Owned
  <2>4. Agrees(Due, Gone, processes')
    <3>1. Due[cur[c]] = {}
      BY <2>1, DueIs DEF InTheWorks
    <3> QED
      BY <2>1, <2>2, <2>3, <3>1, RemovedAgrees
  <2>5. ASSUME NEW s \in Sessions
        PROVE  Listed(c, s)'
    <3>1. targets'[c][s] # NoFile => targets[c][s] # NoFile
      BY <2>1, StoreAssumption
    <3>2. targets[c][s] # NoFile => RunningApps(targets'[c][s]) \subseteq RunningApps(targets[c][s])
          /\ (s = cur[c] => victim[c].app \notin RunningApps(targets'[c][s]))
          /\ targets'[c][s].errors = targets[c][s].errors
      <4>1. CASE s = cur[c]
        <5> DEFINE apps == [targets[c][s].apps EXCEPT ![victim[c].app] = "stopped"]
        <5>1. victim[c].app \in Apps /\ targets[c][s].apps \in [Apps -> {"absent", "running", "stopped"}]
          BY <2>1, <4>1 DEF InHand, ProcessRecord, SessionRecord
        <5>2. \A a \in Apps : apps[a] = IF a = victim[c].app THEN "stopped" ELSE targets[c][s].apps[a]
          BY <5>1
        <5>3. targets'[c][s] = [targets[c][s] EXCEPT !.apps = apps]
          BY <2>1, <4>1
        <5> HIDE DEF apps
        <5>4. targets'[c][s].apps = apps /\ targets'[c][s].errors = targets[c][s].errors
          BY <2>1, <4>1, <5>3 DEF SessionRecord
        <5> QED
          BY <5>2, <5>4 DEF RunningApps
      <4> QED
        BY <2>1, <4>1
    <3>3. \A a : Has(records[c], s, a) => Has(records'[c], s, a) \/ (s = cur[c] /\ a = victim[c].app)
      BY <2>1, <2>2 DEF Has
    <3>4. c \in Stops /\ targets[c][s] # NoFile => \A r \in processes' : r.session = s => r \in records'[c]
      <4>1. c \in Stops /\ targets[c][s] # NoFile => \A r \in buf[c] : r.session = s => r \in records[c]
        BY <1>1, <2>1 DEF RecordsInv
      <4>2. \A r \in processes' : r \in buf[c] /\ r # victim[c]
        BY <2>1 DEF Removed
      <4> QED
        BY <2>1, <4>1, <4>2
    <3>5. Listed(c, s)
      BY <1>6, <2>1
    <3>6. targets'[c][s] # NoFile /\ ~Broken(s) =>
              \A a \in RunningApps(targets'[c][s]) : Has(records'[c], s, a)
      BY <3>1, <3>2, <3>3, <3>5 DEF Listed
    <3>7. targets'[c][s] # NoFile => targets'[c][s].errors = sessionFile'[s].errors
      BY <1>2, <2>1, <3>1, <3>2, <3>5 DEF Listed
    <3> QED
      BY <1>1, <3>1, <3>4, <3>6, <3>7 DEF Listed
  <2> QED
    BY <1>2, <2>1, <2>4, <2>5 DEF RecordsInv, Listed
<1>9. CASE StopCompose(c)
  <2>1. /\ ~StopPersist(c) /\ pc[c] = "signal" /\ pc'[c] = "persist" /\ SessionRecords(c) = {} /\ cur[c] \in Sessions
        /\ targets[c][cur[c]] \in SessionRecord /\ UNCHANGED <<processes, records, cur>>
    BY <1>9 DEF StopCompose, StopPersist, InHand, TypeOK
  <2>2. \/ targets' = targets
        \/ targets' = [targets EXCEPT ![c][cur[c]].compose = "stopped"]
        \/ targets' = [targets EXCEPT ![c][cur[c]].compose = "failed"]
    BY <1>9 DEF StopCompose
  <2>3. ASSUME NEW s \in Sessions
        PROVE  /\ targets'[c][s] # NoFile => targets[c][s] # NoFile
               /\ targets[c][s] # NoFile => /\ targets'[c][s].apps = targets[c][s].apps
                                            /\ targets'[c][s].errors = targets[c][s].errors
    <3>1. CASE s = cur[c]
      <4>1. targets'[c][s] \in {targets[c][s], [targets[c][s] EXCEPT !.compose = "stopped"],
                                             [targets[c][s] EXCEPT !.compose = "failed"]}
        BY <2>1, <2>2, <3>1 DEF TypeOK
      <4> QED
        BY <2>1, <3>1, <4>1, StoreAssumption DEF SessionRecord
    <3>2. CASE s # cur[c]
      <4>1. targets'[c][s] = targets[c][s]
        BY <2>2, <3>2 DEF TypeOK
      <4> QED
        BY <4>1
    <3> QED
      BY <3>1, <3>2
  <2>4. \A s \in Sessions : Listed(c, s)'
    BY <1>1, <1>2, <1>6, <2>1, <2>3 DEF Listed, RunningApps
  <2>5. SessionRecords(c)' = {}
    BY <2>1 DEF SessionRecords
  <2> QED
    BY <1>1, <1>2, <2>1, <2>4, <2>5 DEF RecordsInv, Listed
<1>10. CASE StopPersist(c)
  <2>1. /\ pc[c] = "persist" /\ cur[c] \in Sessions /\ processes' = processes /\ targets'[c] = Remaining(c)
        /\ (pc'[c] = "stopped" \/ (pc'[c] = "session" /\ records' = records))
    BY <1>10 DEF StopPersist, InHand, TypeOK
  <2>2. \A s \in Sessions : targets'[c][s] = IF s = cur[c] THEN NoFile ELSE targets[c][s]
    BY <2>1 DEF Remaining, TypeOK
  <2>3. pc'[c] = "session" => \A s \in Sessions : Listed(c, s)'
    BY <1>1, <1>3, <1>6, <2>1, <2>2 DEF Listed
  <2>4. Agrees(Due', Gone', processes)
    <3>1. \A s \in Gone' \ {cur[c]} : s \in Gone
      BY StopDue DEF Gone, StoppedCleanly
    <3>2. \A r \in processes : r.session \notin Gone'
      BY <1>1, <1>10, <3>1, StopGone DEF Agrees
    <3> QED
      BY <1>1, <3>2, StopDue DEF Agrees
  <2> QED
    BY <2>1, <2>3, <2>4 DEF RecordsInv, Listed
<1> QED
  BY <1>4, <1>5, <1>7, <1>8, <1>9, <1>10 DEF StopRuntime

LEMMA StopStatus ==
  ASSUME TypeOK, InHand, SerialInv, StatusInv, AllOwned, NEW c \in Commands, StopRuntime(c), UNCHANGED startVars
  PROVE  StatusInv'
<1>1. /\ \A d \in Commands \ {c} : Resting(d)
      /\ Frame(c) /\ (StopKilled => StopKilled')
  BY StopFrame, StopDue
<1>2. \A d \in Commands \ {c} : RecordsInv(d)'
  BY <1>1, RestingReports
<1> QED
  BY <1>2, StopRecords, StopReports DEF StatusInv

-----------------------------------------------------------------------------
(* A start keeps the two files together *)

\* Of the sessions, a step of a startup changes its own only; with what it makes due, the rest agrees.
LEMMA StartDue ==
  ASSUME TypeOK, SerialInv, StatusInv, NEW s \in Sessions, \A d \in Commands \ {s} : Resting(d), Frame(s),
         pc[s] # "crashed", pc'[s] # "crashed", cur' = cur, pc'[s] = pc[s] \/ pc[s] \notin InSession,
         \A t \in Sessions \ {s} : sessionFile'[t] = sessionFile[t],
         sessionFile'[s] = sessionFile[s]
             \/ (sessionFile'[s] # NoFile => sessionFile'[s].status # "stopped"),
         NEW more, Claimed(s)' \subseteq Claimed(s) \cup more
  PROVE  /\ StopKilled' = StopKilled /\ Gone' \subseteq Gone
         /\ \A t \in Sessions \ {s} : Due'[t] \subseteq Due[t]
         /\ Due'[s] \subseteq Due[s] \cup more
<1>1. \A d \in Commands : Killed(d)' = Killed(d)
  BY DEF Frame, Killed
<1>2. StopKilled' = StopKilled
  BY <1>1 DEF StopKilled, Commands
<1>3. \A t \in Sessions : Broken(t) => Broken(t)'
  BY <1>1, <1>2 DEF Broken, Commands, Killed
<1>4. \A t \in Sessions : InTheWorks(t) => InTheWorks(t)'
  <2>1. \A d \in Commands : pc[d] \in InSession => pc'[d] \in InSession
    BY DEF Frame
  <2> QED
    BY <2>1 DEF InTheWorks
<1>5. \A t \in Sessions \ {s} : Claimed(t)' = Claimed(t)
  BY DEF Claimed, Frame, Commands
<1>6. Gone' \subseteq Gone
  BY <1>2 DEF Gone, StoppedCleanly
<1> QED
  BY <1>2, <1>3, <1>4, <1>5, <1>6, DueIs

\* Where a startup has nothing in hand, nothing has to be known of its records.
LEMMA StartRecords ==
  ASSUME NEW s \in Sessions, pc'[s] \in (StartLabels \ {"register"}) \cup {"list", "cleaned", "done"}
  PROVE  RecordsInv(s)'
BY DEF RecordsInv, StartLabels, InSession

\* A startup that persists its session persists what it has: one record and where it goes on.
LEMMA PersistingRecord ==
  ASSUME TypeOK, SerialInv, NEW s \in Sessions,
         \/ CreateSession(s) \/ ObservingPhase(s) \/ EnvironmentPhase(s) \/ SetupPhase(s)
         \/ ComposePersist(s) \/ ApplicationsPersist(s) \/ RecordState(s) \/ CleanupPersist(s)
         \/ CutShort(s, "interrupted") \/ CutShort(s, "timed_out")
  PROVE  \E record \in SessionRecord, label \in (StartLabels \ {"register"}) \cup {"list", "done"} :
            /\ Persist(s, record) /\ Goto(s, label)
            /\ record.status # "stopped" /\ (label = "list" => record.errors)
            /\ \/ pc[s] = "idle" /\ RunningApps(record) = {}
               \/ pc[s] \in StartLabels \cup {"cleaned"} /\ RunningApps(record) = RunningApps(mem[s])
            /\ UNCHANGED <<processes, late, cur>>
<1> DEFINE Done(record, label) ==
            /\ Persist(s, record) /\ Goto(s, label)
            /\ record.status # "stopped" /\ (label = "list" => record.errors)
            /\ \/ pc[s] = "idle" /\ RunningApps(record) = {}
               \/ pc[s] \in StartLabels \cup {"cleaned"} /\ RunningApps(record) = RunningApps(mem[s])
            /\ UNCHANGED <<processes, late, cur>>
           Onward == (StartLabels \ {"register"}) \cup {"list", "done"}
<1> SUFFICES \E record \in SessionRecord, label \in Onward : Done(record, label)
  OBVIOUS
<1>1. mem[s] \in SessionRecord /\ mem[s].status # "stopped" /\ UNCHANGED <<processes, late, cur>>
  BY DEF TypeOK, SerialInv, SessionBase, stopVars, CreateSession, ObservingPhase, EnvironmentPhase, SetupPhase,
     ComposePersist, ApplicationsPersist, RecordState, CleanupPersist, CutShort
<1>2. CASE CreateSession(s)
  <2>1. PICK warned \in Trouble("warnings") : Persist(s, CreatedSession(warned))
    BY <1>2 DEF CreateSession
  <2> DEFINE record == CreatedSession(warned)
  <2>2. record \in SessionRecord /\ record.status # "stopped" /\ RunningApps(record) = {}
    BY CreatedTypes DEF NewSession, Alike, RunningApps
  <2>3. Done(record, "prerequisites")
    BY <1>1, <1>2, <2>1, <2>2 DEF CreateSession
  <2> QED
    BY <2>2, <2>3 DEF StartLabels
<1>3. CASE ObservingPhase(s)
  <2>1. Following[pc[s]] \in Onward \ {"list"} /\ pc[s] \in StartLabels
    BY <1>3 DEF ObservingPhase, Following, StartLabels
  <2>2. PICK record \in SessionRecord : Persist(s, record) /\ Alike(record, mem[s])
    BY <1>3, ObservedIsAlike
  <2>3. Done(record, Following[pc[s]])
    BY <1>1, <1>3, <2>1, <2>2 DEF ObservingPhase, Alike, RunningApps
  <2> QED
    BY <2>1, <2>2, <2>3
<1>4. ASSUME NEW record \in SessionRecord, NEW errors, PhaseRecord(s, record, errors),
             NEW label \in Onward, Goto(s, label), label # "list", pc[s] \in StartLabels
      PROVE  \E any \in SessionRecord, next \in Onward : Done(any, next)
  <2>1. RunningApps(record) = RunningApps(mem[s])
    BY <1>4 DEF RunningApps, PhaseRecord
  <2>2. Done(record, label)
    BY <1>1, <1>4, <2>1 DEF PhaseRecord
  <2> QED
    BY <2>2
<1>5. CASE EnvironmentPhase(s)
  <2>1. PICK record \in SessionRecord, missing \in BOOLEAN : PhaseRecord(s, record, missing)
    BY <1>5, EnvironmentRecord
  <2>2. Following["environment"] \in Onward \ {"list"} /\ Goto(s, Following["environment"]) /\ pc[s] \in StartLabels
    BY <1>5 DEF EnvironmentPhase, Following, StartLabels
  <2> QED
    BY <1>4, <2>1, <2>2
<1>6. CASE SetupPhase(s)
  <2>1. PICK record \in SessionRecord, errors \in BOOLEAN :
          PhaseRecord(s, record, errors) /\ Goto(s, AfterErrorsOr(errors, "compose"))
    BY <1>6, SetupRecord
  <2>2. /\ AfterErrorsOr(errors, "compose") \in Onward
        /\ AfterErrorsOr(errors, "compose") # "list" /\ pc[s] \in StartLabels
    BY <1>6 DEF AfterErrorsOr, StartLabels, SetupPhase
  <2> QED
    BY <1>4, <2>1, <2>2
<1>7. CASE ComposePersist(s)
  <2>1. AfterErrorsOr(mem[s].errors, "applications") \in Onward \ {"list"} /\ pc[s] \in StartLabels
    BY <1>7 DEF AfterErrorsOr, StartLabels, ComposePersist
  <2>2. Done(mem[s], AfterErrorsOr(mem[s].errors, "applications"))
    BY <1>1, <1>7, <2>1 DEF ComposePersist
  <2> QED
    BY <1>1, <2>1, <2>2
<1>8. CASE ApplicationsPersist(s)
  <2>1. "listening" \in Onward /\ pc[s] \in StartLabels
    BY <1>8 DEF StartLabels, ApplicationsPersist
  <2>2. PICK record \in SessionRecord : Persist(s, record) /\ Alike(record, mem[s])
    BY <1>8, ApplicationsRecord
  <2>3. Done(record, "listening")
    BY <1>1, <1>8, <2>1, <2>2 DEF ApplicationsPersist, Alike, RunningApps
  <2> QED
    BY <2>1, <2>2, <2>3
<1>11. CASE RecordState(s)
  <2> DEFINE record == [mem[s] EXCEPT !.status = FinalStatus(mem[s])]
  <2>1. FinalStatus(mem[s]) \in {"failed", "running", "succeeded"}
    BY DEF FinalStatus
  <2>2. record \in SessionRecord /\ record.status # "stopped" /\ record.apps = mem[s].apps
    BY <1>1, <2>1 DEF SessionRecord, SessionStatus
  <2>3. pc[s] = "record" /\ Goto(s, "done") /\ Persist(s, record)
    BY <1>11 DEF RecordState
  <2> HIDE DEF record
  <2>4. Done(record, "done")
    BY <1>1, <2>2, <2>3 DEF StartLabels, RunningApps
  <2> QED
    BY <2>2, <2>4
<1>9. CASE CleanupPersist(s)
  <2>1. Done(mem[s], "done")
    BY <1>1, <1>9 DEF CleanupPersist
  <2> QED
    BY <1>1, <2>1
<1>10. ASSUME NEW status \in {"interrupted", "timed_out"}, CutShort(s, status)
       PROVE  \E record \in SessionRecord, label \in Onward : Done(record, label)
  <2> DEFINE record == [mem[s] EXCEPT !.status = status, !.errors = TRUE, !.warnings = TRUE]
  <2>1. record \in SessionRecord /\ record.status = status /\ record.apps = mem[s].apps /\ record.errors
    BY <1>1 DEF SessionRecord, SessionStatus
  <2>2. Goto(s, "list") /\ Persist(s, record) /\ pc[s] \in StartLabels
    BY <1>10 DEF CutShort, Checkpoint, StartLabels
  <2> HIDE DEF record
  <2>3. Done(record, "list")
    BY <1>1, <2>1, <2>2 DEF RunningApps
  <2> QED
    BY <2>1, <2>3
<1> QED
  BY <1>2, <1>3, <1>5, <1>6, <1>7, <1>8, <1>9, <1>10, <1>11

\* What is to be shown of the startup that takes a step.
OwnReported(s) == RecordsInv(s)' /\ ReportInv(s)' /\ Agrees(Due', Gone', processes')

LEMMA PersistStatus ==
  ASSUME TypeOK, InHand, SerialInv, StatusInv, NEW s \in Sessions, \A d \in Commands \ {s} : Resting(d), Frame(s),
         \/ CreateSession(s) \/ ObservingPhase(s) \/ EnvironmentPhase(s) \/ SetupPhase(s)
         \/ ComposePersist(s) \/ ApplicationsPersist(s) \/ RecordState(s) \/ CleanupPersist(s)
         \/ CutShort(s, "interrupted") \/ CutShort(s, "timed_out")
  PROVE  OwnReported(s)
<1>1. PICK record \in SessionRecord, label \in (StartLabels \ {"register"}) \cup {"list", "done"} :
            /\ Persist(s, record) /\ Goto(s, label)
            /\ record.status # "stopped" /\ (label = "list" => record.errors)
            /\ \/ pc[s] = "idle" /\ RunningApps(record) = {}
               \/ pc[s] \in StartLabels \cup {"cleaned"} /\ RunningApps(record) = RunningApps(mem[s])
            /\ UNCHANGED <<processes, late, cur>>
  BY PersistingRecord
<1>2. /\ pc'[s] = label /\ mem'[s] = record /\ sessionFile'[s] = record
      /\ \A t \in Sessions \ {s} : sessionFile'[t] = sessionFile[t]
  BY <1>1 DEF Persist, UpdateSession, Goto, TypeOK, Commands
<1>3. Claimed(s)' \subseteq Claimed(s) \cup {}
  BY <1>1, <1>2 DEF Claimed
<1>4. Gone' \subseteq Gone /\ \A t \in Sessions : Due'[t] \subseteq Due[t]
  <2>1. pc[s] # "crashed" /\ pc'[s] # "crashed" /\ pc[s] \notin InSession
    BY <1>1, <1>2 DEF StartLabels, InSession
  <2> QED
    BY <1>1, <1>2, <1>3, <2>1, StartDue
<1>5. \A content : Agrees(Due, Gone, content) => Agrees(Due', Gone', content)
  BY <1>4, LessAgrees
<1>6. ReportInv(s) /\ Agrees(Due, Gone, processes)
  BY DEF StatusInv
<1>7. ReportInv(s)'
  <2>1. pc'[s] \in StopLabels \cup {"cleaned"} => sessionFile'[s].errors
    BY <1>1, <1>2 DEF StopLabels, InSession, StartLabels
  <2> QED
    BY <1>1, <1>2, <1>5, <1>6, <2>1 DEF ReportInv, StoppedCleanly
<1> QED
  BY <1>1, <1>2, <1>5, <1>6, <1>7, StartRecords DEF OwnReported

\* A session whose startup still runs was not stopped.
LEMMA StartingNotGone ==
  ASSUME SerialInv, NEW s \in Sessions, pc[s] \in StartLabels PROVE s \notin Gone
BY DEF SerialInv, SessionBase, StoppedTruly, Gone, StoppedCleanly

\* The steps between two phases that persist nothing, but for those that settle an application.
LEMMA BetweenStatus ==
  ASSUME TypeOK, InHand, SerialInv, StatusInv, NEW s \in Sessions, \A d \in Commands \ {s} : Resting(d), Frame(s),
         SkipCompose(s) \/ ComposeUp(s) \/ SpawnError(s) \/ SpawnApplication(s) \/ ProbeElapsed(s)
  PROVE  OwnReported(s)
<1> USE DEF fileVars, worldVars, cmdVars, stopVars, startVars, Goto
<1>1. /\ pc[s] \in StartLabels /\ pc'[s] \in StartLabels
      /\ pc'[s] = "register" => buf'[s] = processes
      /\ UNCHANGED <<processes, late, cur, sessionFile>>
  BY DEF SkipCompose, ComposeUp, SpawnError, SpawnApplication, ProbeElapsed, ReadProcesses, TypeOK, Commands,
     StartLabels
<1>2. mem'[s].apps = mem[s].apps
  <2>1. mem \in [Sessions -> SessionRecord] /\ mem[s] \in SessionRecord
    BY DEF TypeOK
  <2>2. mem'[s] \in {mem[s], [mem[s] EXCEPT !.compose = "running"],
                     [mem[s] EXCEPT !.compose = "failed", !.errors = TRUE], [mem[s] EXCEPT !.errors = TRUE]}
    BY <2>1 DEF SkipCompose, ComposeUp, SpawnError, SpawnApplication, ProbeElapsed
  <2>3. /\ [mem[s] EXCEPT !.compose = "running"].apps = mem[s].apps
        /\ [mem[s] EXCEPT !.compose = "failed", !.errors = TRUE].apps = mem[s].apps
        /\ [mem[s] EXCEPT !.errors = TRUE].apps = mem[s].apps
    BY <2>1 DEF SessionRecord
  <2> QED
    BY <2>2, <2>3
<1>3. Claimed(s)' \subseteq Claimed(s) \cup {}
  BY <1>1, <1>2 DEF Claimed, RunningApps
<1>4. Gone' \subseteq Gone /\ \A t \in Sessions : Due'[t] \subseteq Due[t]
  <2>1. pc[s] # "crashed" /\ pc'[s] # "crashed" /\ pc[s] \notin InSession
    BY <1>1 DEF StartLabels, InSession
  <2> QED
    BY <1>1, <1>3, <2>1, StartDue
<1>5. \A content : Agrees(Due, Gone, content) => Agrees(Due', Gone', content)
  BY <1>4, LessAgrees
<1>6. ReportInv(s) /\ Agrees(Due, Gone, processes)
  BY DEF StatusInv
<1>7. RecordsInv(s)'
  BY <1>1, <1>5, <1>6 DEF RecordsInv, StartLabels, InSession
<1>8. ReportInv(s)'
  <2>1. s \notin Gone' /\ pc'[s] \notin StopLabels \cup {"cleaned"}
    BY <1>1, <1>4, StartingNotGone DEF StartLabels, StopLabels, InSession
  <2> QED
    BY <1>1, <1>5, <1>6, <2>1 DEF ReportInv, Gone
<1> QED
  BY <1>1, <1>5, <1>6, <1>7, <1>8 DEF OwnReported

LEMMA SettleStatus ==
  ASSUME TypeOK, InHand, SerialInv, StatusInv, NEW s \in Sessions, \A d \in Commands \ {s} : Resting(d), Frame(s),
         RegisterWrite(s) \/ ChildExits(s)
  PROVE  OwnReported(s)
<1> USE DEF fileVars, worldVars, stopVars, Goto
<1>1. /\ pc[s] \in {"probe", "register"} /\ pc'[s] = "applications" /\ UNCHANGED <<sessionFile, cur>>
  BY DEF RegisterWrite, ChildExits, TypeOK, Commands
<1>2. child[s] \in ProcessRecord /\ child[s].session = s /\ s \notin Gone
  <2>1. child[s] \in ProcessRecord /\ child[s].session = s
    BY <1>1, StoreAssumption DEF SerialInv, SessionBase, InHand
  <2> QED
    BY <1>1, <2>1, StartingNotGone DEF StartLabels
<1>3. ReportInv(s) /\ Agrees(Due, Gone, processes) /\ (pc[s] = "register" => Agrees(Due, Gone, buf[s]))
  BY DEF StatusInv, RecordsInv, Commands
<1>4. ASSUME NEW more, RunningApps(mem'[s]) \subseteq RunningApps(mem[s]) \cup more
      PROVE  Gone' \subseteq Gone /\ (\A t \in Sessions \ {s} : Due'[t] \subseteq Due[t]) /\
             Due'[s] \subseteq Due[s] \cup more
  <2>1. Claimed(s)' \subseteq Claimed(s) \cup more
    BY <1>1, <1>4 DEF Claimed, StartLabels
  <2>2. pc[s] # "crashed" /\ pc'[s] # "crashed" /\ pc[s] \notin InSession
    BY <1>1 DEF InSession
  <2> QED
    BY <1>1, <2>1, <2>2, StartDue
<1>5. RecordsInv(s)'
  BY <1>1, StartRecords DEF StartLabels
<1>6. mem \in [Sessions -> SessionRecord] /\ mem[s] \in SessionRecord
  BY DEF TypeOK
<1>7. CASE RegisterWrite(s)
  <2> DEFINE apps == [mem[s].apps EXCEPT ![child[s].app] = "running"]
  <2>1. \A a \in Apps : apps[a] = IF a = child[s].app THEN "running" ELSE mem[s].apps[a]
    BY <1>6 DEF SessionRecord
  <2>2. mem' = [mem EXCEPT ![s] = [mem[s] EXCEPT !.apps = apps]]
    BY <1>7 DEF RegisterWrite
  <2> HIDE DEF apps
  <2>3. mem'[s].apps = apps
    BY <1>6, <2>2 DEF SessionRecord
  <2>4. RunningApps(mem'[s]) \subseteq RunningApps(mem[s]) \cup {child[s].app}
    BY <2>1, <2>3 DEF RunningApps
  <2>5. /\ Gone' \subseteq Gone /\ Due'[s] \subseteq Due[s] \cup {child[s].app}
        /\ \A t \in Sessions \ {s} : Due'[t] \subseteq Due[t]
    BY <1>4, <2>4
  <2>6. pc[s] = "register" /\ processes' = buf[s] \cup {child[s]} /\ late' = late
    BY <1>7 DEF RegisterWrite, AfterRegistration, Registered
  <2>7. Agrees(Due', Gone', processes')
    BY <1>2, <1>3, <2>5, <2>6, AddedAgrees
  <2>8. late'[s] = {}
    BY <2>6 DEF SerialInv, SessionBase
  <2>9. ReportInv(s)'
    BY <1>1, <1>2, <2>5, <2>8 DEF ReportInv, Gone, StopLabels, InSession
  <2> QED
    BY <1>5, <2>7, <2>9 DEF OwnReported
<1>8. CASE ChildExits(s)
  <2>1. mem'[s].apps = mem[s].apps
    <3> DEFINE failed == [mem[s] EXCEPT !.errors = TRUE]
    <3>1. mem' = [mem EXCEPT ![s] = failed] /\ failed.apps = mem[s].apps
      BY <1>6, <1>8 DEF ChildExits, SessionRecord
    <3> HIDE DEF failed
    <3> QED
      BY <1>6, <3>1
  <2>2. Gone' \subseteq Gone /\ \A t \in Sessions : Due'[t] \subseteq Due[t]
    <3>1. RunningApps(mem'[s]) \subseteq RunningApps(mem[s]) \cup {}
      BY <2>1 DEF RunningApps
    <3> QED
      BY <1>4, <3>1
  <2>3. \A content : Agrees(Due, Gone, content) => Agrees(Due', Gone', content)
    BY <2>2, LessAgrees
  <2>4. processes' = processes
    BY <1>8 DEF ChildExits
  <2>5. pc[s] = "register" => Agrees(Due', Gone', AfterRegistration(s))
    BY <1>2, <1>3, <2>2, AddedAgrees DEF AfterRegistration, Registered
  <2>6. late'[s] = late[s] \/ (pc[s] = "register" /\ late'[s] = late[s] \cup {AfterRegistration(s)})
    <3> DEFINE more == late[s] \cup {AfterRegistration(s)}
    <3>1. late' = late \/ (pc[s] = "register" /\ late' = [late EXCEPT ![s] = more])
      BY <1>8 DEF ChildExits
    <3> HIDE DEF more
    <3>2. late'[s] = late[s] \/ (pc[s] = "register" /\ late'[s] = more)
      BY <3>1 DEF TypeOK
    <3> QED
      BY <3>2 DEF more
  <2>7. \A content \in late'[s] : Agrees(Due', Gone', content)
    BY <1>3, <2>3, <2>5, <2>6 DEF ReportInv
  <2>8. ReportInv(s)'
    BY <1>1, <1>2, <2>2, <2>7 DEF ReportInv, Gone, StopLabels, InSession
  <2> QED
    BY <1>3, <1>5, <2>3, <2>4, <2>8 DEF OwnReported
<1> QED
  BY <1>7, <1>8

LEMMA LateStatus ==
  ASSUME TypeOK, SerialInv, StatusInv, NEW s \in Sessions, LateWrite(s)
  PROVE  OwnReported(s)
<1> USE DEF worldVars, cmdVars, stopVars
<1>1. PICK content \in late[s] : processes' = content /\ late' = [late EXCEPT ![s] = late[s] \ {content}]
  BY DEF LateWrite
<1>2. UNCHANGED <<sessionFile, pc, buf, targets, records, cur, victim, mem>>
  BY DEF LateWrite
<1>3. RecordsInv(s) /\ ReportInv(s) /\ s \notin Stops
  BY StoreAssumption DEF StatusInv, Commands
<1>4. StopKilled' = StopKilled
  BY <1>2 DEF StopKilled, Killed
<1>5. Due' = Due /\ Gone' = Gone /\ \A t \in Sessions : Broken(t)' = Broken(t)
  BY <1>2, <1>4 DEF Due, Gone, Broken, Killed, InTheWorks, Claimed, StoppedCleanly
<1>6. late'[s] \subseteq late[s]
  BY <1>1 DEF TypeOK
<1>7. RecordsInv(s)'
  BY <1>2, <1>3, <1>5 DEF RecordsInv, SessionRecords
<1>8. ReportInv(s)'
  BY <1>2, <1>3, <1>4, <1>5, <1>6 DEF ReportInv, StoppedCleanly
<1> QED
  BY <1>1, <1>3, <1>5, <1>7, <1>8 DEF OwnReported, ReportInv

LEMMA ReadBackStatus ==
  ASSUME TypeOK, InHand, SerialInv, StatusInv, NEW s \in Sessions, \A d \in Commands \ {s} : Resting(d), Frame(s),
         CleanupRead(s)
  PROVE  OwnReported(s)
<1> USE DEF fileVars, worldVars, stopVars, Goto
<1>1. /\ pc[s] = "stopped" /\ pc'[s] = "cleaned" /\ sessionFile[s] \in SessionRecord
      /\ UNCHANGED <<sessionFile, late, processes, cur>>
  BY DEF CleanupRead, TypeOK, Commands, InHand
<1>2. mem'[s].apps = sessionFile[s].apps
  <2> DEFINE back == [sessionFile[s] EXCEPT !.status = mem[s].status, !.errors = TRUE, !.warnings = TRUE]
  <2>1. back.apps = sessionFile[s].apps /\ mem' = [mem EXCEPT ![s] = back]
    BY <1>1 DEF SessionRecord, CleanupRead
  <2> HIDE DEF back
  <2> QED
    BY <2>1 DEF TypeOK
<1>3. ReportInv(s) /\ Agrees(Due, Gone, processes)
  BY DEF StatusInv
<1>4. Claimed(s)' \subseteq Claimed(s) \cup {}
  BY <1>1, <1>2, StoreAssumption DEF Claimed, RunningApps
<1>5. Gone' \subseteq Gone /\ \A t \in Sessions : Due'[t] \subseteq Due[t]
  <2>1. pc[s] # "crashed" /\ pc'[s] # "crashed" /\ pc[s] \notin InSession
    BY <1>1 DEF InSession
  <2> QED
    BY <1>1, <1>4, <2>1, StartDue
<1>6. \A content : Agrees(Due, Gone, content) => Agrees(Due', Gone', content)
  BY <1>5, LessAgrees
<1>7. sessionFile[s].errors
  BY <1>1, <1>3 DEF ReportInv, StopLabels
<1>8. ReportInv(s)'
  BY <1>1, <1>3, <1>6, <1>7 DEF ReportInv, StoppedCleanly
<1> QED
  BY <1>1, <1>3, <1>6, <1>8, StartRecords DEF OwnReported

LEMMA StartStatus ==
  ASSUME TypeOK, InHand, SerialInv, StatusInv, NEW s \in Sessions, StartStep(s), CreateSession(s) => MayBegin(s),
         Orderly
  PROVE  StatusInv'
<1>1. (\A d \in Commands \ {s} : Resting(d)) /\ Frame(s)
  BY StartFrame
<1>2. OwnReported(s)
  BY <1>1, PersistStatus, BetweenStatus, SettleStatus, LateStatus, ReadBackStatus DEF StartStep, StartRuntime
<1>3. \A t \in Sessions \ {s} : sessionFile'[t] = sessionFile[t]
  BY StartKeepsOthers DEF StartStep
<1>4. StopKilled => StopKilled'
  BY <1>1, StoreAssumption DEF StopKilled, Killed, Frame, Commands
<1>5. /\ \A d \in Commands \ {s} : RecordsInv(d)'
      /\ \A t \in Sessions \ {s} : ReportInv(t)'
  BY <1>1, <1>3, <1>4, RestingReports DEF Commands
<1> QED
  BY <1>2, <1>5 DEF StatusInv, OwnReported

-----------------------------------------------------------------------------
(* The other steps, and the theorems *)

LEMMA CalmStatus == ASSUME StatusInv, Calm PROVE StatusInv'
<1> UNCHANGED <<sessionFile, processes, pc, buf, stopVars, startVars>>
  BY DEF Calm
<1> USE DEF stopVars, startVars
<1>1. StopKilled' = StopKilled
  BY DEF StopKilled, Killed
<1>2. Due' = Due /\ Gone' = Gone /\ \A t \in Sessions : Broken(t)' = Broken(t)
  BY <1>1 DEF Due, Gone, Broken, Killed, InTheWorks, Claimed, StoppedCleanly
<1>3. \A c \in Commands : RecordsInv(c)'
  BY <1>2 DEF StatusInv, RecordsInv, SessionRecords
<1>4. \A s \in Sessions : ReportInv(s)'
  BY <1>1, <1>2 DEF StatusInv, ReportInv, StoppedCleanly
<1> QED
  BY <1>2, <1>3, <1>4 DEF StatusInv

LEMMA StopEndsStatus ==
  ASSUME TypeOK, StatusInv, NEW c \in Stops, BeginStop(c) \/ EndStop(c)
  PROVE  StatusInv'
<1> USE DEF fileVars, worldVars, startVars, Goto
<1>1. c \in Commands /\ c \notin Sessions
  BY StoreAssumption DEF Commands
<1>2. /\ pc[c] \in {"idle", "stopped"} /\ pc'[c] \in {"list", "done"} /\ \A d \in Commands \ {c} : pc'[d] = pc[d]
      /\ UNCHANGED <<sessionFile, processes, buf, targets, records, cur, victim, mem, late>>
  BY <1>1 DEF BeginStop, EndStop, TypeOK
<1>3. StopKilled' = StopKilled
  <2>1. \A d \in Stops : Killed(d)' = Killed(d)
    BY <1>2 DEF Killed, Commands
  <2> QED
    BY <2>1 DEF StopKilled
<1>4. \A s \in Sessions : pc'[s] = pc[s]
  BY <1>1, <1>2 DEF Commands
<1>5. \A s \in Sessions : (Broken(s)' = Broken(s)) /\ (InTheWorks(s)' = InTheWorks(s)) /\ Claimed(s)' = Claimed(s)
  BY <1>2, <1>3, <1>4 DEF Broken, Killed, InTheWorks, InSession, Claimed
<1>6. Due' = Due /\ Gone' = Gone
  BY <1>2, <1>3, <1>5 DEF Due, Gone, StoppedCleanly
<1>7. ASSUME NEW d \in Commands
      PROVE  RecordsInv(d)'
  <2>1. CASE d = c
    BY <1>2, <2>1 DEF RecordsInv, InSession
  <2>2. CASE d # c
    BY <1>2, <1>5, <1>6, <2>2 DEF StatusInv, RecordsInv, SessionRecords
  <2> QED
    BY <2>1, <2>2
<1>8. \A s \in Sessions : ReportInv(s)'
  BY <1>2, <1>3, <1>4, <1>6 DEF StatusInv, ReportInv, StoppedCleanly
<1> QED
  BY <1>2, <1>6, <1>7, <1>8 DEF StatusInv

\* A killed stop leaves nothing to be kept; a killed startup, what its file says.
LEMMA CrashStatus ==
  ASSUME TypeOK, InHand, SerialInv, StatusInv, NEW c \in Commands, Crash(c)
  PROVE  StatusInv'
<1> USE DEF fileVars, worldVars, Goto
<1>1. \A d \in Commands \ {c} : Resting(d)
  BY DEF Crash, SerialInv, OneRuns, Resting, Finished
<1>2. /\ pc[c] \notin {"idle", "done", "crashed"}
      /\ pc'[c] = "crashed" /\ \A d \in Commands \ {c} : pc'[d] = pc[d] /\ cur'[d] = cur[d]
      /\ \A d \in Commands \ {c} : latestDue'[d] = latestDue[d]
      /\ UNCHANGED <<sessionFile, processes, os, compose, child>>
  BY DEF Crash, Forgotten, TypeOK
<1>3. \A s \in Sessions : /\ s # c => late'[s] = late[s] /\ mem'[s] = mem[s]
                          /\ s = c => late'[s] = {}
  BY DEF Crash, Forgotten, TypeOK
<1>4. Frame(c)
  BY <1>2, <1>3 DEF Frame, Falls, Written
<1>5. StopKilled => StopKilled'
  BY <1>2 DEF StopKilled, Killed, Commands
<1>6. c \in Stops => StopKilled'
  BY <1>2 DEF StopKilled, Killed
<1>7. Gone' \subseteq Gone
  BY <1>2, <1>5 DEF Gone, StoppedCleanly
<1>8. ASSUME NEW s \in Sessions
      PROVE  Due'[s] \subseteq Due[s]
  <2> SUFFICES ASSUME ~Broken(s)', ~InTheWorks(s)'
               PROVE  ~Broken(s) /\ ~InTheWorks(s) /\ Claimed(s)' \subseteq Claimed(s)
    BY DueIs
  <2>1. ~StopKilled' /\ ~StopKilled /\ c \in Sessions
    BY <1>5, <1>6 DEF Broken, Commands
  <2>2. ~Broken(s)
    BY <1>2, <2>1 DEF Broken, Killed, Commands
  <2>3. ~InTheWorks(s)
    <3> SUFFICES ASSUME NEW d \in Commands, pc[d] \in InSession, cur[d] = s
                 PROVE  FALSE
      BY DEF InTheWorks
    <3>1. d = c
      BY <1>1 DEF Resting, Finished, InSession
    <3>2. s = c
      BY <2>1, <3>1 DEF SerialInv, Cleaning
    <3>3. sessionFile[s].errors /\ sessionFile[s] # NoFile
      BY <1>2, <3>1, <3>2, StoreAssumption DEF StatusInv, ReportInv, StopLabels, InHand
    <3> QED
      BY <1>2, <3>2, <3>3 DEF Broken, Killed
  <2>4. Claimed(s)' \subseteq Claimed(s)
    <3>1. CASE s = c
      BY <1>2, <3>1 DEF Claimed, StartLabels
    <3>2. CASE s # c
      BY <1>2, <1>3, <3>2 DEF Claimed, Commands
    <3> QED
      BY <3>1, <3>2
  <2> QED
    BY <2>2, <2>3, <2>4
<1>9. Agrees(Due', Gone', processes')
  BY <1>2, <1>7, <1>8, LessAgrees DEF StatusInv
<1>10. RecordsInv(c)'
  BY <1>2 DEF RecordsInv, InSession
<1>11. c \in Sessions => ReportInv(c)'
  BY <1>2, <1>3, <1>5 DEF StatusInv, ReportInv, StopLabels, InSession, StoppedCleanly
<1>12. /\ \A d \in Commands \ {c} : RecordsInv(d)'
       /\ \A s \in Sessions \ {c} : ReportInv(s)'
  BY <1>1, <1>2, <1>4, <1>5, RestingReports
<1> QED
  BY <1>9, <1>10, <1>11, <1>12 DEF StatusInv

LEMMA InitStatus == Init => StatusInv
<1> SUFFICES ASSUME Init PROVE StatusInv
  OBVIOUS
<1> USE StoreAssumption DEF Init, StoreInit, StopInit, StartInit, Commands
<1>1. \A c \in Commands : pc[c] = "idle"
  OBVIOUS
<1>2. \A s \in Sessions : Claimed(s) = {} /\ ~StoppedCleanly(s)
  BY <1>1 DEF Claimed, StartLabels, StoppedCleanly
<1>3. Agrees(Due, Gone, processes)
  BY <1>2 DEF Agrees, Due
<1>4. \A c \in Commands : RecordsInv(c)
  BY <1>1 DEF RecordsInv, InSession
<1>5. \A s \in Sessions : ReportInv(s)
  BY <1>1, <1>2 DEF ReportInv, StopLabels, InSession
<1> QED
  BY <1>3, <1>4, <1>5 DEF StatusInv

LEMMA NextStatus ==
  ASSUME Orderly
  PROVE  TypeOK /\ InHand /\ SerialInv /\ AllOwned /\ StatusInv /\ [Next]_vars => StatusInv'
<1> SUFFICES ASSUME TypeOK, InHand, SerialInv, AllOwned, StatusInv, [Next]_vars PROVE StatusInv'
  OBVIOUS
<1>1. ASSUME NEW s \in Sessions, BeginStart(s) \/ CutShort(s, "interrupted") \/ CutShort(s, "timed_out")
      PROVE  StatusInv'
  <2>1. StartStep(s) /\ (CreateSession(s) => MayBegin(s))
    BY <1>1 DEF BeginStart, StartStep, CreateSession, CutShort, Checkpoint
  <2> QED
    BY <2>1, StartStatus
<1>2. ASSUME NEW c \in Stops, BeginStop(c) \/ EndStop(c)
      PROVE  StatusInv'
  BY <1>2, StopEndsStatus
<1>3. ASSUME NEW s \in Sessions, StartRuntime(s)
      PROVE  StatusInv'
  BY <1>3, StartGoesOn, StartStatus DEF StartStep
<1>4. ASSUME NEW c \in Commands, Progress(c)
      PROVE  StatusInv'
  BY <1>2, <1>3, <1>4, StillIsCalm, CalmStatus, StopStatus DEF Progress
<1>5. ASSUME NEW c \in Commands, Crash(c)
      PROVE  StatusInv'
  BY <1>5, CrashStatus
<1>6. CASE World \/ UNCHANGED vars
  BY <1>6, WorldIsCalm, StillIsCalm, CalmStatus
<1> QED
  BY <1>1, <1>2, <1>4, <1>5, <1>6 DEF Next

LEMMA StatusInvariant == ASSUME Orderly, PidReuse = FALSE PROVE Spec => []StatusInv
<1>1. TypeOK /\ InHand /\ SerialInv /\ AllOwned /\ StatusInv /\ [Next]_vars => StatusInv'
  BY NextStatus
<1> QED
  BY <1>1, InitStatus, TypesInvariant, SerialInvariant, OwnershipInvariant, PTL DEF Spec

\* If no pid is given out again: an application that a session lists as running has its process in
\* processes.json, but for what a stop has in hand or was killed over (registerProcess,
\* removeProcess, stopRuntime).
THEOREM RunningStaysOnRecord == ASSUME Orderly, PidReuse = FALSE PROVE Spec => []RunningIsOnRecord
<1>1. StatusInv => RunningIsOnRecord
  <2> SUFFICES ASSUME StatusInv, NEW s \in Sessions, Recorded(s), ~\E c \in Commands : Stopping(c),
                      ~\E c \in Stops \cup {s} : Killed(c), NEW a \in Apps, sessionFile[s].apps[a] = "running"
               PROVE  \E r \in SessionProcesses(s) : r.app = a
    BY DEF RunningIsOnRecord
  <2>1. ~Broken(s) /\ ~InTheWorks(s)
    BY DEF Broken, StopKilled, InTheWorks, Stopping, InSession
  <2>2. a \in Due[s]
    BY <2>1, DueIs DEF Recorded, Claimed, RunningApps
  <2> QED
    BY <2>2 DEF StatusInv, Agrees, Has, SessionProcesses
<1> QED
  BY <1>1, StatusInvariant, PTL

\* Under the same conditions, `board status` agrees with the `board stop` before it: what was
\* stopped is reported stopped, or failed if the startup left errors, or a failed port or health
\* check, in the session; and without errors it is warned of nothing but what the startup itself
\* warned of (getRuntimeStatus, summarizeStatus).
THEOREM StopsAreReported == ASSUME Orderly, PidReuse = FALSE PROVE Spec => []StopIsReported
<1>1. TypeOK /\ StatusInv => StopIsReported
  <2> SUFFICES ASSUME TypeOK, StatusInv, NEW s \in Sessions, Recorded(s), sessionFile[s].status = "stopped",
                      ~\E c \in Stops : Killed(c)
               PROVE  /\ RuntimeReport(s).status =
                           IF StartupFailed(sessionFile[s]) THEN "failed" ELSE "stopped"
                      /\ ~sessionFile[s].errors =>
                           /\ RuntimeReport(s).next = "stop"
                           /\ CommandResult(s) = IF sessionFile[s].warnings THEN "warning" ELSE "success"
    BY DEF StopIsReported
  <2>1. /\ sessionFile[s] \in SessionRecord /\ sessionFile[s].errors \in BOOLEAN
        /\ s # NoSession
    BY StoreAssumption DEF TypeOK, Recorded, SessionRecord
  <2>2. Asked(s) = s
    BY <2>1 DEF Asked
  <2>3. /\ RuntimeReport(s).status = SummarizedStatus(s)
        /\ RuntimeReport(s).session = s /\ RuntimeReport(s).stale = StaleProcesses(s)
        /\ RuntimeReport(s).warnings = sessionFile[s].warnings
        /\ RuntimeReport(s).next = IF StaleProcesses(s) = {} THEN "stop" ELSE "stop --force"
    BY <2>2 DEF RuntimeReport
  <2>4. CASE sessionFile[s].errors
    <3>1. SummarizedStatus(s) = "failed"
      BY <2>4 DEF SummarizedStatus
    <3> QED
      BY <2>3, <2>4, <3>1 DEF StartupFailed
  <2>5. CASE ~sessionFile[s].errors
    <3>1. StoppedCleanly(s) /\ s \in Gone
      BY <2>5 DEF StoppedCleanly, StopKilled, Gone, Recorded
    <3>2. RunningApps(sessionFile[s]) = {} /\ sessionFile[s].compose \in {"absent", "stopped"}
      BY <3>1 DEF StatusInv, ReportInv
    <3>3. SessionProcesses(s) = {}
      BY <3>1 DEF StatusInv, Agrees, SessionProcesses
    <3>4. StaleProcesses(s) = {} /\ \A a \in Apps : MergedApps(s)[a] # "running"
      BY <3>2, <3>3 DEF StaleProcesses, MergedApps, RunningApps
    <3>5. SummarizedStatus(s) = IF StartupFailed(sessionFile[s]) THEN "failed" ELSE "stopped"
      BY <2>5, <3>2, <3>4 DEF SummarizedStatus, ResourceFailed, StartupFailed
    <3>6. CommandResult(s) = IF sessionFile[s].warnings THEN "warning" ELSE "success"
      BY <2>1, <2>3, <3>4 DEF CommandResult
    <3> QED
      BY <2>3, <2>5, <3>4, <3>5, <3>6
  <2> QED
    BY <2>1, <2>4, <2>5
<1> QED
  BY <1>1, StatusInvariant, TypesInvariant, PTL
=============================================================================
