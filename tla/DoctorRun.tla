-------------------------------- MODULE DoctorRun --------------------------------
(***************************************************************************)
(* runDoctor (doctor-runner.ts) and legacyReviewCommand (cli legacy.ts)    *)
(* over the files of DoctorStore.  A doctor starts the upserts of a phase  *)
(* all at once (Promise.all) and goes on when the last has ended; one that *)
(* fails fails the command, but not the others, which run on.              *)
(***************************************************************************)
EXTENDS DoctorStore

VARIABLES
    inTurn,      \* are commands only issued when none is running?
    pc,          \* the phase each command is in
    findings,    \* the fingerprints a doctor has findings for
    matched,     \* the known problems its findings were matched to
    pointerRead  \* latest.json as it read it

runVars == <<inTurn, pc, findings, matched, pointerRead>>

vars == <<fileVars, candidateVars, knownVars, runVars>>

NoPointer == [run |-> NoRun, recent |-> <<>>]

LegsOf(c) == {l \in Legs : l[1] = c}

LegsDone(c) == \A l \in LegsOf(c) : leg[l] = "idle"

UpsertsDone(d) == \A p \in Problems : upsert[d][p] = "idle"

Settled(c) == LegsDone(c) /\ (c \in Doctors => UpsertsDone(c))

Finished(c) == pc[c] \in {"done", "failed", "crashed"} /\ Settled(c)

Goto(c, label) == pc' = [pc EXCEPT ![c] = label]

Begin(c, label) ==
    /\ pc[c] = "idle"
    /\ inTurn => \A other \in Commands \ {c} : pc[other] = "idle" \/ Finished(other)
    /\ Goto(c, label)

-----------------------------------------------------------------------------
(* board doctor. *)

\* importLegacyCandidatesFromScannerFacts: one upsert per fact the scanner reports.
ImportCandidates(d) ==
    /\ Begin(d, "import")
    /\ \E facts \in SUBSET {l \in Upserts : l[1] = d} : BeginUpserts(facts)
    /\ UNCHANGED <<fileVars, listed, decided, knownVars, inTurn, findings, matched, pointerRead>>

\* matchStaleWorkflowCandidates: again one upsert per fact.
StaleWorkflows(d) ==
    /\ pc[d] = "import"
    /\ LegsDone(d)
    /\ \E facts \in SUBSET {l \in Upserts : l[1] = d} : BeginUpserts(facts)
    /\ Goto(d, "stale")
    /\ UNCHANGED <<fileVars, listed, decided, knownVars, inTurn, findings, matched, pointerRead>>

\* matchKnownProblems goes by the fingerprint, or by category, target and message, which a
\* record of another fingerprint may share with a finding.
MayMatch(seen, ids) ==
    LET listing == {r.problem : r \in known} IN
    /\ seen \cap listing \subseteq ids
    /\ ids \subseteq listing
    /\ seen = {} => ids = {}

\* The diagnostic engine has findings, which are matched and then upserted all at once.
Diagnose(d) ==
    /\ pc[d] = "stale"
    /\ LegsDone(d)
    /\ \E seen \in SUBSET Problems, ids \in SUBSET Problems :
         /\ MayMatch(seen, ids)
         /\ findings' = [findings EXCEPT ![d] = seen]
         /\ matched' = [matched EXCEPT ![d] = ids]
         /\ upsert' = [upsert EXCEPT ![d] =
                         [p \in Problems |-> IF p \in seen THEN "read" ELSE "idle"]]
    /\ Goto(d, "upsert")
    /\ UNCHANGED <<fileVars, candidateVars, knownRead, found, inTurn, pointerRead>>

\* Bug: the pointer is moved before the file of the run is there.
PointerOnly(d) ==
    /\ pc[d] = "upsert"
    /\ UpsertsDone(d)
    /\ Goto(d, "readPointer")
    /\ UNCHANGED <<fileVars, candidateVars, knownVars, inTurn, findings, matched, pointerRead>>

\* writeRun: the file of the run, then updateLatestRun.
WriteRun(d) ==
    /\ pc[d] = "upsert"
    /\ UpsertsDone(d)
    /\ runFiles' = runFiles \cup {d}
    /\ Goto(d, "readPointer")
    /\ UNCHANGED <<pointer, known, candidateFile, index, candidateVars, knownVars,
                   inTurn, findings, matched, pointerRead>>

ReadPointer(d) ==
    /\ pc[d] = "readPointer"
    /\ pointerRead' = [pointerRead EXCEPT ![d] = pointer]
    /\ Goto(d, "writePointer")
    /\ UNCHANGED <<fileVars, candidateVars, knownVars, inTurn, findings, matched>>

\* Run ids are new, so that the list read holds no older entry of the same run.
Recent(d, recent) ==
    SubSeq(<<d>> \o recent, 1, IF Len(recent) < MaxRecent THEN Len(recent) + 1 ELSE MaxRecent)

WritePointer(d) ==
    /\ pc[d] = "writePointer"
    /\ pointer' = [run |-> d, recent |-> Recent(d, pointerRead[d].recent)]
    /\ pointerRead' = [pointerRead EXCEPT ![d] = NoPointer]
    /\ Goto(d, "done")
    /\ UNCHANGED <<runFiles, known, candidateFile, index, candidateVars, knownVars,
                   inTurn, findings, matched>>

RunDoctor(d) ==
    \/ ImportCandidates(d) \/ StaleWorkflows(d) \/ Diagnose(d)
    \/ (\E p \in Problems : UpsertFinding(d, p) /\ UNCHANGED runVars)
    \/ WriteRun(d) \/ ReadPointer(d) \/ WritePointer(d)

-----------------------------------------------------------------------------
(* board legacy review. *)

BeginReview(r) ==
    /\ Begin(r, "review")
    /\ \E l \in Updates : l[1] = r /\ leg' = [leg EXCEPT ![l] = "read"]
    /\ UNCHANGED <<fileVars, held, listed, decided, knownVars, inTurn, findings, matched, pointerRead>>

EndReview(r) ==
    /\ pc[r] = "review"
    /\ LegsDone(r)
    /\ Goto(r, "done")
    /\ UNCHANGED <<fileVars, candidateVars, knownVars, inTurn, findings, matched, pointerRead>>

LegacyReview(r) == BeginReview(r) \/ EndReview(r)

-----------------------------------------------------------------------------
(* Failure. *)

\* A file operation of one upsert fails: the command fails, its other upserts run on.
LegFails(l) ==
    /\ leg[l] # "idle"
    /\ leg' = [leg EXCEPT ![l] = "idle"]
    /\ held' = [held EXCEPT ![l] = NoFile]
    /\ listed' = [listed EXCEPT ![l] = {}]
    /\ Goto(l[1], "failed")
    /\ UNCHANGED <<fileVars, decided, knownVars, inTurn, findings, matched, pointerRead>>

FindingFails(d, p) ==
    /\ upsert[d][p] # "idle"
    /\ upsert' = [upsert EXCEPT ![d][p] = "idle"]
    /\ knownRead' = [knownRead EXCEPT ![d][p] = {}]
    /\ Goto(d, "failed")
    /\ UNCHANGED <<fileVars, candidateVars, found, inTurn, findings, matched, pointerRead>>

\* The command is killed.
Crash(c) ==
    /\ pc[c] \notin {"idle", "done", "crashed"}
    /\ leg' = [l \in Legs |-> IF l[1] = c THEN "idle" ELSE leg[l]]
    /\ held' = [l \in Legs |-> IF l[1] = c THEN NoFile ELSE held[l]]
    /\ listed' = [l \in Legs |-> IF l[1] = c THEN {} ELSE listed[l]]
    /\ upsert' = [d \in Doctors |-> IF d = c THEN [p \in Problems |-> "idle"] ELSE upsert[d]]
    /\ knownRead' = [d \in Doctors |-> IF d = c THEN [p \in Problems |-> {}] ELSE knownRead[d]]
    /\ pointerRead' = [d \in Doctors |-> IF d = c THEN NoPointer ELSE pointerRead[d]]
    /\ Goto(c, "crashed")
    /\ UNCHANGED <<fileVars, decided, found, inTurn, findings, matched>>

Next ==
    \/ \E d \in Doctors : RunDoctor(d)
    \/ \E r \in Reviews : LegacyReview(r)
    \/ \E l \in Legs :
         \/ ReadForUpsert(l) /\ UNCHANGED runVars
         \/ ReadForUpdate(l) /\ UNCHANGED runVars
         \/ WriteLegacyCandidate(l) /\ UNCHANGED runVars
         \/ LegFails(l)
    \/ \E d \in Doctors, p \in Problems : FindingFails(d, p)
    \/ \E c \in Commands : Crash(c)

Init ==
    /\ StoreInit
    /\ inTurn \in BOOLEAN
    /\ pc = [c \in Commands |-> "idle"]
    /\ findings = [d \in Doctors |-> {}]
    /\ matched = [d \in Doctors |-> {}]
    /\ pointerRead = [d \in Doctors |-> NoPointer]

Spec == Init /\ [][Next]_vars

-----------------------------------------------------------------------------

LegStages == {"idle", "read", "file", "readIndex", "index"}

Phases ==
    {"idle", "import", "stale", "upsert", "readPointer", "writePointer", "review",
     "done", "failed", "crashed"}

\* Every variable keeps its type: the shape of the files and of what the commands hold.
TypeOK ==
    /\ runFiles \subseteq Doctors
    /\ pointer \in LatestPointer
    /\ known \subseteq KnownRecord
    /\ candidateFile \in [Candidates -> CandidateRecord \cup {NoFile}]
    /\ index \subseteq CandidateRecord
    /\ leg \in [Legs -> LegStages]
    /\ held \in [Legs -> CandidateRecord \cup {NoFile}]
    /\ listed \in [Legs -> SUBSET CandidateRecord]
    /\ upsert \in [Doctors -> [Problems -> {"idle", "read", "write"}]]
    /\ knownRead \in [Doctors -> [Problems -> SUBSET KnownRecord]]
    /\ decided \in [Candidates -> ReviewStatus]
    /\ found \in [Problems -> Nat]
    /\ inTurn \in BOOLEAN
    /\ pc \in [Commands -> Phases]
    /\ findings \in [Doctors -> SUBSET Problems]
    /\ matched \in [Doctors -> SUBSET Problems]
    /\ pointerRead \in [Doctors -> LatestPointer]

\* Whatever `board legacy list` shows, `board legacy explain` and `board legacy review`
\* find: every entry of the index has its candidate file, wherever commands are killed or
\* fail between the two writes, and however the index updates overwrite each other.
ListedIsFound == \A r \in index : candidateFile[r.id] # NoFile

\* latest.json and its list of recent runs only name runs that are recorded.
RecentIsRecorded ==
    /\ pointer.run # NoRun => pointer.run \in runFiles
    /\ \A i \in 1 .. Len(pointer.recent) : pointer.recent[i] \in runFiles

\* occurrenceCount is earned: updates may be lost, but no overwriting of an index that
\* others have changed meanwhile makes a problem seem more frequent than it was found.
CountsAreEarned == \A r \in known : r.count <= found[r.problem]

\* "Rediscovery should update evidence without discarding prior human false-positive
\* decisions" (README:107): as long as commands are issued one at a time, a candidate has
\* the status the last review gave it, however many doctors find it again.
DecisionsKept ==
    inTurn => \A c \in Candidates :
                candidateFile[c] # NoFile => candidateFile[c].status = decided[c]

\* The matched record ids a run reports name records that are still there when it ends,
\* as long as commands are issued one at a time and the list is not full.
MatchedStaysKnown ==
    \A d \in Doctors :
        inTurn /\ pc[d] = "done" /\ Cardinality(Problems) <= MaxKnown
        => \A p \in matched[d] : \E r \in known : r.problem = p

=============================================================================
