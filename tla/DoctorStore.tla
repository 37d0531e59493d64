------------------------------- MODULE DoctorStore -------------------------------
(***************************************************************************)
(* What `board doctor` and `board legacy review` keep below the            *)
(* repository's doctor and legacy state roots (state-store.ts): a file per *)
(* run with a pointer to the latest, the known problems, and a file per    *)
(* legacy candidate with an index of them.  Each write is an atomic        *)
(* rename; each update is a read and a write with an await in between.     *)
(***************************************************************************)
EXTENDS Naturals, FiniteSets, Sequences

CONSTANTS
    Doctors,       \* `board doctor` invocations; each records the run it is named by
    Reviews,       \* `board legacy review` invocations
    Problems,      \* fingerprints of findings
    Candidates,    \* legacy candidates the repository has signs of
    Signals,       \* the signs there are of one
    MaxKnown, MaxCandidates, MaxRecent, \* limits of the three lists
    NoRun, NoFile, NoSignal

Commands == Doctors \cup Reviews

\* Of the review statuses: the first, and two a reviewer may decide for.
ReviewStatus == {"unreviewed", "accepted", "false_positive"}

CandidateRecord ==
    [id : Candidates, signals : SUBSET Signals, status : ReviewStatus]

KnownRecord == [problem : Problems, count : Nat \ {0}]

LatestPointer == [run : Doctors \cup {NoRun}, recent : Seq(Doctors)]

\* An upsert of a candidate by a doctor, for one fact; a review updates its candidate.
Upserts == Doctors \X Candidates \X Signals
Updates == Reviews \X Candidates \X {NoSignal}
Legs    == Upserts \cup Updates

ASSUME DoctorAssumption ==
    /\ Doctors \cap Reviews = {}
    /\ NoSignal \notin Signals
    /\ NoRun \notin Doctors
    /\ NoFile \notin CandidateRecord
    /\ MaxKnown \in Nat /\ MaxCandidates \in Nat
    /\ MaxRecent \in Nat \ {0}

VARIABLES
    runFiles,      \* runs/<id>.json
    pointer,       \* latest.json
    known,         \* known-problems.json
    candidateFile, \* candidates/<id>.json
    index,         \* index.json of the legacy candidates
    leg,           \* how far each upsert or update of a candidate is
    held,          \* the candidate it is going to write
    listed,        \* the index as it read it
    upsert,        \* how far the upsert of each finding of a doctor is
    knownRead,     \* the known problems as it read them
    decided,       \* history: the last decision a review wrote, per candidate
    found          \* history: how often a finding was written, per problem

fileVars      == <<runFiles, pointer, known, candidateFile, index>>
candidateVars == <<leg, held, listed, decided>>
knownVars     == <<upsert, knownRead, found>>

\* slice(0, limit) of a list sorted by time: as many as fit, and which ones the times
\* decide.
Within(list, limit) ==
    {kept \in SUBSET list :
       \/ kept = list
       \/ Cardinality(list) > limit /\ Cardinality(kept) = limit}

-----------------------------------------------------------------------------
(* Legacy candidates: a record per candidate, and the index. *)

Detected(c, sig) == [id |-> c, signals |-> {sig}, status |-> "unreviewed"]

\* Bug: what the scanner found anew replaces what was known.
Rediscovered(old, new) == new

\* mergeCandidate: the signals are united, the review stays.
Merged(old, new) == [old EXCEPT !.signals = @ \cup new.signals]

BeginUpserts(facts) ==
    /\ leg' = [l \in Legs |-> IF l \in facts THEN "read" ELSE leg[l]]
    /\ held' = [l \in Legs |-> IF l \in facts THEN Detected(l[2], l[3]) ELSE held[l]]

\* upsert, up to its first write.
ReadForUpsert(l) ==
    /\ leg[l] = "read"
    /\ l \in Upserts
    /\ held' = [held EXCEPT ![l] =
                  IF candidateFile[l[2]] = NoFile THEN @ ELSE Merged(candidateFile[l[2]], @)]
    /\ leg' = [leg EXCEPT ![l] = "file"]
    /\ UNCHANGED <<fileVars, listed, decided, knownVars>>

\* updateReviewStatus, up to its first write; a candidate without a file is not found.
ReadForUpdate(l) ==
    /\ leg[l] = "read"
    /\ l \in Updates
    /\ \/ /\ candidateFile[l[2]] = NoFile
          /\ leg' = [leg EXCEPT ![l] = "idle"]
          /\ held' = [held EXCEPT ![l] = NoFile]
       \/ /\ candidateFile[l[2]] # NoFile
          /\ \E status \in ReviewStatus :
               held' = [held EXCEPT ![l] = [candidateFile[l[2]] EXCEPT !.status = status]]
          /\ leg' = [leg EXCEPT ![l] = "file"]
    /\ UNCHANGED <<fileVars, listed, decided, knownVars>>

\* writeLegacyCandidate: the file of the candidate, then the index.
WriteCandidate(l) ==
    /\ leg[l] = "file"
    /\ candidateFile' = [candidateFile EXCEPT ![l[2]] = held[l]]
    /\ decided' = IF l \in Updates THEN [decided EXCEPT ![l[2]] = held[l].status] ELSE decided
    /\ leg' = [leg EXCEPT ![l] = "readIndex"]
    /\ UNCHANGED <<runFiles, pointer, known, index, held, listed, knownVars>>

ReadIndex(l) ==
    /\ leg[l] = "readIndex"
    /\ listed' = [listed EXCEPT ![l] = index]
    /\ leg' = [leg EXCEPT ![l] = "index"]
    /\ UNCHANGED <<fileVars, held, decided, knownVars>>

Replaced(list, candidate) == {candidate} \cup {r \in list : r.id # candidate.id}

WriteIndex(l) ==
    /\ leg[l] = "index"
    /\ index' \in Within(Replaced(listed[l], held[l]), MaxCandidates)
    /\ leg' = [leg EXCEPT ![l] = "idle"]
    /\ held' = [held EXCEPT ![l] = NoFile]
    /\ listed' = [listed EXCEPT ![l] = {}]
    /\ UNCHANGED <<runFiles, pointer, known, candidateFile, decided, knownVars>>

\* Bug: the index is written first.
IndexFirst(l) ==
    \/ /\ leg[l] = "file"
       /\ listed' = [listed EXCEPT ![l] = index]
       /\ leg' = [leg EXCEPT ![l] = "readIndex"]
       /\ UNCHANGED <<fileVars, held, decided, knownVars>>
    \/ /\ leg[l] = "readIndex"
       /\ index' \in Within(Replaced(listed[l], held[l]), MaxCandidates)
       /\ leg' = [leg EXCEPT ![l] = "index"]
       /\ UNCHANGED <<runFiles, pointer, known, candidateFile, held, listed, decided, knownVars>>
    \/ /\ leg[l] = "index"
       /\ candidateFile' = [candidateFile EXCEPT ![l[2]] = held[l]]
       /\ leg' = [leg EXCEPT ![l] = "idle"]
       /\ held' = [held EXCEPT ![l] = NoFile]
       /\ listed' = [listed EXCEPT ![l] = {}]
       /\ UNCHANGED <<runFiles, pointer, known, index, decided, knownVars>>

\* writeLegacyCandidate, the steps after the record to write is there.
WriteLegacyCandidate(l) == WriteCandidate(l) \/ ReadIndex(l) \/ WriteIndex(l)

-----------------------------------------------------------------------------
(* Known problems. *)

\* How often the list says a problem occurred.
Occurrences(list, p) ==
    IF \E r \in list : r.problem = p
    THEN (CHOOSE r \in list : r.problem = p).count
    ELSE 0

\* Bug: every record of the list counts the occurrence.
AllObserved(list, p) ==
    {[r EXCEPT !.count = @ + 1] : r \in {r \in list : r.problem # p}} \cup
    {[problem |-> p, count |-> Occurrences(list, p) + 1]}

\* Bug: the records of other problems are dropped.
OnlyObserved(list, p) == {[problem |-> p, count |-> Occurrences(list, p) + 1]}

\* createRecord or updateRecord, and the list with the record in front.
Observed(list, p) ==
    {r \in list : r.problem # p} \cup {[problem |-> p, count |-> Occurrences(list, p) + 1]}

ReadKnown(d, p) ==
    /\ upsert[d][p] = "read"
    /\ knownRead' = [knownRead EXCEPT ![d][p] = known]
    /\ upsert' = [upsert EXCEPT ![d][p] = "write"]
    /\ UNCHANGED <<fileVars, candidateVars, found>>

WriteKnown(d, p) ==
    /\ upsert[d][p] = "write"
    /\ known' \in Within(Observed(knownRead[d][p], p), MaxKnown)
    /\ found' = [found EXCEPT ![p] = @ + 1]
    /\ upsert' = [upsert EXCEPT ![d][p] = "idle"]
    /\ knownRead' = [knownRead EXCEPT ![d][p] = {}]
    /\ UNCHANGED <<runFiles, pointer, candidateFile, index, candidateVars>>

UpsertFinding(d, p) == ReadKnown(d, p) \/ WriteKnown(d, p)

StoreInit ==
    /\ runFiles = {}
    /\ pointer = [run |-> NoRun, recent |-> <<>>]
    /\ known = {}
    /\ candidateFile = [c \in Candidates |-> NoFile]
    /\ index = {}
    /\ leg = [l \in Legs |-> "idle"]
    /\ held = [l \in Legs |-> NoFile]
    /\ listed = [l \in Legs |-> {}]
    /\ upsert = [d \in Doctors |-> [p \in Problems |-> "idle"]]
    /\ knownRead = [d \in Doctors |-> [p \in Problems |-> {}]]
    /\ decided = [c \in Candidates |-> "unreviewed"]
    /\ found = [p \in Problems |-> 0]

=============================================================================
