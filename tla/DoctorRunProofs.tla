---------------------------- MODULE DoctorRunProofs ----------------------------
(***************************************************************************)
(* What TLAPS proves of DoctorRun, for any sets of commands, problems,     *)
(* candidates and signals and any limits of the lists.                     *)
(***************************************************************************)
EXTENDS DoctorRun, FiniteSetTheorems, SequenceTheorems, TLAPS

\* A candidate file, and what a leg is going to write into one, is of the right candidate.
OwnCandidate ==
    /\ \A c \in Candidates : candidateFile[c] # NoFile => candidateFile[c].id = c
    /\ \A l \in Legs :
         \/ leg[l] \in {"file", "readIndex", "index"}
         \/ leg[l] = "read" /\ l \in Upserts
         => held[l] \in CandidateRecord /\ held[l].id = l[2]

TypeInv == TypeOK /\ OwnCandidate

LEMMA LegParts ==
  ASSUME NEW l \in Legs
  PROVE  /\ l[1] \in Commands
         /\ l[2] \in Candidates
         /\ l \in Upserts => l[1] \in Doctors /\ l[3] \in Signals
         /\ l \in Updates => l[1] \in Reviews /\ l[3] = NoSignal
         /\ l \in Upserts <=> l \notin Updates
BY DoctorAssumption DEF Legs, Upserts, Updates, Commands

LEMMA RecentSequence ==
  ASSUME NEW d \in Doctors, NEW recent \in Seq(Doctors)
  PROVE  /\ Recent(d, recent) \in Seq(Doctors)
         /\ \A i \in 1 .. Len(Recent(d, recent)) :
              Recent(d, recent)[i] = d \/ \E j \in 1 .. Len(recent) : Recent(d, recent)[i] = recent[j]
<1> DEFINE all == <<d>> \o recent
           n == IF Len(recent) < MaxRecent THEN Len(recent) + 1 ELSE MaxRecent
<1>1. /\ <<d>> \in Seq(Doctors) /\ Len(<<d>>) = 1 /\ <<d>>[1] = d
      /\ Len(recent) \in Nat
  OBVIOUS
<1>2. /\ Len(all) = 1 + Len(recent)
      /\ \A i \in 1 .. 1 + Len(recent) : all[i] = IF i <= 1 THEN <<d>>[i] ELSE recent[i - 1]
  BY <1>1, ConcatProperties
<1>3. n \in Int /\ n <= 1 + Len(recent) /\ n >= 1
  BY <1>1, DoctorAssumption
<1>4. ASSUME NEW i \in 1 .. n
      PROVE  all[i] = d \/ \E j \in 1 .. Len(recent) : all[i] = recent[j]
  <2>1. CASE i <= 1
    BY <1>1, <1>2, <1>3, <2>1
  <2>2. CASE i > 1
    <3>1. i - 1 \in 1 .. Len(recent) /\ all[i] = recent[i - 1]
      BY <1>1, <1>2, <1>3, <2>2
    <3> QED
      BY <3>1
  <2> QED
    BY <1>3, <2>1, <2>2
<1>5. \A i \in 1 .. n : all[i] \in Doctors
  BY <1>4, <1>1, ElementOfSeq
<1> HIDE DEF all, n
<1>6. /\ SubSeq(all, 1, n) \in Seq(Doctors)
      /\ Len(SubSeq(all, 1, n)) = n
      /\ \A i \in 1 .. n : SubSeq(all, 1, n)[i] = all[i]
  BY <1>3, <1>5, SubSeqProperties
<1>7. Recent(d, recent) = SubSeq(all, 1, n)
  BY DEF Recent, all, n
<1> QED
  BY <1>4, <1>6, <1>7

LEMMA ObservedRecords ==
  ASSUME NEW list \in SUBSET KnownRecord, NEW p \in Problems
  PROVE  /\ Occurrences(list, p) \in Nat
         /\ Observed(list, p) \subseteq KnownRecord
         /\ Occurrences(list, p) # 0 => \E r \in list : r.problem = p /\ r.count = Occurrences(list, p)
<1> DEFINE first == CHOOSE r \in list : r.problem = p
<1>1. CASE \E r \in list : r.problem = p
  <2>1. first \in list /\ first.problem = p
    BY <1>1
  <2>2. Occurrences(list, p) = first.count
    BY <1>1 DEF Occurrences
  <2>3. first.count \in Nat \ {0}
    BY <2>1 DEF KnownRecord
  <2> HIDE DEF first
  <2>4. [problem |-> p, count |-> Occurrences(list, p) + 1] \in KnownRecord
    BY <2>2, <2>3 DEF KnownRecord
  <2> QED
    BY <2>1, <2>2, <2>3, <2>4 DEF Observed
<1>2. CASE ~ \E r \in list : r.problem = p
  <2>1. Occurrences(list, p) = 0
    BY <1>2 DEF Occurrences
  <2>2. [problem |-> p, count |-> Occurrences(list, p) + 1] \in KnownRecord
    BY <2>1 DEF KnownRecord
  <2> QED
    BY <2>1, <2>2 DEF Observed
<1> QED
  BY <1>1, <1>2

LEMMA InitTypeInv == Init => TypeInv
BY DEF Init, StoreInit, TypeInv, TypeOK, OwnCandidate, LatestPointer, NoPointer, ReviewStatus,
   LegStages, Phases

LEMMA BeginUpsertsType ==
  ASSUME TypeInv, NEW d \in Doctors,
         NEW facts \in SUBSET {l \in Upserts : l[1] = d}, BeginUpserts(facts),
         candidateFile' = candidateFile
  PROVE  /\ leg' \in [Legs -> LegStages]
         /\ held' \in [Legs -> CandidateRecord \cup {NoFile}]
         /\ OwnCandidate'
<1>1. ASSUME NEW l \in facts
      PROVE  Detected(l[2], l[3]) \in CandidateRecord /\ Detected(l[2], l[3]).id = l[2]
  <2>1. l \in Upserts
    OBVIOUS
  <2>2. l[2] \in Candidates /\ l[3] \in Signals
    BY <2>1 DEF Upserts
  <2> QED
    BY <2>2 DEF Detected, CandidateRecord, ReviewStatus
<1>2. facts \subseteq Legs
  BY DEF Legs
<1> QED
  BY <1>1, <1>2 DEF TypeInv, TypeOK, OwnCandidate, BeginUpserts, LegStages

\* Upserts of findings, and reading and writing the pointer, keep the candidates as they are.
LEMMA TypeStep == TypeInv /\ [Next]_vars => TypeInv'
<1> SUFFICES ASSUME TypeInv, [Next]_vars
             PROVE  TypeInv'
  OBVIOUS
<1> USE DEF TypeInv, TypeOK
<1>1. ASSUME NEW d \in Doctors, ImportCandidates(d)
      PROVE  TypeInv'
  BY <1>1, BeginUpsertsType DEF ImportCandidates, Begin, Goto, Phases, fileVars, knownVars
<1>2. ASSUME NEW d \in Doctors, StaleWorkflows(d)
      PROVE  TypeInv'
  BY <1>2, BeginUpsertsType DEF StaleWorkflows, Goto, Phases, fileVars, knownVars
<1>3. ASSUME NEW d \in Doctors, Diagnose(d)
      PROVE  TypeInv'
  <2>1. /\ findings' \in [Doctors -> SUBSET Problems]
        /\ matched' \in [Doctors -> SUBSET Problems]
        /\ upsert' \in [Doctors -> [Problems -> {"idle", "read", "write"}]]
        /\ pc' \in [Commands -> Phases]
    <3>1. PICK seen \in SUBSET Problems, ids \in SUBSET Problems :
            /\ findings' = [findings EXCEPT ![d] = seen]
            /\ matched' = [matched EXCEPT ![d] = ids]
            /\ upsert' = [upsert EXCEPT ![d] =
                            [p \in Problems |-> IF p \in seen THEN "read" ELSE "idle"]]
      BY <1>3 DEF Diagnose
    <3>2. [p \in Problems |-> IF p \in seen THEN "read" ELSE "idle"]
            \in [Problems -> {"idle", "read", "write"}]
      OBVIOUS
    <3> QED
      BY <1>3, <3>1, <3>2 DEF Diagnose, Goto, Phases
  <2>2. TypeOK'
    BY <1>3, <2>1 DEF Diagnose, fileVars, candidateVars
  <2>3. OwnCandidate'
    BY <1>3 DEF Diagnose, OwnCandidate, fileVars, candidateVars
  <2> QED
    BY <2>2, <2>3
<1>4. ASSUME NEW d \in Doctors, NEW p \in Problems, ReadKnown(d, p), UNCHANGED runVars
      PROVE  TypeInv'
  BY <1>4 DEF ReadKnown, OwnCandidate, fileVars, candidateVars, runVars
<1>5. ASSUME NEW d \in Doctors, NEW p \in Problems, WriteKnown(d, p), UNCHANGED runVars
      PROVE  TypeInv'
  <2>1. known' \subseteq KnownRecord
    BY <1>5, ObservedRecords DEF WriteKnown, Within
  <2> QED
    BY <1>5, <2>1 DEF WriteKnown, OwnCandidate, candidateVars, runVars
<1>6. ASSUME NEW d \in Doctors, WriteRun(d)
      PROVE  TypeInv'
  BY <1>6 DEF WriteRun, Goto, Phases, OwnCandidate, candidateVars, knownVars
<1>7. ASSUME NEW d \in Doctors, ReadPointer(d)
      PROVE  TypeInv'
  BY <1>7 DEF ReadPointer, Goto, Phases, OwnCandidate, fileVars, candidateVars, knownVars
<1>8. ASSUME NEW d \in Doctors, WritePointer(d)
      PROVE  TypeInv'
  <2>1. pointer' \in LatestPointer /\ NoPointer \in LatestPointer
    BY <1>8, RecentSequence DEF WritePointer, LatestPointer, NoPointer
  <2> QED
    BY <1>8, <2>1 DEF WritePointer, Goto, Phases, OwnCandidate, candidateVars, knownVars
<1>9. ASSUME NEW r \in Reviews, BeginReview(r)
      PROVE  TypeInv'
  <2>1. PICK l \in Updates : l[1] = r /\ leg' = [leg EXCEPT ![l] = "read"]
    BY <1>9 DEF BeginReview
  <2>2. l \in Legs /\ l \notin Upserts
    BY <2>1, LegParts DEF Legs
  <2>3. OwnCandidate'
    BY <1>9, <2>1, <2>2 DEF BeginReview, OwnCandidate, fileVars
  <2> QED
    BY <1>9, <2>1, <2>2, <2>3 DEF BeginReview, Begin, Goto, Phases, LegStages, fileVars, knownVars
<1>10. ASSUME NEW r \in Reviews, EndReview(r)
       PROVE  TypeInv'
  BY <1>10 DEF EndReview, Goto, Phases, OwnCandidate, fileVars, candidateVars, knownVars
<1>11. ASSUME NEW l \in Legs, ReadForUpsert(l), UNCHANGED runVars
       PROVE  TypeInv'
  <2>1. /\ l[2] \in Candidates
        /\ held[l] \in CandidateRecord /\ held[l].id = l[2]
        /\ candidateFile[l[2]] # NoFile =>
             candidateFile[l[2]] \in CandidateRecord /\ candidateFile[l[2]].id = l[2]
    BY <1>11, LegParts DEF ReadForUpsert, OwnCandidate
  <2>2. \A old, new \in CandidateRecord :
          Merged(old, new) \in CandidateRecord /\ Merged(old, new).id = old.id
    BY DEF Merged, CandidateRecord
  <2>3. held'[l] = IF candidateFile[l[2]] = NoFile THEN held[l]
                   ELSE Merged(candidateFile[l[2]], held[l])
    BY <1>11 DEF ReadForUpsert
  <2>4. held'[l] \in CandidateRecord /\ held'[l].id = l[2]
    BY <2>1, <2>2, <2>3
  <2> QED
    BY <1>11, <2>4 DEF ReadForUpsert, OwnCandidate, LegStages, fileVars, knownVars, runVars
<1>12. ASSUME NEW l \in Legs, ReadForUpdate(l), UNCHANGED runVars
       PROVE  TypeInv'
  <2>1. CASE candidateFile[l[2]] = NoFile
    <3>1. leg' \in [Legs -> LegStages] /\ held' = [held EXCEPT ![l] = NoFile]
      BY <1>12, <2>1 DEF ReadForUpdate, LegStages
    <3>2. leg'[l] = "idle" /\ \A k \in Legs \ {l} : leg'[k] = leg[k] /\ held'[k] = held[k]
      BY <1>12, <2>1, <3>1 DEF ReadForUpdate
    <3>3. candidateFile' = candidateFile
      BY <1>12 DEF ReadForUpdate, fileVars
    <3>4. OwnCandidate'
      BY <3>2, <3>3 DEF OwnCandidate
    <3> QED
      BY <1>12, <3>1, <3>4 DEF ReadForUpdate, fileVars, knownVars, runVars
  <2>2. CASE candidateFile[l[2]] # NoFile
    <3>1. candidateFile[l[2]] \in CandidateRecord /\ candidateFile[l[2]].id = l[2]
      BY <2>2, LegParts DEF OwnCandidate
    <3>2. PICK status \in ReviewStatus :
            held' = [held EXCEPT ![l] = [candidateFile[l[2]] EXCEPT !.status = status]]
      BY <1>12, <2>2 DEF ReadForUpdate
    <3>3. \A old \in CandidateRecord :
            /\ [old EXCEPT !.status = status] \in CandidateRecord
            /\ [old EXCEPT !.status = status].id = old.id
      BY DEF CandidateRecord
    <3>4. held'[l] \in CandidateRecord /\ held'[l].id = l[2]
      BY <3>1, <3>2, <3>3
    <3> QED
      BY <1>12, <2>2, <3>4 DEF ReadForUpdate, OwnCandidate, LegStages, fileVars, knownVars, runVars
  <2> QED
    BY <2>1, <2>2
<1>13. ASSUME NEW l \in Legs, WriteCandidate(l), UNCHANGED runVars
       PROVE  TypeInv'
  <2>1. l[2] \in Candidates /\ held[l] \in CandidateRecord /\ held[l].id = l[2]
    BY <1>13, LegParts DEF WriteCandidate, OwnCandidate
  <2>2. held[l].status \in ReviewStatus
    BY <2>1 DEF CandidateRecord
  <2> QED
    BY <1>13, <2>1, <2>2 DEF WriteCandidate, OwnCandidate, LegStages, knownVars, runVars
<1>14. ASSUME NEW l \in Legs, ReadIndex(l), UNCHANGED runVars
       PROVE  TypeInv'
  BY <1>14 DEF ReadIndex, OwnCandidate, LegStages, fileVars, knownVars, runVars
<1>15. ASSUME NEW l \in Legs, WriteIndex(l), UNCHANGED runVars
       PROVE  TypeInv'
  <2>1. held[l] \in CandidateRecord
    BY <1>15 DEF WriteIndex, OwnCandidate
  <2>2. index' \subseteq CandidateRecord
    BY <1>15, <2>1 DEF WriteIndex, Within, Replaced
  <2> QED
    BY <1>15, <2>2 DEF WriteIndex, OwnCandidate, LegStages, knownVars, runVars
<1>16. ASSUME NEW l \in Legs, LegFails(l)
       PROVE  TypeInv'
  BY <1>16, LegParts DEF LegFails, Goto, Phases, OwnCandidate, LegStages, fileVars, knownVars
<1>17. ASSUME NEW d \in Doctors, NEW p \in Problems, FindingFails(d, p)
       PROVE  TypeInv'
  BY <1>17 DEF FindingFails, Goto, Phases, OwnCandidate, fileVars, candidateVars
<1>18. ASSUME NEW c \in Commands, Crash(c)
       PROVE  TypeInv'
  <2>1. NoPointer \in LatestPointer
    BY DEF NoPointer, LatestPointer
  <2> QED
    BY <1>18, <2>1 DEF Crash, Goto, Phases, OwnCandidate, LegStages, fileVars
<1>19. CASE UNCHANGED vars
  BY <1>19 DEF vars, fileVars, candidateVars, knownVars, runVars, OwnCandidate
<1> QED
  BY <1>1, <1>2, <1>3, <1>4, <1>5, <1>6, <1>7, <1>8, <1>9, <1>10, <1>11, <1>12, <1>13, <1>14,
     <1>15, <1>16, <1>17, <1>18, <1>19
     DEF Next, RunDoctor, LegacyReview, WriteLegacyCandidate, UpsertFinding

\* The files of the doctor and the memory of the commands keep their shape, for any
\* number of doctors, reviews, problems and candidates.
THEOREM DoctorTyped == Spec => []TypeOK
<1>1. TypeInv => TypeOK
  BY DEF TypeInv
<1> QED
  BY <1>1, InitTypeInv, TypeStep, PTL DEF Spec


-----------------------------------------------------------------------------
(* Candidate files and their index. *)

\* The index, and every copy of it a leg has read, only name candidates with a file.
Backed ==
    /\ ListedIsFound
    /\ \A l \in Legs : \A r \in listed[l] : candidateFile[r.id] # NoFile
    /\ \A l \in Legs : leg[l] \in {"readIndex", "index"} => candidateFile[l[2]] # NoFile

\* What a step does to the candidates if it is no write and no read of the index.
OffIndex ==
    /\ UNCHANGED <<index, candidateFile>>
    /\ \A l \in Legs : /\ listed'[l] \in {listed[l], {}}
                       /\ leg'[l] = leg[l] \/ leg'[l] \in {"idle", "read", "file"}

LEMMA IndexSteps ==
  ASSUME TypeInv, [Next]_vars
  PROVE  OffIndex \/ \E l \in Legs : WriteLegacyCandidate(l)
<1> USE DEF TypeInv, TypeOK, OffIndex, fileVars, candidateVars, knownVars
<1>1. ASSUME NEW d \in Doctors, ImportCandidates(d) \/ StaleWorkflows(d)
      PROVE  OffIndex
  BY <1>1 DEF ImportCandidates, StaleWorkflows, BeginUpserts
<1>2. ASSUME NEW d \in Doctors,
             Diagnose(d) \/ WriteRun(d) \/ ReadPointer(d) \/ WritePointer(d)
      PROVE  OffIndex
  BY <1>2 DEF Diagnose, WriteRun, ReadPointer, WritePointer
<1>3. ASSUME NEW d \in Doctors, NEW p \in Problems, UpsertFinding(d, p) \/ FindingFails(d, p)
      PROVE  OffIndex
  BY <1>3 DEF UpsertFinding, ReadKnown, WriteKnown, FindingFails
<1>4. ASSUME NEW r \in Reviews, LegacyReview(r)
      PROVE  OffIndex
  BY <1>4 DEF LegacyReview, BeginReview, EndReview
<1>5. ASSUME NEW l \in Legs, ReadForUpsert(l) \/ ReadForUpdate(l) \/ LegFails(l)
      PROVE  OffIndex
  BY <1>5 DEF ReadForUpsert, ReadForUpdate, LegFails
<1>6. ASSUME NEW c \in Commands, Crash(c)
      PROVE  OffIndex
  BY <1>6 DEF Crash
<1>7. CASE UNCHANGED vars
  BY <1>7 DEF vars
<1> QED
  BY <1>1, <1>2, <1>3, <1>4, <1>5, <1>6, <1>7 DEF Next, RunDoctor

LEMMA BackedStep == TypeInv /\ Backed /\ [Next]_vars => Backed'
<1> SUFFICES ASSUME TypeInv, Backed, [Next]_vars
             PROVE  Backed'
  OBVIOUS
<1> USE DEF TypeInv, TypeOK
<1>1. ASSUME NEW l \in Legs, WriteCandidate(l)
      PROVE  Backed'
  <2>1. l[2] \in Candidates /\ held[l] # NoFile
    BY <1>1, LegParts, DoctorAssumption DEF WriteCandidate, OwnCandidate
  <2>2. \A c \in Candidates : candidateFile[c] # NoFile \/ c = l[2] => candidateFile'[c] # NoFile
    BY <1>1, <2>1 DEF WriteCandidate
  <2>3. \A r \in CandidateRecord : r.id \in Candidates
    BY DEF CandidateRecord
  <2> QED
    BY <1>1, <2>1, <2>2, <2>3, LegParts DEF WriteCandidate, Backed, ListedIsFound
<1>2. ASSUME NEW l \in Legs, ReadIndex(l)
      PROVE  Backed'
  BY <1>2 DEF ReadIndex, Backed, ListedIsFound, fileVars
<1>3. ASSUME NEW l \in Legs, WriteIndex(l)
      PROVE  Backed'
  <2>1. held[l].id = l[2] /\ candidateFile[l[2]] # NoFile
    BY <1>3 DEF WriteIndex, OwnCandidate, Backed
  <2>2. \A r \in index' : candidateFile[r.id] # NoFile
    BY <1>3, <2>1 DEF WriteIndex, Within, Replaced, Backed
  <2> QED
    BY <1>3, <2>2 DEF WriteIndex, Backed, ListedIsFound
<1>4. CASE OffIndex
  BY <1>4 DEF OffIndex, Backed, ListedIsFound
<1> QED
  BY <1>1, <1>2, <1>3, <1>4, IndexSteps DEF WriteLegacyCandidate

\* `board legacy list` shows no candidate that explain and review do not find: the index
\* only names candidates with a file, however the index updates of any number of doctors
\* and reviews overwrite each other, and wherever they fail or are killed.
THEOREM ListedAlwaysFound == Spec => []ListedIsFound
<1>1. Init => Backed
  BY DEF Init, StoreInit, Backed, ListedIsFound
<1>2. Backed => ListedIsFound
  BY DEF Backed
<1> QED
  BY <1>1, <1>2, InitTypeInv, TypeStep, BackedStep, PTL DEF Spec

-----------------------------------------------------------------------------
(* The runs and the pointer to the latest. *)

OnlyRecorded(latest) ==
    /\ latest.run # NoRun => latest.run \in runFiles
    /\ \A i \in 1 .. Len(latest.recent) : latest.recent[i] \in runFiles

\* Every copy of the pointer names runs with a file, as does who is going to write it.
Recorded ==
    /\ OnlyRecorded(pointer)
    /\ \A d \in Doctors : OnlyRecorded(pointerRead[d])
    /\ \A d \in Doctors : pc[d] \in {"readPointer", "writePointer"} => d \in runFiles

OffPointer ==
    /\ UNCHANGED <<runFiles, pointer>>
    /\ \A d \in Doctors :
         /\ pointerRead'[d] \in {pointerRead[d], NoPointer}
         /\ pc'[d] = pc[d] \/ pc'[d] \notin {"readPointer", "writePointer"}

LEMMA PointerSteps ==
  ASSUME TypeInv, [Next]_vars
  PROVE  OffPointer \/ \E d \in Doctors : WriteRun(d) \/ ReadPointer(d) \/ WritePointer(d)
<1> USE DEF TypeInv, TypeOK, OffPointer, fileVars, candidateVars, knownVars, runVars, Goto, Begin,
        Commands
<1>1. ASSUME NEW d \in Doctors, ImportCandidates(d) \/ StaleWorkflows(d) \/ Diagnose(d)
      PROVE  OffPointer
  BY <1>1 DEF ImportCandidates, StaleWorkflows, Diagnose
<1>2. ASSUME NEW d \in Doctors, NEW p \in Problems,
             (UpsertFinding(d, p) /\ UNCHANGED runVars) \/ FindingFails(d, p)
      PROVE  OffPointer
  BY <1>2 DEF UpsertFinding, ReadKnown, WriteKnown, FindingFails
<1>3. ASSUME NEW r \in Reviews, LegacyReview(r)
      PROVE  OffPointer
  BY <1>3 DEF LegacyReview, BeginReview, EndReview
<1>4. ASSUME NEW l \in Legs,
             \/ (ReadForUpsert(l) \/ ReadForUpdate(l) \/ WriteLegacyCandidate(l)) /\ UNCHANGED runVars
             \/ LegFails(l)
      PROVE  OffPointer
  BY <1>4, LegParts DEF ReadForUpsert, ReadForUpdate, WriteLegacyCandidate, WriteCandidate, ReadIndex,
     WriteIndex, LegFails
<1>5. ASSUME NEW c \in Commands, Crash(c)
      PROVE  OffPointer
  BY <1>5 DEF Crash
<1>6. CASE UNCHANGED vars
  BY <1>6 DEF vars
<1> QED
  BY <1>1, <1>2, <1>3, <1>4, <1>5, <1>6 DEF Next, RunDoctor

LEMMA RecordedStep == TypeInv /\ Recorded /\ [Next]_vars => Recorded'
<1> SUFFICES ASSUME TypeInv, Recorded, [Next]_vars
             PROVE  Recorded'
  OBVIOUS
<1> USE DEF TypeInv, TypeOK
<1>1. ASSUME NEW d \in Doctors, WriteRun(d)
      PROVE  Recorded'
  BY <1>1 DEF WriteRun, Recorded, OnlyRecorded, Goto, Commands
<1>2. ASSUME NEW d \in Doctors, ReadPointer(d)
      PROVE  Recorded'
  BY <1>2 DEF ReadPointer, Recorded, OnlyRecorded, Goto, Commands, fileVars
<1>3. ASSUME NEW d \in Doctors, WritePointer(d)
      PROVE  Recorded'
  <2>1. d \in runFiles /\ OnlyRecorded(pointerRead[d]) /\ pointerRead[d].recent \in Seq(Doctors)
    BY <1>3 DEF WritePointer, Recorded, LatestPointer
  <2> DEFINE read  == pointerRead[d].recent
             moved == Recent(d, read)
  <2>2. OnlyRecorded(pointer)'
    <3>1. pointer'.run = d /\ pointer'.recent = moved /\ runFiles' = runFiles
      BY <1>3 DEF WritePointer
    <3>2. \A j \in 1 .. Len(read) : read[j] \in runFiles
      BY <2>1 DEF OnlyRecorded
    <3>3. \A i \in 1 .. Len(moved) : moved[i] = d \/ \E j \in 1 .. Len(read) : moved[i] = read[j]
      BY <2>1, RecentSequence
    <3> HIDE DEF read, moved
    <3>4. \A i \in 1 .. Len(moved) : moved[i] \in runFiles
      BY <2>1, <3>2, <3>3
    <3> QED
      BY <2>1, <3>1, <3>4 DEF OnlyRecorded
  <2>3. OnlyRecorded(NoPointer)
    BY DEF OnlyRecorded, NoPointer
  <2> QED
    BY <1>3, <2>2, <2>3 DEF WritePointer, Recorded, OnlyRecorded, Goto, Commands
<1>4. CASE OffPointer
  <2>1. OnlyRecorded(NoPointer)
    BY DEF OnlyRecorded, NoPointer
  <2> QED
    BY <1>4, <2>1 DEF OffPointer, Recorded, OnlyRecorded
<1> QED
  BY <1>1, <1>2, <1>3, <1>4, PointerSteps

\* latest.json and its list of recent runs only name runs whose file is there, for any
\* number of doctors at once and any limit of the list.
THEOREM RecentAlwaysRecorded == Spec => []RecentIsRecorded
<1>1. Init => Recorded
  BY DEF Init, StoreInit, Recorded, OnlyRecorded, NoPointer, Commands
<1>2. Recorded => RecentIsRecorded
  BY DEF Recorded, OnlyRecorded, RecentIsRecorded
<1> QED
  BY <1>1, <1>2, InitTypeInv, TypeStep, RecordedStep, PTL DEF Spec

-----------------------------------------------------------------------------
(* Known problems. *)

\* No list, neither the file nor what an upsert has read of it, counts too many.
Earned ==
    /\ CountsAreEarned
    /\ \A d \in Doctors, p \in Problems : \A r \in knownRead[d][p] : r.count <= found[r.problem]

OffKnown ==
    /\ UNCHANGED <<known, found>>
    /\ \A d \in Doctors, p \in Problems : knownRead'[d][p] \in {knownRead[d][p], {}}

LEMMA KnownSteps ==
  ASSUME TypeInv, [Next]_vars
  PROVE  OffKnown \/ \E d \in Doctors, p \in Problems : UpsertFinding(d, p)
<1> USE DEF TypeInv, TypeOK, OffKnown, fileVars, candidateVars, knownVars
<1>1. ASSUME NEW d \in Doctors,
             \/ ImportCandidates(d) \/ StaleWorkflows(d) \/ Diagnose(d)
             \/ WriteRun(d) \/ ReadPointer(d) \/ WritePointer(d)
      PROVE  OffKnown
  BY <1>1 DEF ImportCandidates, StaleWorkflows, Diagnose, WriteRun, ReadPointer, WritePointer
<1>2. ASSUME NEW r \in Reviews, LegacyReview(r)
      PROVE  OffKnown
  BY <1>2 DEF LegacyReview, BeginReview, EndReview
<1>3. ASSUME NEW l \in Legs,
             ReadForUpsert(l) \/ ReadForUpdate(l) \/ WriteLegacyCandidate(l) \/ LegFails(l)
      PROVE  OffKnown
  BY <1>3 DEF ReadForUpsert, ReadForUpdate, WriteLegacyCandidate, WriteCandidate, ReadIndex,
     WriteIndex, LegFails
<1>4. ASSUME NEW d \in Doctors, NEW p \in Problems, FindingFails(d, p)
      PROVE  OffKnown
  BY <1>4 DEF FindingFails
<1>5. ASSUME NEW c \in Commands, Crash(c)
      PROVE  OffKnown
  BY <1>5 DEF Crash
<1>6. CASE UNCHANGED vars
  BY <1>6 DEF vars
<1> QED
  BY <1>1, <1>2, <1>3, <1>4, <1>5, <1>6 DEF Next, RunDoctor

LEMMA EarnedStep == TypeInv /\ Earned /\ [Next]_vars => Earned'
<1> SUFFICES ASSUME TypeInv, Earned, [Next]_vars
             PROVE  Earned'
  OBVIOUS
<1> USE DEF TypeInv, TypeOK
<1>1. ASSUME NEW d \in Doctors, NEW p \in Problems, ReadKnown(d, p)
      PROVE  Earned'
  BY <1>1 DEF ReadKnown, Earned, CountsAreEarned, fileVars
<1>2. ASSUME NEW d \in Doctors, NEW p \in Problems, WriteKnown(d, p)
      PROVE  Earned'
  <2> DEFINE list == knownRead[d][p]
  <2>1. /\ list \in SUBSET KnownRecord
        /\ \A r \in list : r.count <= found[r.problem]
    BY DEF Earned
  <2>2. Occurrences(list, p) \in Nat /\ Occurrences(list, p) <= found[p]
    <3>1. found[p] \in Nat
      OBVIOUS
    <3>2. /\ Occurrences(list, p) \in Nat
          /\ Occurrences(list, p) # 0
             => \E r \in list : r.problem = p /\ r.count = Occurrences(list, p)
      BY <2>1, ObservedRecords
    <3> HIDE DEF list
    <3>3. CASE Occurrences(list, p) = 0
      BY <3>1, <3>3
    <3>4. CASE Occurrences(list, p) # 0
      <4>1. PICK r \in list : r.problem = p /\ r.count = Occurrences(list, p)
        BY <3>2, <3>4
      <4>2. r.count <= found[r.problem]
        BY <2>1
      <4> QED
        BY <3>2, <4>1, <4>2
    <3> QED
      BY <3>3, <3>4
  <2>3. found' = [found EXCEPT ![p] = @ + 1] /\ known' \subseteq Observed(list, p)
    BY <1>2 DEF WriteKnown, Within
  <2>4. \A r \in KnownRecord : r.count \in Nat /\ r.problem \in Problems
    BY DEF KnownRecord
  <2>5. \A q \in Problems : found[q] \in Nat /\ found'[q] \in Nat /\ found[q] <= found'[q]
    BY <2>3
  <2>6. found'[p] = found[p] + 1
    BY <2>3
  <2> HIDE DEF list
  <2>7. ASSUME NEW r \in known'
        PROVE  r.count <= found'[r.problem]
    <3>1. CASE r \in list
      BY <2>1, <2>4, <2>5, <3>1
    <3>2. CASE r = [problem |-> p, count |-> Occurrences(list, p) + 1]
      BY <2>2, <2>5, <2>6, <3>2
    <3> QED
      BY <2>3, <3>1, <3>2 DEF Observed
  <2>8. ASSUME NEW e \in Doctors, NEW q \in Problems, NEW r \in knownRead'[e][q]
        PROVE  r.count <= found'[r.problem]
    <3>1. r \in knownRead[e][q] /\ r \in KnownRecord
      BY <1>2, <2>8 DEF WriteKnown
    <3> QED
      BY <2>4, <2>5, <3>1 DEF Earned
  <2> QED
    BY <2>7, <2>8 DEF Earned, CountsAreEarned
<1>3. CASE OffKnown
  BY <1>3 DEF OffKnown, Earned, CountsAreEarned
<1> QED
  BY <1>1, <1>2, <1>3, KnownSteps DEF UpsertFinding

\* However the upserts of any number of doctors overwrite each other, and whatever the
\* limit of the list drops, no record counts more occurrences than were found.
THEOREM CountsAlwaysEarned == Spec => []CountsAreEarned
<1>1. Init => Earned
  BY DEF Init, StoreInit, Earned, CountsAreEarned
<1>2. Earned => CountsAreEarned
  BY DEF Earned
<1> QED
  BY <1>1, <1>2, InitTypeInv, TypeStep, EarnedStep, PTL DEF Spec

-----------------------------------------------------------------------------
(* Commands issued in turn *)

Resting(c) == pc[c] \in {"idle", "done", "failed", "crashed"} /\ Settled(c)

\* A command that has not begun has nothing under way, and in turn only one has.
OneRuns ==
    /\ \A c \in Commands : pc[c] = "idle" => Settled(c)
    /\ inTurn => \A c, d \in Commands : c # d => Resting(c) \/ Resting(d)

\* The command c takes the step: it was running, or is at rest after it, or begins when it may.
TurnStep(c) ==
    /\ inTurn' = inTurn
    /\ \A d \in Commands \ {c} : /\ pc'[d] = pc[d]
                                 /\ \A l \in LegsOf(d) : leg'[l] = leg[l]
                                 /\ d \in Doctors => upsert'[d] = upsert[d]
    /\ pc'[c] = pc[c] \/ pc'[c] # "idle"
    /\ \/ ~Resting(c)
       \/ Resting(c)'
       \/ pc'[c] # "idle" /\ (inTurn => \A d \in Commands \ {c} : Resting(d))

LEMMA BegunInTurn ==
  ASSUME OneRuns, NEW c \in Commands, NEW label, Begin(c, label)
  PROVE  inTurn => \A d \in Commands \ {c} : Resting(d)
BY DEF OneRuns, Begin, Finished, Resting

\* A leg that is under way is of a command that runs.
LEMMA RunningLeg ==
  ASSUME NEW l \in Legs, leg[l] # "idle"
  PROVE  l[1] \in Commands /\ ~Resting(l[1])
BY LegParts DEF Resting, Settled, LegsDone, LegsOf

LEMMA RunningUpsert ==
  ASSUME NEW d \in Doctors, NEW p \in Problems, upsert[d][p] # "idle"
  PROVE  ~Resting(d)
BY DEF Resting, Settled, UpsertsDone

LEMMA EveryTurnStep ==
  ASSUME TypeInv, OneRuns, Next
  PROVE  \E c \in Commands : TurnStep(c)
<1> USE DEF TypeInv, TypeOK, Goto, fileVars, candidateVars, knownVars, runVars, LegsOf
<1>0. Doctors \subseteq Commands /\ Reviews \subseteq Commands /\ Doctors \cap Reviews = {}
  BY DoctorAssumption DEF Commands
<1>1. ASSUME NEW d \in Doctors, ImportCandidates(d)
      PROVE  TurnStep(d)
  <2>1. inTurn => \A c \in Commands \ {d} : Resting(c)
    BY <1>0, <1>1, BegunInTurn DEF ImportCandidates
  <2> QED
    BY <1>0, <1>1, <2>1 DEF ImportCandidates, Begin, BeginUpserts, TurnStep
<1>2. ASSUME NEW d \in Doctors,
             StaleWorkflows(d) \/ Diagnose(d) \/ WriteRun(d) \/ ReadPointer(d) \/ WritePointer(d)
      PROVE  TurnStep(d)
  <2>1. ~Resting(d)
    BY <1>2 DEF StaleWorkflows, Diagnose, WriteRun, ReadPointer, WritePointer, Resting
  <2>2. /\ inTurn' = inTurn /\ \A c \in Commands \ {d} : pc'[c] = pc[c]
        /\ pc'[d] # "idle"
    BY <1>0, <1>2 DEF StaleWorkflows, Diagnose, WriteRun, ReadPointer, WritePointer
  <2>3. /\ \A l \in Legs : l[1] # d => leg'[l] = leg[l]
        /\ \A c \in Doctors \ {d} : upsert'[c] = upsert[c]
    BY <1>2 DEF StaleWorkflows, Diagnose, WriteRun, ReadPointer, WritePointer, BeginUpserts
  <2> QED
    BY <2>1, <2>2, <2>3 DEF TurnStep
<1>3. ASSUME NEW d \in Doctors, NEW p \in Problems,
             (UpsertFinding(d, p) /\ UNCHANGED runVars) \/ FindingFails(d, p)
      PROVE  TurnStep(d)
  <2>1. ~Resting(d)
    BY <1>3, RunningUpsert DEF UpsertFinding, ReadKnown, WriteKnown, FindingFails
  <2>2. /\ leg' = leg /\ inTurn' = inTurn /\ \A c \in Doctors \ {d} : upsert'[c] = upsert[c]
    BY <1>3 DEF UpsertFinding, ReadKnown, WriteKnown, FindingFails
  <2>3. (pc'[d] = pc[d] \/ pc'[d] # "idle") /\ \A c \in Commands \ {d} : pc'[c] = pc[c]
    BY <1>0, <1>3 DEF FindingFails
  <2> QED
    BY <2>1, <2>2, <2>3 DEF TurnStep
<1>4. ASSUME NEW r \in Reviews, BeginReview(r)
      PROVE  TurnStep(r)
  <2>1. inTurn => \A c \in Commands \ {r} : Resting(c)
    BY <1>0, <1>4, BegunInTurn DEF BeginReview
  <2> QED
    BY <1>0, <1>4, <2>1 DEF BeginReview, Begin, TurnStep
<1>5. ASSUME NEW r \in Reviews, EndReview(r)
      PROVE  TurnStep(r)
  BY <1>0, <1>5 DEF EndReview, TurnStep, Resting
<1>6. ASSUME NEW l \in Legs,
             \/ (ReadForUpsert(l) \/ ReadForUpdate(l) \/ WriteLegacyCandidate(l)) /\ UNCHANGED runVars
             \/ LegFails(l)
      PROVE  l[1] \in Commands /\ TurnStep(l[1])
  <2>1. leg[l] # "idle"
    BY <1>6 DEF ReadForUpsert, ReadForUpdate, WriteLegacyCandidate, WriteCandidate, ReadIndex, WriteIndex, LegFails
  <2>2. l[1] \in Commands /\ ~Resting(l[1])
    BY <2>1, RunningLeg
  <2>3. inTurn' = inTurn /\ upsert' = upsert /\ \A k \in Legs \ {l} : leg'[k] = leg[k]
    BY <1>6 DEF ReadForUpsert, ReadForUpdate, WriteLegacyCandidate, WriteCandidate, ReadIndex, WriteIndex, LegFails
  <2>4. /\ pc'[l[1]] = pc[l[1]] \/ pc'[l[1]] # "idle"
        /\ \A c \in Commands \ {l[1]} : pc'[c] = pc[c]
    BY <1>6, <2>2 DEF LegFails
  <2> QED
    BY <2>2, <2>3, <2>4 DEF TurnStep
<1>7. ASSUME NEW c \in Commands, Crash(c)
      PROVE  TurnStep(c)
  <2>1. Resting(c)'
    BY <1>0, <1>7 DEF Crash, Resting, Settled, LegsDone, UpsertsDone
  <2> QED
    BY <1>7, <2>1 DEF Crash, TurnStep
<1> QED
  BY <1>0, <1>1, <1>2, <1>3, <1>4, <1>5, <1>6, <1>7 DEF Next, RunDoctor, LegacyReview

LEMMA OneRunsStep == TypeInv /\ OneRuns /\ [Next]_vars => OneRuns'
<1> SUFFICES ASSUME TypeInv, OneRuns, [Next]_vars
             PROVE  OneRuns'
  OBVIOUS
<1>1. CASE UNCHANGED vars
  BY <1>1 DEF OneRuns, Resting, Settled, LegsDone, UpsertsDone, vars, candidateVars, knownVars, runVars
<1>2. CASE Next
  <2>1. PICK c \in Commands : TurnStep(c)
    BY <1>2, EveryTurnStep
  <2>2. \A d \in Commands \ {c} : (Resting(d) => Resting(d)') /\ (Settled(d) => Settled(d)')
    BY <2>1 DEF TurnStep, Resting, Settled, LegsDone, UpsertsDone
  <2>3. \A d \in Commands \ {c} : pc'[d] = "idle" => Settled(d)'
    BY <2>1, <2>2 DEF TurnStep, OneRuns
  <2>4. inTurn' => \A d, e \in Commands : d # e => Resting(d)' \/ Resting(e)'
    BY <2>1, <2>2 DEF TurnStep, OneRuns
  <2>5. pc'[c] = "idle" => Settled(c)'
    <3> SUFFICES ASSUME pc'[c] = "idle" PROVE Settled(c)'
      OBVIOUS
    <3>1. Resting(c)
      BY <2>1 DEF TurnStep, OneRuns, Resting
    <3> QED
      BY <2>1, <3>1 DEF TurnStep, Resting
  <2> QED
    BY <2>3, <2>4, <2>5 DEF OneRuns
<1> QED
  BY <1>1, <1>2

LEMMA InitOneRuns == Init => OneRuns
BY DEF Init, StoreInit, OneRuns, Resting, Settled, LegsDone, LegsOf, UpsertsDone, Commands

-----------------------------------------------------------------------------
(* The decisions of the reviews *)

\* The files, and what an upsert is going to write, have the status last decided.
StatusKept ==
    /\ \A c \in Candidates :
         IF candidateFile[c] = NoFile THEN decided[c] = "unreviewed"
         ELSE candidateFile[c].status = decided[c]
    /\ \A l \in Upserts : /\ leg[l] = "read" => held[l].status = "unreviewed"
                          /\ leg[l] = "file" => held[l].status = decided[l[2]]

\* What a step does if it writes no candidate and merges none.
OffDecisions ==
    /\ UNCHANGED <<candidateFile, decided>>
    /\ \A l \in Upserts :
         \/ leg'[l] \notin {"read", "file"}
         \/ leg'[l] = leg[l] /\ held'[l] = held[l]
         \/ leg'[l] = "read" /\ held'[l].status = "unreviewed"

LEMMA DecisionSteps ==
  ASSUME TypeInv, [Next]_vars
  PROVE  OffDecisions \/ \E l \in Legs : ReadForUpsert(l) \/ WriteCandidate(l)
<1> USE DEF TypeInv, TypeOK, OffDecisions, fileVars, candidateVars, knownVars, runVars
<1>1. Upserts \subseteq Legs /\ \A l \in Updates : l \notin Upserts
  BY LegParts DEF Legs
<1>2. ASSUME NEW facts \in SUBSET Upserts, BeginUpserts(facts), UNCHANGED <<candidateFile, decided>>
      PROVE  OffDecisions
  <2>1. \A l \in facts : l \in Legs /\ leg'[l] = "read" /\ held'[l].status = "unreviewed"
    BY <1>1, <1>2 DEF BeginUpserts, Detected
  <2>2. \A l \in Upserts \ facts : leg'[l] = leg[l] /\ held'[l] = held[l]
    BY <1>1, <1>2 DEF BeginUpserts
  <2> QED
    BY <1>2, <2>1, <2>2
<1>3. ASSUME NEW d \in Doctors, ImportCandidates(d) \/ StaleWorkflows(d)
      PROVE  OffDecisions
  <2>1. UNCHANGED <<candidateFile, decided>> /\ \E facts \in SUBSET Upserts : BeginUpserts(facts)
    BY <1>3 DEF ImportCandidates, StaleWorkflows
  <2> QED
    BY <1>2, <2>1
<1>4. ASSUME NEW d \in Doctors, Diagnose(d) \/ WriteRun(d) \/ ReadPointer(d) \/ WritePointer(d)
      PROVE  OffDecisions
  BY <1>4 DEF Diagnose, WriteRun, ReadPointer, WritePointer
<1>5. ASSUME NEW d \in Doctors, NEW p \in Problems, UpsertFinding(d, p) \/ FindingFails(d, p)
      PROVE  OffDecisions
  BY <1>5 DEF UpsertFinding, ReadKnown, WriteKnown, FindingFails
<1>6. ASSUME NEW r \in Reviews, LegacyReview(r)
      PROVE  OffDecisions
  <2>1. CASE BeginReview(r)
    <3>1. PICK l \in Updates : leg' = [leg EXCEPT ![l] = "read"]
      BY <2>1 DEF BeginReview
    <3> QED
      BY <1>1, <2>1, <3>1 DEF BeginReview
  <2>2. CASE EndReview(r)
    BY <2>2 DEF EndReview
  <2> QED
    BY <1>6, <2>1, <2>2 DEF LegacyReview
<1>7. ASSUME NEW l \in Legs, ReadForUpdate(l)
      PROVE  OffDecisions
  <2>1. l \notin Upserts /\ UNCHANGED <<candidateFile, decided>>
    BY <1>1, <1>7 DEF ReadForUpdate
  <2>2. \A k \in Upserts : leg'[k] = leg[k] /\ held'[k] = held[k]
    BY <1>1, <1>7, <2>1 DEF ReadForUpdate
  <2> QED
    BY <2>1, <2>2
<1>8. ASSUME NEW l \in Legs, ReadIndex(l) \/ WriteIndex(l) \/ LegFails(l)
      PROVE  OffDecisions
  BY <1>1, <1>8 DEF ReadIndex, WriteIndex, LegFails
<1>9. ASSUME NEW c \in Commands, Crash(c)
      PROVE  OffDecisions
  BY <1>1, <1>9 DEF Crash
<1>10. CASE UNCHANGED vars
  BY <1>10 DEF vars
<1> QED
  BY <1>3, <1>4, <1>5, <1>6, <1>7, <1>8, <1>9, <1>10 DEF Next, RunDoctor, WriteLegacyCandidate

LEMMA StatusKeptStep ==
  ASSUME TypeInv, OneRuns, StatusKept, [Next]_vars, inTurn
  PROVE  StatusKept'
<1> USE DEF TypeInv, TypeOK
<1>0. /\ Upserts \subseteq Legs /\ \A l \in Legs : l[2] \in Candidates
      /\ \A l \in Legs : l \in Upserts <=> l \notin Updates
  BY LegParts DEF Legs
<1>1. CASE OffDecisions
  BY <1>1 DEF OffDecisions, StatusKept
<1>2. ASSUME NEW l \in Legs, ReadForUpsert(l)
      PROVE  StatusKept'
  <2>1. /\ l \in Upserts /\ leg[l] = "read" /\ leg' = [leg EXCEPT ![l] = "file"]
        /\ UNCHANGED <<candidateFile, decided>> /\ held[l].status = "unreviewed"
    BY <1>2 DEF ReadForUpsert, fileVars, StatusKept
  <2>2. held'[l].status = decided[l[2]]
    <3>1. CASE candidateFile[l[2]] = NoFile
      BY <1>0, <1>2, <2>1, <3>1 DEF ReadForUpsert, StatusKept
    <3>2. CASE candidateFile[l[2]] # NoFile
      <4>1. held'[l] = Merged(candidateFile[l[2]], held[l])
        BY <1>2, <3>2 DEF ReadForUpsert
      <4>2. candidateFile[l[2]] \in CandidateRecord /\ candidateFile[l[2]].status = decided[l[2]]
        BY <1>0, <3>2 DEF StatusKept
      <4> QED
        BY <4>1, <4>2 DEF Merged, CandidateRecord
    <3> QED
      BY <3>1, <3>2
  <2>3. \A k \in Upserts \ {l} : held'[k] = held[k] /\ leg'[k] = leg[k]
    BY <1>0, <1>2, <2>1 DEF ReadForUpsert
  <2>4. leg'[l] = "file"
    BY <2>1
  <2> QED
    BY <2>1, <2>2, <2>3, <2>4 DEF StatusKept
<1>3. ASSUME NEW l \in Legs, WriteCandidate(l)
      PROVE  StatusKept'
  <2>1. /\ leg[l] = "file" /\ leg' = [leg EXCEPT ![l] = "readIndex"] /\ held' = held
        /\ candidateFile' = [candidateFile EXCEPT ![l[2]] = held[l]]
        /\ held[l] # NoFile /\ held[l].id = l[2]
    BY <1>3, DoctorAssumption DEF WriteCandidate, OwnCandidate
  <2>2. CASE l \in Upserts
    <3>1. decided' = decided /\ held[l].status = decided[l[2]]
      BY <1>0, <1>3, <2>1, <2>2 DEF WriteCandidate, StatusKept
    <3> QED
      BY <1>0, <2>1, <3>1 DEF StatusKept
  <2>3. CASE l \in Updates
    <3>1. decided' = [decided EXCEPT ![l[2]] = held[l].status]
      BY <1>3, <2>3 DEF WriteCandidate
    <3>2. ASSUME NEW k \in Upserts
          PROVE  leg[k] = "idle"
      <4>1. k[1] \in Doctors /\ l[1] \in Reviews /\ k[1] # l[1] /\ k \in Legs
        BY <1>0, <2>3, LegParts, DoctorAssumption
      <4>2. ~Resting(l[1]) /\ l[1] \in Commands
        BY <2>1, RunningLeg
      <4>3. leg[k] # "idle" => ~Resting(k[1]) /\ k[1] \in Commands
        BY <4>1, RunningLeg
      <4> QED
        BY <4>1, <4>2, <4>3 DEF OneRuns
    <3>3. \A k \in Upserts : leg'[k] \notin {"read", "file"}
      BY <1>0, <2>1, <2>3, <3>2
    <3> QED
      BY <1>0, <2>1, <3>1, <3>3 DEF StatusKept
  <2> QED
    BY <1>0, <2>2, <2>3
<1> QED
  BY <1>1, <1>2, <1>3, DecisionSteps

\* "Rediscovery should update evidence without discarding prior human false-positive decisions"
\* (README:107): with commands issued in turn, a candidate has the status the last review gave it,
\* however often it is found again, wherever doctors and reviews fail or are killed, and whatever
\* the upserts of one doctor overwrite of each other (upsert, mergeCandidate, updateReviewStatus).
THEOREM DecisionsAlwaysKept == Spec => []DecisionsKept
<1> DEFINE Kept == OneRuns /\ (inTurn => StatusKept)
<1>1. Init => Kept
  <2>1. Init => StatusKept
    BY LegParts DEF Init, StoreInit, StatusKept, Legs
  <2> QED
    BY <2>1, InitOneRuns
<1>2. TypeInv /\ Kept /\ [Next]_vars => Kept'
  <2> SUFFICES ASSUME TypeInv, Kept, [Next]_vars PROVE Kept'
    OBVIOUS
  <2>1. inTurn' = inTurn
    <3>1. Next => \E c \in Commands : TurnStep(c)
      BY EveryTurnStep
    <3> QED
      BY <3>1 DEF TurnStep, vars, runVars
  <2> QED
    BY <2>1, OneRunsStep, StatusKeptStep
<1>3. Kept => DecisionsKept
  BY DEF StatusKept, DecisionsKept
<1> QED
  BY <1>1, <1>2, <1>3, InitTypeInv, TypeStep, PTL DEF Spec

-----------------------------------------------------------------------------
(* The known problems that findings were matched to *)

Listing(list) == {r.problem : r \in list}

Single(list) == \A r, q \in list : r.problem = q.problem => r = q

\* The list has one record per problem and names what was matched, and so does every copy of
\* it that is about to be written back.
KnownKept ==
    /\ Single(known)
    /\ \A d \in Doctors, p \in Problems : Single(knownRead[d][p])
    /\ \A d \in Doctors : matched[d] \subseteq Listing(known)
    /\ \A d, e \in Doctors, p \in Problems :
         upsert[e][p] = "write" => matched[d] \subseteq Listing(knownRead[e][p])

\* A list of one record per problem is never cut if there is room for all problems.
LEMMA SingleFits ==
  ASSUME IsFiniteSet(Problems), Cardinality(Problems) <= MaxKnown,
         NEW list \in SUBSET KnownRecord, Single(list),
         NEW kept \in Within(list, MaxKnown)
  PROVE  kept = list
<1> DEFINE f == [r \in list |-> r.problem]
<1>1. f \in Injection(list, Problems)
  BY DEF Injection, IsInjective, Single, KnownRecord
<1>2. /\ IsFiniteSet(list) /\ Cardinality(list) <= Cardinality(Problems)
  BY <1>1, FS_Injection
<1>3. Cardinality(list) \in Nat /\ Cardinality(Problems) \in Nat /\ MaxKnown \in Nat
  BY <1>2, FS_CardinalityType, DoctorAssumption
<1>4. ~(Cardinality(list) > MaxKnown)
  BY <1>2, <1>3
<1> QED
  BY <1>4 DEF Within

\* An observed problem is on the list once, and the others stay.
LEMMA ObservedListing ==
  ASSUME NEW p \in Problems, NEW list \in SUBSET KnownRecord, Single(list)
  PROVE  /\ Single(Observed(list, p))
         /\ Listing(list) \subseteq Listing(Observed(list, p))
<1> DEFINE new == [problem |-> p, count |-> Occurrences(list, p) + 1]
<1>1. new.problem = p /\ \A r \in Observed(list, p) : r = new \/ (r \in list /\ r.problem # p)
  BY DEF Observed
<1>2. new \in Observed(list, p) /\ \A r \in list : r.problem # p => r \in Observed(list, p)
  BY DEF Observed
<1> HIDE DEF new
<1>3. Single(Observed(list, p))
  BY <1>1 DEF Single
<1>4. \A r \in list : \E q \in Observed(list, p) : q.problem = r.problem
  BY <1>1, <1>2
<1> QED
  BY <1>3, <1>4 DEF Listing

\* What a step does that neither reads nor writes the list and matches nothing.
OffMatched ==
    /\ UNCHANGED <<known, matched>>
    /\ \A d \in Doctors, p \in Problems :
         \/ knownRead'[d][p] = {} /\ upsert'[d][p] # "write"
         \/ knownRead'[d][p] = knownRead[d][p] /\ upsert'[d][p] = upsert[d][p]

LEMMA MatchSteps ==
  ASSUME TypeInv, [Next]_vars
  PROVE  \/ OffMatched
         \/ \E d \in Doctors :
              \/ Diagnose(d)
              \/ \E p \in Problems : UpsertFinding(d, p) /\ matched' = matched
<1> USE DEF TypeInv, TypeOK, OffMatched, fileVars, candidateVars, knownVars, runVars
<1>1. ASSUME NEW d \in Doctors,
             \/ ImportCandidates(d) \/ StaleWorkflows(d)
             \/ WriteRun(d) \/ ReadPointer(d) \/ WritePointer(d)
      PROVE  OffMatched
  BY <1>1 DEF ImportCandidates, StaleWorkflows, WriteRun, ReadPointer, WritePointer
<1>2. ASSUME NEW d \in Doctors, NEW p \in Problems, FindingFails(d, p)
      PROVE  OffMatched
  BY <1>2 DEF FindingFails
<1>3. ASSUME NEW r \in Reviews, LegacyReview(r)
      PROVE  OffMatched
  BY <1>3 DEF LegacyReview, BeginReview, EndReview
<1>4. ASSUME NEW l \in Legs,
             \/ (ReadForUpsert(l) \/ ReadForUpdate(l) \/ WriteLegacyCandidate(l)) /\ UNCHANGED runVars
             \/ LegFails(l)
      PROVE  OffMatched
  BY <1>4 DEF ReadForUpsert, ReadForUpdate, WriteLegacyCandidate, WriteCandidate, ReadIndex, WriteIndex, LegFails
<1>5. ASSUME NEW c \in Commands, Crash(c)
      PROVE  OffMatched
  BY <1>5 DEF Crash
<1>6. CASE UNCHANGED vars
  BY <1>6 DEF vars
<1> QED
  BY <1>1, <1>2, <1>3, <1>4, <1>5, <1>6 DEF Next, RunDoctor

LEMMA KnownKeptStep ==
  ASSUME TypeInv, OneRuns, KnownKept, Next, inTurn,
         IsFiniteSet(Problems), Cardinality(Problems) <= MaxKnown
  PROVE  KnownKept'
<1> USE DEF TypeInv, TypeOK
<1>1. CASE OffMatched
  <2>1. known' = known /\ matched' = matched
    BY <1>1 DEF OffMatched
  <2>2. \A d \in Doctors, p \in Problems : Single(knownRead'[d][p])
    BY <1>1 DEF OffMatched, KnownKept, Single
  <2>3. \A d \in Doctors, p \in Problems :
          upsert'[d][p] = "write" => upsert[d][p] = "write" /\ knownRead'[d][p] = knownRead[d][p]
    BY <1>1 DEF OffMatched
  <2> QED
    BY <2>1, <2>2, <2>3 DEF KnownKept
<1>2. ASSUME NEW d \in Doctors, Diagnose(d)
      PROVE  KnownKept'
  <2>1. /\ UNCHANGED <<known, knownRead>> /\ \A e \in Doctors \ {d} : matched'[e] = matched[e] /\ upsert'[e] = upsert[e]
        /\ \A p \in Problems : upsert'[d][p] \in {"read", "idle"}
        /\ matched'[d] \subseteq Listing(known)
    BY <1>2 DEF Diagnose, MayMatch, Listing, fileVars
  <2>2. ASSUME NEW e \in Doctors \ {d}, NEW p \in Problems
        PROVE  upsert[e][p] = "idle"
    <3>1. ~Resting(d) /\ d \in Commands /\ e \in Commands
      BY <1>2 DEF Diagnose, Resting, Commands
    <3>2. Resting(e)
      BY <3>1 DEF OneRuns
    <3> QED
      BY <3>2 DEF Resting, Settled, UpsertsDone
  <2>3. \A e \in Doctors, p \in Problems : upsert'[e][p] # "write"
    BY <2>1, <2>2
  <2>4. \A e \in Doctors : matched'[e] \subseteq Listing(known)
    BY <2>1 DEF KnownKept
  <2> QED
    BY <2>1, <2>3, <2>4 DEF KnownKept
<1>3. ASSUME NEW d \in Doctors, NEW p \in Problems, ReadKnown(d, p), matched' = matched
      PROVE  KnownKept'
  <2>1. known' = known /\ knownRead'[d][p] = known
    BY <1>3 DEF ReadKnown, fileVars
  <2>2. ASSUME NEW e \in Doctors, NEW q \in Problems, <<e, q>> # <<d, p>>
        PROVE  knownRead'[e][q] = knownRead[e][q] /\ upsert'[e][q] = upsert[e][q]
    BY <1>3, <2>2 DEF ReadKnown
  <2>3. \A e \in Doctors, q \in Problems : Single(knownRead'[e][q])
    BY <2>1, <2>2 DEF KnownKept
  <2> HIDE DEF TypeInv, TypeOK
  <2>4. ASSUME NEW c \in Doctors, NEW e \in Doctors, NEW q \in Problems, upsert'[e][q] = "write"
        PROVE  matched[c] \subseteq Listing(knownRead'[e][q])
    <3>1. CASE e = d /\ q = p
      BY <2>1, <3>1 DEF KnownKept
    <3>2. CASE <<e, q>> # <<d, p>>
      BY <2>2, <2>4, <3>2 DEF KnownKept
    <3> QED
      BY <3>1, <3>2
  <2> QED
    BY <1>3, <2>1, <2>3, <2>4 DEF KnownKept
<1>4. ASSUME NEW d \in Doctors, NEW p \in Problems, WriteKnown(d, p), matched' = matched
      PROVE  KnownKept'
  <2> DEFINE list == knownRead[d][p]
  <2>1. list \in SUBSET KnownRecord /\ Single(list) /\ \A e \in Doctors : matched[e] \subseteq Listing(list)
    BY <1>4 DEF WriteKnown, KnownKept
  <2>2. Single(Observed(list, p)) /\ Listing(list) \subseteq Listing(Observed(list, p))
    BY <2>1, ObservedListing
  <2>3. Observed(list, p) \in SUBSET KnownRecord
    BY <2>1, ObservedRecords
  <2>4. known' = Observed(list, p)
    BY <1>4, <2>2, <2>3, SingleFits DEF WriteKnown
  <2>5. knownRead'[d][p] = {} /\ upsert'[d][p] = "idle"
    BY <1>4 DEF WriteKnown
  <2>6. ASSUME NEW e \in Doctors, NEW q \in Problems, <<e, q>> # <<d, p>>
        PROVE  knownRead'[e][q] = knownRead[e][q] /\ upsert'[e][q] = upsert[e][q]
    BY <1>4, <2>6 DEF WriteKnown
  <2>7. Single({})
    BY DEF Single
  <2> HIDE DEF list
  <2>8. \A e \in Doctors : matched'[e] \subseteq Listing(known')
    BY <1>4, <2>1, <2>2, <2>4
  <2>9. \A e \in Doctors, q \in Problems : Single(knownRead'[e][q])
    BY <2>5, <2>6, <2>7 DEF KnownKept
  <2> HIDE DEF TypeInv, TypeOK
  <2>10. ASSUME NEW c \in Doctors, NEW e \in Doctors, NEW q \in Problems, upsert'[e][q] = "write"
         PROVE  matched'[c] \subseteq Listing(knownRead'[e][q])
    <3>1. <<e, q>> # <<d, p>>
      BY <2>5, <2>10
    <3> QED
      BY <1>4, <2>6, <2>10, <3>1 DEF KnownKept
  <2> QED
    BY <2>2, <2>4, <2>8, <2>9, <2>10 DEF KnownKept
<1> QED
  BY <1>1, <1>2, <1>3, <1>4, MatchSteps DEF UpsertFinding

\* As long as commands are issued in turn and the list has room for every problem there is, the
\* records that findings were matched to (matchKnownProblems) are still there when the run is
\* recorded, and ever after: no upsert (updateRecord, createRecord) takes another's record away,
\* not even those one doctor starts all at once.
THEOREM MatchedAlwaysKnown ==
  ASSUME IsFiniteSet(Problems)
  PROVE  Spec => []MatchedStaysKnown
<1> DEFINE Kept == OneRuns /\ (inTurn /\ Cardinality(Problems) <= MaxKnown => KnownKept)
<1>1. Init => Kept
  <2>1. Init => KnownKept
    BY DEF Init, StoreInit, KnownKept, Single
  <2> QED
    BY <2>1, InitOneRuns
<1>2. TypeInv /\ Kept /\ [Next]_vars => Kept'
  <2> SUFFICES ASSUME TypeInv, Kept, [Next]_vars PROVE Kept'
    OBVIOUS
  <2>1. inTurn' = inTurn
    <3>1. Next => \E c \in Commands : TurnStep(c)
      BY EveryTurnStep
    <3> QED
      BY <3>1 DEF TurnStep, vars, runVars
  <2>2. OneRuns'
    BY OneRunsStep
  <2>3. CASE Next
    BY <2>1, <2>2, <2>3, KnownKeptStep
  <2>4. CASE UNCHANGED vars
    BY <2>1, <2>2, <2>4 DEF KnownKept, vars, fileVars, knownVars, runVars
  <2> QED
    BY <2>3, <2>4
<1>3. Kept => MatchedStaysKnown
  BY DEF KnownKept, MatchedStaysKnown, Listing
<1> QED
  BY <1>1, <1>2, <1>3, InitTypeInv, TypeStep, PTL DEF Spec

=============================================================================
