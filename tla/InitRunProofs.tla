---------------------------- MODULE InitRunProofs ----------------------------
(***************************************************************************)
(* What TLAPS proves of InitRun, for any repositories, any contracts that  *)
(* maintainers type, any number of inits and of edits.                     *)
(***************************************************************************)
EXTENDS InitRun, TLAPS

\* An init that has looked at the worktree and goes on to write.
Cleared == {"check", "write", "mode", "rename"}

\* One that knows whether the file to write is there.
Checked == {"write", "mode", "rename"}

\* The files and what inits have of them are contracts in shape.
Shaped ==
    /\ DOMAIN file = Files /\ DOMAIN head = Files
    /\ DOMAIN mode = Inits /\ DOMAIN failures = Inits
    /\ DOMAIN existing = Inits /\ DOMAIN generated = Inits /\ DOMAIN answered = Inits
    /\ \A t \in Files : file[t] # Absent => IsContract(file[t].contract)
    /\ \A i \in Inits : /\ existing[i] # Absent => IsContract(existing[i].contract)
                        /\ pc[i] # "idle" => IsContract(generated[i])

TypeInv == TypeOK /\ Shaped

\* What it generates is mapped from a scan.
ScannedOf(i) ==
    pc[i] # "idle" => \E t, failed, id : generated[i] = Generated(ScanFacts(t, failed), id)
Scanned == \A i \in Inits : ScannedOf(i)

\* What an init has decided: nothing is known before the contract is read, and only what
\* validates and differs from what is there is written.
DecidedOf(i) ==
    /\ pc[i] \in {"idle", "read", "open"} => existing[i] = Absent
    /\ pc[i] \in Cleared \/ (pc[i] = "done" /\ mode[i] = "write") => Valid(Proposed(existing[i], generated[i]))
    /\ pc[i] \in Cleared => TargetAction(i) \in {"create", "update"}
Decided == \A i \in Inits : DecidedOf(i)

\* What an init that nothing disturbed has seen is still so when it writes.
SeenOf(i) ==
    calm[i] =>
        /\ pc[i] \in {"status"} \cup Cleared => existing[i] = file["contract"]
        /\ pc[i] \in Cleared /\ place = "toplevel" /\ ~force[i] /\ answered[i] /\ Named(Target(i))
              => file[Target(i)] = head[Target(i)]
        /\ pc[i] \in Checked /\ TargetAction(i) = "create" /\ ~force[i] => file[Target(i)] = Absent
Seen == \A i \in Inits : SeenOf(i)

IInv == TypeInv /\ Scanned /\ Decided /\ Seen /\ NothingInvalidIsWritten /\ TempsAreCleared

-----------------------------------------------------------------------------
(* Lemmas about the contracts *)

\* What is written of a contract is one with the same entries, and as valid.
LEMMA WrittenIsContract ==
    ASSUME NEW c, IsContract(c)
    PROVE  /\ IsContract(Written(c))
           /\ DOMAIN Written(c).services = DOMAIN c.services
           /\ \A s \in DOMAIN c.services : Written(c).services[s].environment = c.services[s].environment
           /\ \A k \in Sections \ {"services"} : Written(c)[k] = c[k]
<1> DEFINE services == [s \in DOMAIN c.services |-> [c.services[s] EXCEPT !.required = TRUE]]
<1>1. Written(c) = [c EXCEPT !.services = services]
  BY DEF Written
<1>2. DOMAIN Written(c) = Sections /\ Written(c).services = services
  BY <1>1 DEF IsContract, Sections
<1>3. \A s \in DOMAIN services : DOMAIN services[s] = {"body", "required", "environment"}
                                 /\ services[s].environment = c.services[s].environment
  BY DEF IsContract
<1>4. \A k \in Sections \ {"services"} : Written(c)[k] = c[k]
  BY <1>1 DEF IsContract
<1> QED
  BY <1>2, <1>3, <1>4 DEF IsContract

LEMMA WrittenIsValid ==
    ASSUME NEW c, IsContract(c), Valid(c)
    PROVE  Valid(Written(c))
<1>1. /\ Written(c).applications = c.applications /\ Written(c).environment = c.environment
      /\ Written(c).verification = c.verification /\ Written(c).steps = c.steps
  BY WrittenIsContract DEF Sections
<1>2. DOMAIN Written(c).services = DOMAIN c.services
      /\ \A s \in DOMAIN c.services : Written(c).services[s].environment = c.services[s].environment
  BY WrittenIsContract
<1>3. Components(Written(c)) = Components(c)
  BY <1>1, <1>2 DEF Components
<1>4. IdsDistinct(Written(c)) /\ DependenciesKnown(Written(c)) /\ VariablesProper(Written(c))
      /\ ChecksKnown(Written(c))
  BY <1>1, <1>2, <1>3 DEF Valid, IdsDistinct, DependenciesKnown, VariablesProper, ChecksKnown
<1>5. VariablesKnown(Written(c))
  BY <1>1, <1>2 DEF Valid, VariablesKnown
<1>6. StepsKnown(Written(c))
  BY <1>1 DEF Valid, StepsKnown
<1> QED
  BY <1>4, <1>5, <1>6 DEF Valid

LEMMA MergedIsContract ==
    ASSUME NEW e, NEW g, IsContract(e), IsContract(g)
    PROVE  IsContract(Merged(e, g))
<1>1. DOMAIN Merged(e, g) = Sections
  BY DEF Merged, Sections
<1>2. Merged(e, g).services = Over(e.services, g.services)
  BY DEF Merged, MergedRecord
<1>3. \A s \in DOMAIN Over(e.services, g.services) :
          DOMAIN Over(e.services, g.services)[s] = {"body", "required", "environment"}
  BY DEF Over, IsContract
<1> QED
  BY <1>1, <1>2, <1>3 DEF IsContract

LEMMA ProposedIsContract ==
    ASSUME NEW e, NEW g, e # Absent => IsContract(e.contract), IsContract(g)
    PROVE  IsContract(Proposed(e, g))
BY MergedIsContract DEF Proposed

LEMMA GeneratedIsContract ==
    ASSUME NEW facts, NEW id
    PROVE  IsContract(Generated(facts, id))
<1>1. DOMAIN Generated(facts, id) = Sections /\ Generated(facts, id).services = Services(facts)
     
  BY DEF Generated, Sections
<1>2. \A s \in DOMAIN Services(facts) : DOMAIN Services(facts)[s] = {"body", "required", "environment"}
  BY DEF Services
<1> QED
  BY <1>1, <1>2 DEF IsContract

-----------------------------------------------------------------------------
(* Type correctness *)

LEMMA InitTypeInv == Init => TypeInv
<1> SUFFICES ASSUME Init PROVE TypeInv
  OBVIOUS
<1> USE InitAssumption
<1>1. DOMAIN file = Files /\ \A t \in Files : IsFile(file[t]) /\ (file[t] # Absent => IsContract(file[t].contract))
  BY DEF Init, IsFile, Typed
<1>2. DOMAIN head = Files /\ \A t \in Files : IsFile(head[t])
  BY <1>1 DEF Init, IsFile
<1>3. /\ pc = [i \in Inits |-> "idle"] /\ existing = [i \in Inits |-> Absent]
      /\ generated = [i \in Inits |-> Absent] /\ mode = [i \in Inits |-> "dry-run"]
      /\ failures = [i \in Inits |-> {}] /\ force = [i \in Inits |-> FALSE]
      /\ replaces = [i \in Inits |-> FALSE] /\ calm = [i \in Inits |-> TRUE]
      /\ answered = [i \in Inits |-> TRUE] /\ ignored \subseteq Files /\ renamed \subseteq Files
      /\ tree \in Trees /\ place \in Places /\ temp = {} /\ edits = 0
  BY DEF Init
<1>4. TypeOK
  BY <1>1, <1>2, <1>3 DEF TypeOK, IsFile, Steps
<1>5. Shaped
  BY <1>1, <1>2, <1>3 DEF Shaped
<1> QED
  BY <1>4, <1>5 DEF TypeInv

\* The commands that only move on, or note what they saw.
LEMMA PassingTypeInv ==
    ASSUME TypeInv, NEW i \in Inits,
           Access(i) \/ Open(i) \/ Status(i) \/ CheckExists(i) \/ WriteTemp(i) \/ CopyMode(i) \/ Fail(i) \/ Crash(i)
    PROVE  TypeInv'
<1>1. \E there \in Steps \ {"idle"} : Goto(i, there)
  BY DEF Access, Open, Status, CheckExists, WriteTemp, CopyMode, Fail, Crash, Allowed, Steps
<1>2. pc \in [Inits -> Steps] /\ pc' \in [Inits -> Steps] /\ pc[i] # "idle"
  BY <1>1 DEF TypeInv, TypeOK, Goto, Access, Open, Status, CheckExists, WriteTemp, CopyMode, Fail, Crash
<1>3. \A j \in Inits : pc'[j] # "idle" => pc[j] # "idle"
  BY <1>1, <1>2 DEF Goto
<1>4. temp' \subseteq Inits /\ replaces' \in [Inits -> BOOLEAN] /\ answered' \in [Inits -> BOOLEAN]
  BY DEF TypeInv, TypeOK, Access, Open, Status, CheckExists, WriteTemp, CopyMode, Fail, Crash
<1>5. /\ DOMAIN existing' = Inits
      /\ \A j \in Inits : IsFile(existing'[j]) /\ (existing'[j] # Absent => IsContract(existing'[j].contract))
  <2>1. existing' = existing \/ existing' = [existing EXCEPT ![i] = file["contract"]]
    BY DEF Access, Open, Status, CheckExists, WriteTemp, CopyMode, Fail, Crash
  <2>2. \A j \in Inits : existing'[j] \in {existing[j], file["contract"]}
    BY <2>1 DEF TypeInv, Shaped
  <2>3. IsFile(file["contract"]) /\ (file["contract"] # Absent => IsContract(file["contract"].contract))
    BY DEF TypeInv, TypeOK, Shaped, Files
  <2>4. \A j \in Inits : IsFile(existing[j]) /\ (existing[j] # Absent => IsContract(existing[j].contract))
    BY DEF TypeInv, TypeOK, Shaped
  <2>5. DOMAIN existing' = Inits
    BY <2>1 DEF TypeInv, Shaped
  <2> QED
    BY <2>2, <2>3, <2>4, <2>5
<1>6. UNCHANGED <<tree, place, file, head, ignored, renamed, mode, force, failures, generated, calm, edits>>
  BY DEF Access, Open, Status, CheckExists, WriteTemp, CopyMode, Fail, Crash, gitVars
<1>7. /\ tree' \in Trees /\ place' \in Places /\ edits' \in 0 .. MaxEdits
      /\ \A t \in Files : IsFile(file'[t]) /\ IsFile(head'[t])
      /\ ignored' \subseteq Files /\ renamed' \subseteq Files
      /\ force' \in [Inits -> BOOLEAN] /\ calm' \in [Inits -> BOOLEAN]
  BY <1>6 DEF TypeInv, TypeOK
<1>8. \A j \in Inits : failures'[j] \subseteq MayFail /\ (pc'[j] # "idle" => DOMAIN generated'[j] = Sections)
  BY <1>3, <1>6 DEF TypeInv, TypeOK
<1>9. TypeOK'
  BY <1>2, <1>4, <1>5, <1>7, <1>8 DEF TypeOK
<1>10. Shaped'
  BY <1>3, <1>4, <1>5, <1>6 DEF TypeInv, Shaped
<1> QED
  BY <1>9, <1>10 DEF TypeInv

LEMMA ScanTypeInv ==
    ASSUME TypeInv, NEW i \in Inits, Scan(i)
    PROVE  TypeInv'
<1>1. PICK facts, id : generated' = [generated EXCEPT ![i] = Generated(facts, id)]
  BY DEF Scan
<1>2. DOMAIN generated' = Inits /\ generated'[i] = Generated(facts, id)
      /\ \A j \in Inits \ {i} : generated'[j] = generated[j] /\ pc'[j] = pc[j]
  BY <1>1 DEF TypeInv, TypeOK, Shaped, Scan, Goto
<1>3. \A j \in Inits : pc'[j] # "idle" => IsContract(generated'[j])
  BY <1>2, GeneratedIsContract DEF TypeInv, Shaped
<1>4. DOMAIN failures' = Inits /\ \A j \in Inits : failures'[j] \subseteq MayFail
  <2>1. PICK failed \in Failing : failures' = [failures EXCEPT ![i] = failed]
    BY DEF Scan
  <2>2. failed \subseteq MayFail
    BY DEF Failing
  <2> QED
    BY <2>1, <2>2 DEF TypeInv, TypeOK, Shaped
<1>5. DOMAIN mode' = Inits /\ force' \in [Inits -> BOOLEAN] /\ pc' \in [Inits -> Steps]
  BY DEF TypeInv, TypeOK, Shaped, Scan, Goto, Steps
<1>6. UNCHANGED <<tree, place, file, head, ignored, renamed, temp, existing, answered, replaces, calm, edits>>
  BY DEF Scan, gitVars
<1>7. Shaped'
  BY <1>2, <1>3, <1>4, <1>5, <1>6 DEF TypeInv, Shaped
<1>8. TypeOK'
  BY <1>3, <1>4, <1>5, <1>6 DEF TypeInv, TypeOK, IsContract
<1> QED
  BY <1>7, <1>8 DEF TypeInv

LEMMA RenameTypeInv ==
    ASSUME TypeInv, NEW i \in Inits, Rename(i)
    PROVE  TypeInv'
<1>1. IsContract(Proposed(existing[i], generated[i]))
  BY ProposedIsContract DEF TypeInv, Shaped, Rename
<1>2. IsFile(Content(i)) /\ IsContract(Content(i).contract)
  BY <1>1, WrittenIsContract DEF Content, Text, IsFile
<1>3. DOMAIN file' = Files /\ \A t \in Files : file'[t] \in {file[t], Content(i)}
  BY DEF TypeInv, Shaped, Rename
<1>4. pc' \in [Inits -> Steps] /\ calm' \in [Inits -> BOOLEAN] /\ temp' \subseteq Inits
      /\ \A j \in Inits : pc'[j] # "idle" => pc[j] # "idle"
  BY DEF TypeInv, TypeOK, Rename, Goto, Steps, Disturbed
<1>5. UNCHANGED <<tree, place, head, ignored, renamed, mode, force, failures, generated, existing, answered, replaces, edits>>
  BY DEF Rename, gitVars
<1>6. Shaped'
  BY <1>2, <1>3, <1>4, <1>5 DEF TypeInv, Shaped
<1>7. TypeOK'
  BY <1>2, <1>3, <1>4, <1>5 DEF TypeInv, TypeOK
<1> QED
  BY <1>6, <1>7 DEF TypeInv

\* The maintainers.
LEMMA EditTypeInv ==
    ASSUME TypeInv, NEW t \in Files, NEW content, Edit(t, content),
           IsFile(content), content # Absent => IsContract(content.contract)
    PROVE  TypeInv'
<1>1. DOMAIN file' = Files /\ \A x \in Files : file'[x] \in {file[x], content}
  BY DEF TypeInv, Shaped, Edit
<1>2. calm' \in [Inits -> BOOLEAN] /\ edits' \in 0 .. MaxEdits /\ renamed' \subseteq Files
  BY InitAssumption DEF TypeInv, TypeOK, Edit, Disturbed
<1>3. UNCHANGED <<tree, place, head, ignored, temp, pc, mode, force, failures, generated, existing, answered, replaces>>
  BY DEF Edit
<1>4. Shaped'
  BY <1>1, <1>3 DEF TypeInv, Shaped
<1>5. TypeOK'
  BY <1>1, <1>2, <1>3 DEF TypeInv, TypeOK
<1> QED
  BY <1>4, <1>5 DEF TypeInv

LEMMA MaintainTypeInv ==
    ASSUME TypeInv, Commit \/ Develop
    PROVE  TypeInv'
<1>1. UNCHANGED <<place, file, ignored, temp, pc, mode, force, failures, generated, existing, answered, replaces, calm>>
  BY DEF Commit, Develop, gitVars
<1>2. /\ DOMAIN head' = Files /\ \A t \in Files : head'[t] \in {head[t], file[t], Absent}
      /\ tree' \in Trees /\ edits' \in 0 .. MaxEdits /\ renamed' \subseteq Files
  BY InitAssumption DEF TypeInv, TypeOK, Shaped, Commit, Develop, gitVars
<1>3. Shaped'
  BY <1>1, <1>2 DEF TypeInv, Shaped
<1>4. TypeOK'
  BY <1>1, <1>2 DEF TypeInv, TypeOK, IsFile
<1> QED
  BY <1>3, <1>4 DEF TypeInv

LEMMA NextTypeInv == TypeInv /\ [Next]_vars => TypeInv'
<1> SUFFICES ASSUME TypeInv, [Next]_vars PROVE TypeInv'
  OBVIOUS
<1>1. ASSUME NEW i \in Inits, InitStep(i)
      PROVE  TypeInv'
  BY <1>1, ScanTypeInv, PassingTypeInv, RenameTypeInv DEF InitStep
<1>2. ASSUME NEW t \in Files, NEW d \in Drafts, Edit(t, Typed(d))
      PROVE  TypeInv'
  <2>1. IsFile(Typed(d)) /\ IsContract(Typed(d).contract)
    BY InitAssumption DEF IsFile, Typed
  <2> QED
    BY <1>2, <2>1, EditTypeInv
<1>3. ASSUME NEW t \in Files, Edit(t, Absent)
      PROVE  TypeInv'
  BY <1>3, EditTypeInv DEF IsFile
<1>4. ASSUME UNCHANGED vars
      PROVE  TypeInv'
  BY <1>4 DEF vars, gitVars, TypeInv, TypeOK, Shaped
<1> QED
  BY <1>1, <1>2, <1>3, <1>4, MaintainTypeInv DEF Next

-----------------------------------------------------------------------------
(* What inits decide *)

\* What an init makes of what it has scanned and read.
LEMMA SameProposal ==
    ASSUME NEW i \in Inits, existing'[i] = existing[i], generated'[i] = generated[i]
    PROVE  /\ Target(i)' = Target(i) /\ TargetAction(i)' = TargetAction(i) /\ Content(i)' = Content(i)
           /\ Proposed(existing'[i], generated'[i]) = Proposed(existing[i], generated[i])
BY DEF Target, TargetAction, Content, Unreadable

\* A step of an init leaves the others' decisions alone.
LEMMA OthersDecided ==
    ASSUME TypeInv, NEW i \in Inits, InitStep(i), NEW j \in Inits \ {i}
    PROVE  /\ pc'[j] = pc[j] /\ mode'[j] = mode[j] /\ force'[j] = force[j]
           /\ generated'[j] = generated[j] /\ existing'[j] = existing[j] /\ replaces'[j] = replaces[j]
           /\ answered'[j] = answered[j]
BY DEF TypeInv, TypeOK, Shaped, InitStep, Scan, Access, Open, Status, CheckExists, WriteTemp, CopyMode, Rename,
       Fail, Crash, Goto

LEMMA DecidedKept ==
    ASSUME NEW i \in Inits, DecidedOf(i), pc'[i] = pc[i], mode'[i] = mode[i],
           generated'[i] = generated[i], existing'[i] = existing[i]
    PROVE  DecidedOf(i)'
BY SameProposal DEF DecidedOf

\* A target is created or updated, but for one that is as it would be written.
LEMMA Actions ==
    ASSUME NEW i \in Inits, TargetAction(i) # "unchanged"
    PROVE  TargetAction(i) \in {"create", "update"}
BY DEF TargetAction, Action, Unreadable

LEMMA StatusDecides ==
    ASSUME TypeInv, NEW i \in Inits, Status(i)
    PROVE  /\ pc'[i] \in {"done", "blocked", "unchanged", "check", "failed"}
           /\ pc'[i] \in Cleared => /\ mode[i] = "write" /\ TargetAction(i) \in {"create", "update"}
                                    /\ answered'[i] => DirtyTargets(i) = {} \/ force[i]
           /\ pc'[i] \in Cleared => Valid(Proposed(existing[i], generated[i]))
           /\ pc'[i] = "done" => mode[i] # "write"
BY Actions DEF TypeInv, TypeOK, Status, Allowed, Goto, Cleared

LEMMA StepDecides ==
    ASSUME TypeInv, NEW i \in Inits, DecidedOf(i), InitStep(i)
    PROVE  DecidedOf(i)'
<1>1. CASE Scan(i)
  BY <1>1 DEF TypeInv, TypeOK, Shaped, DecidedOf, Scan, Goto, Cleared
<1>2. CASE Access(i) \/ Open(i)
  BY <1>2 DEF TypeInv, TypeOK, Shaped, DecidedOf, Access, Open, Goto, Cleared
<1>3. CASE Status(i)
  <2>1. existing'[i] = existing[i] /\ generated'[i] = generated[i] /\ mode'[i] = mode[i]
    BY <1>3 DEF Status
  <2>2. TargetAction(i)' = TargetAction(i)
        /\ (Valid(Proposed(existing[i], generated[i])) => Valid(Proposed(existing'[i], generated'[i])))
    BY <2>1, SameProposal
  <2>3. /\ pc'[i] \notin {"idle", "read", "open"}
        /\ pc'[i] \in Cleared => /\ TargetAction(i) \in {"create", "update"}
                                 /\ Valid(Proposed(existing[i], generated[i]))
        /\ pc'[i] = "done" => mode'[i] # "write"
    BY <1>3, <2>1, StatusDecides DEF Cleared
  <2> QED
    BY <2>2, <2>3 DEF DecidedOf
<1>4. CASE CheckExists(i) \/ WriteTemp(i) \/ CopyMode(i) \/ Rename(i) \/ Fail(i) \/ Crash(i)
  <2>1. existing'[i] = existing[i] /\ generated'[i] = generated[i] /\ pc[i] \in Cleared
    BY <1>4 DEF CheckExists, WriteTemp, CopyMode, Rename, Fail, Crash, Cleared
  <2>2. pc'[i] \in Cleared \cup {"done", "failed", "crashed"}
    BY <1>4 DEF TypeInv, TypeOK, CheckExists, WriteTemp, CopyMode, Rename, Fail, Crash, Goto, Cleared
  <2>3. Valid(Proposed(existing'[i], generated'[i])) /\ TargetAction(i)' \in {"create", "update"}
    BY <2>1, SameProposal DEF DecidedOf
  <2>4. pc'[i] \notin {"idle", "read", "open"}
    BY <2>2 DEF Cleared
  <2> QED
    BY <2>3, <2>4 DEF DecidedOf
<1> QED
  BY <1>1, <1>2, <1>3, <1>4 DEF InitStep

LEMMA NextDecided == TypeInv /\ Decided /\ [Next]_vars => Decided'
<1> SUFFICES ASSUME TypeInv, Decided, [Next]_vars PROVE Decided'
  OBVIOUS
<1>1. ASSUME NEW i \in Inits, InitStep(i)
      PROVE  Decided'
  <2>1. ASSUME NEW j \in Inits \ {i}
        PROVE  DecidedOf(j)'
    BY <1>1, <2>1, OthersDecided, DecidedKept DEF Decided
  <2> QED
    BY <1>1, <2>1, StepDecides DEF Decided
<1>2. ASSUME UNCHANGED <<pc, mode, generated, existing>>
      PROVE  Decided'
  BY <1>2, DecidedKept DEF Decided
<1> QED
  BY <1>1, <1>2 DEF Next, Edit, Commit, Develop, vars, gitVars

LEMMA NextScanned == TypeInv /\ Scanned /\ [Next]_vars => Scanned'
<1> SUFFICES ASSUME TypeInv, Scanned, [Next]_vars PROVE Scanned'
  OBVIOUS
<1>1. ASSUME NEW i \in Inits, pc'[i] # "idle" => pc[i] # "idle", generated'[i] = generated[i]
      PROVE  ScannedOf(i)'
  BY <1>1 DEF Scanned, ScannedOf
<1>2. ASSUME NEW i \in Inits, InitStep(i)
      PROVE  Scanned'
  <2>1. CASE Scan(i)
    <3>1. PICK failed \in Failing :
              \E facts \in {ScanFacts(tree, failed)} : \E id \in ApplicationIds(facts) :
                  generated' = [generated EXCEPT ![i] = Generated(facts, id)]
      BY <2>1 DEF Scan
    <3>2. PICK id : generated' = [generated EXCEPT ![i] = Generated(ScanFacts(tree, failed), id)]
      BY <3>1
    <3>3. ScannedOf(i)'
      BY <3>2 DEF ScannedOf, TypeInv, Shaped
    <3> QED
      BY <1>1, <1>2, <3>3, OthersDecided DEF Scanned
  <2>2. ASSUME ~Scan(i)
        PROVE  pc[i] # "idle" /\ generated' = generated
    BY <1>2, <2>2 DEF InitStep, Access, Open, Status, CheckExists, WriteTemp, CopyMode, Rename, Fail, Crash
  <2>3. ASSUME ~Scan(i)
        PROVE  Scanned'
    BY <1>1, <1>2, <2>2, <2>3, OthersDecided DEF Scanned
  <2> QED
    BY <2>1, <2>3
<1>3. ASSUME UNCHANGED <<pc, generated>>
      PROVE  Scanned'
  BY <1>1, <1>3 DEF Scanned
<1> QED
  BY <1>2, <1>3 DEF Next, Edit, Commit, Develop, vars, gitVars

-----------------------------------------------------------------------------
(* What inits have seen *)

LEMMA SeenKept ==
    ASSUME NEW i \in Inits, SeenOf(i), pc'[i] = pc[i], force'[i] = force[i], calm'[i] => calm[i],
           generated'[i] = generated[i], existing'[i] = existing[i],
           file' = file, place' = place, answered'[i] = answered[i], Target(i) \in Files,
           \A t \in Files : (Named(t) => file[t] = head[t]) => (Named(t)' => file'[t] = head'[t])
    PROVE  SeenOf(i)'
<1>1. Target(i)' = Target(i) /\ TargetAction(i)' = TargetAction(i)
  BY SameProposal
<1> QED
  BY <1>1 DEF SeenOf

\* One that was disturbed is not followed any more, one that has not begun has seen nothing.
LEMMA SeenDisturbed ==
    ASSUME TypeInv, NEW i \in Inits, NEW others \in SUBSET Inits, i \in others, calm' = Disturbed(others),
           pc'[i] = pc[i]
    PROVE  SeenOf(i)'
<1>1. calm'[i] => ~Running(i)
  BY DEF Disturbed
<1> QED
  BY <1>1 DEF SeenOf, Running, Cleared, Checked

LEMMA StepSees ==
    ASSUME TypeInv, NEW i \in Inits, DecidedOf(i), SeenOf(i), InitStep(i)
    PROVE  SeenOf(i)'
<1> USE DEF TypeInv, TypeOK, Shaped, Cleared, Checked, Goto
<1>1. CASE Scan(i)
  BY <1>1 DEF Scan, SeenOf
<1>2. CASE Access(i)
  <2>1. pc'[i] \in {"status", "open"} /\ (pc'[i] = "status" => file["contract"] = Absent)
    BY <1>2 DEF Access
  <2>2. existing'[i] = Absent /\ file' = file
    BY <1>2 DEF Access, DecidedOf
  <2> QED
    BY <2>1, <2>2 DEF SeenOf
<1>3. CASE Open(i)
  <2>1. pc'[i] \in {"status", "failed"} /\ existing'[i] = file["contract"] /\ file' = file
    BY <1>3 DEF Open
  <2> QED
    BY <2>1 DEF SeenOf
<1>4. ASSUME existing'[i] = existing[i], generated'[i] = generated[i]
      PROVE  Target(i)' = Target(i) /\ TargetAction(i)' = TargetAction(i)
  BY <1>4, SameProposal
<1>5. CASE Status(i)
  <2>1. UNCHANGED <<file, head, ignored, renamed, place, existing, generated, calm, force>> /\ pc[i] = "status"
    BY <1>5 DEF Status, gitVars
  <2>2. pc'[i] \in Cleared /\ place = "toplevel" /\ ~force[i] /\ answered'[i] /\ Named(Target(i))
            => file[Target(i)] = head[Target(i)]
    BY <1>5, StatusDecides DEF DirtyTargets
  <2>3. pc'[i] \notin Checked
    BY <1>5, StatusDecides
  <2> QED
    BY <1>4, <2>1, <2>2, <2>3 DEF SeenOf, Named
<1>6. CASE CheckExists(i)
  <2>1. UNCHANGED <<file, head, ignored, renamed, place, existing, generated, answered, calm, force>> /\ pc[i] = "check"
    BY <1>6 DEF CheckExists, gitVars
  <2>2. pc'[i] \in Checked /\ TargetAction(i) = "create" /\ ~force[i] => file[Target(i)] = Absent
    BY <1>6 DEF CheckExists
  <2>3. Named(Target(i))' = Named(Target(i))
    BY <1>4, <2>1 DEF Named
  <2> QED
    BY <1>4, <2>1, <2>2, <2>3 DEF SeenOf
<1>7. CASE WriteTemp(i) \/ CopyMode(i) \/ Fail(i) \/ Crash(i)
  <2>1. UNCHANGED <<file, head, ignored, renamed, place, existing, generated, answered, calm, force>> /\ pc[i] \in Checked
    BY <1>7 DEF WriteTemp, CopyMode, Fail, Crash, gitVars
  <2>2. pc'[i] \in Checked \cup {"failed", "crashed"}
    BY <1>7 DEF WriteTemp, CopyMode, Fail, Crash
  <2>3. Named(Target(i))' = Named(Target(i))
    BY <1>4, <2>1 DEF Named
  <2> QED
    BY <1>4, <2>1, <2>2, <2>3 DEF SeenOf
<1>8. CASE Rename(i)
  <2>1. pc'[i] = "done"
    BY <1>8 DEF Rename
  <2> QED
    BY <2>1 DEF SeenOf
<1> QED
  BY <1>1, <1>2, <1>3, <1>5, <1>6, <1>7, <1>8 DEF InitStep

LEMMA NextSeen == TypeInv /\ Decided /\ Seen /\ [Next]_vars => Seen'
<1> SUFFICES ASSUME TypeInv, Decided, Seen, [Next]_vars PROVE Seen'
  OBVIOUS
<1>0. \A j \in Inits : Target(j) \in Files
  BY DEF Target, Files
<1>1. ASSUME NEW i \in Inits, InitStep(i), NEW j \in Inits \ {i}
      PROVE  SeenOf(j)'
  <2>1. CASE Rename(i)
    BY <1>1, <2>1, SeenDisturbed, OthersDecided DEF Rename
  <2>2. ASSUME UNCHANGED <<file, gitVars, calm>>
        PROVE  SeenOf(j)'
    BY <1>0, <1>1, <2>2, SeenKept, OthersDecided DEF Seen, Named, gitVars
  <2> QED
    BY <1>1, <2>1, <2>2 DEF InitStep, Scan, Access, Open, Status, CheckExists, WriteTemp, CopyMode, Fail, Crash
<1>2. ASSUME NEW i \in Inits, InitStep(i)
      PROVE  Seen'
  BY <1>1, <1>2, StepSees DEF Decided, Seen
<1>3. ASSUME NEW t \in Files, NEW content, Edit(t, content)
      PROVE  Seen'
  <2>1. calm' = Disturbed(Inits) /\ pc' = pc
    BY <1>3 DEF Edit
  <2> QED
    BY <2>1, SeenDisturbed DEF Seen
<1>4. ASSUME UNCHANGED <<file, place, pc, force, answered, calm, generated, existing>>,
             \A t \in Files : (Named(t) => file[t] = head[t]) => (Named(t)' => file'[t] = head'[t])
      PROVE  Seen'
  BY <1>0, <1>4, SeenKept DEF Seen
<1>5. CASE Commit
  <2>1. \A t \in Files : Named(t)' => file'[t] = head'[t]
    BY <1>5 DEF Commit, Named
  <2> QED
    BY <1>4, <1>5, <2>1 DEF Commit
<1>6. CASE Develop \/ UNCHANGED vars
  <2>1. UNCHANGED <<file, head, ignored, renamed, place, pc, force, answered, calm, generated, existing>>
    BY <1>6 DEF Develop, vars, gitVars
  <2> QED
    BY <1>4, <2>1 DEF Named
<1> QED
  BY <1>2, <1>3, <1>5, <1>6 DEF Next

-----------------------------------------------------------------------------
(* What is on disk *)

LEMMA NextNothingInvalid ==
    TypeInv /\ Decided /\ NothingInvalidIsWritten /\ [Next]_vars => NothingInvalidIsWritten'
<1> SUFFICES ASSUME TypeInv, Decided, NothingInvalidIsWritten, [Next]_vars PROVE NothingInvalidIsWritten'
  OBVIOUS
<1>1. ASSUME NEW i \in Inits, Rename(i)
      PROVE  NothingInvalidIsWritten'
  <2>1. Valid(Proposed(existing[i], generated[i]))
    BY <1>1 DEF Decided, DecidedOf, Rename, Cleared
  <2>2. IsContract(Proposed(existing[i], generated[i]))
    BY <1>1, ProposedIsContract DEF TypeInv, Shaped, Rename
  <2>3. Valid(Content(i).contract)
    BY <2>1, <2>2, WrittenIsValid DEF Content, Text
  <2>4. \A t \in Files : file'[t] \in {file[t], Content(i)}
    BY <1>1 DEF TypeInv, Shaped, Rename
  <2> QED
    BY <2>3, <2>4 DEF NothingInvalidIsWritten
<1>2. ASSUME NEW t \in Files, NEW content, Edit(t, content), content # Absent => content.form = "own"
      PROVE  NothingInvalidIsWritten'
  <2>1. \A x \in Files : file'[x] \in {file[x], content}
    BY <1>2 DEF TypeInv, Shaped, Edit
  <2> QED
    BY <1>2, <2>1 DEF NothingInvalidIsWritten
<1>3. \A d \in Drafts : Typed(d).form = "own"
  BY DEF Typed
<1>4. CASE UNCHANGED file
  BY <1>4 DEF NothingInvalidIsWritten
<1>5. ASSUME NEW i \in Inits, InitStep(i)
      PROVE  Rename(i) \/ UNCHANGED file
  BY <1>5 DEF InitStep, Scan, Access, Open, Status, CheckExists, WriteTemp, CopyMode, Fail, Crash
<1> QED
  BY <1>1, <1>2, <1>3, <1>4, <1>5 DEF Next, Commit, Develop, vars, gitVars

LEMMA NextTempsAreCleared == TypeInv /\ TempsAreCleared /\ [Next]_vars => TempsAreCleared'
<1> SUFFICES ASSUME TypeInv, TempsAreCleared, [Next]_vars PROVE TempsAreCleared'
  OBVIOUS
<1>1. ASSUME NEW i \in Inits, InitStep(i)
      PROVE  TempsAreCleared'
  <2>1. \A j \in Inits \ {i} : pc'[j] = pc[j]
    BY <1>1, OthersDecided
  <2>2. temp' \subseteq Inits /\ temp' \ {i} \subseteq temp
    BY <1>1 DEF TypeInv, TypeOK, InitStep, Scan, Access, Open, Status, CheckExists, WriteTemp, CopyMode, Rename,
                Fail, Crash
  <2>3. i \in temp' => pc'[i] \in {"mode", "rename", "crashed"}
    BY <1>1 DEF TypeInv, TypeOK, TempsAreCleared, InitStep, Scan, Access, Open, Status, CheckExists, WriteTemp,
                CopyMode, Rename, Fail, Crash, Goto
  <2> QED
    BY <2>1, <2>2, <2>3 DEF TempsAreCleared
<1> QED
  BY <1>1 DEF Next, Edit, Commit, Develop, vars, gitVars, TempsAreCleared

-----------------------------------------------------------------------------
(* The inductive invariant *)

LEMMA InitIInv == Init => IInv
<1> SUFFICES ASSUME Init PROVE IInv
  OBVIOUS
<1>1. TypeInv
  BY InitTypeInv
<1>2. \A i \in Inits : pc[i] = "idle" /\ existing[i] = Absent
  BY DEF Init
<1>3. Decided /\ Seen
  BY <1>2 DEF Decided, DecidedOf, Seen, SeenOf, Cleared, Checked
<1>6. Scanned
  BY <1>2 DEF Scanned, ScannedOf
<1>4. NothingInvalidIsWritten
  BY DEF Init, NothingInvalidIsWritten, Typed, Files
<1>5. TempsAreCleared
  BY DEF Init, TempsAreCleared
<1> QED
  BY <1>1, <1>3, <1>4, <1>5, <1>6 DEF IInv

LEMMA NextIInv == IInv /\ [Next]_vars => IInv'
BY NextTypeInv, NextScanned, NextDecided, NextSeen, NextNothingInvalid, NextTempsAreCleared DEF IInv

LEMMA IInvHolds == Spec => []IInv
BY InitIInv, NextIInv, PTL DEF Spec

-----------------------------------------------------------------------------
(* The theorems *)

\* Whatever fails in an init, and whenever: what it wrote is a contract that validates, and a temporary file is
\* only left by a crash (proposal.ts, writer.ts).
THEOREM FilesStaySound == Spec => []FilesAreSound
<1>1. IInv => FilesAreSound
  BY DEF IInv, TypeInv, FilesAreSound
<1> QED
  BY <1>1, IInvHolds, PTL

\* Of an init that nothing disturbed: what it has seen of the file it replaces is what is there.
LEMMA SeenAtRename ==
    ASSUME IInv, NEW i \in Inits, Rename(i), calm[i]
    PROVE  /\ existing[i] = file["contract"]
           /\ place = "toplevel" /\ ~force[i] /\ answered[i] /\ Named(Target(i))
                  => file[Target(i)] = head[Target(i)]
           /\ TargetAction(i) = "create" /\ ~force[i] => file[Target(i)] = Absent
           /\ TargetAction(i) \in {"create", "update"}
           /\ DOMAIN file = Files /\ file' = [file EXCEPT ![Target(i)] = Content(i)]
BY DEF IInv, Seen, SeenOf, Decided, DecidedOf, Rename, Cleared, Checked, TypeInv, Shaped

\* No work of a maintainer is lost to an init that nothing disturbed: what is not committed, a contract that does
\* not validate, a draft (worktree.ts, artifact.ts, writer.ts).
THEOREM WorkStays == Spec => WorkIsKept
<1>1. ASSUME IInv, NEW i \in Inits, Rename(i), calm[i]
      PROVE  /\ \A t \in Files : file'[t] # file[t] /\ place = "toplevel" /\ ~force[i] /\ answered[i] /\ Named(t)
                    => file[t] = head[t]
             /\ file["contract"] # Absent /\ ~Valid(file["contract"].contract) => file'["contract"] = file["contract"]
             /\ ~force[i] /\ TargetAction(i) = "create" => file[Target(i)] = Absent
  <2>1. \A t \in Files : file'[t] # file[t] => t = Target(i)
    BY <1>1, SeenAtRename
  <2>2. file["contract"] # Absent /\ ~Valid(file["contract"].contract) => Target(i) = "sidecar"
    BY <1>1, SeenAtRename DEF Target, Unreadable, Parses
  <2> QED
    BY <1>1, <2>1, <2>2, SeenAtRename DEF Files
<1>2. IInv /\ [Next]_vars =>
          [\A i \in Inits, t \in Files :
              (/\ Rename(i) /\ file'[t] # file[t] /\ calm[i] /\ ~force[i]
               /\ place = "toplevel" /\ answered[i] /\ Named(t))
                  => file[t] = head[t]]_vars
  BY <1>1
<1>3. IInv /\ [Next]_vars =>
          [\A i \in Inits :
              (Rename(i) /\ calm[i] /\ file["contract"] # Absent /\ ~Valid(file["contract"].contract))
                  => file'["contract"] = file["contract"]]_vars
  BY <1>1
<1>4. IInv /\ [Next]_vars =>
          [\A i \in Inits :
              (Rename(i) /\ calm[i] /\ ~force[i] /\ TargetAction(i) = "create")
                  => file[Target(i)] = Absent]_vars
  BY <1>1
<1> QED
  BY <1>2, <1>3, <1>4, IInvHolds, PTL DEF Spec, WorkIsKept, UncommittedIsKept, InvalidIsKept, DraftIsKept

\* An update has every entry of what it replaces.
LEMMA OverHas == ASSUME NEW e, NEW g PROVE Has(Over(e, g), e)
BY DEF Has, Over

LEMMA ListHas == ASSUME NEW e, NEW g PROVE HasLast(MergedList(e, g), e)
BY DEF HasLast, MergedList

Keeps(new, old) ==
    /\ Has(new.applications, old.applications) /\ Has(new.services, old.services)
    /\ Has(new.environment, old.environment) /\ Has(new.setup, old.setup)
    /\ Has(new.limitations, old.limitations) /\ Has(new.systems, old.systems)
    /\ HasLast(new.generated, old.generated) /\ HasLast(new.unsafe, old.unsafe)
    /\ HasLast(new.sensitive, old.sensitive) /\ HasLast(new.related, old.related)
    /\ new.purpose = old.purpose /\ new.steps = old.steps
    /\ new.verification = old.verification

LEMMA MergedHas ==
    ASSUME NEW e, NEW g, IsContract(e), IsContract(g)
    PROVE  Keeps(Written(Merged(e, g)), Written(e))
<1> DEFINE old == Written(e)
           merged == Merged(e, g)
           new == Written(merged)
<1>1. IsContract(merged)
  BY MergedIsContract
<1>2. /\ old.applications = e.applications /\ old.environment = e.environment /\ old.setup = e.setup
      /\ old.limitations = e.limitations /\ old.systems = e.systems /\ old.generated = e.generated
      /\ old.unsafe = e.unsafe /\ old.sensitive = e.sensitive /\ old.purpose = e.purpose
      /\ old.steps = e.steps /\ old.verification = e.verification /\ old.related = e.related
  BY WrittenIsContract DEF Sections
<1>3. /\ new.applications = merged.applications /\ new.environment = merged.environment /\ new.setup = merged.setup
      /\ new.limitations = merged.limitations /\ new.systems = merged.systems /\ new.generated = merged.generated
      /\ new.unsafe = merged.unsafe /\ new.sensitive = merged.sensitive /\ new.purpose = merged.purpose
      /\ new.steps = merged.steps /\ new.verification = merged.verification /\ new.related = merged.related
  BY <1>1, WrittenIsContract DEF Sections
<1>4. /\ merged.applications = Over(e.applications, g.applications)
      /\ merged.environment = Over(e.environment, g.environment) /\ merged.setup = Over(e.setup, g.setup)
      /\ merged.limitations = Over(e.limitations, g.limitations) /\ merged.systems = Over(e.systems, g.systems)
      /\ merged.services = Over(e.services, g.services)
      /\ merged.purpose = e.purpose /\ merged.steps = e.steps /\ merged.verification = e.verification
      /\ merged.generated = MergedList(e.generated, g.generated) /\ merged.unsafe = MergedList(e.unsafe, g.unsafe)
      /\ merged.sensitive = MergedList(e.sensitive, g.sensitive)
      /\ merged.related = MergedList(e.related, g.related)
  BY DEF Merged, MergedRecord
<1>5. Has(new.services, old.services)
  <2>1. old.services = [s \in DOMAIN e.services |-> [e.services[s] EXCEPT !.required = TRUE]]
    BY DEF Written, IsContract, Sections
  <2>2. new.services = [s \in DOMAIN merged.services |-> [merged.services[s] EXCEPT !.required = TRUE]]
    BY <1>1 DEF Written, IsContract, Sections
  <2>3. \A s \in DOMAIN e.services : s \in DOMAIN merged.services /\ merged.services[s] = e.services[s]
    BY <1>4 DEF Over
  <2> DEFINE Needed(x) == [x EXCEPT !.required = TRUE]
  <2>4. old.services = [s \in DOMAIN e.services |-> Needed(e.services[s])]
        /\ new.services = [s \in DOMAIN merged.services |-> Needed(merged.services[s])]
    BY <2>1, <2>2
  <2> HIDE DEF old, new, merged, Needed
  <2> QED
    BY <2>3, <2>4 DEF Has
<1> HIDE DEF old, new, merged
<1>6. /\ Has(new.applications, old.applications) /\ Has(new.environment, old.environment)
      /\ Has(new.setup, old.setup) /\ Has(new.limitations, old.limitations) /\ Has(new.systems, old.systems)
  BY <1>2, <1>3, <1>4, OverHas
<1>7. new.purpose = old.purpose /\ new.steps = old.steps /\ new.verification = old.verification
  BY <1>2, <1>3, <1>4
<1>8. /\ HasLast(new.generated, old.generated) /\ HasLast(new.unsafe, old.unsafe)
      /\ HasLast(new.sensitive, old.sensitive) /\ HasLast(new.related, old.related)
  BY <1>2, <1>3, <1>4, ListHas
<1> QED
  <2>1. Keeps(new, old)
    BY <1>5, <1>6, <1>7, <1>8 DEF Keeps
  <2> QED
    BY <2>1 DEF old, new, merged

\* An init that nothing disturbed takes nothing from the contract it updates, but of items of a list with one
\* pattern or name all but the last (merge-contract.ts).
THEOREM ExistingStays == Spec => ExistingIsKept
<1>1. ASSUME IInv, NEW i \in Inits, Rename(i), calm[i], TargetAction(i) = "update"
      PROVE  Keeps(file'["contract"].contract, Written(file["contract"].contract))
  <2> DEFINE e == existing[i].contract
             g == generated[i]
  <2>1. existing[i] # Absent /\ Parses(existing[i]) /\ Target(i) = "contract"
    BY <1>1 DEF TargetAction, Action, Unreadable, Target
  <2>2. file["contract"] = existing[i] /\ file'["contract"] = Content(i)
    BY <1>1, <2>1, SeenAtRename DEF Files
  <2>3. Content(i).contract = Written(Merged(e, g))
    BY <2>1 DEF Content, Text, Proposed
  <2>4. IsContract(e) /\ IsContract(g)
    BY <1>1, <2>1 DEF IInv, TypeInv, Shaped, Rename
  <2>5. file["contract"].contract = e /\ file'["contract"].contract = Written(Merged(e, g))
    BY <2>2, <2>3
  <2> HIDE DEF e, g
  <2> QED
    BY <2>4, <2>5, MergedHas
<1>2. IInv /\ [Next]_vars =>
          [\A i \in Inits :
              (Rename(i) /\ calm[i] /\ TargetAction(i) = "update") =>
                  LET old == Written(file["contract"].contract)
                      new == file'["contract"].contract
                  IN  /\ Has(new.applications, old.applications) /\ Has(new.services, old.services)
                      /\ Has(new.environment, old.environment) /\ Has(new.setup, old.setup)
                      /\ Has(new.limitations, old.limitations) /\ Has(new.systems, old.systems)
                      /\ HasLast(new.generated, old.generated) /\ HasLast(new.unsafe, old.unsafe)
                      /\ HasLast(new.sensitive, old.sensitive) /\ HasLast(new.related, old.related)
                      /\ new.purpose = old.purpose /\ new.steps = old.steps
                      /\ new.verification = old.verification]_vars
  BY <1>1 DEF Keeps
<1> QED
  BY <1>2, IInvHolds, PTL DEF Spec, ExistingIsKept

-----------------------------------------------------------------------------
(* Generated contracts *)

\* Only Compose files have services.
LEMMA OthersFindNoService ==
    ASSUME NEW t, NEW d \in Detectors \ {Aggregator, "compose"}, NEW f \in Emitted(d, t)
    PROVE  f.kind # "service"
<1>1. \A x \in CommandFacts(t) : x.kind = "command"
  BY DEF CommandFacts, Command
<1>2. \A by : \A x \in FrameworkFacts(by, t) : x.kind \in {"framework", "application"}
  BY DEF FrameworkFacts, Framework, Application
<1>3. \A by : \A x \in EntryFacts(by, t) : x.kind = "entrypoint"
  BY DEF EntryFacts, Signal
<1>4. \A by : \A x \in RoutesOf(by, t) : x.kind = "route"
  BY DEF RoutesOf, Signal
<1>5. \A by : \A x \in CommandsOf(by, t) : x.kind = "command"
  BY DEF CommandsOf, Command
<1>6. \A x \in ManifestFacts(t) : x.kind \in {"application", "command"}
  BY <1>1 DEF ManifestFacts, Application
<1>7. \A x \in ProjectFacts(t) : x.kind \in {"application", "dependency", "framework"}
  BY <1>2 DEF ProjectFacts, Application, Dependency
<1>8. \A x \in SourceFacts(t) : x.kind \in {"entrypoint", "dependency"}
  BY <1>3 DEF SourceFacts, Dependency
<1>9. \A x \in ExampleFacts(t) \cup EnvironmentFacts(t) : x.kind = "variable"
  BY DEF ExampleFacts, EnvironmentFacts, Variable
<1>10. \A x \in DependencyFacts(t) : x.kind = "dependency"
  BY DEF DependencyFacts, Dependency
<1>11. \A x \in SeedFacts(t) \cup OutputFacts(t) \cup WorkerFacts(t) : x.kind \in {"seed", "output", "worker"}
  BY DEF SeedFacts, OutputFacts, WorkerFacts, Signal
<1>12. CASE d \in {"manifest", "framework", "command", "entrypoint", "route", "environment"}
  BY <1>1, <1>2, <1>3, <1>4, <1>6, <1>9, <1>12 DEF Emitted, RouteFacts
<1>13. CASE d \in {"python-manifest", "python-source", "python-framework", "python-command", "python-route"}
  BY <1>2, <1>4, <1>5, <1>7, <1>8, <1>13
     DEF Emitted, PythonFrameworkFacts, PythonCommandFacts, PythonRouteFacts
<1>14. CASE d \in {"dockerfile", "devcontainer", "github-actions", "makefile"}
  BY <1>5, <1>14 DEF Emitted, DockerfileFacts, DevContainerFacts, WorkflowFacts, MakefileFacts
<1>15. CASE d \in {"example", "dependency", "seed", "worker", "output"}
  BY <1>9, <1>10, <1>11, <1>15 DEF Emitted
<1> QED
  BY <1>12, <1>13, <1>14, <1>15 DEF Detectors

\* Whichever detectors failed, the variables of a service are found with it.
LEMMA ServicesHaveVariables ==
    ASSUME NEW t, NEW failed, NEW f \in ScanFacts(t, failed), f.kind = "service", NEW n \in f.environment
    PROVE  \E v \in ScanFacts(t, failed) : v.kind = "variable" /\ v.name = n
<1> DEFINE found == UNION {Emitted(d, t) : d \in Detectors \ (failed \cup {Aggregator})}
<1>1. found \subseteq ScanFacts(t, failed)
  BY DEF ScanFacts
<1>2. \A x \in AggregatorFacts(t, found) : x.kind = "application"
  <2>1. \A by, path, name, type, confidence : Application(by, path, name, type, confidence).kind = "application"
    BY DEF Application
  <2>2. \A x \in AggregatorFacts(t, found) :
            \E path, name, type, confidence : x = Application(Aggregator, path, name, type, confidence)
    BY Zenon DEF AggregatorFacts
  <2> QED
    BY <2>1, <2>2
<1>3. f \in found
  BY <1>2 DEF ScanFacts
<1>4. PICK d \in Detectors \ (failed \cup {Aggregator}) : f \in Emitted(d, t)
  BY <1>3
<1>5. d = "compose"
  BY <1>4, OthersFindNoService
<1>6. Emitted(d, t) = ComposeFacts(t) /\ ComposeFacts(t) \subseteq found
  <2>1. Emitted("compose", t) = ComposeFacts(t)
    BY DEF Emitted
  <2> QED
    BY <1>4, <1>5, <2>1
<1>7. PICK s \in t.compose : f.environment = s.environment
  <2>1. \A x \in CommandsOf("compose", t) : x.kind = "command"
    BY DEF CommandsOf, Command
  <2> QED
    BY <1>4, <1>6, <2>1 DEF ComposeFacts, Variable, Dependency
<1>8. Variable(n, s.name) \in ComposeFacts(t)
  BY <1>7 DEF ComposeFacts
<1> QED
  BY <1>1, <1>6, <1>8 DEF Variable

\* A contract that only refers to what it holds.
Closed(c) ==
    /\ DependenciesKnown(c) /\ VariablesProper(c) /\ ChecksKnown(c) /\ StepsKnown(c)
    /\ \A s \in DOMAIN c.services : c.services[s].environment \cap ProperNames \subseteq DOMAIN c.environment

LEMMA GeneratedCloses ==
    ASSUME NEW t, NEW failed, NEW id
    PROVE  Closed(Generated(ScanFacts(t, failed), id))
<1> DEFINE facts == ScanFacts(t, failed)
           c == Generated(facts, id)
<1>1. /\ c.applications = Applications(id) /\ c.services = Services(facts) /\ c.environment = Environment(facts)
      /\ c.verification = Verification(facts) /\ c.steps = <<>>
  BY DEF Generated
<1>2. \A s \in DOMAIN Services(facts) :
          Services(facts)[s].environment \cap ProperNames \subseteq DOMAIN Environment(facts)
  <2> SUFFICES ASSUME NEW s \in DOMAIN Services(facts), NEW n \in Services(facts)[s].environment, n \in ProperNames
               PROVE  n \in DOMAIN Environment(facts)
    OBVIOUS
  <2> DEFINE of == CHOOSE f \in OfKind(facts, "service") : ServiceId(f) = s
  <2>1. of \in OfKind(facts, "service") /\ Services(facts)[s].environment = of.environment
    BY DEF Services
  <2>2. PICK v \in facts : v.kind = "variable" /\ v.name = n
    BY <2>1, ServicesHaveVariables DEF OfKind
  <2> HIDE DEF facts
  <2> QED
    BY <2>2 DEF Environment, OfKind
<1> HIDE DEF facts, c
<1>3. DependenciesKnown(c)
  BY <1>1 DEF DependenciesKnown, Applications
<1>4. VariablesProper(c)
  <2>1. DOMAIN c.environment \subseteq ProperNames
    BY <1>1 DEF Environment
  <2>2. \A n \in DOMAIN c.environment : c.environment[n].localDefault = FALSE
    <3> DEFINE Names == {f.name : f \in OfKind(facts, "variable")} \cap ProperNames
               Read(n) == [secret |-> n \in SecretNames, localDefault |-> FALSE]
    <3>1. c.environment = [n \in Names |-> Read(n)]
      BY <1>1 DEF Environment
    <3>2. \A n : Read(n).localDefault = FALSE
      OBVIOUS
    <3> HIDE DEF Names, Read
    <3> QED
      BY <3>1, <3>2
  <2> QED
    BY <2>1, <2>2, Zenon DEF VariablesProper
<1>5. ChecksKnown(c)
  BY <1>1 DEF ChecksKnown, Verification
<1>6. StepsKnown(c)
  BY <1>1 DEF StepsKnown
<1> QED
  BY <1>1, <1>2, <1>3, <1>4, <1>5, <1>6 DEF Closed, c, facts

\* A contract that was generated only refers to what it holds, whichever detectors failed (scanner.ts, init.ts).
THEOREM GeneratedStaysClosed == Spec => []GeneratedIsClosed
<1>1. ASSUME IInv, NEW i \in Inits, pc[i] # "idle"
      PROVE  Closed(generated[i])
  BY <1>1, GeneratedCloses DEF IInv, Scanned, ScannedOf
<1>2. IInv => GeneratedIsClosed
  BY <1>1 DEF GeneratedIsClosed, Closed
<1> QED
  BY <1>2, IInvHolds, PTL

-----------------------------------------------------------------------------
(* A second merge *)

IsMap(f) == f = [k \in DOMAIN f |-> f[k]]

Maps == {"applications", "services", "environment", "setup", "limitations", "systems"}

\* Of a list without repeated patterns or names: each item is the last of its own.
Singles(p) == p = [k \in DOMAIN p |-> <<Last(p[k])>>]

Lists == {"generated", "sensitive", "unsafe", "related"}

LEMMA OverMap == ASSUME NEW e, NEW g PROVE IsMap(Over(e, g)) /\ DOMAIN Over(e, g) = DOMAIN e \cup DOMAIN g
BY DEF Over, IsMap

\* What was merged in has nothing to add.
LEMMA OverAgain ==
    ASSUME NEW p, NEW g, IsMap(p), DOMAIN g \subseteq DOMAIN p
    PROVE  Over(p, g) = p
<1>1. DOMAIN p \cup DOMAIN g = DOMAIN p
  OBVIOUS
<1>2. Over(p, g) = [k \in DOMAIN p |-> p[k]]
  BY <1>1 DEF Over
<1> QED
  BY <1>2 DEF IsMap

LEMMA ListSingles ==
    ASSUME NEW e, NEW g
    PROVE  Singles(MergedList(e, g)) /\ DOMAIN MergedList(e, g) = DOMAIN e \cup DOMAIN g
<1> DEFINE Item(k) == IF k \in DOMAIN e THEN Last(e[k]) ELSE Last(g[k])
<1>1. \A x : Last(<<x>>) = x
  BY DEF Last
<1>2. MergedList(e, g) = [k \in DOMAIN e \cup DOMAIN g |-> <<Item(k)>>]
  BY DEF MergedList
<1> HIDE DEF Item
<1> QED
  BY <1>1, <1>2 DEF Singles

\* What was merged in has nothing to add.
LEMMA ListAgain ==
    ASSUME NEW p, NEW g, Singles(p), DOMAIN g \subseteq DOMAIN p
    PROVE  MergedList(p, g) = p
<1>1. DOMAIN p \cup DOMAIN g = DOMAIN p
  OBVIOUS
<1>2. MergedList(p, g) = [k \in DOMAIN p |-> <<Last(p[k])>>]
  BY <1>1 DEF MergedList
<1> QED
  BY <1>2 DEF Singles

LEMMA GeneratedMaps ==
    ASSUME NEW facts, NEW id, NEW k \in Maps
    PROVE  IsMap(Generated(facts, id)[k])
<1> DEFINE c == Generated(facts, id)
<1>1. /\ c["applications"] = Applications(id) /\ c["services"] = Services(facts)
      /\ c["environment"] = Environment(facts) /\ c["setup"] = Setup(facts)
      /\ c["limitations"] = Limitations(facts) /\ c["systems"] = Systems(facts)
  BY DEF Generated
<1> HIDE DEF c
<1>2. IsMap(Applications(id)) /\ IsMap(Services(facts))
  BY DEF Applications, Services, IsMap
<1>3. IsMap(Environment(facts)) /\ IsMap(Systems(facts))
  BY DEF Environment, Systems, IsMap
<1>4. IsMap(Setup(facts)) /\ IsMap(Limitations(facts))
  BY DEF Setup, Limitations, IsMap
<1> QED
  BY <1>1, <1>2, <1>3, <1>4 DEF Maps, c

LEMMA GeneratedLists ==
    ASSUME NEW facts, NEW id, NEW k \in Lists
    PROVE  Singles(Generated(facts, id)[k])
<1> DEFINE c == Generated(facts, id)
<1>1. /\ c["generated"] = GeneratedFiles(facts) /\ c["sensitive"] = SensitivePaths(facts)
      /\ c["unsafe"] = UnsafePaths(facts) /\ c["related"] = <<>>
  BY DEF Generated
<1> HIDE DEF c
<1>2. Last(<<"scanned">>) = "scanned"
  BY DEF Last
<1>3. \A patterns : Singles([p \in patterns |-> <<"scanned">>])
  BY <1>2 DEF Singles
<1>4. Singles(GeneratedFiles(facts)) /\ Singles(SensitivePaths(facts)) /\ Singles(UnsafePaths(facts))
  BY <1>3 DEF GeneratedFiles, SensitivePaths, UnsafePaths
<1>5. Singles(<<>>)
  BY DEF Singles
<1> QED
  BY <1>1, <1>4, <1>5 DEF Lists, c

\* What is written of the services.
Pruned(services) == [s \in DOMAIN services |-> [services[s] EXCEPT !.required = TRUE]]

LEMMA PrunedAgain == ASSUME NEW f PROVE Pruned(Pruned(f)) = Pruned(f) /\ IsMap(Pruned(f)) /\ DOMAIN Pruned(f) = DOMAIN f
<1> DEFINE Needed(x) == [x EXCEPT !.required = TRUE]
<1>1. \A x : Needed(Needed(x)) = Needed(x)
  OBVIOUS
<1>2. \A h : Pruned(h) = [s \in DOMAIN h |-> Needed(h[s])]
  BY DEF Pruned
<1> HIDE DEF Needed
<1> QED
  BY <1>1, <1>2 DEF IsMap

LEMMA WrittenBySection ==
    ASSUME NEW c, IsContract(c)
    PROVE  Written(c) = [k \in Sections |-> IF k = "services" THEN Pruned(c.services) ELSE c[k]]
<1>1. Written(c) = [c EXCEPT !.services = Pruned(c.services)]
  BY DEF Written, Pruned
<1> QED
  BY <1>1 DEF IsContract

\* A contract that a merge with g adds nothing to.
Settled(p, g) ==
    /\ IsContract(p)
    /\ \A k \in Maps : IsMap(p[k]) /\ DOMAIN g[k] \subseteq DOMAIN p[k]
    /\ \A k \in Lists : Singles(p[k]) /\ DOMAIN g[k] \subseteq DOMAIN p[k]

LEMMA MergeSettles ==
    ASSUME NEW e, NEW g, IsContract(e), IsContract(g)
    PROVE  Settled(Merged(e, g), g)
<1> DEFINE p == Merged(e, g)
<1>1. IsContract(p)
  BY MergedIsContract
<1>2. \A k \in Maps : p[k] = Over(e[k], g[k])
  BY DEF Merged, MergedRecord, Maps
<1>3. \A k \in Lists : p[k] = MergedList(e[k], g[k])
  BY DEF Merged, Lists
<1> HIDE DEF p
<1>5. \A k \in Lists : Singles(p[k]) /\ DOMAIN g[k] \subseteq DOMAIN p[k]
  <2> SUFFICES ASSUME NEW k \in Lists PROVE Singles(p[k]) /\ DOMAIN g[k] \subseteq DOMAIN p[k]
    OBVIOUS
  <2>1. Singles(MergedList(e[k], g[k])) /\ DOMAIN MergedList(e[k], g[k]) = DOMAIN e[k] \cup DOMAIN g[k]
    BY ListSingles
  <2>2. p[k] = MergedList(e[k], g[k])
    BY <1>3
  <2> QED
    BY <2>1, <2>2
<1>6. ASSUME NEW k \in Maps
      PROVE  IsMap(p[k]) /\ DOMAIN g[k] \subseteq DOMAIN p[k]
  <2>1. IsMap(Over(e[k], g[k])) /\ DOMAIN Over(e[k], g[k]) = DOMAIN e[k] \cup DOMAIN g[k]
    BY OverMap
  <2>2. p[k] = Over(e[k], g[k])
    BY <1>2
  <2> QED
    BY <2>1, <2>2
<1> QED
  BY <1>1, <1>5, <1>6 DEF Settled, p

LEMMA GeneratedSettles ==
    ASSUME NEW facts, NEW id
    PROVE  Settled(Generated(facts, id), Generated(facts, id))
BY GeneratedMaps, GeneratedLists, GeneratedIsContract DEF Settled

\* What was written and is merged again is written as it is.
LEMMA WrittenAgain ==
    ASSUME NEW p, NEW g, Settled(p, g), IsContract(g)
    PROVE  Written(Merged(Written(p), g)) = Written(p)
<1> DEFINE w == Written(p)
           m == Merged(w, g)
<1>1. w = [k \in Sections |-> IF k = "services" THEN Pruned(p.services) ELSE p[k]]
  BY WrittenBySection DEF Settled
<1>2. IsContract(w) /\ IsContract(m)
  BY WrittenIsContract, MergedIsContract DEF Settled
<1>3. /\ \A k \in Maps : m[k] = Over(w[k], g[k])
      /\ \A k \in Lists : m[k] = MergedList(w[k], g[k])
      /\ m["verification"] = w.verification /\ m["purpose"] = w.purpose /\ m["steps"] = w.steps
  BY DEF Merged, MergedRecord, Maps, Lists
<1> HIDE DEF w, m
<1>4. m["services"] = Pruned(p.services)
  <2>1. IsMap(w["services"]) /\ DOMAIN g["services"] \subseteq DOMAIN w["services"]
    BY <1>1, PrunedAgain DEF Settled, Maps, Sections
  <2> QED
    BY <1>1, <1>3, <2>1, OverAgain DEF Maps, Sections
<1>5. \A k \in Maps \ {"services"} : m[k] = p[k]
  <2>1. \A k \in Maps \ {"services"} : w[k] = p[k]
    BY <1>1 DEF Maps, Sections
  <2> QED
    BY <1>3, <2>1, OverAgain DEF Settled
<1>6. \A k \in Lists : m[k] = p[k]
  <2>1. \A k \in Lists : w[k] = p[k]
    BY <1>1 DEF Lists, Sections
  <2> QED
    BY <1>3, <2>1, ListAgain DEF Settled
<1>11. m["verification"] = p["verification"] /\ m["purpose"] = p["purpose"] /\ m["steps"] = p["steps"]
  BY <1>1, <1>3 DEF Sections
<1>7. \A k \in Sections \ {"services"} : m[k] = p[k]
  BY <1>5, <1>6, <1>11 DEF Maps, Lists, Sections
<1>8. Written(m) = [k \in Sections |-> IF k = "services" THEN Pruned(m.services) ELSE m[k]]
  BY <1>2, WrittenBySection
<1>9. Pruned(m.services) = Pruned(p.services)
  BY <1>4, PrunedAgain
<1>10. Written(m) = w
  BY <1>1, <1>7, <1>8, <1>9
<1> QED
  BY <1>10 DEF m, w

\* With "no file" told from every file there can be: an init that finds the contract it would
\* write, as the one that wrote it left it, leaves it alone (artifact.ts, serialize.ts).
THEOREM WritesSettle ==
    ASSUME \A c : Text(c) # Absent
    PROVE  Spec => []SettledAfterWrite
<1>1. ASSUME IInv, NEW i \in Inits, pc[i] = "done", mode[i] = "write", file[Target(i)] = Content(i),
             Target(i) = "contract"
      PROVE  Action(file["contract"], generated[i]) = "unchanged"
  <2> DEFINE g == generated[i]
             p == Proposed(existing[i], g)
  <2>1. Valid(p) /\ IsContract(g)
    BY <1>1 DEF IInv, Decided, DecidedOf, TypeInv, Shaped
  <2>2. Settled(p, g)
    <3>1. CASE existing[i] = Absent
      <4>1. p = g
        BY <3>1 DEF Proposed
      <4>2. Settled(g, g)
        BY <1>1, GeneratedSettles DEF IInv, Scanned, ScannedOf
      <4> QED
        BY <4>1, <4>2
    <3>2. CASE existing[i] # Absent
      <4>1. Parses(existing[i]) /\ IsContract(existing[i].contract)
        BY <1>1, <3>2 DEF IInv, TypeInv, Shaped, Target, Unreadable
      <4>2. p = Merged(existing[i].contract, g)
        BY <3>2, <4>1 DEF Proposed
      <4> QED
        BY <2>1, <4>1, <4>2, MergeSettles
    <3> QED
      BY <3>1, <3>2
  <2>3. file["contract"] = Text(p)
    BY <1>1 DEF Content
  <2> HIDE DEF p, g
  <2>4. Valid(Written(p)) /\ Written(Merged(Written(p), g)) = Written(p)
    BY <2>1, <2>2, WrittenIsValid, WrittenAgain DEF Settled
  <2>5. Text(p).contract = Written(p) /\ Text(p) # Absent
    BY DEF Text
  <2>6. Parses(Text(p)) /\ Proposed(Text(p), g) = Merged(Written(p), g)
    BY <2>4, <2>5 DEF Parses, Proposed
  <2>7. Text(Proposed(Text(p), g)) = Text(p)
    BY <2>4, <2>6 DEF Text
  <2>8. Action(Text(p), g) = "unchanged"
    BY <2>5, <2>6, <2>7 DEF Action
  <2> QED
    BY <2>3, <2>8 DEF g
<1>2. IInv => SettledAfterWrite
  BY <1>1 DEF SettledAfterWrite
<1> QED
  BY <1>2, IInvHolds, PTL

=============================================================================
