-------------------------------- MODULE InitRun --------------------------------
(***************************************************************************)
(* `board init` (init-core/init.ts): scan the repository, read the         *)
(* contract that is there, merge, look at the worktree, write.  Between    *)
(* the reads and the rename that puts the new file in place maintainers    *)
(* edit and commit, and other commands run.  A contract that cannot be     *)
(* read is left alone and the draft goes to a file beside it.              *)
(***************************************************************************)
EXTENDS ScanToContract

CONSTANTS
    Inits,         \* invocations of the command
    Trees,         \* what a repository's files hold
    Drafts,        \* contracts that maintainers type
    MayFail,       \* detectors that may fail,
    MaxFailed,     \* and how many of them in one scan
    MaxEdits       \* changes that maintainers make

ASSUME InitAssumption == MaxEdits \in Nat /\ \A d \in Drafts : IsContract(d)

VARIABLES
    tree,          \* the repository's files
    place,         \* the root: a worktree's top level, below one, or in none
    file,          \* the contract and the draft beside it, on disk
    head,          \* and as committed
    ignored,       \* the files that Git ignores
    renamed,       \* and those that Git takes for renamed, not committed yet
    temp,          \* the inits whose temporary file is on disk
    pc, mode, force, \* of an init: where it is, and its options
    failures,      \* the detectors of its scan that failed
    generated,     \* the contract generated from its scan
    existing,      \* the contract file it read
    answered,      \* whether git status has not failed for it
    replaces,      \* whether the file was there when it checked
    calm,          \* nothing else changed a file since it began
    edits

gitVars == <<place, head, ignored, renamed>>

vars == <<tree, file, gitVars, temp, pc, mode, force, failures, generated, existing, answered, replaces, calm, edits>>

Files == {"contract", "sidecar"}
Places == {"toplevel", "below", "none"}
Steps == {"idle", "read", "open", "status", "check", "write", "mode", "rename", "done", "unchanged",
          "blocked", "failed", "crashed"}
Running(i) == pc[i] \in {"read", "open", "status", "check", "write", "mode", "rename"}

(***************************** The proposal ********************************)
Parses(f) == Valid(f.contract)

\* The file was read and cannot be parsed or does not validate.
Unreadable(i) == existing[i] # Absent /\ ~Parses(existing[i])

Proposed(e, g) ==
    IF e = Absent THEN g ELSE IF Parses(e) THEN Merged(e.contract, g) ELSE g

\* Bug: the text that is there is compared with the scan, not with the merge.
AgainstGenerated(e, g) ==
    IF e = Absent THEN "create"
    ELSE IF ~Parses(e) THEN "skip" ELSE IF e = Text(g) THEN "unchanged" ELSE "update"

\* The text that is there is compared with the one to be written.
Action(e, g) ==
    IF e = Absent THEN "create"
    ELSE IF ~Parses(e) THEN "skip"
    ELSE IF e = Text(Proposed(e, g)) THEN "unchanged" ELSE "update"

\* The one artifact with content: the contract, or the draft for one that cannot be read.
Target(i) == IF Unreadable(i) THEN "sidecar" ELSE "contract"
TargetAction(i) == IF Unreadable(i) THEN "create" ELSE Action(existing[i], generated[i])
Content(i) == Text(Proposed(existing[i], generated[i]))

\* Does git status name a file when it is not as committed?  One that is renamed it names as
\* "old -> new", one that is ignored and was never committed not at all.
Named(t) == t \notin renamed /\ ~(t \in ignored /\ head[t] = Absent)

\* Bug: a file to update is not looked for.
DirtyCreated(i) ==
    IF place = "toplevel" /\ TargetAction(i) = "create"
    THEN {t \in {Target(i)} : Named(t) /\ file[t] # head[t]} ELSE {}

\* The paths of git status are relative to the top level, the targets to the root.
DirtyTargets(i) ==
    IF place = "toplevel" /\ TargetAction(i) \in {"create", "update"}
    THEN {t \in {Target(i)} : Named(t) /\ file[t] # head[t]} ELSE {}

(******************************* The command *******************************)
Init ==
    /\ tree \in Trees /\ place \in Places
    /\ file \in [Files -> {Absent}] \cup {[t \in Files |-> IF t = "contract" THEN Typed(d) ELSE Absent] : d \in Drafts}
    /\ head \in {file, [t \in Files |-> Absent]}
    /\ ignored \in SUBSET Files
    /\ renamed \in SUBSET {t \in Files : place # "none" /\ file[t] # Absent /\ head[t] = Absent}
    /\ temp = {}
    /\ pc = [i \in Inits |-> "idle"]
    /\ mode = [i \in Inits |-> "dry-run"] /\ force = [i \in Inits |-> FALSE]
    /\ failures = [i \in Inits |-> {}]
    /\ generated = [i \in Inits |-> Absent] /\ existing = [i \in Inits |-> Absent]
    /\ answered = [i \in Inits |-> TRUE]
    /\ replaces = [i \in Inits |-> FALSE] /\ calm = [i \in Inits |-> TRUE]
    /\ edits = 0

Goto(i, step) == pc' = [pc EXCEPT ![i] = step]

Failing == {f \in SUBSET (MayFail \cap Detectors) : Cardinality(f) <= MaxFailed}

\* scanRepository and the mapping of its facts.  It reads the tree file by file; here at once.
Scan(i) ==
    /\ pc[i] = "idle"
    /\ \E failed \in Failing :
          /\ failures' = [failures EXCEPT ![i] = failed]
          /\ \E facts \in {ScanFacts(tree, failed)} : \E id \in ApplicationIds(facts) :
                generated' = [generated EXCEPT ![i] = Generated(facts, id)]
    /\ \E m \in {"dry-run", "write"} : mode' = [mode EXCEPT ![i] = m]
    /\ \E f \in BOOLEAN : force' = [force EXCEPT ![i] = f]
    /\ Goto(i, "read")
    /\ UNCHANGED <<tree, file, gitVars, temp, existing, answered, replaces, calm, edits>>

\* readExistingContract: is it there?
Access(i) ==
    /\ pc[i] = "read"
    /\ Goto(i, IF file["contract"] = Absent THEN "status" ELSE "open")
    /\ UNCHANGED <<tree, file, gitVars, temp, mode, force, failures, generated, existing, answered, replaces, calm, edits>>

\* Then it is read, if it is still there.
Open(i) ==
    /\ pc[i] = "open"
    /\ existing' = [existing EXCEPT ![i] = file["contract"]]
    /\ Goto(i, IF file["contract"] = Absent THEN "failed" ELSE "status")
    /\ UNCHANGED <<tree, file, gitVars, temp, mode, force, failures, generated, answered, replaces, calm, edits>>

\* The proposal is built and serialized, which throws when it does not validate; then the
\* worktree is looked at.  Where git status fails, whatever for, there is nothing dirty.
Allowed(i, answers) ==
    IF mode[i] # "write" THEN "done"
    ELSE IF answers /\ DirtyTargets(i) # {} /\ ~force[i] THEN "blocked"
    ELSE IF TargetAction(i) = "unchanged" THEN "unchanged"
    ELSE "check"

\* Bug: what was merged is not validated.
Unvalidated(i) ==
    /\ pc[i] = "status"
    /\ \E answers \in BOOLEAN :
          answered' = [answered EXCEPT ![i] = answers] /\ Goto(i, Allowed(i, answers))
    /\ UNCHANGED <<tree, file, gitVars, temp, mode, force, failures, generated, existing, replaces, calm, edits>>

\* What would be written is validated first.
Status(i) ==
    /\ pc[i] = "status"
    /\ \E answers \in BOOLEAN :
          /\ answered' = [answered EXCEPT ![i] = answers]
          /\ Goto(i, IF Valid(Proposed(existing[i], generated[i])) THEN Allowed(i, answers) ELSE "failed")
    /\ UNCHANGED <<tree, file, gitVars, temp, mode, force, failures, generated, existing, replaces, calm, edits>>

\* writeFileArtifact: a file to create must not be there, a file to update must.
CheckExists(i) ==
    /\ pc[i] = "check"
    /\ LET exists == file[Target(i)] # Absent
       IN  /\ replaces' = [replaces EXCEPT ![i] = exists]
           /\ Goto(i, IF \/ TargetAction(i) = "create" /\ exists /\ ~force[i]
                         \/ TargetAction(i) = "update" /\ ~exists
                      THEN "failed" ELSE "write")
    /\ UNCHANGED <<tree, file, gitVars, temp, mode, force, failures, generated, existing, answered, calm, edits>>

WriteTemp(i) ==
    /\ pc[i] = "write"
    /\ temp' = temp \cup {i}
    /\ Goto(i, IF replaces[i] THEN "mode" ELSE "rename")
    /\ UNCHANGED <<tree, file, gitVars, mode, force, failures, generated, existing, answered, replaces, calm, edits>>

\* The mode of the file that was there is kept; it may be gone.
CopyMode(i) ==
    /\ pc[i] = "mode"
    /\ file[Target(i)] # Absent
    /\ Goto(i, "rename")
    /\ UNCHANGED <<tree, file, gitVars, temp, mode, force, failures, generated, existing, answered, replaces, calm, edits>>

Disturbed(others) == [i \in Inits |-> calm[i] /\ ~(i \in others /\ Running(i))]

Rename(i) ==
    /\ pc[i] = "rename"
    /\ file' = [file EXCEPT ![Target(i)] = Content(i)]
    /\ temp' = temp \ {i}
    /\ calm' = Disturbed(Inits \ {i})
    /\ Goto(i, "done")
    /\ UNCHANGED <<tree, gitVars, mode, force, failures, generated, existing, answered, replaces, edits>>

\* mkdir, the write, the mode or the rename fails: the temporary file is removed.
Fail(i) ==
    /\ pc[i] \in {"write", "mode", "rename"}
    /\ temp' = temp \ {i}
    /\ Goto(i, "failed")
    /\ UNCHANGED <<tree, file, gitVars, mode, force, failures, generated, existing, answered, replaces, calm, edits>>

\* Before that, one that crashed leaves nothing and is one that takes no further step.
Crash(i) ==
    /\ pc[i] \in {"mode", "rename"}
    /\ Goto(i, "crashed")
    /\ UNCHANGED <<tree, file, gitVars, temp, mode, force, failures, generated, existing, answered, replaces, calm, edits>>

(***************************** The maintainers *****************************)
\* Git has nothing of a file, so that it may come by `git mv`.
Uncommitted(t) == place # "none" /\ head[t] = Absent

Edit(t, content) ==
    /\ edits < MaxEdits /\ content # file[t]
    /\ file' = [file EXCEPT ![t] = content]
    /\ renamed' \in {renamed} \cup {r \in {renamed \cup {t}} : Uncommitted(t) /\ content # Absent}
    /\ calm' = Disturbed(Inits) /\ edits' = edits + 1
    /\ UNCHANGED <<tree, place, head, ignored, temp, pc, mode, force, failures, generated, existing, answered, replaces>>

\* What is ignored is only committed when Git has it, from before or by a rename.
Commit ==
    /\ place # "none"
    /\ head' = [t \in Files |-> IF t \in ignored \ renamed /\ head[t] = Absent THEN Absent ELSE file[t]]
    /\ renamed' = {}
    /\ <<head', renamed'>> # <<head, renamed>>
    /\ UNCHANGED <<tree, file, place, ignored, temp, pc, mode, force, failures, generated, existing, answered, replaces, calm, edits>>

Develop ==
    /\ edits < MaxEdits
    /\ tree' \in Trees \ {tree} /\ edits' = edits + 1
    /\ UNCHANGED <<file, gitVars, temp, pc, mode, force, failures, generated, existing, answered, replaces, calm>>

InitStep(i) ==
    \/ Scan(i) \/ Access(i) \/ Open(i) \/ Status(i) \/ CheckExists(i)
    \/ WriteTemp(i) \/ CopyMode(i) \/ Rename(i) \/ Fail(i) \/ Crash(i)

Next ==
    \/ \E i \in Inits : InitStep(i)
    \/ \E t \in Files, d \in Drafts : Edit(t, Typed(d))
    \/ \E t \in Files : Edit(t, Absent)
    \/ Commit
    \/ Develop

Spec == Init /\ [][Next]_vars

(******************************* Properties ********************************)
IsFile(f) == f = Absent \/ DOMAIN f = {"form", "contract"}

\* Types, and that an init beyond its scan has a generated contract: what its proposal,
\* its target and its content are built from.
TypeOK ==
    /\ tree \in Trees /\ place \in Places /\ edits \in 0..MaxEdits
    /\ \A t \in Files : IsFile(file[t]) /\ IsFile(head[t])
    /\ ignored \subseteq Files /\ renamed \subseteq Files
    /\ temp \subseteq Inits
    /\ pc \in [Inits -> Steps] /\ force \in [Inits -> BOOLEAN]
    /\ answered \in [Inits -> BOOLEAN]
    /\ replaces \in [Inits -> BOOLEAN] /\ calm \in [Inits -> BOOLEAN]
    /\ \A i \in Inits : /\ IsFile(existing[i]) /\ failures[i] \subseteq MayFail
                        /\ pc[i] # "idle" => DOMAIN generated[i] = Sections

\* What a maintainer has not committed is not written over (worktree.ts, init.ts): an init
\* without force, in the top level of a worktree, that nothing else disturbed, only replaces
\* a file that is as committed, or that is not there.  That is so where git status answers it and
\* names the file; uncommitted work in a file that is ignored and was never committed, that is
\* renamed, or in any file when git fails, it does write over.
UncommittedIsKept ==
    [][\A i \in Inits, t \in Files :
          (/\ Rename(i) /\ file'[t] # file[t] /\ calm[i] /\ ~force[i]
           /\ place = "toplevel" /\ answered[i] /\ Named(t))
              => file[t] = head[t]]_vars

\* A contract that does not parse or validate is the maintainers' to repair: no init that
\* nothing disturbed changes it, with force or without (artifact.ts, proposal.ts).
InvalidIsKept ==
    [][\A i \in Inits :
          (Rename(i) /\ calm[i] /\ file["contract"] # Absent /\ ~Valid(file["contract"].contract))
              => file'["contract"] = file["contract"]]_vars

\* A draft that is there, committed or not, is not replaced by another one without force,
\* nor is a contract created over one (writer.ts).
DraftIsKept ==
    [][\A i \in Inits :
          (Rename(i) /\ calm[i] /\ ~force[i] /\ TargetAction(i) = "create")
              => file[Target(i)] = Absent]_vars

\* No work of a maintainer is lost to an init: uncommitted, invalid or a draft.
WorkIsKept == UncommittedIsKept /\ InvalidIsKept /\ DraftIsKept

\* f has every entry of e as it is there.
Has(f, e) == \A k \in DOMAIN e : k \in DOMAIN f /\ f[k] = e[k]

\* f has every item of e, but of those with one name or pattern only the last.
HasLast(f, e) == \A k \in DOMAIN e : k \in DOMAIN f /\ f[k] = <<Last(e[k])>>

\* An init that nothing disturbed takes nothing from a contract that it updates: the entries of
\* every section, the purpose, the verification (merge-contract.ts).  That a service is not
\* required is the exception, see OptionalIsKept, and so are items of a list that the schema lets
\* have one pattern or name: but for the last one they are lost.
ExistingIsKept ==
    [][\A i \in Inits :
          (Rename(i) /\ calm[i] /\ TargetAction(i) = "update") =>
              LET old == Written(file["contract"].contract)
                  new == file'["contract"].contract
              IN  /\ Has(new.applications, old.applications) /\ Has(new.services, old.services)
                  /\ Has(new.environment, old.environment) /\ Has(new.setup, old.setup)
                  /\ Has(new.limitations, old.limitations) /\ Has(new.systems, old.systems)
                  /\ HasLast(new.generated, old.generated) /\ HasLast(new.unsafe, old.unsafe)
                  /\ HasLast(new.sensitive, old.sensitive) /\ HasLast(new.related, old.related)
                  /\ new.purpose = old.purpose /\ new.steps = old.steps
                  /\ new.verification = old.verification]_vars

\* Two valid contracts can merge into one that is not; it does not get to disk (proposal.ts,
\* serialization.ts).
NothingInvalidIsWritten ==
    \A t \in Files : file[t] # Absent => (file[t].form = "canonical" => Valid(file[t].contract))

\* Whichever detectors failed, a generated contract only refers to what it holds: no service
\* needs a variable that another mapping left out, unless its name is one the schema refuses.
GeneratedIsClosed ==
    \A i \in Inits : pc[i] # "idle" =>
        LET c == generated[i]
        IN  /\ DependenciesKnown(c) /\ VariablesProper(c) /\ ChecksKnown(c) /\ StepsKnown(c)
            /\ \A s \in DOMAIN c.services :
                   c.services[s].environment \cap ProperNames \subseteq DOMAIN c.environment

\* What an init wrote is settled: the next one that finds the same in the repository has
\* nothing to write (artifact.ts, serialize.ts).
SettledAfterWrite ==
    \A i \in Inits :
        (pc[i] = "done" /\ mode[i] = "write" /\ file[Target(i)] = Content(i) /\ Target(i) = "contract")
            => Action(file["contract"], generated[i]) = "unchanged"

\* An init that ended, well or not, leaves no temporary file; only a crash does (writer.ts).
TempsAreCleared == \A i \in temp : pc[i] \in {"mode", "rename", "crashed"}

\* The files an init leaves, whatever fails in it, are sound: canonical contracts are valid, and
\* what is temporary is gone (proposal.ts, writer.ts).
FilesAreSound == TypeOK /\ NothingInvalidIsWritten /\ TempsAreCleared

\* README.md of init-core: "Merge behavior preserves ... matching section entries".  A service
\* that is not required stays so when an init that nothing disturbed updates the contract.
OptionalIsKept ==
    [][\A i \in Inits :
          (Rename(i) /\ calm[i] /\ TargetAction(i) = "update") =>
              LET old == file["contract"].contract.services
                  new == file'["contract"].contract.services
              IN  \A s \in DOMAIN old : new[s].required = old[s].required]_vars

=============================================================================
