------------------------------ MODULE VerificationRun ------------------------------
(***************************************************************************)
(* `board verify`: runVerificationOrchestrator (orchestrator.ts) asks git  *)
(* what has changed while files may change, selects the checks, orders     *)
(* them (dependency-order.ts), runs them one after the other and records   *)
(* the run in the files of history-store.ts, which nothing locks against   *)
(* another command.                                                        *)
(***************************************************************************)
EXTENDS VerificationChecks, SequencesExt

CONSTANTS
    Repositories, \* contracts, and the states of the working tree the commands are run in
    OptionsFor(_), \* the options that commands over a contract are looked at with
    Runs,         \* the commands, named by the id of the run each records
    MaxEdits,     \* changes of the working tree in one behavior
    MaxHistory    \* runs the history lists: 50

ASSUME RunAssumption ==
    /\ NoRun \notin Runs \cup RunStatus
    /\ MaxHistory \in Nat \ {0} /\ MaxEdits \in Nat
    /\ \A r \in Repositories : /\ r.contract \in Contracts /\ r.tree \in [Paths -> PathState]
                               /\ OptionsFor(r.contract) \subseteq Options

VARIABLES
    contract,     \* the repository contract
    tree,         \* how each path of the working tree differs from what git has of it
    edits,        \* how often it has changed
    inTurn,       \* are commands only issued when none is running?
    pc,           \* the phase each command is in
    options,      \* what it was told to select
    diff,         \* the names git diff gave it, or that it has not yet, or has failed
    status,       \* the names git status gave it, likewise
    selected,     \* the checks it selected
    skip,         \* the ids it was told to skip
    visiting,     \* the checks it is ordering, innermost last
    ordered,      \* the checks it has ordered
    results,      \* the outcomes of the checks it has run
    runFiles,     \* runs/<id>.json: the status of each recorded run
    latest,       \* latest.json
    history,      \* history.json, newest first
    historyRead,  \* history.json as each command read it
    seen,         \* the paths that have differed at some time since it was issued (history)
    lasting       \* those that have differed ever since, named as they are (history)

repositoryVars == <<contract, inTurn, tree, edits>>

selectVars == <<options, diff, status, seen, lasting>>

orderVars == <<visiting, ordered>>

fileVars == <<runFiles, latest, history>>

vars == <<repositoryVars, pc, selectVars, selected, skip, orderVars, results, fileVars, historyRead>>

Entry == [run : Runs, status : RunStatus]

Goto(r, label) == pc' = [pc EXCEPT ![r] = label]

Ended == {"done", "planned", "refused", "unusable", "failed"}

-----------------------------------------------------------------------------
(* Selecting. *)

Answer(state, paths) == [state |-> state, paths |-> paths]

Unread == Answer("unread", {})

\* What fails leaves no paths, and a warning.
Failed == Answer("failed", {})

GitAnswer == [state : {"unread", "read", "failed"}, paths : SUBSET Names]

NoOptions ==
    [all |-> FALSE, changed |-> FALSE, noDefault |-> FALSE, base |-> "HEAD",
     requested |-> {}, paths |-> {}, components |-> {}]

\* How a path differs: whether git diff can show it, and the name it is shown by.
Way == [path : Paths, untracked : BOOLEAN, name : Names]

Ways(files, base) ==
    {w \in Way : /\ w.path \in Differing(files, base)
                 /\ w.untracked = (files[w.path] = "untracked")
                 /\ w.name \in NamedAs(files, w.path)}

\* The contract is loaded by the command and again by the orchestrator; one that is missing,
\* invalid or cannot be read is the end.
Loading == {"git", "unusable"}

Begin(r) ==
    /\ pc[r] = "idle"
    /\ inTurn => \A other \in Runs \ {r} : pc[other] \in Ended \cup {"idle"}
    /\ \E o \in OptionsFor(contract) :
         /\ options' = [options EXCEPT ![r] = o]
         /\ seen' = [seen EXCEPT ![r] = Differing(tree, o.base)]
         /\ lasting' = [lasting EXCEPT ![r] = Ways(tree, o.base)]
    /\ \E label \in Loading : Goto(r, label)
    /\ UNCHANGED <<repositoryVars, diff, status, selected, skip, orderVars, results, fileVars,
                   historyRead>>

\* detectGitChangeSet runs both commands at once; each may fail, and so do both outside of a
\* working tree.
ReadDiff(r) ==
    /\ pc[r] = "git"
    /\ diff[r] = Unread
    /\ \E read \in {Answer("read", DiffPaths(tree, options[r].base)), Failed} :
         diff' = [diff EXCEPT ![r] = read]
    /\ UNCHANGED <<repositoryVars, pc, options, status, seen, lasting, selected, skip, orderVars,
                   results, fileVars, historyRead>>

ReadStatus(r) ==
    /\ pc[r] = "git"
    /\ status[r] = Unread
    /\ \E read \in {Answer("read", StatusPaths(tree)), Failed} :
         status' = [status EXCEPT ![r] = read]
    /\ UNCHANGED <<repositoryVars, pc, options, diff, seen, lasting, selected, skip, orderVars,
                   results, fileVars, historyRead>>

Changed(r) == diff[r].paths \cup status[r].paths

\* With what is selected goes what of it the command was told to skip (--skip), and whether it
\* only plans (--dry-run).
Select(r) ==
    /\ pc[r] = "git"
    /\ diff[r] # Unread /\ status[r] # Unread
    /\ LET S == Selected(contract, options[r], Changed(r)) IN
         /\ selected' = [selected EXCEPT ![r] = S]
         /\ \E skipped \in SUBSET IdsOf(contract, S), mode \in {"plan", "order"} :
              skip' = [skip EXCEPT ![r] = skipped] /\ Goto(r, mode)
    /\ UNCHANGED <<repositoryVars, selectVars, orderVars, results, fileVars, historyRead>>

-----------------------------------------------------------------------------
(* Ordering. *)

Ordering(r) == pc[r] \in {"plan", "order"}

Visited(r) == ToSet(ordered[r])

\* The loop of orderVerificationChecks comes to the next check that is not visited.
VisitNext(r) ==
    /\ Ordering(r)
    /\ visiting[r] = <<>>
    /\ \E i \in selected[r] \ Visited(r) :
         /\ \A j \in selected[r] \ Visited(r) : i <= j
         /\ visiting' = [visiting EXCEPT ![r] = <<i>>]
    /\ UNCHANGED <<repositoryVars, selectVars, pc, selected, skip, ordered, results, fileVars, historyRead>>

\* What the innermost check requires and has not been visited.
Pending(r) ==
    {id \in contract.requires[Last(visiting[r])] : id \notin IdsOf(contract, Visited(r))}

\* A requirement is visited before the check that has it.
Require(r) ==
    /\ Ordering(r)
    /\ visiting[r] # <<>>
    /\ \E id \in Pending(r) \cap IdsOf(contract, selected[r]) :
         LET i == CheckOf(contract, selected[r], id) IN
         /\ i \notin ToSet(visiting[r])
         /\ visiting' = [visiting EXCEPT ![r] = Append(@, i)]
    /\ UNCHANGED <<repositoryVars, selectVars, pc, selected, skip, ordered, results, fileVars, historyRead>>

\* A requirement that is not selected, or that is being visited: the command fails.
Refuse(r) ==
    /\ Ordering(r)
    /\ visiting[r] # <<>>
    /\ \E id \in Pending(r) :
         \/ id \notin IdsOf(contract, selected[r])
         \/ id \in IdsOf(contract, ToSet(visiting[r]))
    /\ Goto(r, "refused")
    /\ visiting' = [visiting EXCEPT ![r] = <<>>]
    /\ UNCHANGED <<repositoryVars, selectVars, selected, skip, ordered, results, fileVars, historyRead>>

\* Bug: a check is listed before what it requires.
PlaceEarly(r) ==
    /\ Ordering(r)
    /\ visiting[r] # <<>>
    /\ ordered' = [ordered EXCEPT ![r] = Append(@, Last(visiting[r]))]
    /\ visiting' = [visiting EXCEPT ![r] = Front(@)]
    /\ UNCHANGED <<repositoryVars, selectVars, pc, selected, skip, results, fileVars, historyRead>>

\* All it requires is visited.
Place(r) ==
    /\ Ordering(r)
    /\ visiting[r] # <<>>
    /\ Pending(r) = {}
    /\ ordered' = [ordered EXCEPT ![r] = Append(@, Last(visiting[r]))]
    /\ visiting' = [visiting EXCEPT ![r] = Front(@)]
    /\ UNCHANGED <<repositoryVars, selectVars, pc, selected, skip, results, fileVars, historyRead>>

\* Everything is ordered.  A dry run ends here; nothing of it is recorded.
EndOrder(r) ==
    /\ Ordering(r)
    /\ visiting[r] = <<>>
    /\ selected[r] \subseteq Visited(r)
    /\ Goto(r, IF pc[r] = "plan" THEN "planned" ELSE "check")
    /\ UNCHANGED <<repositoryVars, selectVars, selected, skip, orderVars, results, fileVars, historyRead>>

-----------------------------------------------------------------------------
(* Running and recording. *)

\* Skipped checks are left out once everything is ordered: what requires them runs.
Kept(r, i) == contract.id[i] \notin skip[r]

\* Where in the order the checks are that it has still to run.
Remaining(r) ==
    {p \in DOMAIN ordered[r] : Kept(r, ordered[r][p]) /\ ordered[r][p] \notin DOMAIN results[r]}

\* A check that requires a variable that is not set is blocked, any other is run; what
\* became of the checks it requires does not matter.
RunCheck(r) ==
    /\ pc[r] = "check"
    /\ \E p \in Remaining(r) :
         /\ \A q \in Remaining(r) : p <= q
         /\ LET i == ordered[r][p] IN
            \E outcome \in IF i \in Blocked(contract) THEN {"blocked"} ELSE Outcome \ {"blocked"} :
              results' = [results EXCEPT ![r] = [j \in DOMAIN @ \cup {i} |->
                                                   IF j = i THEN outcome ELSE @[j]]]
    /\ UNCHANGED <<repositoryVars, selectVars, pc, selected, skip, orderVars, fileVars, historyRead>>

\* Bug: the history comes before the file of the run.
FileLast(r) ==
    /\ pc[r] = "check"
    /\ Remaining(r) = {}
    /\ Goto(r, "latest")
    /\ UNCHANGED <<repositoryVars, selectVars, selected, skip, orderVars, results, fileVars, historyRead>>

\* persistVerificationRunHistory: the file of the run with its status, ...
WriteRun(r) ==
    /\ pc[r] = "check"
    /\ Remaining(r) = {}
    /\ runFiles' = [runFiles EXCEPT ![r] = Classified(Range(results[r]))]
    /\ Goto(r, "latest")
    /\ UNCHANGED <<repositoryVars, selectVars, selected, skip, orderVars, results, latest, history, historyRead>>

\* ... latest.json, ...
WriteLatest(r) ==
    /\ pc[r] = "latest"
    /\ latest' = r
    /\ Goto(r, "read")
    /\ UNCHANGED <<repositoryVars, selectVars, selected, skip, orderVars, results, runFiles, history, historyRead>>

\* ... and updateHistory, which reads the history ...
ReadHistory(r) ==
    /\ pc[r] = "read"
    /\ historyRead' = [historyRead EXCEPT ![r] = history]
    /\ Goto(r, "write")
    /\ UNCHANGED <<repositoryVars, selectVars, selected, skip, orderVars, results, fileVars>>

\* slice(0, 50)
Newest(s) == SubSeq(s, 1, IF Len(s) <= MaxHistory THEN Len(s) ELSE MaxHistory)

\* filter: the entries of other runs, which all of them are for a run that is new.
OfOthers(s, r) ==
    IF \A p \in DOMAIN s : s[p].run # r THEN s ELSE SelectSeq(s, LAMBDA e : e.run # r)

\* ... and writes it with the run in front.
WriteHistory(r) ==
    /\ pc[r] = "write"
    /\ history' = Newest(<<[run |-> r, status |-> Classified(Range(results[r]))]>>
                         \o OfOthers(historyRead[r], r))
    /\ historyRead' = [historyRead EXCEPT ![r] = <<>>]
    /\ Goto(r, "done")
    /\ UNCHANGED <<repositoryVars, selectVars, selected, skip, orderVars, results, runFiles, latest>>

\* What the command says of itself in the end; one that only planned has not failed.
Succeeded(r) ==
    \/ pc[r] = "planned"
    \/ pc[r] = "done" /\ Classified(Range(results[r])) # "failed"

\* The command is killed, or a file cannot be written.
Fail(r) ==
    /\ pc[r] \notin Ended \cup {"idle"}
    /\ Goto(r, "failed")
    /\ historyRead' = [historyRead EXCEPT ![r] = <<>>]
    /\ UNCHANGED <<repositoryVars, selectVars, selected, skip, orderVars, results, fileVars>>

Verify(r) ==
    \/ Begin(r) \/ ReadDiff(r) \/ ReadStatus(r) \/ Select(r)
    \/ VisitNext(r) \/ Require(r) \/ Refuse(r) \/ Place(r) \/ EndOrder(r)
    \/ RunCheck(r) \/ WriteRun(r) \/ WriteLatest(r) \/ ReadHistory(r) \/ WriteHistory(r)
    \/ Fail(r)

\* A path is edited, removed, created, renamed, committed or restored.
Edited(path, p) ==
    CASE path[p] = "clean" -> {"modified", "deleted", "removed"}
      [] path[p] = "absent" -> {"untracked"}
      [] path[p] = "modified" -> {"clean", "committed"}
      [] path[p] = "untracked" -> {"absent", "committed"}
      [] path[p] = "committed" -> {"modified"}
      [] path[p] \in {"deleted", "removed"} -> {"clean"}
      [] OTHER -> {}

\* Only while a command has git look at the tree.
EditTree ==
    /\ edits < MaxEdits
    /\ \E r \in Runs : pc[r] = "git"
    /\ edits' = edits + 1
    /\ \/ \E p \in Paths : \E state \in Edited(tree, p) : tree' = [tree EXCEPT ![p] = state]
       \/ \E p, q \in Paths :
            /\ tree[p] = "clean" /\ tree[q] = "absent"
            /\ tree' = [tree EXCEPT ![p] = "moved", ![q] = "arrived"]
    /\ seen' = [r \in Runs |-> seen[r] \cup Differing(tree', options[r].base)]
    /\ lasting' = [r \in Runs |-> lasting[r] \cap Ways(tree', options[r].base)]
    /\ UNCHANGED <<contract, inTurn, pc, options, diff, status, selected, skip, orderVars, results,
                   fileVars, historyRead>>

Next == EditTree \/ \E r \in Runs : Verify(r)

Init ==
    /\ \E repository \in Repositories :
         contract = repository.contract /\ tree = repository.tree
    /\ inTurn \in BOOLEAN
    /\ edits = 0
    /\ pc = [r \in Runs |-> "idle"]
    /\ options = [r \in Runs |-> NoOptions]
    /\ diff = [r \in Runs |-> Unread]
    /\ status = [r \in Runs |-> Unread]
    /\ seen = [r \in Runs |-> {}]
    /\ lasting = [r \in Runs |-> {}]
    /\ selected = [r \in Runs |-> {}]
    /\ skip = [r \in Runs |-> {}]
    /\ visiting = [r \in Runs |-> <<>>]
    /\ ordered = [r \in Runs |-> <<>>]
    /\ results = [r \in Runs |-> <<>>]
    /\ runFiles = [r \in Runs |-> NoRun]
    /\ latest = NoRun
    /\ history = <<>>
    /\ historyRead = [r \in Runs |-> <<>>]

Spec == Init /\ [][Next]_vars

-----------------------------------------------------------------------------

Phases == {"idle", "git", "plan", "order", "check", "latest", "read", "write"} \cup Ended

\* Every variable keeps its type: the shape of the files and of what the commands hold.
TypeOK ==
    /\ contract \in Contracts
    /\ inTurn \in BOOLEAN
    /\ pc \in [Runs -> Phases]
    /\ tree \in [Paths -> PathState]
    /\ edits \in 0 .. MaxEdits
    /\ options \in [Runs -> Options]
    /\ diff \in [Runs -> GitAnswer]
    /\ status \in [Runs -> GitAnswer]
    /\ seen \in [Runs -> SUBSET Paths]
    /\ lasting \in [Runs -> SUBSET Way]
    /\ selected \in [Runs -> SUBSET Defs]
    /\ skip \in [Runs -> SUBSET Ids]
    /\ visiting \in [Runs -> Seq(Defs)]
    /\ ordered \in [Runs -> Seq(Defs)]
    /\ results \in [Runs -> UNION {[run -> Outcome] : run \in SUBSET Defs}]
    /\ runFiles \in [Runs -> RunStatus \cup {NoRun}]
    /\ latest \in Runs \cup {NoRun}
    /\ history \in Seq(Entry)
    /\ historyRead \in [Runs -> Seq(Entry)]

IsOrdered(r) == pc[r] \in {"planned", "check", "latest", "read", "write", "done"}

HasSelected(r) == pc[r] \notin {"idle", "git", "unusable", "failed"}

\* The checks that have a path a name begins with, or that a rule or a component brings in for it.
Concerned(n) ==
    {i \in Defs : ~Default(contract, i) /\
       \/ \E q \in PathsOf(contract, i) : n \in Begins[q]
       \/ \E m \in ComponentsOf(contract, i) :
            \/ n \in About[m]
            \/ \E k \in 1 .. NumRules :
                 /\ m \in RuleComponents(contract, k)
                 /\ \E q \in contract.rules[k].paths : n \in Matches[q]}

\* A path that has differed from the base ever since the command was issued is verified by
\* every check that concerns what git names it as, whatever else was edited or committed between
\* the two git commands: by every check that concerns the path itself, if git tracks anything in
\* its directory, but for a file of a new directory by those that concern the directory only, so
\* that a pattern for the names of files misses it.  But for a path that was moved away, which
\* neither command shows, one whose name changed meanwhile with what else is in its directory,
\* and, with --base, one committed for the first time: too late for git status, when git diff did
\* not list it yet.
LastingChangeIsVerified ==
    \A r \in Runs : HasSelected(r) /\ Failed \notin {diff[r], status[r]} =>
        \A w \in lasting[r] : tree[w.path] # "moved" =>
            IdsOf(contract, Concerned(w.name)) \subseteq IdsOf(contract, selected[r])

\* "--changed runs only checks selected by detected changes" (README): each check of a command
\* that asks for no others is a rule's, and concerns a path that has really differed, or a
\* directory it is in, or, once it was moved, what is left of its name.
ChangedOnly ==
    \A r \in Runs :
        /\ HasSelected(r)
        /\ options[r].changed
        /\ {options[r].requested, options[r].paths, options[r].components} = {{}}
        => \A i \in selected[r] : \E p \in seen[r] : \E n \in NamesOf(p) : i \in Concerned(n)

\* What is selected is right: every lasting change is verified, and --changed selects nothing
\* else, while the tree changes between and under the two git commands (git.ts, selector.ts).
SelectionIsRight == LastingChangeIsVerified /\ ChangedOnly

\* Each selected check is planned once, and nothing before the checks it requires, in
\* whatever order the contract has them.
OrderRespected ==
    \A r \in Runs : IsOrdered(r) =>
        /\ IsInjective(ordered[r])
        /\ Visited(r) = selected[r]
        /\ \A p \in 1 .. Len(ordered[r]) : \A id \in contract.requires[ordered[r][p]] :
             \E q \in 1 .. p - 1 : contract.id[ordered[r][q]] = id

\* A selection is only refused when it cannot be ordered: one of its checks requires one
\* that is not selected, or some of them require each other.
RefusedForCause ==
    \A r \in Runs : pc[r] = "refused" =>
        \/ \E i \in selected[r] : ~ contract.requires[i] \subseteq IdsOf(contract, selected[r])
        \/ \E S \in (SUBSET selected[r]) \ {{}} :
             \A i \in S : contract.requires[i] \cap IdsOf(contract, S) # {}

\* Requirements of any shape are either put in order or refused for a cause (dependency-order.ts).
PlanIsRight == OrderRespected /\ RefusedForCause

\* A run is recorded as passed only when each check it was to run, and at least one, was
\* run and passed, and otherwise as failed exactly when one failed or timed out; a command with
\* such a check does not succeed.
StatusIsHonest ==
    \A r \in Runs : runFiles[r] # NoRun =>
        LET toRun == {i \in selected[r] : Kept(r, i)} IN
        /\ Succeeded(r) => Range(results[r]) \cap Failure = {}
        /\ DOMAIN results[r] = toRun
        /\ runFiles[r] = "passed" =>
             /\ toRun # {} /\ toRun \cap Blocked(contract) = {}
             /\ Range(results[r]) = {"passed"}
        /\ runFiles[r] = "failed" <=> Range(results[r]) \cap Failure # {}

\* What latest.json and the history name is on file, with the status listed, wherever a
\* command stops and however commands overwrite each other's history.
IndexedIsOnFile ==
    /\ latest # NoRun => runFiles[latest] # NoRun
    /\ \A p \in 1 .. Len(history) : runFiles[history[p].run] = history[p].status

\* As long as commands are issued one at a time, a run that completed is in the history
\* unless newer runs fill it, and the history and latest.json agree on the newest.
CompletedIsIndexed ==
    inTurn =>
        /\ \A r \in Runs : pc[r] = "done" =>
             (\E p \in 1 .. Len(history) : history[p].run = r) \/ Len(history) = MaxHistory
        /\ latest # NoRun /\ pc[latest] = "done" => history[1].run = latest

\* The three files of the history agree at any time as far as they can without a lock, and every
\* command holds what its phase needs (orchestrator.ts, history-store.ts).
HistoryIsRight == TypeOK /\ IndexedIsOnFile /\ CompletedIsIndexed

=============================================================================
