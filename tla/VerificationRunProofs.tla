---------------------------- MODULE VerificationRunProofs ----------------------------
(***************************************************************************)
(* What TLAPS proves of VerificationRun, for any repository, any checks    *)
(* and rules of the contract, any number of commands over the same files   *)
(* and any limit of the history.                                           *)
(***************************************************************************)
EXTENDS VerificationRun, SequenceTheorems, WellFoundedInduction, TLAPS

\* The contract stays one of those the commands are looked at with.
Known == \E repository \in Repositories : contract = repository.contract

TypeInv == TypeOK /\ Known

\* All that changes of the paths of a set may be named as.
NamesOfAll(S) == UNION {NamesOf(p) : p \in S}

\* What git names the changes as is typed, and belongs to the paths that differ.
LEMMA NamesAreTyped ==
  ASSUME NEW files, NEW base
  PROVE  /\ Differing(files, base) \subseteq Paths
         /\ \A p \in Paths : NamesOf(p) \subseteq Names /\ NamedAs(files, p) \subseteq NamesOf(p)
         /\ DiffPaths(files, base) \subseteq Names /\ StatusPaths(files) \subseteq Names
<1>1. Differing(files, base) \subseteq Paths /\ Differing(files, "HEAD") \subseteq Paths
  BY DEF Differing
<1>2. ASSUME NEW p \in Paths
      PROVE  /\ NamesOf(p) \subseteq Names /\ NamedAs(files, p) \subseteq NamesOf(p)
             /\ Mangled[p] \subseteq Names
  <2>1. Mangled[p] \subseteq Names /\ p \in Names /\ DOMAIN Dirs \subseteq Names
    BY ChecksAssumption
  <2>2. NamesOf(p) \subseteq Names
    BY <2>1 DEF NamesOf
  <2>3. NamedAs(files, p) \subseteq NamesOf(p)
    BY DEF NamedAs, NamesOf, Bare
  <2> QED
    BY <2>1, <2>2, <2>3
<1>3. DiffPaths(files, base) \subseteq Names
  BY <1>1, ChecksAssumption DEF DiffPaths
<1>4. StatusPaths(files) \subseteq Names
  BY <1>1, <1>2 DEF StatusPaths
<1> QED
  BY <1>1, <1>2, <1>3, <1>4

LEMMA WaysOf ==
  ASSUME NEW files, NEW base
  PROVE  /\ Differing(files, base) \subseteq Paths
         /\ Ways(files, base) \subseteq Way
         /\ \A e \in Ways(files, base) :
              /\ e.path \in Differing(files, base) /\ e.untracked = (files[e.path] = "untracked")
              /\ e.name \in NamedAs(files, e.path)
BY DEF Differing, Ways

LEMMA SelectedChecks ==
  ASSUME NEW c, NEW o, NEW changed
  PROVE  Selected(c, o, changed) \subseteq Defs
BY DEF Selected, Chosen

LEMMA IdsAreTyped ==
  ASSUME NEW c \in Contracts, NEW S \in SUBSET Defs
  PROVE  IdsOf(c, S) \subseteq Ids
<1>1. c.id \in [Defs -> Ids]
  BY DEF Contracts
<1> QED
  BY <1>1 DEF IdsOf

LEMMA CheckWithId ==
  ASSUME NEW c, NEW S, NEW id \in IdsOf(c, S)
  PROVE  CheckOf(c, S, id) \in S /\ c.id[CheckOf(c, S, id)] = id
BY DEF IdsOf, CheckOf

LEMMA ClassifiedIsStatus ==
  ASSUME NEW have \in SUBSET Outcome
  PROVE  Classified(have) \in RunStatus
BY DEF Classified, RunStatus, Outcome, Failure

LEMMA NewestOfEntries ==
  ASSUME NEW s \in Seq(Entry)
  PROVE  /\ Newest(s) \in Seq(Entry)
         /\ Len(Newest(s)) = IF Len(s) <= MaxHistory THEN Len(s) ELSE MaxHistory
         /\ \A p \in 1 .. Len(Newest(s)) : Newest(s)[p] = s[p]
<1> DEFINE n == IF Len(s) <= MaxHistory THEN Len(s) ELSE MaxHistory
<1>1. Len(s) \in Nat /\ \A p \in 1 .. Len(s) : s[p] \in Entry
  BY ElementOfSeq
<1>2. n \in Nat /\ n <= Len(s)
  BY <1>1, RunAssumption
<1>3. \A p \in 1 .. n : s[p] \in Entry
  BY <1>1, <1>2
<1> HIDE DEF n
<1>4. /\ SubSeq(s, 1, n) \in Seq(Entry)
      /\ Len(SubSeq(s, 1, n)) = n
      /\ \A p \in 1 .. n : SubSeq(s, 1, n)[p] = s[p]
  BY <1>2, <1>3, SubSeqProperties
<1>5. Newest(s) = SubSeq(s, 1, n)
  BY DEF Newest, n
<1> QED
  BY <1>4, <1>5 DEF n

LEMMA InitType == Init => TypeInv
<1> SUFFICES ASSUME Init
             PROVE  TypeInv
  OBVIOUS
<1>1. Known /\ contract \in Contracts /\ tree \in [Paths -> PathState]
  BY RunAssumption DEF Init, Known
<1>2. NoOptions \in Options
  BY DEF NoOptions, Options
<1>3. <<>> \in Seq(Defs) /\ <<>> \in Seq(Entry)
  OBVIOUS
<1>4. <<>> \in UNION {[run -> Outcome] : run \in SUBSET Defs}
  <2>1. <<>> \in [{} -> Outcome] /\ {} \in SUBSET Defs
    OBVIOUS
  <2> QED
    BY <2>1
<1>5. Unread \in GitAnswer
  BY DEF Unread, Answer, GitAnswer
<1>6. /\ inTurn \in BOOLEAN /\ edits \in 0 .. MaxEdits
      /\ latest \in Runs \cup {NoRun} /\ history \in Seq(Entry)
  BY <1>3, RunAssumption DEF Init
<1>7. /\ options \in [Runs -> Options] /\ diff \in [Runs -> GitAnswer] /\ status \in [Runs -> GitAnswer]
      /\ seen \in [Runs -> SUBSET Paths] /\ lasting \in [Runs -> SUBSET Way]
      /\ selected \in [Runs -> SUBSET Defs] /\ skip \in [Runs -> SUBSET Ids]
  BY <1>2, <1>5 DEF Init
<1>8. /\ visiting \in [Runs -> Seq(Defs)] /\ ordered \in [Runs -> Seq(Defs)]
      /\ historyRead \in [Runs -> Seq(Entry)]
  BY <1>3 DEF Init
<1>9. results \in [Runs -> UNION {[run -> Outcome] : run \in SUBSET Defs}]
  BY <1>4 DEF Init
<1>10. runFiles \in [Runs -> RunStatus \cup {NoRun}] /\ pc \in [Runs -> Phases]
  BY DEF Init, Phases
<1> QED
  BY <1>1, <1>6, <1>7, <1>8, <1>9, <1>10 DEF TypeInv, TypeOK

\* Whatever the history lists, and whatever of it a command has read, is of a run that is done.
ListedAreDone ==
    /\ \A p \in 1 .. Len(history) : pc[history[p].run] = "done"
    /\ \A r \in Runs : \A p \in 1 .. Len(historyRead[r]) : pc[historyRead[r][p].run] = "done"

LEMMA OthersAreAll ==
  ASSUME TypeOK, ListedAreDone, NEW r \in Runs, pc[r] # "done"
  PROVE  OfOthers(historyRead[r], r) = historyRead[r]
<1>1. DOMAIN historyRead[r] = 1 .. Len(historyRead[r])
  BY LenProperties DEF TypeOK
<1> QED
  BY <1>1 DEF OfOthers, ListedAreDone

\* What WriteHistory writes: the run in front of what it has read, cut off at the limit.
LEMMA HistoryWritten ==
  ASSUME TypeOK, ListedAreDone, NEW r \in Runs, WriteHistory(r)
  PROVE  /\ history' \in Seq(Entry)
         /\ Len(history') = IF Len(historyRead[r]) < MaxHistory THEN Len(historyRead[r]) + 1 ELSE MaxHistory
         /\ history'[1] = [run |-> r, status |-> Classified(Range(results[r]))]
         /\ \A p \in 2 .. Len(history') : history'[p] = historyRead[r][p - 1]
<1> DEFINE e == [run |-> r, status |-> Classified(Range(results[r]))]
           s == <<e>> \o historyRead[r]
<1>1. e \in Entry
  <2>1. Range(results[r]) \subseteq Outcome
    BY DEF TypeOK, Range
  <2> QED
    BY <2>1, ClassifiedIsStatus DEF Entry
<1> HIDE DEF e
<1>2. <<e>> \in Seq(Entry) /\ Len(<<e>>) = 1 /\ <<e>>[1] = e /\ historyRead[r] \in Seq(Entry)
  BY <1>1 DEF TypeOK
<1>3. /\ s \in Seq(Entry)
      /\ Len(s) = 1 + Len(historyRead[r])
      /\ \A p \in 1 .. Len(s) : s[p] = IF p <= 1 THEN <<e>>[p] ELSE historyRead[r][p - 1]
  BY <1>2, ConcatProperties
<1>4. history' = Newest(s)
  BY OthersAreAll DEF WriteHistory, e
<1> HIDE DEF s
<1>5. Len(historyRead[r]) \in Nat /\ MaxHistory \in Nat \ {0}
  BY <1>2, RunAssumption
<1>6. /\ Newest(s) \in Seq(Entry)
      /\ Len(Newest(s)) = IF Len(historyRead[r]) < MaxHistory THEN Len(historyRead[r]) + 1 ELSE MaxHistory
      /\ \A p \in 1 .. Len(Newest(s)) : Newest(s)[p] = s[p]
  BY <1>3, <1>5, NewestOfEntries
<1>7. Newest(s)[1] = e
  BY <1>2, <1>3, <1>5, <1>6
<1>8. \A p \in 2 .. Len(Newest(s)) : Newest(s)[p] = historyRead[r][p - 1]
  BY <1>3, <1>5, <1>6
<1> QED
  BY <1>4, <1>6, <1>7, <1>8 DEF e

LEMMA SelectStepsType ==
  ASSUME TypeInv, NEW r \in Runs, Begin(r) \/ ReadDiff(r) \/ ReadStatus(r) \/ Select(r)
  PROVE  TypeInv'
<1> USE DEF TypeInv, TypeOK
<1>1. CASE Begin(r)
  <2>1. PICK o \in OptionsFor(contract) :
          /\ options' = [options EXCEPT ![r] = o]
          /\ seen' = [seen EXCEPT ![r] = Differing(tree, o.base)]
          /\ lasting' = [lasting EXCEPT ![r] = Ways(tree, o.base)]
    BY <1>1 DEF Begin
  <2>2. o \in Options
    BY <2>1, RunAssumption DEF Known
  <2>3. Differing(tree, o.base) \subseteq Paths /\ Ways(tree, o.base) \subseteq Way
    BY WaysOf
  <2>4. options' \in [Runs -> Options] /\ seen' \in [Runs -> SUBSET Paths]
    BY <2>1, <2>2, <2>3
  <2>5. lasting' \in [Runs -> SUBSET Way]
    BY <2>1, <2>3
  <2>6. pc' \in [Runs -> Phases]
    BY <1>1 DEF Begin, Goto, Loading, Phases, Ended
  <2> QED
    BY <1>1, <2>4, <2>5, <2>6 DEF Begin, repositoryVars, orderVars, fileVars, Known
<1>2. CASE ReadDiff(r)
  <2>1. PICK read \in {Answer("read", DiffPaths(tree, options[r].base)), Failed} :
          diff' = [diff EXCEPT ![r] = read]
    BY <1>2 DEF ReadDiff
  <2>2. read \in GitAnswer
    <3>1. DiffPaths(tree, options[r].base) \in SUBSET Names
      BY NamesAreTyped
    <3> QED
      BY <2>1, <3>1 DEF GitAnswer, Answer, Failed
  <2>3. diff' \in [Runs -> GitAnswer]
    BY <2>1, <2>2
  <2> QED
    BY <1>2, <2>2, <2>3 DEF ReadDiff, repositoryVars, orderVars, fileVars, Known
<1>3. CASE ReadStatus(r)
  <2>1. PICK read \in {Answer("read", StatusPaths(tree)), Failed} :
          status' = [status EXCEPT ![r] = read]
    BY <1>3 DEF ReadStatus
  <2>2. read \in GitAnswer
    <3>1. StatusPaths(tree) \in SUBSET Names
      BY NamesAreTyped
    <3> QED
      BY <2>1, <3>1 DEF GitAnswer, Answer, Failed
  <2>3. status' \in [Runs -> GitAnswer]
    BY <2>1, <2>2
  <2> QED
    BY <1>3, <2>2, <2>3 DEF ReadStatus, repositoryVars, orderVars, fileVars, Known
<1>4. CASE Select(r)
  <2> DEFINE S == Selected(contract, options[r], Changed(r))
  <2>1. S \subseteq Defs /\ IdsOf(contract, S) \subseteq Ids
    BY SelectedChecks, IdsAreTyped
  <2> HIDE DEF S
  <2>2. selected' = [selected EXCEPT ![r] = S]
    BY <1>4 DEF Select, S
  <2>3. PICK skipped \in SUBSET IdsOf(contract, S), mode \in {"plan", "order"} :
          skip' = [skip EXCEPT ![r] = skipped] /\ Goto(r, mode)
    BY <1>4 DEF Select, S
  <2>4. selected' \in [Runs -> SUBSET Defs] /\ skip' \in [Runs -> SUBSET Ids]
    BY <2>1, <2>2, <2>3
  <2>5. pc' \in [Runs -> Phases]
    BY <2>3 DEF Goto, Phases
  <2> QED
    BY <1>4, <2>4, <2>5 DEF Select, repositoryVars, selectVars, orderVars, fileVars, Known
<1> QED
  BY <1>1, <1>2, <1>3, <1>4

LEMMA FrontAndLast ==
  ASSUME NEW S, NEW s \in Seq(S), s # <<>>
  PROVE  /\ Len(s) \in Nat \ {0}
         /\ Last(s) = s[Len(s)] /\ Last(s) \in S
         /\ Front(s) \in Seq(S)
         /\ Len(Front(s)) = Len(s) - 1
         /\ \A k \in 1 .. Len(s) - 1 : Front(s)[k] = s[k]
<1>1. Len(s) \in Nat \ {0} /\ \A k \in 1 .. Len(s) : s[k] \in S
  BY EmptySeq, ElementOfSeq
<1>2. Last(s) = s[Len(s)] /\ Last(s) \in S
  BY <1>1 DEF Last
<1> DEFINE n == Len(s) - 1
<1>3. n \in Int /\ n >= 0 /\ \A k \in 1 .. n : s[k] \in S
  BY <1>1
<1> HIDE DEF n
<1>4. /\ SubSeq(s, 1, n) \in Seq(S)
      /\ Len(SubSeq(s, 1, n)) = n
      /\ \A k \in 1 .. n : SubSeq(s, 1, n)[k] = s[k]
  BY <1>3, SubSeqProperties
<1>5. Front(s) = SubSeq(s, 1, n)
  BY DEF Front, n
<1> QED
  BY <1>1, <1>2, <1>4, <1>5 DEF n

LEMMA OrderStepsType ==
  ASSUME TypeInv, NEW r \in Runs,
         VisitNext(r) \/ Require(r) \/ Refuse(r) \/ Place(r) \/ EndOrder(r)
  PROVE  TypeInv'
<1> USE DEF TypeInv, TypeOK
<1>1. CASE VisitNext(r)
  <2>1. PICK i \in selected[r] : visiting' = [visiting EXCEPT ![r] = <<i>>]
    BY <1>1 DEF VisitNext
  <2>2. <<i>> \in Seq(Defs)
    BY <2>1
  <2> QED
    BY <1>1, <2>1, <2>2 DEF VisitNext, repositoryVars, selectVars, fileVars, Known
<1>2. CASE Require(r)
  <2>1. PICK id \in IdsOf(contract, selected[r]) :
          visiting' = [visiting EXCEPT ![r] = Append(@, CheckOf(contract, selected[r], id))]
    BY <1>2 DEF Require
  <2>2. CheckOf(contract, selected[r], id) \in Defs
    BY <2>1, CheckWithId
  <2>3. Append(visiting[r], CheckOf(contract, selected[r], id)) \in Seq(Defs)
    BY <2>2, AppendProperties
  <2> QED
    BY <1>2, <2>1, <2>3 DEF Require, repositoryVars, selectVars, fileVars, Known
<1>3. CASE Refuse(r)
  <2>1. pc' \in [Runs -> Phases] /\ visiting' \in [Runs -> Seq(Defs)]
    BY <1>3, EmptySeq DEF Refuse, Goto, Phases, Ended
  <2> QED
    BY <1>3, <2>1 DEF Refuse, repositoryVars, selectVars, fileVars, Known
<1>4. CASE Place(r)
  <2>1. visiting[r] \in Seq(Defs) /\ visiting[r] # <<>> /\ ordered[r] \in Seq(Defs)
    BY <1>4 DEF Place
  <2>2. Last(visiting[r]) \in Defs /\ Front(visiting[r]) \in Seq(Defs)
    BY <2>1, FrontAndLast
  <2>3. Append(ordered[r], Last(visiting[r])) \in Seq(Defs)
    BY <2>1, <2>2, AppendProperties
  <2> QED
    BY <1>4, <2>2, <2>3 DEF Place, repositoryVars, selectVars, fileVars, Known
<1>5. CASE EndOrder(r)
  <2>1. pc' \in [Runs -> Phases]
    BY <1>5 DEF EndOrder, Goto, Phases, Ended
  <2> QED
    BY <1>5, <2>1 DEF EndOrder, repositoryVars, selectVars, orderVars, fileVars, Known
<1> QED
  BY <1>1, <1>2, <1>3, <1>4, <1>5

\* What a check adds to the results.
LEMMA ResultAdded ==
  ASSUME TypeOK, NEW r \in Runs, RunCheck(r)
  PROVE  \E p \in Remaining(r) : \E outcome \in Outcome :
            /\ \A q \in Remaining(r) : p <= q
            /\ ordered[r][p] \in Defs
            /\ (outcome = "blocked") = (ordered[r][p] \in Blocked(contract))
            /\ DOMAIN results'[r] = DOMAIN results[r] \cup {ordered[r][p]}
            /\ results'[r][ordered[r][p]] = outcome
            /\ \A j \in DOMAIN results[r] : j # ordered[r][p] => results'[r][j] = results[r][j]
            /\ results' \in [Runs -> UNION {[run -> Outcome] : run \in SUBSET Defs}]
            /\ \A q \in Runs \ {r} : results'[q] = results[q]
<1>1. PICK p \in Remaining(r) :
        /\ \A q \in Remaining(r) : p <= q
        /\ \E outcome \in IF ordered[r][p] \in Blocked(contract) THEN {"blocked"} ELSE Outcome \ {"blocked"} :
             results' = [results EXCEPT ![r] = [j \in DOMAIN @ \cup {ordered[r][p]} |->
                                                  IF j = ordered[r][p] THEN outcome ELSE @[j]]]
  BY DEF RunCheck
<1>2. PICK outcome \in IF ordered[r][p] \in Blocked(contract) THEN {"blocked"} ELSE Outcome \ {"blocked"} :
        results' = [results EXCEPT ![r] = [j \in DOMAIN @ \cup {ordered[r][p]} |->
                                             IF j = ordered[r][p] THEN outcome ELSE @[j]]]
  BY <1>1
<1>3. /\ outcome \in Outcome /\ (outcome = "blocked") = (ordered[r][p] \in Blocked(contract))
      /\ ordered[r][p] \in Defs
  <2>1. "blocked" \in Outcome
    BY DEF Outcome
  <2>2. ordered[r][p] \in Defs
    BY LenProperties, ElementOfSeq DEF Remaining, TypeOK
  <2> QED
    BY <1>2, <2>1, <2>2
<1> DEFINE i == ordered[r][p]
           new == [j \in DOMAIN results[r] \cup {i} |-> IF j = i THEN outcome ELSE results[r][j]]
<1>4. PICK run \in SUBSET Defs : results[r] \in [run -> Outcome]
  BY DEF TypeOK
<1>5. new \in [run \cup {i} -> Outcome] /\ run \cup {i} \in SUBSET Defs
  BY <1>3, <1>4
<1>6. new \in UNION {[some -> Outcome] : some \in SUBSET Defs}
  BY <1>5
<1>7. results' = [results EXCEPT ![r] = new]
  BY <1>2
<1>8. /\ DOMAIN new = DOMAIN results[r] \cup {i}
      /\ new[i] = outcome
      /\ \A j \in DOMAIN results[r] : j # i => new[j] = results[r][j]
  OBVIOUS
<1> HIDE DEF new
<1>9. /\ results'[r] = new
      /\ results' \in [Runs -> UNION {[some -> Outcome] : some \in SUBSET Defs}]
      /\ \A q \in Runs \ {r} : results'[q] = results[q]
  BY <1>6, <1>7 DEF TypeOK
<1> QED
  BY <1>1, <1>3, <1>8, <1>9

LEMMA OutcomesOfRun ==
  ASSUME TypeOK, NEW r \in Runs
  PROVE  /\ Range(results[r]) \subseteq Outcome /\ DOMAIN results[r] \subseteq Defs
         /\ \A i \in DOMAIN results[r] : results[r][i] \in Outcome
         /\ Classified(Range(results[r])) \in RunStatus
<1>1. PICK run \in SUBSET Defs : results[r] \in [run -> Outcome]
  BY DEF TypeOK
<1>2. Range(results[r]) \subseteq Outcome
  BY <1>1 DEF Range
<1> QED
  BY <1>1, <1>2, ClassifiedIsStatus

LEMMA RunStepsType ==
  ASSUME TypeInv, ListedAreDone, NEW r \in Runs,
         \/ RunCheck(r) \/ WriteRun(r) \/ WriteLatest(r) \/ ReadHistory(r) \/ WriteHistory(r)
         \/ Fail(r)
  PROVE  TypeInv'
<1> USE DEF TypeInv, TypeOK
<1>1. CASE RunCheck(r)
  <2>1. results' \in [Runs -> UNION {[run -> Outcome] : run \in SUBSET Defs}]
    BY <1>1, ResultAdded
  <2> QED
    BY <1>1, <2>1 DEF RunCheck, repositoryVars, selectVars, orderVars, fileVars, Known
<1>2. CASE WriteRun(r)
  <2>1. pc' \in [Runs -> Phases]
    BY <1>2 DEF WriteRun, Goto, Phases
  <2>2. runFiles' \in [Runs -> RunStatus \cup {NoRun}]
    BY <1>2, OutcomesOfRun DEF WriteRun
  <2> QED
    BY <1>2, <2>1, <2>2 DEF WriteRun, repositoryVars, selectVars, orderVars, Known
<1>3. CASE WriteLatest(r)
  <2>1. pc' \in [Runs -> Phases]
    BY <1>3 DEF WriteLatest, Goto, Phases
  <2> QED
    BY <1>3, <2>1 DEF WriteLatest, repositoryVars, selectVars, orderVars, Known
<1>4. CASE ReadHistory(r)
  <2>1. pc' \in [Runs -> Phases]
    BY <1>4 DEF ReadHistory, Goto, Phases
  <2> QED
    BY <1>4, <2>1 DEF ReadHistory, repositoryVars, selectVars, orderVars, fileVars, Known
<1>5. CASE WriteHistory(r)
  <2>1. pc' \in [Runs -> Phases]
    BY <1>5 DEF WriteHistory, Goto, Phases, Ended
  <2>2. history' \in Seq(Entry) /\ <<>> \in Seq(Entry)
    BY <1>5, HistoryWritten, EmptySeq
  <2> QED
    BY <1>5, <2>1, <2>2 DEF WriteHistory, repositoryVars, selectVars, orderVars, Known
<1>6. CASE Fail(r)
  <2>1. pc' \in [Runs -> Phases] /\ <<>> \in Seq(Entry)
    BY <1>6, EmptySeq DEF Fail, Goto, Phases, Ended
  <2> QED
    BY <1>6, <2>1 DEF Fail, repositoryVars, selectVars, orderVars, fileVars, Known
<1> QED
  BY <1>1, <1>2, <1>3, <1>4, <1>5, <1>6

LEMMA EditKeepsType == TypeInv /\ EditTree => TypeInv'
<1> SUFFICES ASSUME TypeInv, EditTree
             PROVE  TypeInv'
  OBVIOUS
<1> USE DEF TypeInv, TypeOK
<1>1. edits' \in 0 .. MaxEdits
  BY RunAssumption DEF EditTree
<1>2. tree' \in [Paths -> PathState]
  <2>1. \A p \in Paths : Edited(tree, p) \subseteq PathState
    BY DEF Edited, PathState
  <2>2. "moved" \in PathState /\ "arrived" \in PathState
    BY DEF PathState
  <2> QED
    BY <2>1, <2>2 DEF EditTree
<1>3. /\ seen' \in [Runs -> SUBSET Paths]
      /\ lasting' \in [Runs -> SUBSET Way]
  BY WaysOf DEF EditTree
<1>4. UNCHANGED <<contract, inTurn, pc, options, diff, status, selected, skip, visiting, ordered,
                  results, runFiles, latest, history, historyRead>>
  BY DEF EditTree, orderVars, fileVars
<1> QED
  BY <1>1, <1>2, <1>3, <1>4 DEF Known

LEMMA TypeStep == TypeInv /\ ListedAreDone /\ [Next]_vars => TypeInv'
<1>1. ASSUME TypeInv, UNCHANGED vars
      PROVE  TypeInv'
  BY <1>1 DEF vars, repositoryVars, selectVars, orderVars, fileVars, TypeInv, TypeOK, Known
<1> QED
  BY <1>1, SelectStepsType, OrderStepsType, RunStepsType, EditKeepsType DEF Next, Verify

-----------------------------------------------------------------------------
(* Selecting. *)

\* Of a command that has been issued: what it is told to look at has differed as the history
\* variables say, each answer of git has what of the lasting changes it can show, and the
\* selection is made of both answers.
SelectInvOf(r) ==
    /\ lasting[r] \subseteq Ways(tree, options[r].base)
    /\ pc[r] = "idle" => diff[r] = Unread /\ status[r] = Unread
    /\ pc[r] # "idle" => Differing(tree, options[r].base) \subseteq seen[r]
    /\ Changed(r) \subseteq NamesOfAll(seen[r])
    /\ diff[r].state = "read" \/ diff[r] \in {Unread, Failed}
    /\ status[r].state = "read" \/ status[r] \in {Unread, Failed}
    /\ diff[r].state = "read" =>
         \A e \in lasting[r] : ~e.untracked /\ tree[e.path] # "moved" => e.name \in diff[r].paths
    /\ status[r].state = "read" =>
         \A e \in lasting[r] : e.untracked => e.name \in status[r].paths
    /\ HasSelected(r) =>
         /\ diff[r] # Unread /\ status[r] # Unread
         /\ selected[r] = Selected(contract, options[r], Changed(r))

SelectInv == \A r \in Runs : SelectInvOf(r)

LEMMA InitSelect == Init => SelectInv
BY DEF Init, SelectInv, SelectInvOf, Changed, Unread, Answer, HasSelected

\* What differs from HEAD differs from any older ref.
LEMMA DifferingFromHead ==
  ASSUME NEW files, NEW base
  PROVE  /\ StatusPaths(files) \subseteq NamesOfAll(Differing(files, base))
         /\ DiffPaths(files, base) \subseteq NamesOfAll(Differing(files, base))
<1>1. Differing(files, "HEAD") \subseteq Differing(files, base)
  BY DEF Differing
<1>2. \A p : NamedAs(files, p) \subseteq NamesOf(p) /\ Mangled[p] \subseteq NamesOf(p) /\ p \in NamesOf(p)
  BY DEF NamedAs, NamesOf, Bare
<1>3. StatusPaths(files) \subseteq NamesOfAll(Differing(files, base))
  BY <1>1, <1>2 DEF StatusPaths, NamesOfAll
<1>4. DiffPaths(files, base) \subseteq NamesOfAll(Differing(files, base))
  BY <1>2 DEF DiffPaths, NamesOfAll
<1> QED
  BY <1>3, <1>4

LEMMA MoreNames ==
  ASSUME NEW S, NEW T, S \subseteq T
  PROVE  NamesOfAll(S) \subseteq NamesOfAll(T)
BY DEF NamesOfAll

LEMMA BeginSelects ==
  ASSUME TypeInv, SelectInv, NEW r \in Runs, Begin(r)
  PROVE  SelectInv'
<1> USE DEF TypeInv, TypeOK
<1>1. PICK o \in OptionsFor(contract) :
        /\ options' = [options EXCEPT ![r] = o]
        /\ seen' = [seen EXCEPT ![r] = Differing(tree, o.base)]
        /\ lasting' = [lasting EXCEPT ![r] = Ways(tree, o.base)]
  BY DEF Begin
<1>2. /\ pc[r] = "idle" /\ pc'[r] \in {"git", "unusable"}
      /\ \A q \in Runs \ {r} : pc'[q] = pc[q] /\ options'[q] = options[q]
                               /\ seen'[q] = seen[q] /\ lasting'[q] = lasting[q]
      /\ UNCHANGED <<contract, tree, diff, status, selected>>
  BY <1>1 DEF Begin, Goto, Loading, repositoryVars
<1>3. /\ options'[r] = o /\ seen'[r] = Differing(tree, o.base) /\ lasting'[r] = Ways(tree, o.base)
      /\ diff[r] = Unread /\ status[r] = Unread
  BY <1>1, <1>2 DEF SelectInv, SelectInvOf
<1>4. Changed(r)' = {}
  BY <1>2, <1>3 DEF Changed, Unread, Answer
<1>5. Unread.state # "read"
  BY DEF Unread, Answer
<1> SUFFICES ASSUME NEW q \in Runs
             PROVE  SelectInvOf(q)'
  BY DEF SelectInv
<1>6. CASE q = r
  BY <1>2, <1>3, <1>4, <1>5, <1>6 DEF SelectInvOf, HasSelected
<1>7. CASE q # r
  BY <1>2, <1>7 DEF SelectInv, SelectInvOf, HasSelected, Changed
<1> QED
  BY <1>6, <1>7

LEMMA ReadDiffSelects ==
  ASSUME TypeInv, SelectInv, NEW r \in Runs, ReadDiff(r)
  PROVE  SelectInv'
<1> USE DEF TypeInv, TypeOK
<1>1. PICK read \in {Answer("read", DiffPaths(tree, options[r].base)), Failed} :
        diff' = [diff EXCEPT ![r] = read]
  BY DEF ReadDiff
<1>2. /\ pc[r] = "git" /\ diff'[r] = read
      /\ \A q \in Runs \ {r} : diff'[q] = diff[q]
      /\ UNCHANGED <<contract, tree, pc, options, status, seen, lasting, selected>>
  BY <1>1 DEF ReadDiff, repositoryVars
<1>3. /\ read.state = "read" => read.paths = DiffPaths(tree, options[r].base)
      /\ read.state = "read" \/ read = Failed
      /\ read.paths \subseteq DiffPaths(tree, options[r].base)
  BY <1>1 DEF Answer, Failed
<1>4. Changed(r)' \subseteq NamesOfAll(seen[r])
  <2>1. /\ Differing(tree, options[r].base) \subseteq seen[r]
        /\ Changed(r) \subseteq NamesOfAll(seen[r])
    BY <1>2 DEF SelectInv, SelectInvOf
  <2>2. DiffPaths(tree, options[r].base) \subseteq NamesOfAll(seen[r])
    <3>1. NamesOfAll(Differing(tree, options[r].base)) \subseteq NamesOfAll(seen[r])
      BY <2>1, MoreNames
    <3>2. DiffPaths(tree, options[r].base) \subseteq NamesOfAll(Differing(tree, options[r].base))
      BY DifferingFromHead
    <3> QED
      BY <3>1, <3>2
  <2>3. Changed(r)' \subseteq Changed(r) \cup read.paths
    BY <1>2 DEF Changed
  <2> QED
    BY <1>2, <1>3, <2>1, <2>2, <2>3
<1>5. ASSUME NEW e \in lasting[r], ~e.untracked, tree[e.path] # "moved"
      PROVE  e.name \in DiffPaths(tree, options[r].base)
  <2>1. e \in Ways(tree, options[r].base)
    BY DEF SelectInv, SelectInvOf
  <2>2. /\ e.path \in Differing(tree, options[r].base) /\ e.name \in NamedAs(tree, e.path)
        /\ e.untracked = (tree[e.path] = "untracked")
    BY <2>1, WaysOf
  <2>3. e.name = e.path /\ tree[e.path] # "untracked"
    BY <1>5, <2>2 DEF NamedAs
  <2> QED
    BY <1>5, <2>2, <2>3 DEF DiffPaths
<1> SUFFICES ASSUME NEW q \in Runs
             PROVE  SelectInvOf(q)'
  BY DEF SelectInv
<1>6. CASE q = r
  BY <1>2, <1>3, <1>4, <1>5, <1>6 DEF SelectInv, SelectInvOf, HasSelected
<1>7. CASE q # r
  BY <1>2, <1>7 DEF SelectInv, SelectInvOf, HasSelected, Changed
<1> QED
  BY <1>6, <1>7

LEMMA ReadStatusSelects ==
  ASSUME TypeInv, SelectInv, NEW r \in Runs, ReadStatus(r)
  PROVE  SelectInv'
<1> USE DEF TypeInv, TypeOK
<1>1. PICK read \in {Answer("read", StatusPaths(tree)), Failed} :
        status' = [status EXCEPT ![r] = read]
  BY DEF ReadStatus
<1>2. /\ pc[r] = "git" /\ status'[r] = read
      /\ \A q \in Runs \ {r} : status'[q] = status[q]
      /\ UNCHANGED <<contract, tree, pc, options, diff, seen, lasting, selected>>
  BY <1>1 DEF ReadStatus, repositoryVars
<1>3. /\ read.state = "read" => read.paths = StatusPaths(tree)
      /\ read.state = "read" \/ read = Failed
      /\ read.paths \subseteq StatusPaths(tree)
  BY <1>1 DEF Answer, Failed
<1>4. Changed(r)' \subseteq NamesOfAll(seen[r])
  <2>1. /\ Differing(tree, options[r].base) \subseteq seen[r]
        /\ Changed(r) \subseteq NamesOfAll(seen[r])
    BY <1>2 DEF SelectInv, SelectInvOf
  <2>2. StatusPaths(tree) \subseteq NamesOfAll(seen[r])
    <3>1. NamesOfAll(Differing(tree, options[r].base)) \subseteq NamesOfAll(seen[r])
      BY <2>1, MoreNames
    <3>2. StatusPaths(tree) \subseteq NamesOfAll(Differing(tree, options[r].base))
      BY DifferingFromHead
    <3> QED
      BY <3>1, <3>2
  <2>3. Changed(r)' \subseteq Changed(r) \cup read.paths
    BY <1>2 DEF Changed
  <2> QED
    BY <1>2, <1>3, <2>1, <2>2, <2>3
<1>5. ASSUME NEW e \in lasting[r], e.untracked
      PROVE  e.name \in StatusPaths(tree)
  <2>1. e \in Ways(tree, options[r].base)
    BY DEF SelectInv, SelectInvOf
  <2>2. e.path \in Paths /\ tree[e.path] = "untracked" /\ e.name \in NamedAs(tree, e.path)
    BY <1>5, <2>1, WaysOf
  <2>3. e.path \in Differing(tree, "HEAD")
    BY <2>2 DEF Differing
  <2> QED
    BY <2>2, <2>3 DEF StatusPaths
<1> SUFFICES ASSUME NEW q \in Runs
             PROVE  SelectInvOf(q)'
  BY DEF SelectInv
<1>6. CASE q = r
  BY <1>2, <1>3, <1>4, <1>5, <1>6 DEF SelectInv, SelectInvOf, HasSelected
<1>7. CASE q # r
  BY <1>2, <1>7 DEF SelectInv, SelectInvOf, HasSelected, Changed
<1> QED
  BY <1>6, <1>7

LEMMA SelectSelects ==
  ASSUME TypeInv, SelectInv, NEW r \in Runs, Select(r)
  PROVE  SelectInv'
<1> USE DEF TypeInv, TypeOK
<1>1. /\ pc[r] = "git" /\ pc'[r] \in {"plan", "order"} /\ diff[r] # Unread /\ status[r] # Unread
      /\ selected' = [selected EXCEPT ![r] = Selected(contract, options[r], Changed(r))]
      /\ \A q \in Runs \ {r} : pc'[q] = pc[q]
      /\ UNCHANGED <<contract, tree, options, diff, status, seen, lasting>>
  BY DEF Select, Goto, repositoryVars, selectVars
<1>2. \A q \in Runs : Changed(q)' = Changed(q) /\ (q # r => selected'[q] = selected[q])
  BY <1>1 DEF Changed
<1>3. selected'[r] = Selected(contract, options[r], Changed(r))
  BY <1>1
<1> SUFFICES ASSUME NEW q \in Runs
             PROVE  SelectInvOf(q)'
  BY DEF SelectInv
<1>4. CASE q = r
  BY <1>1, <1>2, <1>3, <1>4 DEF SelectInv, SelectInvOf
<1>5. CASE q # r
  BY <1>1, <1>2, <1>5 DEF SelectInv, SelectInvOf, HasSelected
<1> QED
  BY <1>4, <1>5

LEMMA EditSelects ==
  ASSUME TypeInv, SelectInv, EditTree
  PROVE  SelectInv'
<1> USE DEF TypeInv, TypeOK
<1>1. UNCHANGED <<contract, pc, options, diff, status, selected>>
  BY DEF EditTree
<1>2. \A r \in Runs : /\ seen'[r] = seen[r] \cup Differing(tree', options[r].base)
                      /\ lasting'[r] = lasting[r] \cap Ways(tree', options[r].base)
  BY DEF EditTree
<1>3. \A p \in Paths : tree[p] = "moved" => tree'[p] = "moved"
  BY DEF EditTree, Edited
<1>4. \A r \in Runs : Changed(r)' = Changed(r)
  BY <1>1 DEF Changed
<1> SUFFICES ASSUME NEW r \in Runs
             PROVE  SelectInvOf(r)'
  BY DEF SelectInv
<1>5. lasting'[r] \subseteq Ways(tree', options[r].base) /\ lasting'[r] \subseteq lasting[r]
  BY <1>2
<1>6. \A e \in lasting[r] : e.path \in Paths
  BY DEF Way
<1>7. \A e \in lasting'[r] : tree'[e.path] # "moved" => tree[e.path] # "moved"
  BY <1>3, <1>5, <1>6
<1>8. NamesOfAll(seen[r]) \subseteq NamesOfAll(seen'[r])
  BY <1>2, MoreNames
<1> QED
  BY <1>1, <1>2, <1>4, <1>5, <1>7, <1>8 DEF SelectInv, SelectInvOf, HasSelected

\* What the other steps leave alone, and where they lead.
LEMMA SelectedForGood ==
  ASSUME TypeInv, NEW r \in Runs,
         \/ VisitNext(r) \/ Require(r) \/ Refuse(r) \/ Place(r) \/ EndOrder(r)
         \/ RunCheck(r) \/ WriteRun(r) \/ WriteLatest(r) \/ ReadHistory(r) \/ WriteHistory(r)
         \/ Fail(r)
  PROVE  /\ UNCHANGED <<contract, tree, edits, inTurn, options, diff, status, seen, lasting, selected, skip>>
         /\ \A q \in Runs : q # r => pc'[q] = pc[q]
         /\ pc'[r] \notin {"idle", "git"} /\ (HasSelected(r)' => HasSelected(r)) /\ pc[r] # "idle"
         /\ pc[r] \in {"idle", "git"} => pc'[r] = "failed"
<1> USE DEF TypeInv, TypeOK, repositoryVars, selectVars, HasSelected, Goto
<1>1. CASE VisitNext(r) \/ Require(r) \/ Refuse(r) \/ Place(r) \/ EndOrder(r)
  BY <1>1 DEF VisitNext, Require, Refuse, Place, EndOrder, Ordering
<1>2. CASE RunCheck(r) \/ WriteRun(r) \/ WriteLatest(r) \/ ReadHistory(r) \/ WriteHistory(r)
  BY <1>2 DEF RunCheck, WriteRun, WriteLatest, ReadHistory, WriteHistory
<1>3. CASE Fail(r)
  BY <1>3 DEF Fail, Ended
<1> QED
  BY <1>1, <1>2, <1>3

LEMMA SelectStep == TypeInv /\ SelectInv /\ [Next]_vars => SelectInv'
<1> SUFFICES ASSUME TypeInv, SelectInv, [Next]_vars
             PROVE  SelectInv'
  OBVIOUS
<1>1. ASSUME NEW r \in Runs,
             \/ VisitNext(r) \/ Require(r) \/ Refuse(r) \/ Place(r) \/ EndOrder(r)
             \/ RunCheck(r) \/ WriteRun(r) \/ WriteLatest(r) \/ ReadHistory(r) \/ WriteHistory(r)
             \/ Fail(r)
      PROVE  SelectInv'
  <2>1. /\ UNCHANGED <<contract, tree, options, diff, status, seen, lasting, selected>>
        /\ \A q \in Runs : /\ q # r => pc'[q] = pc[q]
                           /\ pc'[q] = "idle" <=> pc[q] = "idle"
                           /\ HasSelected(q)' => HasSelected(q)
    BY <1>1, SelectedForGood DEF HasSelected
  <2> QED
    BY <2>1 DEF SelectInv, SelectInvOf, Changed
<1>2. CASE UNCHANGED vars
  BY <1>2 DEF vars, repositoryVars, selectVars, SelectInv, SelectInvOf, Changed, HasSelected
<1> QED
  BY <1>1, <1>2, BeginSelects, ReadDiffSelects, ReadStatusSelects, SelectSelects, EditSelects
     DEF Next, Verify

LessThan == {p \in Nat \X Nat : p[1] < p[2]}

\* A set of numbers that is not empty has a least one.
LEMMA LeastOf ==
  ASSUME NEW S \in SUBSET Nat, S # {}
  PROVE  \E i \in S : \A j \in S : i <= j
<1>1. IsWellFoundedOn(LessThan, Nat)
  BY NatLessThanWellFounded DEF LessThan, OpToRel
<1>2. PICK i \in S : \A j \in S : <<j, i>> \notin LessThan
  BY <1>1, WFMin
<1>3. ASSUME NEW j \in S
      PROVE  i <= j
  <2>1. i \in Nat /\ j \in Nat /\ (j < i => <<j, i>> \in LessThan)
    BY DEF LessThan
  <2> QED
    BY <1>2, <2>1
<1> QED
  BY <1>3

\* Leaving out all but the first check with an id loses no id.
LEMMA NoIdIsLost ==
  ASSUME NEW c, NEW o, NEW changed
  PROVE  IdsOf(c, Chosen(c, o, changed)) \subseteq IdsOf(c, Selected(c, o, changed))
<1> SUFFICES ASSUME NEW i \in Chosen(c, o, changed)
             PROVE  c.id[i] \in IdsOf(c, Selected(c, o, changed))
  BY DEF IdsOf
<1> DEFINE S == {j \in Chosen(c, o, changed) : c.id[j] = c.id[i]}
<1>1. S \in SUBSET Nat /\ S # {}
  BY ChecksAssumption DEF Chosen, Defs
<1>2. PICK j \in S : \A k \in S : j <= k
  BY <1>1, LeastOf
<1>3. j \in Selected(c, o, changed) /\ c.id[j] = c.id[i]
  BY <1>2 DEF Selected
<1> QED
  BY <1>3 DEF IdsOf

\* What impacts a component.
LEMMA BroughtIn ==
  ASSUME NEW c, NEW o, NEW changed, NEW m
  PROVE  m \in Impacted(c, o, changed) <=>
           \/ m \in o.components
           \/ m \in Components /\ About[m] \cap changed # {}
           \/ \E k \in 1 .. NumRules : /\ m \in RuleComponents(c, k)
                                       /\ \E q \in c.rules[k].paths : Matches[q] \cap changed # {}
<1> DEFINE K == {k \in 1 .. NumRules : \E q \in c.rules[k].paths : Matches[q] \cap changed # {}}
           A == {n \in Components : About[n] \cap changed # {}}
           R == UNION {RuleComponents(c, k) : k \in K}
<1>1. Impacted(c, o, changed) = o.components \cup R \cup A
  BY DEF Impacted
<1>2. m \in R <=> \E k \in K : m \in RuleComponents(c, k)
  OBVIOUS
<1>3. (\E k \in K : m \in RuleComponents(c, k))
        <=> \E k \in 1 .. NumRules : /\ m \in RuleComponents(c, k)
                                     /\ \E q \in c.rules[k].paths : Matches[q] \cap changed # {}
  OBVIOUS
<1>4. m \in A <=> m \in Components /\ About[m] \cap changed # {}
  OBVIOUS
<1> HIDE DEF K, A, R
<1> QED
  BY <1>1, <1>2, <1>3, <1>4

LEMMA ConcernedAreChosen ==
  ASSUME contract \in Contracts, NEW o, NEW changed, NEW p \in changed
  PROVE  Concerned(p) \subseteq Chosen(contract, o, changed)
<1> SUFFICES ASSUME NEW i \in Concerned(p)
             PROVE  i \in Chosen(contract, o, changed)
  OBVIOUS
<1>1. i \in Defs /\ ~Default(contract, i)
  BY DEF Concerned
<1>2. CASE \E q \in PathsOf(contract, i) : p \in Begins[q]
  BY <1>1, <1>2 DEF Chosen
<1>3. ASSUME NEW m \in ComponentsOf(contract, i),
             \/ p \in About[m]
             \/ \E k \in 1 .. NumRules :
                  /\ m \in RuleComponents(contract, k)
                  /\ \E q \in contract.rules[k].paths : p \in Matches[q]
      PROVE  i \in Chosen(contract, o, changed)
  <2>1. m \in Components
    <3>1. /\ contract.rule[i] \in 1 .. NumRules
          /\ contract.claims[i] \in Claims
      BY <1>1, ChecksAssumption DEF Contracts, Default
    <3>2. contract.rules[contract.rule[i]] \in Claims
      BY <3>1 DEF Contracts
    <3> QED
      BY <1>3, <3>1, <3>2 DEF ComponentsOf, Claims
  <2>2. m \in Impacted(contract, o, changed)
    BY <1>3, <2>1, BroughtIn
  <2> QED
    BY <1>1, <2>2 DEF Chosen
<1> QED
  BY <1>2, <1>3 DEF Concerned

\* A command told to look at changes and at nothing else chooses what a change concerns.
LEMMA ChosenAreConcerned ==
  ASSUME contract \in Contracts, NEW o \in Options, NEW changed, o.changed,
         o.requested = {}, o.paths = {}, o.components = {}, NEW i \in Chosen(contract, o, changed)
  PROVE  \E p \in changed : i \in Concerned(p)
<1>1. ~o.all
  BY DEF Options
<1>2. /\ i \in Defs /\ ~Default(contract, i)
      /\ \/ \E q \in PathsOf(contract, i) : Begins[q] \cap changed # {}
         \/ ComponentsOf(contract, i) \cap Impacted(contract, o, changed) # {}
  BY <1>1 DEF Chosen, IncludesDefaults
<1>3. CASE \E q \in PathsOf(contract, i) : Begins[q] \cap changed # {}
  BY <1>2, <1>3 DEF Concerned
<1>4. ASSUME NEW m \in ComponentsOf(contract, i) \cap Impacted(contract, o, changed)
      PROVE  \E p \in changed : i \in Concerned(p)
  <2>1. CASE About[m] \cap changed # {}
    BY <1>2, <2>1 DEF Concerned
  <2>2. ASSUME NEW k \in 1 .. NumRules, m \in RuleComponents(contract, k),
               NEW q \in contract.rules[k].paths, Matches[q] \cap changed # {}
        PROVE  \E p \in changed : i \in Concerned(p)
    BY <1>2, <2>2 DEF Concerned
  <2> QED
    BY <2>1, <2>2, BroughtIn
<1> QED
  BY <1>2, <1>3, <1>4

LEMMA SelectedRight == TypeInv /\ SelectInv => SelectionIsRight
<1> SUFFICES ASSUME TypeInv, SelectInv
             PROVE  SelectionIsRight
  OBVIOUS
<1> USE DEF TypeInv, TypeOK
<1>1. ASSUME NEW r \in Runs, HasSelected(r), Failed \notin {diff[r], status[r]},
             NEW e \in lasting[r], tree[e.path] # "moved"
      PROVE  IdsOf(contract, Concerned(e.name)) \subseteq IdsOf(contract, selected[r])
  <2>1. /\ diff[r].state = "read" /\ status[r].state = "read"
        /\ selected[r] = Selected(contract, options[r], Changed(r))
    BY <1>1 DEF SelectInv, SelectInvOf
  <2>2. e.name \in Changed(r)
    <3>1. e \in Way
      OBVIOUS
    <3>2. e.untracked \in BOOLEAN
      BY <3>1 DEF Way
    <3> QED
      BY <1>1, <2>1, <3>2 DEF SelectInv, SelectInvOf, Changed
  <2>3. Concerned(e.name) \subseteq Chosen(contract, options[r], Changed(r))
    BY <2>2, ConcernedAreChosen
  <2>4. IdsOf(contract, Concerned(e.name)) \subseteq IdsOf(contract, Chosen(contract, options[r], Changed(r)))
    BY <2>3 DEF IdsOf
  <2> QED
    BY <2>1, <2>4, NoIdIsLost
<1>2. ASSUME NEW r \in Runs, HasSelected(r), options[r].changed,
             {options[r].requested, options[r].paths, options[r].components} = {{}},
             NEW i \in selected[r]
      PROVE  \E p \in seen[r] : \E n \in NamesOf(p) : i \in Concerned(n)
  <2>1. /\ options[r] \in Options
        /\ options[r].requested = {} /\ options[r].paths = {} /\ options[r].components = {}
    BY <1>2
  <2>2. i \in Chosen(contract, options[r], Changed(r)) /\ Changed(r) \subseteq NamesOfAll(seen[r])
    BY <1>2 DEF SelectInv, SelectInvOf, Selected
  <2>3. \E p \in Changed(r) : i \in Concerned(p)
    <3> DEFINE o == options[r]
    <3>1. o \in Options /\ o.changed /\ o.requested = {} /\ o.paths = {} /\ o.components = {}
      BY <1>2, <2>1
    <3> HIDE DEF o, TypeInv, TypeOK
    <3>2. i \in Chosen(contract, o, Changed(r))
      BY <2>2 DEF o
    <3>3. contract \in Contracts
      BY DEF TypeInv, TypeOK
    <3> QED
      BY <3>1, <3>2, <3>3, ChosenAreConcerned
  <2> QED
    BY <2>2, <2>3 DEF NamesOfAll
<1> QED
  BY <1>1, <1>2 DEF SelectionIsRight, LastingChangeIsVerified, ChangedOnly

-----------------------------------------------------------------------------
(* Ordering. *)

\* Some of the selected checks can never be put in order.
Unorderable(r) ==
    \/ \E i \in selected[r] : ~ contract.requires[i] \subseteq IdsOf(contract, selected[r])
    \/ \E S \in (SUBSET selected[r]) \ {{}} :
         \A i \in S : contract.requires[i] \cap IdsOf(contract, S) # {}

\* The checks being visited (v) and the checks that are ordered (s) are selected, and all
\* different; each check being visited is required by the one before it, and each ordered check
\* comes after all it requires.
OrderedSo(v, s, S) ==
    /\ \A k \in 1 .. Len(s) : s[k] \in S
    /\ \A k \in 1 .. Len(v) : v[k] \in S
    /\ \A k, m \in 1 .. Len(s) : s[k] = s[m] => k = m
    /\ \A k, m \in 1 .. Len(v) : v[k] = v[m] => k = m
    /\ \A k \in 1 .. Len(v), m \in 1 .. Len(s) : v[k] # s[m]
    /\ \A k, m \in 1 .. Len(v) : m = k + 1 => contract.id[v[m]] \in contract.requires[v[k]]
    /\ \A k \in 1 .. Len(s) : \A id \in contract.requires[s[k]] :
         \E m \in 1 .. Len(s) : m < k /\ contract.id[s[m]] = id

OrderInvOf(r) ==
    /\ OrderedSo(visiting[r], ordered[r], selected[r])
    /\ pc[r] \in {"idle", "git"} => visiting[r] = <<>> /\ ordered[r] = <<>>
    /\ IsOrdered(r) => selected[r] \subseteq Visited(r)
    /\ pc[r] = "refused" => Unorderable(r)

OrderInv == \A r \in Runs : OrderInvOf(r)

LEMMA NothingOrdered ==
  ASSUME NEW S
  PROVE  OrderedSo(<<>>, <<>>, S)
<1>1. Len(<<>>) = 0
  BY EmptySeq
<1> QED
  BY <1>1 DEF OrderedSo

LEMMA VisitBegun ==
  ASSUME NEW S, NEW s \in Seq(Defs), OrderedSo(<<>>, s, S), NEW i \in S, \A m \in 1 .. Len(s) : i # s[m]
  PROVE  OrderedSo(<<i>>, s, S)
<1>1. Len(<<i>>) = 1 /\ <<i>>[1] = i
  OBVIOUS
<1> DEFINE v == <<i>>
<1> HIDE DEF v
<1>2. Len(v) = 1 /\ v[1] = i
  BY <1>1 DEF v
<1>3. OrderedSo(v, s, S)
  BY <1>2 DEF OrderedSo
<1> QED
  BY <1>3 DEF v

LEMMA VisitNested ==
  ASSUME NEW S, NEW v \in Seq(Defs), NEW s \in Seq(Defs), OrderedSo(v, s, S), v # <<>>,
         NEW i \in S, i \in Defs, contract.id[i] \in contract.requires[Last(v)],
         \A m \in 1 .. Len(s) : i # s[m], \A k \in 1 .. Len(v) : i # v[k]
  PROVE  OrderedSo(Append(v, i), s, S)
<1>1. Len(v) \in Nat \ {0} /\ Last(v) = v[Len(v)]
  BY FrontAndLast
<1> DEFINE w == Append(v, i)
<1>2. /\ Len(w) = Len(v) + 1 /\ w[Len(v) + 1] = i
      /\ \A k \in 1 .. Len(v) : w[k] = v[k]
  BY AppendProperties
<1> HIDE DEF w
<1>3. \A k \in 1 .. Len(w) : (w[k] = i /\ k = Len(v) + 1) \/ (k \in 1 .. Len(v) /\ w[k] = v[k])
  BY <1>1, <1>2
<1>4. /\ \A k \in 1 .. Len(w) : w[k] \in S
      /\ \A k, m \in 1 .. Len(w) : w[k] = w[m] => k = m
      /\ \A k \in 1 .. Len(w), m \in 1 .. Len(s) : w[k] # s[m]
  BY <1>3 DEF OrderedSo
<1>5. ASSUME NEW k \in 1 .. Len(w), NEW m \in 1 .. Len(w), m = k + 1
      PROVE  contract.id[w[m]] \in contract.requires[w[k]]
  <2>1. k \in 1 .. Len(v) /\ w[k] = v[k]
    BY <1>1, <1>2, <1>5
  <2>2. CASE m = Len(v) + 1
    BY <1>1, <1>2, <1>5, <2>1, <2>2
  <2>3. CASE m # Len(v) + 1
    <3>1. m \in 1 .. Len(v) /\ w[m] = v[m]
      BY <1>3, <2>3
    <3> QED
      BY <1>5, <2>1, <3>1 DEF OrderedSo
  <2> QED
    BY <2>2, <2>3
<1>6. OrderedSo(w, s, S)
  BY <1>4, <1>5 DEF OrderedSo
<1> QED
  BY <1>6 DEF w

LEMMA VisitEnded ==
  ASSUME NEW S, NEW v \in Seq(Defs), NEW s \in Seq(Defs), OrderedSo(v, s, S), v # <<>>,
         \A id \in contract.requires[Last(v)] : \E m \in 1 .. Len(s) : contract.id[s[m]] = id
  PROVE  OrderedSo(Front(v), Append(s, Last(v)), S)
<1>1. /\ Len(v) \in Nat \ {0} /\ Last(v) = v[Len(v)] /\ Last(v) \in Defs /\ Len(s) \in Nat
      /\ Len(Front(v)) = Len(v) - 1 /\ \A k \in 1 .. Len(v) - 1 : Front(v)[k] = v[k]
  BY FrontAndLast, LenProperties
<1> DEFINE w == Append(s, Last(v))
           u == Front(v)
           i == Last(v)
           l == Len(s)
<1>2. Len(w) = l + 1 /\ w[l + 1] = i /\ \A k \in 1 .. l : w[k] = s[k]
  BY <1>1, AppendProperties
<1>3. l \in Nat /\ i = v[Len(v)]
  BY <1>1
<1>4. \A id \in contract.requires[i] : \E m \in 1 .. l : contract.id[s[m]] = id
  OBVIOUS
<1>5. \A k \in 1 .. Len(u) : k \in 1 .. Len(v) /\ u[k] = v[k] /\ k # Len(v)
  BY <1>1
<1> HIDE DEF w, u, i
<1>6. \A k \in 1 .. Len(w) : (w[k] = i /\ k = l + 1) \/ (k \in 1 .. l /\ w[k] = s[k])
  BY <1>2, <1>3
<1>7. i \in S /\ \A m \in 1 .. l : i # s[m]
  BY <1>1, <1>3 DEF OrderedSo
<1>8. \A k \in 1 .. Len(u) : u[k] # i
  BY <1>1, <1>3, <1>5 DEF OrderedSo
<1>9. /\ \A k \in 1 .. Len(w) : w[k] \in S
      /\ \A k, m \in 1 .. Len(w) : w[k] = w[m] => k = m
  <2>1. \A k \in 1 .. Len(w) : w[k] \in S
    BY <1>6, <1>7 DEF OrderedSo
  <2>2. ASSUME NEW k \in 1 .. Len(w), NEW m \in 1 .. Len(w), w[k] = w[m]
        PROVE  k = m
    <3>1. CASE k \in 1 .. l /\ m \in 1 .. l
      BY <1>2, <2>2, <3>1 DEF OrderedSo
    <3>2. CASE ~(k \in 1 .. l /\ m \in 1 .. l)
      BY <1>6, <1>7, <2>2, <3>2
    <3> QED
      BY <3>1, <3>2
  <2> QED
    BY <2>1, <2>2
<1>10. /\ \A k \in 1 .. Len(u) : u[k] \in S
       /\ \A k, m \in 1 .. Len(u) : u[k] = u[m] => k = m
       /\ \A k, m \in 1 .. Len(u) : m = k + 1 => contract.id[u[m]] \in contract.requires[u[k]]
  BY <1>5 DEF OrderedSo
<1>11. \A k \in 1 .. Len(u), m \in 1 .. Len(w) : u[k] # w[m]
  BY <1>5, <1>6, <1>8 DEF OrderedSo
<1>12. ASSUME NEW k \in 1 .. Len(w), NEW id \in contract.requires[w[k]]
       PROVE  \E m \in 1 .. Len(w) : m < k /\ contract.id[w[m]] = id
  <2>1. PICK m \in 1 .. l : m < k /\ contract.id[s[m]] = id
    <3>1. CASE w[k] = i /\ k = l + 1
      BY <1>3, <1>4, <1>12, <3>1
    <3>2. CASE k \in 1 .. l /\ w[k] = s[k]
      BY <1>12, <3>2 DEF OrderedSo
    <3> QED
      BY <1>6, <3>1, <3>2
  <2>2. m \in 1 .. Len(w) /\ w[m] = s[m]
    BY <1>2, <1>3
  <2> QED
    BY <2>1, <2>2
<1>13. OrderedSo(u, w, S)
  BY <1>9, <1>10, <1>11, <1>12 DEF OrderedSo
<1> QED
  BY <1>13 DEF u, w

LEMMA InitOrder == Init => OrderInv
BY NothingOrdered DEF Init, OrderInv, OrderInvOf, IsOrdered

\* The checks of a sequence.
LEMMA VisitedChecks ==
  ASSUME TypeOK, NEW r \in Runs
  PROVE  /\ ordered[r] \in Seq(Defs) /\ Len(ordered[r]) \in Nat
         /\ visiting[r] \in Seq(Defs) /\ Len(visiting[r]) \in Nat
         /\ Visited(r) = {ordered[r][k] : k \in 1 .. Len(ordered[r])}
         /\ ToSet(visiting[r]) = {visiting[r][k] : k \in 1 .. Len(visiting[r])}
<1>1. /\ ordered[r] \in Seq(Defs) /\ Len(ordered[r]) \in Nat
      /\ visiting[r] \in Seq(Defs) /\ Len(visiting[r]) \in Nat
  BY LenProperties DEF TypeOK
<1>2. DOMAIN ordered[r] = 1 .. Len(ordered[r]) /\ DOMAIN visiting[r] = 1 .. Len(visiting[r])
  BY <1>1, LenProperties
<1> QED
  BY <1>1, <1>2 DEF Visited, ToSet

LEMMA StillOrderedSo ==
  ASSUME NEW r \in Runs, OrderedSo(visiting[r], ordered[r], selected[r]), contract' = contract,
         visiting'[r] = visiting[r], ordered'[r] = ordered[r], selected'[r] = selected[r]
  PROVE  OrderedSo(visiting[r], ordered[r], selected[r])'
<1> DEFINE v == visiting[r]
           s == ordered[r]
           S == selected[r]
<1>1. OrderedSo(v, s, S) /\ v' = v /\ s' = s /\ S' = S
  OBVIOUS
<1> HIDE DEF v, s, S
<1>2. OrderedSo(v, s, S)'
  BY <1>1 DEF OrderedSo
<1> QED
  BY <1>2 DEF v, s, S

\* A step that leaves what a command has ordered as it was, and does not put it in a phase that
\* says more.
LEMMA OrderedElsewhere ==
  ASSUME OrderInv, NEW r \in Runs, UNCHANGED <<contract, selected[r], visiting[r], ordered[r]>>,
         pc'[r] \in {"idle", "git"} => pc[r] \in {"idle", "git"},
         IsOrdered(r)' => IsOrdered(r),
         pc'[r] = "refused" => pc[r] = "refused"
  PROVE  OrderInvOf(r)'
<1>1. selected'[r] = selected[r] /\ visiting'[r] = visiting[r] /\ ordered'[r] = ordered[r] /\ contract' = contract
  OBVIOUS
<1>2. OrderedSo(visiting[r], ordered[r], selected[r])'
  BY <1>1, StillOrderedSo DEF OrderInv, OrderInvOf
<1>3. Unorderable(r) => Unorderable(r)'
  BY <1>1 DEF Unorderable
<1>4. Visited(r)' = Visited(r)
  BY <1>1 DEF Visited
<1> QED
  BY <1>1, <1>2, <1>3, <1>4 DEF OrderInv, OrderInvOf

LEMMA OrderStepsOrder ==
  ASSUME TypeInv, OrderInv, NEW r \in Runs, VisitNext(r) \/ Require(r) \/ Place(r)
  PROVE  OrderInvOf(r)'
<1> USE DEF TypeInv
<1> DEFINE v == visiting[r]
           s == ordered[r]
           S == selected[r]
<1>1. /\ UNCHANGED <<contract, selected, pc>> /\ Ordering(r)
      /\ OrderedSo(v, s, S) /\ v \in Seq(Defs) /\ s \in Seq(Defs) /\ S \subseteq Defs
  BY VisitedChecks DEF VisitNext, Require, Place, repositoryVars, OrderInv, OrderInvOf, TypeOK
<1>2. ASSUME VisitNext(r)
      PROVE  OrderedSo(visiting'[r], ordered'[r], S)
  <2>1. PICK i \in S \ Visited(r) : visiting' = [visiting EXCEPT ![r] = <<i>>]
    BY <1>2 DEF VisitNext
  <2>2. v = <<>> /\ visiting'[r] = <<i>> /\ ordered'[r] = s
    BY <1>2, <2>1 DEF VisitNext, TypeOK
  <2>3. \A m \in 1 .. Len(s) : i # s[m]
    BY <2>1, VisitedChecks
  <2>4. OrderedSo(<<>>, s, S)
    BY <1>1, <2>2
  <2> HIDE DEF s, S
  <2>5. OrderedSo(<<i>>, s, S)
    BY <1>1, <2>1, <2>3, <2>4, VisitBegun
  <2> QED
    BY <2>2, <2>5
<1>3. ASSUME Require(r)
      PROVE  OrderedSo(visiting'[r], ordered'[r], S)
  <2>1. PICK id \in Pending(r) \cap IdsOf(contract, S) :
          /\ CheckOf(contract, S, id) \notin ToSet(v)
          /\ visiting' = [visiting EXCEPT ![r] = Append(@, CheckOf(contract, S, id))]
    BY <1>3 DEF Require
  <2> DEFINE i == CheckOf(contract, S, id)
  <2>2. i \in S /\ contract.id[i] = id
    BY <2>1, CheckWithId
  <2>3. v # <<>> /\ visiting'[r] = Append(v, i) /\ ordered'[r] = s
    BY <1>3, <2>1 DEF Require, TypeOK
  <2>4. id \in contract.requires[Last(v)] /\ id \notin IdsOf(contract, Visited(r))
    BY <2>1 DEF Pending
  <2>5. \A m \in 1 .. Len(s) : i # s[m]
    BY <2>2, <2>4, VisitedChecks DEF IdsOf
  <2>6. \A k \in 1 .. Len(v) : i # v[k]
    BY <2>1, VisitedChecks
  <2> HIDE DEF i, v, s, S
  <2>7. OrderedSo(Append(v, i), s, S)
    BY <1>1, <2>2, <2>3, <2>4, <2>5, <2>6, VisitNested
  <2> QED
    BY <2>3, <2>7
<1>4. ASSUME Place(r)
      PROVE  OrderedSo(visiting'[r], ordered'[r], S)
  <2>1. v # <<>> /\ visiting'[r] = Front(v) /\ ordered'[r] = Append(s, Last(v))
    BY <1>4 DEF Place, TypeOK
  <2>2. \A id \in contract.requires[Last(v)] : id \in IdsOf(contract, Visited(r))
    BY <1>4 DEF Place, Pending
  <2>3. \A id \in contract.requires[Last(v)] : \E m \in 1 .. Len(s) : contract.id[s[m]] = id
    BY <2>2, VisitedChecks DEF IdsOf
  <2> HIDE DEF v, s, S
  <2>4. OrderedSo(Front(v), Append(s, Last(v)), S)
    BY <1>1, <2>1, <2>3, VisitEnded
  <2> QED
    BY <2>1, <2>4
<1>5. OrderedSo(visiting'[r], ordered'[r], S)
  BY <1>2, <1>3, <1>4
<1>6. OrderedSo(visiting[r], ordered[r], selected[r])'
  BY <1>1, <1>5 DEF OrderedSo
<1> QED
  BY <1>1, <1>6 DEF OrderInvOf, Ordering, IsOrdered

LEMMA RefuseOrders ==
  ASSUME TypeInv, OrderInv, NEW r \in Runs, Refuse(r)
  PROVE  OrderInvOf(r)'
<1> USE DEF TypeInv
<1> DEFINE v == visiting[r]
           n == Len(v)
<1>1. v \in Seq(Defs) /\ v # <<>> /\ OrderedSo(v, ordered[r], selected[r])
  BY VisitedChecks DEF Refuse, OrderInv, OrderInvOf
<1>2. n \in Nat \ {0} /\ Last(v) = v[n]
  BY <1>1, FrontAndLast
<1>3. \A k \in 1 .. n : v[k] \in selected[r]
  BY <1>1 DEF OrderedSo
<1>4. \A k, m \in 1 .. n : m = k + 1 => contract.id[v[m]] \in contract.requires[v[k]]
  BY <1>1 DEF OrderedSo
<1>5. PICK id \in contract.requires[v[n]] :
        \/ id \notin IdsOf(contract, selected[r])
        \/ id \in IdsOf(contract, ToSet(v))
  BY <1>2 DEF Refuse, Pending
<1> HIDE DEF v, n
<1>6. ASSUME id \notin IdsOf(contract, selected[r])
      PROVE  Unorderable(r)
  BY <1>2, <1>3, <1>5, <1>6 DEF Unorderable
<1>7. ASSUME NEW k \in 1 .. n, contract.id[v[k]] = id
      PROVE  Unorderable(r)
  <2> DEFINE S == {v[m] : m \in k .. n}
  <2>1. S \subseteq selected[r] /\ v[k] \in S
    BY <1>2, <1>3
  <2>2. ASSUME NEW m \in k .. n
        PROVE  contract.requires[v[m]] \cap IdsOf(contract, S) # {}
    <3>1. CASE m = n
      <4>1. id \in IdsOf(contract, S)
        BY <1>7, <2>1 DEF IdsOf
      <4> QED
        BY <1>5, <3>1, <4>1
    <3>2. CASE m # n
      <4>1. m \in 1 .. n /\ m + 1 \in 1 .. n /\ m + 1 \in k .. n
        BY <1>2, <3>2
      <4>2. contract.id[v[m + 1]] \in contract.requires[v[m]]
        BY <1>4, <4>1
      <4>3. v[m + 1] \in S
        BY <4>1
      <4> HIDE DEF S
      <4>4. contract.id[v[m + 1]] \in IdsOf(contract, S)
        BY <4>3 DEF IdsOf
      <4> QED
        BY <4>2, <4>4
    <3> QED
      BY <3>1, <3>2
  <2>3. \A i \in S : contract.requires[i] \cap IdsOf(contract, S) # {}
    BY <2>2
  <2> HIDE DEF S
  <2>4. S \in (SUBSET selected[r]) \ {{}}
    BY <2>1
  <2> QED
    BY <2>3, <2>4 DEF Unorderable
<1>8. Unorderable(r)
  <2>1. ToSet(v) = {v[k] : k \in 1 .. n}
    BY VisitedChecks DEF v, n
  <2> QED
    BY <1>5, <1>6, <1>7, <2>1 DEF IdsOf
<1>9. /\ visiting'[r] = <<>> /\ pc'[r] = "refused"
      /\ UNCHANGED <<contract, selected, ordered>>
  BY DEF Refuse, Goto, TypeOK, repositoryVars
<1>10. Unorderable(r)'
  BY <1>8, <1>9 DEF Unorderable
<1>11. OrderedSo(visiting[r], ordered[r], selected[r])'
  <2>1. Len(<<>>) = 0
    BY EmptySeq
  <2> QED
    BY <1>1, <1>9, <2>1 DEF OrderedSo
<1> QED
  BY <1>9, <1>10, <1>11 DEF OrderInvOf, IsOrdered

\* What a step of one command leaves another.
LEMMA OthersKept ==
  ASSUME TypeOK, NEW r \in Runs, Verify(r), NEW q \in Runs, q # r
  PROVE  UNCHANGED <<contract, inTurn, selected[q], skip[q], visiting[q], ordered[q], pc[q], results[q],
                     runFiles[q], historyRead[q]>>
<1> USE DEF TypeOK, repositoryVars, selectVars, orderVars, fileVars, Goto
<1>1. CASE Begin(r) \/ ReadDiff(r) \/ ReadStatus(r) \/ Select(r)
  BY <1>1 DEF Begin, ReadDiff, ReadStatus, Select
<1>2. CASE VisitNext(r) \/ Require(r) \/ Refuse(r) \/ Place(r) \/ EndOrder(r)
  BY <1>2 DEF VisitNext, Require, Refuse, Place, EndOrder
<1>3. CASE RunCheck(r) \/ WriteRun(r) \/ WriteLatest(r) \/ ReadHistory(r) \/ WriteHistory(r) \/ Fail(r)
  BY <1>3 DEF RunCheck, WriteRun, WriteLatest, ReadHistory, WriteHistory, Fail
<1> QED
  BY <1>1, <1>2, <1>3 DEF Verify

LEMMA OrderStep == TypeInv /\ OrderInv /\ [Next]_vars => OrderInv'
<1> SUFFICES ASSUME TypeInv, OrderInv, [Next]_vars
             PROVE  OrderInv'
  OBVIOUS
<1> USE DEF TypeInv
<1>1. CASE UNCHANGED vars \/ EditTree
  <2>1. UNCHANGED <<contract, selected, visiting, ordered, pc>>
    BY <1>1 DEF vars, EditTree, repositoryVars, orderVars
  <2>2. ASSUME NEW r \in Runs
        PROVE  OrderInvOf(r)'
    <3>1. UNCHANGED <<contract, selected[r], visiting[r], ordered[r], pc[r]>>
      BY <2>1
    <3> QED
      BY <3>1, OrderedElsewhere DEF IsOrdered
  <2> QED
    BY <2>2 DEF OrderInv
<1>2. ASSUME NEW r \in Runs, Verify(r)
      PROVE  OrderInv'
  <2>1. ASSUME NEW q \in Runs, q # r
        PROVE  OrderInvOf(q)'
    <3>1. UNCHANGED <<contract, selected[q], visiting[q], ordered[q], pc[q]>>
      BY <1>2, <2>1, OthersKept
    <3> QED
      BY <3>1, OrderedElsewhere DEF IsOrdered
  <2>2. ASSUME VisitNext(r) \/ Require(r) \/ Place(r)
        PROVE  OrderInvOf(r)'
    BY <2>2, OrderStepsOrder
  <2>3. ASSUME Refuse(r)
        PROVE  OrderInvOf(r)'
    BY <2>3, RefuseOrders
  <2>4. ASSUME Select(r)
        PROVE  OrderInvOf(r)'
    <3>1. /\ pc[r] = "git" /\ pc'[r] \in {"plan", "order"}
          /\ visiting[r] = <<>> /\ ordered[r] = <<>> /\ UNCHANGED <<visiting, ordered>>
      BY <2>4 DEF Select, Goto, TypeOK, OrderInv, OrderInvOf, orderVars
    <3>2. OrderedSo(visiting[r], ordered[r], selected[r])'
      <4>1. Len(<<>>) = 0
        BY EmptySeq
      <4> QED
        BY <3>1, <4>1 DEF OrderedSo
    <3> QED
      BY <3>1, <3>2 DEF OrderInvOf, IsOrdered
  <2>5. ASSUME EndOrder(r)
        PROVE  OrderInvOf(r)'
    <3>1. /\ pc'[r] \in {"planned", "check"} /\ selected[r] \subseteq Visited(r)
          /\ UNCHANGED <<contract, selected, visiting, ordered>>
      BY <2>5 DEF EndOrder, Goto, TypeOK, repositoryVars, orderVars
    <3>2. OrderedSo(visiting[r], ordered[r], selected[r])'
      BY <3>1, StillOrderedSo DEF OrderInv, OrderInvOf
    <3>3. selected'[r] \subseteq Visited(r)'
      BY <3>1 DEF Visited
    <3> QED
      BY <3>1, <3>2, <3>3 DEF OrderInvOf
  <2>6. ASSUME \/ Begin(r) \/ ReadDiff(r) \/ ReadStatus(r) \/ RunCheck(r) \/ WriteRun(r)
               \/ WriteLatest(r) \/ ReadHistory(r) \/ WriteHistory(r) \/ Fail(r)
        PROVE  OrderInvOf(r)'
    <3>1. /\ UNCHANGED <<contract, selected, visiting, ordered>>
          /\ pc'[r] \in {"idle", "git"} => pc[r] \in {"idle", "git"}
          /\ IsOrdered(r)' => IsOrdered(r)
          /\ pc'[r] = "refused" => pc[r] = "refused"
      BY <2>6 DEF Begin, Loading, ReadDiff, ReadStatus, RunCheck, WriteRun, WriteLatest, ReadHistory,
         WriteHistory, Fail, Ended, Goto, IsOrdered, TypeOK, repositoryVars, orderVars
    <3> QED
      BY <3>1, OrderedElsewhere
  <2>7. OrderInvOf(r)'
    BY <1>2, <2>2, <2>3, <2>4, <2>5, <2>6 DEF Verify
  <2> QED
    BY <2>1, <2>7 DEF OrderInv
<1> QED
  BY <1>1, <1>2, <1>2 DEF Next

LEMMA PlannedRight == TypeInv /\ OrderInv => PlanIsRight
<1> SUFFICES ASSUME TypeInv, OrderInv
             PROVE  PlanIsRight
  OBVIOUS
<1> USE DEF TypeInv
<1>1. ASSUME NEW r \in Runs, IsOrdered(r)
      PROVE  /\ IsInjective(ordered[r])
             /\ Visited(r) = selected[r]
             /\ \A p \in 1 .. Len(ordered[r]) : \A id \in contract.requires[ordered[r][p]] :
                  \E q \in 1 .. p - 1 : contract.id[ordered[r][q]] = id
  <2> DEFINE s == ordered[r]
  <2>1. /\ OrderedSo(visiting[r], s, selected[r]) /\ selected[r] \subseteq Visited(r)
        /\ Len(s) \in Nat /\ s \in Seq(Defs) /\ Visited(r) = {s[k] : k \in 1 .. Len(s)}
    BY <1>1, VisitedChecks DEF OrderInv, OrderInvOf
  <2>2. DOMAIN s = 1 .. Len(s)
    BY <2>1, LenProperties
  <2> HIDE DEF s
  <2>3. IsInjective(s)
    BY <2>1, <2>2 DEF IsInjective, OrderedSo
  <2>4. Visited(r) \subseteq selected[r]
    BY <2>1 DEF OrderedSo
  <2>5. ASSUME NEW p \in 1 .. Len(s), NEW id \in contract.requires[s[p]]
        PROVE  \E q \in 1 .. p - 1 : contract.id[s[q]] = id
    <3>1. PICK q \in 1 .. Len(s) : q < p /\ contract.id[s[q]] = id
      BY <2>1 DEF OrderedSo
    <3>2. q \in 1 .. p - 1
      BY <2>1, <3>1
    <3> QED
      BY <3>1, <3>2
  <2> QED
    BY <2>1, <2>3, <2>4, <2>5 DEF s
<1>2. RefusedForCause
  BY DEF RefusedForCause, OrderInv, OrderInvOf, Unorderable
<1> QED
  BY <1>1, <1>2 DEF PlanIsRight, OrderRespected

-----------------------------------------------------------------------------
(* Running. *)

ToRun(r) == {i \in selected[r] : Kept(r, i)}

Early == {"idle", "git", "plan", "order", "refused", "planned", "unusable"}

Filed == {"latest", "read", "write", "done"}

\* Only what is to run has an outcome, blocked if a variable it names is not set; the file of a
\* run has its final status, and is there from when everything has run.
RunInvOf(r) ==
    /\ DOMAIN results[r] \subseteq ToRun(r)
    /\ \A i \in DOMAIN results[r] : results[r][i] = "blocked" <=> i \in Blocked(contract)
    /\ pc[r] \in Early => DOMAIN results[r] = {}
    /\ pc[r] \in Early \cup {"check"} => runFiles[r] = NoRun
    /\ pc[r] \in Filed => runFiles[r] # NoRun
    /\ runFiles[r] # NoRun => /\ DOMAIN results[r] = ToRun(r)
                               /\ runFiles[r] = Classified(Range(results[r]))

RunInv == \A r \in Runs : RunInvOf(r)

LEMMA InitRunning == Init => RunInv
<1> SUFFICES ASSUME Init, NEW r \in Runs
             PROVE  RunInvOf(r)
  BY DEF RunInv
<1>1. DOMAIN results[r] = {}
  BY DEF Init
<1> QED
  BY <1>1 DEF Init, RunInvOf, Filed

\* What a step of a command leaves of what it has run.
LEMMA RunKept ==
  ASSUME RunInv, NEW r \in Runs,
         UNCHANGED <<contract, selected[r], skip[r], results[r], runFiles[r]>>,
         pc'[r] \in Early => pc[r] \in Early,
         pc'[r] \in Early \cup {"check"} => pc[r] \in Early \cup {"check"},
         pc'[r] \in Filed => pc[r] \in Filed
  PROVE  RunInvOf(r)'
<1>1. /\ contract' = contract /\ selected'[r] = selected[r] /\ skip'[r] = skip[r]
      /\ results'[r] = results[r] /\ runFiles'[r] = runFiles[r]
  OBVIOUS
<1>2. ToRun(r)' = ToRun(r)
  BY <1>1 DEF ToRun, Kept
<1> QED
  BY <1>1, <1>2 DEF RunInv, RunInvOf

LEMMA RunCheckRuns ==
  ASSUME TypeInv, OrderInv, RunInv, NEW r \in Runs, RunCheck(r)
  PROVE  RunInvOf(r)'
<1> USE DEF TypeInv
<1>1. /\ pc[r] = "check" /\ UNCHANGED <<contract, selected, skip, pc, runFiles>>
  BY DEF RunCheck, repositoryVars, fileVars
<1>2. PICK p \in Remaining(r) : \E outcome \in Outcome :
        /\ (outcome = "blocked") = (ordered[r][p] \in Blocked(contract))
        /\ DOMAIN results'[r] = DOMAIN results[r] \cup {ordered[r][p]}
        /\ results'[r][ordered[r][p]] = outcome
        /\ \A j \in DOMAIN results[r] : j # ordered[r][p] => results'[r][j] = results[r][j]
  BY ResultAdded
<1> DEFINE i == ordered[r][p]
<1>3. i \in ToRun(r)
  <2>1. p \in 1 .. Len(ordered[r]) /\ Kept(r, i)
    BY VisitedChecks, LenProperties DEF Remaining
  <2>2. i \in selected[r]
    BY <2>1 DEF OrderInv, OrderInvOf, OrderedSo
  <2> QED
    BY <2>1, <2>2 DEF ToRun
<1>4. ToRun(r)' = ToRun(r)
  BY <1>1 DEF ToRun, Kept
<1> HIDE DEF i
<1>5. DOMAIN results'[r] \subseteq ToRun(r)
  BY <1>2, <1>3 DEF i, RunInv, RunInvOf
<1>6. \A j \in DOMAIN results'[r] : results'[r][j] = "blocked" <=> j \in Blocked(contract)
  BY <1>2 DEF i, RunInv, RunInvOf
<1>7. runFiles'[r] = NoRun /\ pc'[r] = "check"
  BY <1>1 DEF RunInv, RunInvOf
<1> QED
  BY <1>1, <1>4, <1>5, <1>6, <1>7 DEF RunInvOf, Early, Filed

LEMMA WriteRunRuns ==
  ASSUME TypeInv, OrderInv, RunInv, NEW r \in Runs, WriteRun(r)
  PROVE  RunInvOf(r)'
<1> USE DEF TypeInv
<1>1. /\ pc[r] = "check" /\ pc'[r] = "latest" /\ Remaining(r) = {}
      /\ UNCHANGED <<contract, selected, skip, results>>
      /\ runFiles'[r] = Classified(Range(results[r]))
  BY DEF WriteRun, Goto, TypeOK, repositoryVars
<1>2. runFiles'[r] # NoRun
  BY <1>1, OutcomesOfRun, RunAssumption
<1>3. ASSUME NEW i \in ToRun(r)
      PROVE  i \in DOMAIN results[r]
  <2>1. i \in Visited(r) /\ Kept(r, i)
    BY <1>1 DEF ToRun, IsOrdered, OrderInv, OrderInvOf
  <2>2. PICK k \in 1 .. Len(ordered[r]) : ordered[r][k] = i
    BY <2>1, VisitedChecks
  <2>3. k \in DOMAIN ordered[r]
    BY VisitedChecks, LenProperties
  <2> QED
    BY <1>1, <2>1, <2>2, <2>3 DEF Remaining
<1>4. ToRun(r)' = ToRun(r)
  BY <1>1 DEF ToRun, Kept
<1>5. DOMAIN results[r] = ToRun(r)
  BY <1>3 DEF RunInv, RunInvOf
<1> QED
  BY <1>1, <1>2, <1>4, <1>5 DEF RunInv, RunInvOf, Early, Filed

LEMMA SelectRuns ==
  ASSUME TypeInv, RunInv, NEW r \in Runs, Select(r)
  PROVE  RunInvOf(r)'
<1>1. /\ pc[r] = "git" /\ pc'[r] \in {"plan", "order"} /\ UNCHANGED <<results, runFiles>>
  BY DEF Select, Goto, TypeInv, TypeOK, fileVars
<1>2. DOMAIN results'[r] = {} /\ runFiles'[r] = NoRun
  BY <1>1 DEF RunInv, RunInvOf, Early
<1> QED
  BY <1>1, <1>2 DEF RunInvOf, Early, Filed

LEMMA RunningStep == TypeInv /\ OrderInv /\ RunInv /\ [Next]_vars => RunInv'
<1> SUFFICES ASSUME TypeInv, OrderInv, RunInv, [Next]_vars
             PROVE  RunInv'
  OBVIOUS
<1> USE DEF TypeInv
<1>1. CASE UNCHANGED vars \/ EditTree
  <2>1. UNCHANGED <<contract, selected, skip, results, runFiles, pc>>
    BY <1>1 DEF vars, EditTree, repositoryVars, fileVars
  <2>2. ASSUME NEW r \in Runs
        PROVE  RunInvOf(r)'
    <3>1. UNCHANGED <<contract, selected[r], skip[r], results[r], runFiles[r], pc[r]>>
      BY <2>1
    <3> QED
      BY <3>1, RunKept
  <2> QED
    BY <2>2 DEF RunInv
<1>2. ASSUME NEW r \in Runs, Verify(r)
      PROVE  RunInv'
  <2>1. ASSUME NEW q \in Runs, q # r
        PROVE  RunInvOf(q)'
    <3>1. UNCHANGED <<contract, selected[q], skip[q], results[q], runFiles[q], pc[q]>>
      BY <1>2, <2>1, OthersKept
    <3> QED
      BY <3>1, RunKept
  <2>2. ASSUME \/ Begin(r) \/ ReadDiff(r) \/ ReadStatus(r)
               \/ VisitNext(r) \/ Require(r) \/ Refuse(r) \/ Place(r) \/ EndOrder(r)
               \/ WriteLatest(r) \/ ReadHistory(r) \/ WriteHistory(r) \/ Fail(r)
        PROVE  RunInvOf(r)'
    <3>1. /\ UNCHANGED <<contract, selected, skip, results, runFiles>>
          /\ pc'[r] \in Early => pc[r] \in Early
          /\ pc'[r] = "check" => pc[r] \in Early
          /\ pc'[r] \in Filed => pc[r] \in Filed
      <4> USE DEF TypeOK, Goto, Early, Filed, repositoryVars, selectVars, fileVars
      <4>1. CASE Begin(r) \/ ReadDiff(r) \/ ReadStatus(r)
        BY <4>1 DEF Begin, Loading, ReadDiff, ReadStatus
      <4>2. CASE VisitNext(r) \/ Require(r) \/ Refuse(r) \/ Place(r) \/ EndOrder(r)
        BY <4>2 DEF VisitNext, Require, Refuse, Place, EndOrder, Ordering
      <4>3. CASE WriteLatest(r) \/ ReadHistory(r) \/ WriteHistory(r) \/ Fail(r)
        BY <4>3 DEF WriteLatest, ReadHistory, WriteHistory, Fail
      <4> QED
        BY <2>2, <4>1, <4>2, <4>3
    <3>2. pc'[r] \in Early \cup {"check"} => pc[r] \in Early \cup {"check"}
      BY <3>1
    <3> QED
      BY <3>1, <3>2, RunKept
  <2>3. RunInvOf(r)'
    BY <1>2, <2>2, SelectRuns, RunCheckRuns, WriteRunRuns DEF Verify
  <2> QED
    BY <2>1, <2>3 DEF RunInv
<1> QED
  BY <1>1, <1>2 DEF Next

LEMMA ClassifiedMeans ==
  ASSUME NEW have \in SUBSET Outcome
  PROVE  /\ Classified(have) = "failed" <=> have \cap Failure # {}
         /\ Classified(have) = "passed" => have = {"passed"}
BY DEF Classified, Outcome, Failure

LEMMA RunsHonest == TypeInv /\ RunInv => StatusIsHonest
<1> SUFFICES ASSUME TypeInv, RunInv, NEW r \in Runs, runFiles[r] # NoRun
             PROVE  /\ Succeeded(r) => Range(results[r]) \cap Failure = {}
                    /\ DOMAIN results[r] = ToRun(r)
                    /\ runFiles[r] = "passed" =>
                         /\ ToRun(r) # {} /\ ToRun(r) \cap Blocked(contract) = {}
                         /\ Range(results[r]) = {"passed"}
                    /\ runFiles[r] = "failed" <=> Range(results[r]) \cap Failure # {}
  BY DEF StatusIsHonest, ToRun
<1> USE DEF TypeInv
<1>1. /\ DOMAIN results[r] = ToRun(r) /\ runFiles[r] = Classified(Range(results[r]))
      /\ pc[r] # "planned"
      /\ \A i \in DOMAIN results[r] : results[r][i] = "blocked" <=> i \in Blocked(contract)
  BY DEF RunInv, RunInvOf, Early
<1>2. /\ Classified(Range(results[r])) = "failed" <=> Range(results[r]) \cap Failure # {}
      /\ Classified(Range(results[r])) = "passed" => Range(results[r]) = {"passed"}
  BY OutcomesOfRun, ClassifiedMeans
<1>3. Succeeded(r) => Range(results[r]) \cap Failure = {}
  BY <1>1, <1>2 DEF Succeeded
<1>4. ASSUME Range(results[r]) = {"passed"}
      PROVE  ToRun(r) # {} /\ ToRun(r) \cap Blocked(contract) = {}
  BY <1>1, <1>4 DEF Range
<1> QED
  BY <1>1, <1>2, <1>3, <1>4

-----------------------------------------------------------------------------
(* Recording. *)

Busy(r) == pc[r] \notin Ended \cup {"idle"}

\* While commands are issued in turn, one at most is busy, what it has read of the history is the
\* history, and latest.json is of it from when it has written it.
InTurnInv ==
    /\ \A q, r \in Runs : Busy(q) /\ Busy(r) => q = r
    /\ \A r \in Runs : pc[r] = "write" => historyRead[r] = history
    /\ \A r \in Runs : pc[r] \in {"read", "write"} => latest = r

HistInv ==
    /\ ListedAreDone
    /\ \A r \in Runs : \A p \in 1 .. Len(historyRead[r]) :
         runFiles[historyRead[r][p].run] = historyRead[r][p].status
    /\ IndexedIsOnFile
    /\ inTurn => InTurnInv
    /\ CompletedIsIndexed

LEMMA InitHistory == Init => HistInv
<1> SUFFICES ASSUME Init
             PROVE  HistInv
  OBVIOUS
<1>1. Len(<<>>) = 0
  BY EmptySeq
<1>2. ListedAreDone /\ \A r \in Runs : historyRead[r] = <<>>
  BY <1>1 DEF Init, ListedAreDone
<1>3. IndexedIsOnFile /\ CompletedIsIndexed
  BY <1>1 DEF Init, IndexedIsOnFile, CompletedIsIndexed
<1>4. InTurnInv
  BY DEF Init, InTurnInv, Busy
<1> QED
  BY <1>1, <1>2, <1>3, <1>4 DEF HistInv

\* Where the entries of the files are from.
LEMMA EntriesOf ==
  ASSUME TypeOK
  PROVE  /\ history \in Seq(Entry) /\ Len(history) \in Nat
         /\ \A p \in 1 .. Len(history) : history[p].run \in Runs /\ history[p].status \in RunStatus
         /\ \A r \in Runs : /\ historyRead[r] \in Seq(Entry) /\ Len(historyRead[r]) \in Nat
                            /\ \A p \in 1 .. Len(historyRead[r]) : historyRead[r][p].run \in Runs
<1>1. history \in Seq(Entry) /\ \A r \in Runs : historyRead[r] \in Seq(Entry)
  BY DEF TypeOK
<1>2. ASSUME NEW s \in Seq(Entry)
      PROVE  Len(s) \in Nat /\ \A p \in 1 .. Len(s) : s[p].run \in Runs /\ s[p].status \in RunStatus
  <2>1. Len(s) \in Nat /\ \A p \in 1 .. Len(s) : s[p] \in Entry
    BY ElementOfSeq, LenProperties
  <2> QED
    BY <2>1 DEF Entry
<1> QED
  BY <1>1, <1>2

\* A step that touches no file, nor what is read of one, and ends no command well.
LEMMA HistoryKept ==
  ASSUME HistInv, UNCHANGED <<inTurn, runFiles, latest, history>>,
         \A q \in Runs : historyRead'[q] \in {historyRead[q], <<>>},
         \A q \in Runs : pc'[q] = "done" <=> pc[q] = "done",
         \A q \in Runs : pc'[q] = "write" => pc[q] = "write" /\ historyRead'[q] = historyRead[q],
         \A q \in Runs : pc'[q] \in {"read", "write"} => pc[q] \in {"read", "write"},
         inTurn => \A q, r \in Runs : Busy(q)' /\ Busy(r)' => q = r,
         \A p \in 1 .. Len(history) : history[p].run \in Runs,
         \A r \in Runs : \A p \in 1 .. Len(historyRead[r]) : historyRead[r][p].run \in Runs,
         latest \in Runs \cup {NoRun}
  PROVE  HistInv'
<1>1. Len(<<>>) = 0
  BY EmptySeq
<1>2. ASSUME NEW r \in Runs, NEW p \in 1 .. Len(historyRead'[r])
      PROVE  p \in 1 .. Len(historyRead[r]) /\ historyRead'[r] = historyRead[r]
  BY <1>1
<1>3. ListedAreDone'
  <2>1. \A q \in Runs : pc[q] = "done" => pc'[q] = "done"
    OBVIOUS
  <2>2. \A p \in 1 .. Len(history) : pc'[history[p].run] = "done"
    BY <2>1 DEF HistInv, ListedAreDone
  <2>3. \A r \in Runs : \A p \in 1 .. Len(historyRead[r]) : pc'[historyRead[r][p].run] = "done"
    BY <2>1 DEF HistInv, ListedAreDone
  <2> QED
    BY <1>2, <2>2, <2>3 DEF ListedAreDone
<1>4. \A r \in Runs : \A p \in 1 .. Len(historyRead'[r]) :
        runFiles'[historyRead'[r][p].run] = historyRead'[r][p].status
  BY <1>2 DEF HistInv
<1>5. IndexedIsOnFile'
  BY DEF HistInv, IndexedIsOnFile
<1>6. inTurn' => InTurnInv'
  BY DEF HistInv, InTurnInv
<1>7. CompletedIsIndexed'
  BY DEF HistInv, CompletedIsIndexed
<1> QED
  BY <1>3, <1>4, <1>5, <1>6, <1>7 DEF HistInv

LEMMA QuietStepsRecord ==
  ASSUME TypeInv, HistInv, NEW r \in Runs,
         \/ Begin(r) \/ ReadDiff(r) \/ ReadStatus(r) \/ Select(r) \/ VisitNext(r) \/ Require(r)
         \/ Refuse(r) \/ Place(r) \/ EndOrder(r) \/ RunCheck(r) \/ Fail(r)
  PROVE  HistInv'
<1> USE DEF TypeInv
<1>1. /\ UNCHANGED <<inTurn, runFiles, latest, history>>
      /\ \A q \in Runs : q # r => pc'[q] = pc[q] /\ historyRead'[q] = historyRead[q]
      /\ pc[r] # "done" /\ pc'[r] \notin {"done", "read", "write"}
      /\ historyRead'[r] \in {historyRead[r], <<>>}
      /\ Busy(r)' => Busy(r) \/ (inTurn => \A q \in Runs \ {r} : ~Busy(q))
  <2> USE DEF TypeOK, Goto, Ended, Busy, repositoryVars, selectVars, fileVars
  <2>1. CASE Begin(r) \/ ReadDiff(r) \/ ReadStatus(r) \/ Select(r)
    BY <2>1 DEF Begin, Loading, ReadDiff, ReadStatus, Select
  <2>2. CASE VisitNext(r) \/ Require(r) \/ Refuse(r) \/ Place(r) \/ EndOrder(r)
    BY <2>2 DEF VisitNext, Require, Refuse, Place, EndOrder, Ordering
  <2>3. CASE RunCheck(r) \/ Fail(r)
    BY <2>3 DEF RunCheck, Fail
  <2> QED
    BY <2>1, <2>2, <2>3
<1>2. inTurn => \A p, q \in Runs : Busy(p)' /\ Busy(q)' => p = q
  BY <1>1 DEF HistInv, InTurnInv, Busy
<1> QED
  BY <1>1, <1>2, EntriesOf, HistoryKept DEF TypeOK

LEMMA WriteRunRecords ==
  ASSUME TypeInv, RunInv, HistInv, NEW r \in Runs, WriteRun(r)
  PROVE  HistInv'
<1> USE DEF TypeInv
<1>1. /\ pc[r] = "check" /\ pc'[r] = "latest" /\ runFiles[r] = NoRun /\ runFiles'[r] # NoRun
      /\ \A q \in Runs : q # r => pc'[q] = pc[q] /\ runFiles'[q] = runFiles[q]
      /\ UNCHANGED <<inTurn, latest, history, historyRead>>
  <2>1. runFiles'[r] # NoRun
    BY OutcomesOfRun, RunAssumption DEF WriteRun, TypeOK
  <2> QED
    BY <2>1 DEF WriteRun, Goto, TypeOK, RunInv, RunInvOf, repositoryVars
<1>2. /\ \A p \in 1 .. Len(history) : history[p].run \in Runs \ {r}
      /\ \A q \in Runs : \A p \in 1 .. Len(historyRead[q]) : historyRead[q][p].run \in Runs \ {r}
  BY <1>1, EntriesOf DEF HistInv, ListedAreDone
<1>3. ListedAreDone'
  BY <1>1, <1>2 DEF HistInv, ListedAreDone
<1>4. \A q \in Runs : \A p \in 1 .. Len(historyRead'[q]) :
        runFiles'[historyRead'[q][p].run] = historyRead'[q][p].status
  BY <1>1, <1>2 DEF HistInv
<1>5. IndexedIsOnFile'
  <2>1. latest' # NoRun => runFiles'[latest'] # NoRun
    BY <1>1 DEF HistInv, IndexedIsOnFile, TypeOK
  <2>2. \A p \in 1 .. Len(history') : runFiles'[history'[p].run] = history'[p].status
    BY <1>1, <1>2 DEF HistInv, IndexedIsOnFile
  <2> QED
    BY <2>1, <2>2 DEF IndexedIsOnFile
<1>6. inTurn' => InTurnInv'
  BY <1>1 DEF HistInv, InTurnInv, Busy, Ended
<1>7. CompletedIsIndexed'
  BY <1>1 DEF HistInv, CompletedIsIndexed, TypeOK
<1> QED
  BY <1>3, <1>4, <1>5, <1>6, <1>7 DEF HistInv

LEMMA WriteLatestRecords ==
  ASSUME TypeInv, RunInv, HistInv, NEW r \in Runs, WriteLatest(r)
  PROVE  HistInv'
<1> USE DEF TypeInv
<1>1. /\ pc[r] = "latest" /\ pc'[r] = "read" /\ runFiles[r] # NoRun /\ latest' = r
      /\ \A q \in Runs : q # r => pc'[q] = pc[q]
      /\ UNCHANGED <<inTurn, runFiles, history, historyRead>>
  BY DEF WriteLatest, Goto, TypeOK, RunInv, RunInvOf, Filed, repositoryVars
<1>2. ListedAreDone'
  <2>1. \A q \in Runs : pc[q] = "done" => pc'[q] = "done"
    BY <1>1
  <2>2. \A p \in 1 .. Len(history) : pc'[history[p].run] = "done"
    BY <2>1, EntriesOf DEF HistInv, ListedAreDone
  <2>3. \A q \in Runs : \A p \in 1 .. Len(historyRead[q]) : pc'[historyRead[q][p].run] = "done"
    BY <2>1, EntriesOf DEF HistInv, ListedAreDone
  <2> QED
    BY <1>1, <2>2, <2>3 DEF ListedAreDone
<1>3. IndexedIsOnFile'
  BY <1>1 DEF HistInv, IndexedIsOnFile
<1>4. inTurn' => InTurnInv'
  BY <1>1 DEF HistInv, InTurnInv, Busy, Ended
<1>5. CompletedIsIndexed'
  BY <1>1 DEF HistInv, CompletedIsIndexed
<1> QED
  BY <1>1, <1>2, <1>3, <1>4, <1>5 DEF HistInv

LEMMA ReadHistoryRecords ==
  ASSUME TypeInv, HistInv, NEW r \in Runs, ReadHistory(r)
  PROVE  HistInv'
<1> USE DEF TypeInv
<1>1. /\ pc[r] = "read" /\ pc'[r] = "write" /\ historyRead'[r] = history
      /\ \A q \in Runs : q # r => pc'[q] = pc[q] /\ historyRead'[q] = historyRead[q]
      /\ UNCHANGED <<inTurn, runFiles, latest, history>>
  BY DEF ReadHistory, Goto, TypeOK, fileVars, repositoryVars
<1>2. ListedAreDone'
  <2>1. \A p \in 1 .. Len(history) : pc'[history[p].run] = "done"
    BY <1>1, EntriesOf DEF HistInv, ListedAreDone
  <2>2. \A q \in Runs : q # r => \A p \in 1 .. Len(historyRead[q]) : pc'[historyRead[q][p].run] = "done"
    BY <1>1, EntriesOf DEF HistInv, ListedAreDone
  <2> QED
    BY <1>1, <2>1, <2>2 DEF ListedAreDone
<1>3. \A q \in Runs : \A p \in 1 .. Len(historyRead'[q]) :
        runFiles'[historyRead'[q][p].run] = historyRead'[q][p].status
  BY <1>1 DEF HistInv, IndexedIsOnFile
<1>4. IndexedIsOnFile'
  BY <1>1 DEF HistInv, IndexedIsOnFile
<1>5. inTurn' => InTurnInv'
  BY <1>1 DEF HistInv, InTurnInv, Busy, Ended
<1>6. CompletedIsIndexed'
  BY <1>1 DEF HistInv, CompletedIsIndexed, TypeOK
<1> QED
  BY <1>2, <1>3, <1>4, <1>5, <1>6 DEF HistInv

LEMMA WriteHistoryRecords ==
  ASSUME TypeInv, RunInv, HistInv, NEW r \in Runs, WriteHistory(r)
  PROVE  HistInv'
<1> USE DEF TypeInv
<1> DEFINE h == history'
           s == historyRead[r]
<1>1. /\ pc[r] = "write" /\ pc'[r] = "done" /\ historyRead'[r] = <<>>
      /\ \A q \in Runs : q # r => pc'[q] = pc[q] /\ historyRead'[q] = historyRead[q]
      /\ UNCHANGED <<inTurn, runFiles, latest>>
  BY DEF WriteHistory, Goto, TypeOK, repositoryVars
<1>2. runFiles[r] = Classified(Range(results[r]))
  BY <1>1 DEF RunInv, RunInvOf, Filed
<1>3. /\ Len(h) = IF Len(s) < MaxHistory THEN Len(s) + 1 ELSE MaxHistory
      /\ h[1].run = r /\ h[1].status = runFiles[r]
      /\ \A p \in 2 .. Len(h) : h[p] = s[p - 1]
  <2>1. /\ Len(h) = IF Len(s) < MaxHistory THEN Len(s) + 1 ELSE MaxHistory
        /\ h[1] = [run |-> r, status |-> Classified(Range(results[r]))]
        /\ \A p \in 2 .. Len(h) : h[p] = s[p - 1]
    BY HistoryWritten DEF HistInv
  <2> HIDE DEF h, s
  <2>2. h[1].run = r /\ h[1].status = runFiles[r]
    BY <1>2, <2>1
  <2> QED
    BY <2>1, <2>2
<1>4. /\ Len(s) \in Nat /\ MaxHistory \in Nat \ {0} /\ \A p \in 1 .. Len(s) : s[p].run \in Runs
  BY EntriesOf, RunAssumption
<1>5. Len(<<>>) = 0
  BY EmptySeq
<1>6. /\ \A p \in 1 .. Len(s) : pc[s[p].run] = "done" /\ runFiles[s[p].run] = s[p].status
      /\ \A q \in Runs : \A p \in 1 .. Len(historyRead[q]) :
           pc[historyRead[q][p].run] = "done" /\ historyRead[q][p].run \in Runs
  BY EntriesOf DEF HistInv, ListedAreDone
<1> HIDE DEF h, s
<1>7. \A p \in 1 .. Len(h) : p = 1 \/ (p - 1 \in 1 .. Len(s) /\ h[p] = s[p - 1])
  BY <1>3, <1>4
<1>8. ListedAreDone'
  <2>1. \A p \in 1 .. Len(h) : pc'[h[p].run] = "done"
    BY <1>1, <1>3, <1>4, <1>6, <1>7
  <2>2. \A q \in Runs : \A p \in 1 .. Len(historyRead'[q]) : pc'[historyRead'[q][p].run] = "done"
    BY <1>1, <1>5, <1>6
  <2> QED
    BY <2>1, <2>2 DEF ListedAreDone, h
<1>9. \A q \in Runs : \A p \in 1 .. Len(historyRead'[q]) :
        runFiles'[historyRead'[q][p].run] = historyRead'[q][p].status
  BY <1>1, <1>5 DEF HistInv
<1>10. IndexedIsOnFile'
  <2>1. \A p \in 1 .. Len(h) : runFiles[h[p].run] = h[p].status
    BY <1>3, <1>6, <1>7
  <2> QED
    BY <1>1, <2>1 DEF HistInv, IndexedIsOnFile, h
<1>11. inTurn' => InTurnInv'
  BY <1>1 DEF HistInv, InTurnInv, Busy, Ended
<1>12. ASSUME inTurn
       PROVE  CompletedIsIndexed'
  <2>1. s = history /\ latest = r
    BY <1>1, <1>12 DEF HistInv, InTurnInv, s
  <2>2. ASSUME NEW q \in Runs, pc'[q] = "done"
        PROVE  (\E p \in 1 .. Len(h) : h[p].run = q) \/ Len(h) = MaxHistory
    <3>1. CASE q = r
      BY <1>3, <1>4, <3>1
    <3>2. CASE q # r /\ Len(h) # MaxHistory
      <4>1. Len(s) < MaxHistory /\ Len(h) = Len(s) + 1
        BY <1>3, <1>4, <3>2
      <4>2. PICK p \in 1 .. Len(s) : s[p].run = q
        BY <1>1, <1>4, <1>12, <2>1, <2>2, <3>2, <4>1 DEF HistInv, CompletedIsIndexed
      <4>3. p + 1 \in 2 .. Len(h) /\ (p + 1) - 1 = p
        BY <1>4, <4>1
      <4>4. h[p + 1] = s[p] /\ p + 1 \in 1 .. Len(h)
        BY <1>3, <4>3
      <4> QED
        BY <4>2, <4>4
    <3> QED
      BY <3>1, <3>2
  <2> QED
    BY <1>1, <1>3, <2>1, <2>2 DEF CompletedIsIndexed, h
<1>13. CompletedIsIndexed'
  BY <1>1, <1>12 DEF CompletedIsIndexed
<1> QED
  BY <1>8, <1>9, <1>10, <1>11, <1>13 DEF HistInv

LEMMA HistoryStep == TypeInv /\ RunInv /\ HistInv /\ [Next]_vars => HistInv'
<1> SUFFICES ASSUME TypeInv, RunInv, HistInv, [Next]_vars
             PROVE  HistInv'
  OBVIOUS
<1>1. CASE UNCHANGED vars \/ EditTree
  <2>1. UNCHANGED <<inTurn, runFiles, latest, history, historyRead, pc>>
    BY <1>1 DEF vars, EditTree, repositoryVars, fileVars
  <2> QED
    BY <2>1, EntriesOf, HistoryKept DEF TypeInv, TypeOK, Busy, HistInv, InTurnInv
<1>2. ASSUME NEW r \in Runs, Verify(r)
      PROVE  HistInv'
  BY <1>2, QuietStepsRecord, WriteRunRecords, WriteLatestRecords, ReadHistoryRecords,
     WriteHistoryRecords DEF Verify
<1> QED
  BY <1>1, <1>2 DEF Next

-----------------------------------------------------------------------------
(* The theorems. *)

IInv == TypeInv /\ SelectInv /\ OrderInv /\ RunInv /\ HistInv

LEMMA InitInv == Init => IInv
BY InitType, InitSelect, InitOrder, InitRunning, InitHistory DEF IInv

LEMMA Inductive == IInv /\ [Next]_vars => IInv'
BY TypeStep, SelectStep, OrderStep, RunningStep, HistoryStep DEF IInv, HistInv

LEMMA Invariant == Spec => []IInv
BY InitInv, Inductive, PTL DEF Spec

\* Of any repository, and however its tree changes under git: a change that lasts is verified, and
\* --changed selects nothing else.
THEOREM ChangesAreVerified == Spec => []SelectionIsRight
<1>1. IInv => SelectionIsRight
  BY SelectedRight DEF IInv
<1> QED
  BY <1>1, Invariant, PTL

\* Requirements of any shape are put in order or refused for a cause.
THEOREM RequirementsAreOrdered == Spec => []PlanIsRight
<1>1. IInv => PlanIsRight
  BY PlannedRight DEF IInv
<1> QED
  BY <1>1, Invariant, PTL

\* The status a run is recorded with is what became of the checks it was to run.
THEOREM RecordedAsRun == Spec => []StatusIsHonest
<1>1. IInv => StatusIsHonest
  BY RunsHonest DEF IInv
<1> QED
  BY <1>1, Invariant, PTL

\* Every variable keeps its type, latest.json and the history name only what is on file, and
\* while commands are issued in turn each that completes is listed.
THEOREM HistoryHolds == Spec => []HistoryIsRight
<1>1. IInv => HistoryIsRight
  BY DEF IInv, TypeInv, HistInv, HistoryIsRight
<1> QED
  BY <1>1, Invariant, PTL

=============================================================================
