------------------------ MODULE RepositoryGraphProofs ------------------------
(***************************************************************************)
(* What TLAPS proves of RepositoryGraph, for any repository, any number of *)
(* processes that build, clear and ask, and any number of failures.        *)
(***************************************************************************)
EXTENDS RepositoryGraph, FiniteSetTheorems, SequenceTheorems, WellFoundedInduction, TLAPS

\* With clears that run alone.
AloneSpec == Init /\ [][Next /\ ClearsAlone']_vars

\* The steps at which a writer has its graph, and the tables it has then inserted.
Inserted ==
    [s \in {"ensure", "begin", "delete", "builds", "nodes", "edges", "evidence", "latest", "commit"} |->
        CASE s \in {"ensure", "begin", "delete", "builds"} -> {}
          [] s = "nodes"    -> {"builds"}
          [] s = "edges"    -> {"builds", "nodes"}
          [] s = "evidence" -> {"builds", "nodes", "edges"}
          [] OTHER          -> Tables]

Inserting == {"builds", "nodes", "edges", "evidence", "latest", "commit"}

StepNames == {"idle", "done", "failed", "ingest"} \cup DOMAIN ReadOrder \cup DOMAIN Inserted \cup DOMAIN ClearOrder

\* A writer has a graph as long as it has to write it, and a transaction has what was inserted so far.
WriterInv(w) ==
    /\ step[w] \in StepNames
    /\ step[w] \in DOMAIN Inserted => snapshot[w].id \in 1 .. MaxClock
    /\ step[w] \notin DOMAIN Inserted => snapshot[w] = NoSnapshot
    /\ step[w] \in Inserting =>
           tx[w] = [t \in Tables |-> IF t \in Inserted[step[w]] THEN RowsOf(snapshot[w], t) ELSE {}]

\* After the first statement of a clear there is no build until its last.
ClearInv == \A w \in Writers : step[w] \in DOMAIN ClearOrder \ {"clear-builds"} => disk.builds = {}

IInv ==
    /\ clock \in 1 .. MaxClock
    /\ DOMAIN disk = Tables
    /\ DOMAIN step = Writers /\ DOMAIN snapshot = Writers /\ DOMAIN tx = Writers
    /\ \A w \in Writers : DOMAIN tx[w] = Tables
    /\ \A w \in Writers : WriterInv(w)
    /\ ClearInv /\ ClearsAlone

-----------------------------------------------------------------------------
(* The writers *)

LEMMA StepFacts ==
    /\ DOMAIN Inserted = {"ensure", "begin", "delete"} \cup Inserting
    /\ DOMAIN ReadOrder = {"inventory", "contract", "scan", "state"}
    /\ DOMAIN ClearOrder = {"clear-builds", "clear-nodes", "clear-edges", "clear-evidence", "clear-latest"}
    /\ DOMAIN InsertOrder = Tables
BY DEF Inserted, Inserting, ReadOrder, ClearOrder, InsertOrder, Tables

LEMMA InsertedAre ==
    /\ Inserted["builds"] = {} /\ Inserted["nodes"] = {"builds"} /\ Inserted["edges"] = {"builds", "nodes"}
    /\ Inserted["evidence"] = {"builds", "nodes", "edges"} /\ Inserted["latest"] = Tables /\ Inserted["commit"] = Tables
BY DEF Inserted

LEMMA NextStatements ==
    /\ InsertOrder["builds"] = "nodes" /\ InsertOrder["nodes"] = "edges"
    /\ InsertOrder["edges"] = "evidence" /\ InsertOrder["evidence"] = "latest"
BY DEF InsertOrder

LEMMA NextClears ==
    /\ \A t \in DOMAIN ClearOrder : ClearOrder[t] \in (DOMAIN ClearOrder \ {"clear-builds"}) \cup {"done"}
    /\ Cleared["clear-builds"] = "builds" /\ \A t \in DOMAIN ClearOrder \ {"clear-latest"} : Cleared[t] \in Tables
BY DEF ClearOrder, Cleared, Tables

\* What is the case of the process of a writer only.
Own(w) == UNCHANGED <<step[w], snapshot[w], tx[w]>>

LEMMA WriterKept == ASSUME NEW w \in Writers, WriterInv(w), Own(w) PROVE WriterInv(w)'
BY DEF WriterInv, Own

\* The shape of what the steps change.
Shape ==
    /\ clock \in 1 .. MaxClock
    /\ DOMAIN disk = Tables
    /\ DOMAIN step = Writers /\ DOMAIN snapshot = Writers /\ DOMAIN tx = Writers
    /\ \A w \in Writers : DOMAIN tx[w] = Tables

\* A statement of a writer.
LEMMA StatementShape ==
    ASSUME Shape, NEW w \in Writers, StoreStep(w), clock' = clock
    PROVE  Shape' /\ \A v \in Writers \ {w} : Own(v)
<1> USE DEF Shape, Own, Go
<1>1. CASE Ensure(w) \/ Begin(w) \/ SetLatest(w)
  BY <1>1 DEF Ensure, Begin, SetLatest
<1>2. CASE DeleteRows(w)
  BY <1>2 DEF DeleteRows, Empty
<1>3. ASSUME NEW t \in DOMAIN InsertOrder, Insert(w, t)
      PROVE  Shape' /\ \A v \in Writers \ {w} : Own(v)
  BY <1>3 DEF Insert
<1>4. CASE Commit(w)
  BY <1>4 DEF Commit
<1>5. CASE ClearStatement(w)
  BY <1>5 DEF ClearStatement
<1>6. CASE Refused(w) \/ Failing(w)
  BY <1>6 DEF Refused, Failing, Ended
<1> QED
  BY <1>1, <1>2, <1>3, <1>4, <1>5, <1>6 DEF StoreStep

LEMMA StatementWriterInv ==
    ASSUME Shape, NEW w \in Writers, StoreStep(w), WriterInv(w)
    PROVE  WriterInv(w)'
<1> USE DEF Shape, Go, At
<1>1. CASE Ensure(w) \/ Begin(w)
  <2>1. step'[w] \in {"begin", "delete"} /\ step[w] \in {"ensure", "begin"} /\ snapshot' = snapshot
    BY <1>1 DEF Ensure, Begin
  <2> QED
    BY <2>1, StepFacts DEF WriterInv, StepNames, Inserting
<1>2. CASE DeleteRows(w)
  <2>1. step'[w] = "builds" /\ step[w] = "delete" /\ snapshot' = snapshot /\ tx'[w] = [t \in Tables |-> {}]
    BY <1>2 DEF DeleteRows, Empty
  <2> QED
    BY <2>1, StepFacts, InsertedAre DEF WriterInv, StepNames, Inserting
<1>3. ASSUME NEW t \in DOMAIN InsertOrder, Insert(w, t)
      PROVE  WriterInv(w)'
  <2>1. /\ step[w] = t /\ step'[w] = InsertOrder[t] /\ snapshot' = snapshot
        /\ tx'[w] = [tx[w] EXCEPT ![t] = RowsOf(snapshot[w], t)]
    BY <1>3 DEF Insert
  <2>2. t \in Tables /\ step[w] \in Inserting /\ step'[w] \in Inserting
    BY <2>1, StepFacts, NextStatements DEF Tables, Inserting
  <2>3. Inserted[step'[w]] = Inserted[step[w]] \cup {t}
    BY <2>1, <2>2, InsertedAre, NextStatements DEF Tables
  <2>4. tx'[w] = [x \in Tables |-> IF x \in Inserted[step'[w]] THEN RowsOf(snapshot[w], x) ELSE {}]
    BY <2>1, <2>2, <2>3 DEF WriterInv
  <2> QED
    BY <2>1, <2>2, <2>4, StepFacts DEF WriterInv, StepNames, Inserting
<1>4. CASE SetLatest(w)
  <2>1. step'[w] = "commit" /\ step[w] = "latest" /\ snapshot' = snapshot /\ tx' = tx
    BY <1>4 DEF SetLatest
  <2> QED
    BY <2>1, StepFacts, InsertedAre DEF WriterInv, StepNames, Inserting
<1>5. CASE Commit(w)
  <2>1. step'[w] = "done" /\ snapshot'[w] = NoSnapshot
    BY <1>5 DEF Commit
  <2> QED
    BY <2>1, StepFacts DEF WriterInv, StepNames, Inserting
<1>6. CASE ClearStatement(w)
  <2>1. step[w] \in DOMAIN ClearOrder /\ step'[w] = ClearOrder[step[w]] /\ snapshot' = snapshot
    BY <1>6 DEF ClearStatement
  <2>2. step'[w] \in DOMAIN ClearOrder \cup {"done"} /\ step'[w] \notin DOMAIN Inserted /\ step[w] \notin DOMAIN Inserted
    BY <2>1, StepFacts, NextClears DEF Inserting
  <2> QED
    BY <2>1, <2>2, StepFacts DEF WriterInv, StepNames, Inserting
<1>7. CASE Refused(w) \/ Failing(w)
  <2>1. step'[w] = "failed" /\ snapshot'[w] = NoSnapshot
    BY <1>7 DEF Refused, Failing, Ended
  <2> QED
    BY <2>1, StepFacts DEF WriterInv, StepNames, Inserting
<1> QED
  BY <1>1, <1>2, <1>3, <1>4, <1>5, <1>6, <1>7 DEF StoreStep

-----------------------------------------------------------------------------
(* A clear *)

\* Only a commit brings a build, and no commit is made while a clear is under way.
LEMMA StatementClearInv ==
    ASSUME IInv, NEW w \in Writers, StoreStep(w)
    PROVE  ClearInv'
<1> SUFFICES ASSUME NEW v \in Writers, step'[v] \in DOMAIN ClearOrder \ {"clear-builds"}
             PROVE  disk'.builds = {}
  BY DEF ClearInv
<1> USE DEF Go, At
<1>1. CASE ClearStatement(w)
  <2>1. \A u \in Writers \ {w} : step[u] \notin DOMAIN ClearOrder
    BY <1>1, StepFacts DEF ClearStatement, IInv, ClearsAlone
  <2>2. v = w
    BY <1>1, <2>1 DEF ClearStatement, IInv
  <2>3. CASE step[w] = "clear-builds"
    BY <1>1, <2>3, NextClears, StepFacts DEF ClearStatement, IInv, Tables
  <2>4. CASE step[w] # "clear-builds"
    BY <1>1, <2>4, NextClears, StepFacts DEF ClearStatement, IInv, ClearInv, Tables
  <2> QED
    BY <2>3, <2>4
<1>2. CASE Commit(w)
  <2>1. step[w] = "commit" /\ step' = [step EXCEPT ![w] = "done"]
    BY <1>2 DEF Commit
  <2>2. v # w /\ step[v] \in DOMAIN ClearOrder
    BY <2>1, StepFacts DEF IInv
  <2> QED
    BY <2>1, <2>2 DEF IInv, ClearsAlone
<1>3. ASSUME ~ClearStatement(w), ~Commit(w)
      PROVE  disk' = disk /\ (step'[w] \notin DOMAIN ClearOrder)
  BY <1>3, StepFacts, NextStatements
     DEF StoreStep, Ensure, Begin, DeleteRows, Insert, SetLatest, Refused, Failing, Ended, IInv, Tables
<1>4. ASSUME ~ClearStatement(w), ~Commit(w)
      PROVE  disk'.builds = {}
  <2>1. v # w /\ step'[v] = step[v]
    BY <1>3, <1>4, StatementShape DEF IInv, StoreStep, Ensure, Begin, DeleteRows, Insert, SetLatest, Refused,
       Failing, Ended
  <2> QED
    BY <1>3, <1>4, <2>1 DEF IInv, ClearInv
<1> QED
  BY <1>1, <1>2, <1>4

-----------------------------------------------------------------------------
(* The inductive invariant *)

LEMMA InitIInv == Init => IInv
<1> SUFFICES ASSUME Init PROVE IInv
  OBVIOUS
<1>1. /\ clock \in 1 .. MaxClock /\ DOMAIN disk = Tables
      /\ DOMAIN step = Writers /\ DOMAIN snapshot = Writers /\ DOMAIN tx = Writers
      /\ \A w \in Writers : DOMAIN tx[w] = Tables
  BY GraphAssumption DEF Init, StoreInit, Empty
<1>2. \A w \in Writers : step[w] = "idle" /\ snapshot[w] = NoSnapshot
  BY DEF Init, StoreInit
<1>3. \A w \in Writers : WriterInv(w)
  BY <1>2, StepFacts DEF WriterInv, StepNames, Inserting
<1>4. ClearInv /\ ClearsAlone
  BY <1>2, StepFacts DEF ClearInv, ClearsAlone
<1> QED
  BY <1>1, <1>3, <1>4 DEF IInv

\* What a build does before its statements.
Reads(w) == StartBuild(w) \/ StartClear(w) \/ Ingest(w) \/ \E part \in DOMAIN ReadOrder : ReadContext(w, part)

LEMMA ReadKeeps ==
    ASSUME IInv, NEW w \in Writers, Reads(w)
    PROVE  /\ Shape' /\ UNCHANGED <<disk, tx, clock>>
           /\ \A v \in Writers \ {w} : Own(v)
           /\ step[w] \notin DOMAIN Inserted /\ step[w] \notin DOMAIN ClearOrder
           /\ step'[w] \in {"ensure", "ingest", "clear-builds"} \cup DOMAIN ReadOrder
<1> USE DEF IInv, Shape, Own, Go, At
<1>1. CASE StartBuild(w) \/ StartClear(w)
  BY <1>1, StepFacts DEF StartBuild, StartClear, graphVars, Inserting
<1>2. CASE Ingest(w)
  BY <1>2, StepFacts DEF Ingest, Inserting
<1>3. ASSUME NEW part \in DOMAIN ReadOrder, ReadContext(w, part)
      PROVE  /\ Shape' /\ UNCHANGED <<disk, tx, clock>>
             /\ \A v \in Writers \ {w} : Own(v)
             /\ step[w] \notin DOMAIN Inserted /\ step[w] \notin DOMAIN ClearOrder
             /\ step'[w] \in {"ensure", "ingest", "clear-builds"} \cup DOMAIN ReadOrder
  <2>1. ReadOrder[part] \in {"ingest"} \cup DOMAIN ReadOrder
    BY DEF ReadOrder
  <2> QED
    BY <1>3, <2>1, StepFacts DEF ReadContext, Inserting
<1> QED
  BY <1>1, <1>2, <1>3 DEF Reads

LEMMA ReadWriterInv ==
    ASSUME IInv, NEW w \in Writers, Reads(w)
    PROVE  WriterInv(w)'
<1>1. step'[w] \in {"ensure", "ingest", "clear-builds"} \cup DOMAIN ReadOrder
      /\ step[w] \notin DOMAIN Inserted
  BY ReadKeeps
<1>2. CASE Ingest(w)
  <2>1. snapshot'[w].id = clock /\ step'[w] = "ensure"
    BY <1>2 DEF Ingest, Go, IInv
  <2> QED
    BY <2>1, StepFacts DEF IInv, WriterInv, StepNames, Inserting
<1>3. ASSUME ~Ingest(w)
      PROVE  WriterInv(w)'
  <2>1. snapshot'[w] = snapshot[w] /\ step'[w] # "ensure"
    BY <1>3, StepFacts DEF Reads, StartBuild, StartClear, ReadContext, Go, IInv, ReadOrder
  <2>2. snapshot[w] = NoSnapshot
    BY <1>1 DEF IInv, WriterInv
  <2> QED
    BY <1>1, <2>1, <2>2, StepFacts DEF WriterInv, StepNames, Inserting
<1> QED
  BY <1>2, <1>3

\* Nothing of the store and the writers' steps is changed by the others.
LEMMA ElseKeeps ==
    ASSUME IInv, UNCHANGED storeVars, clock' \in 1 .. MaxClock
    PROVE  IInv'
<1>1. \A w \in Writers : WriterInv(w)'
  BY DEF IInv, WriterInv, storeVars
<1>2. ClearInv' /\ ClearsAlone'
  BY DEF IInv, ClearInv, ClearsAlone, storeVars
<1> QED
  BY <1>1, <1>2 DEF IInv, storeVars

\* Those who ask write nothing.
LEMMA ReadingLeaves ==
    ASSUME NEW r \in Readers, Reading(r)
    PROVE  UNCHANGED <<storeVars, world, clock, read>>
<1>1. Unmade(r) \/ ReadKind(r) \/ Expand(r) => UNCHANGED <<storeVars, world, clock, read>>
  BY Zenon DEF Unmade, ReadKind, Expand, Set
<1>2. Search(r) \/ ReadNode(r) \/ ReadEdge(r) => UNCHANGED <<storeVars, world, clock, read>>
  BY Zenon DEF Search, ReadNode, ReadEdge, Set
<1>3. ReadEvidence(r) \/ ReadLatest(r) \/ ReadBuild(r) => UNCHANGED <<storeVars, world, clock, read>>
  BY Zenon DEF ReadEvidence, ReadLatest, ReadBuild, Set
<1> QED
  BY <1>1, <1>2, <1>3 DEF Reading

LEMMA NextIInv == IInv /\ [Next /\ ClearsAlone']_vars => IInv'
<1> SUFFICES ASSUME IInv, [Next /\ ClearsAlone']_vars PROVE IInv'
  OBVIOUS
<1>1. ASSUME NEW w \in Writers, Reads(w), ClearsAlone'
      PROVE  IInv'
  <2>1. \A v \in Writers : WriterInv(v)'
    BY <1>1, ReadKeeps, ReadWriterInv, WriterKept DEF IInv
  <2>2. ClearInv'
    BY <1>1, ReadKeeps, StepFacts DEF IInv, ClearInv, Own
  <2> QED
    BY <1>1, <2>1, <2>2, ReadKeeps DEF IInv, Shape
<1>2. ASSUME NEW w \in Writers, Write(w), ClearsAlone'
      PROVE  IInv'
  <2>1. StoreStep(w) /\ clock' = clock
    BY <1>2 DEF Write
  <2>2. Shape /\ WriterInv(w)
    BY DEF IInv, Shape
  <2>3. Shape' /\ \A v \in Writers \ {w} : Own(v)
    BY <2>1, <2>2, StatementShape
  <2>4. \A v \in Writers : WriterInv(v)'
    BY <2>1, <2>2, <2>3, StatementWriterInv, WriterKept DEF IInv
  <2>5. ClearInv'
    BY <2>1, StatementClearInv
  <2> QED
    BY <1>2, <2>3, <2>4, <2>5 DEF IInv, Shape
<1>3. ASSUME UNCHANGED storeVars, clock' = clock
      PROVE  IInv'
  BY <1>3, ElseKeeps DEF IInv
<1>4. CASE Edit
  BY <1>3, <1>4 DEF Edit
<1>5. CASE Tick
  <2>1. clock' \in 1 .. MaxClock
    BY <1>5, GraphAssumption DEF Tick, IInv
  <2> QED
    BY <1>5, <2>1, ElseKeeps DEF Tick
<1>6. ASSUME NEW r \in Readers, Reading(r)
      PROVE  IInv'
  <2>1. UNCHANGED storeVars /\ clock' = clock
    BY <1>6, ReadingLeaves
  <2> QED
    BY <1>3, <2>1
<1>7. ASSUME NEW r \in Readers, NEW question \in Questions, Ask(r, question)
      PROVE  IInv'
  BY <1>3, <1>7 DEF Ask
<1>8. CASE UNCHANGED vars
  BY <1>3, <1>8 DEF vars, graphVars
<1> QED
  BY <1>1, <1>2, <1>4, <1>5, <1>6, <1>7, <1>8 DEF Next, Reads

LEMMA IInvHolds == AloneSpec => []IInv
BY InitIInv, NextIInv, PTL DEF AloneSpec

-----------------------------------------------------------------------------
(* The refinement *)

\* What GraphSnapshots is shown of the state.
Shown == IF disk.builds = {} THEN None ELSE disk
Offers(given) == {TablesOf(given[w]) : w \in {x \in Writers : given[x] # NoSnapshot}}
Offered == Offers(snapshot)
Clearing == \E w \in Writers : step[w] \in DOMAIN ClearOrder

\* A step of the specification, as one of the abstract one.
Abstract ==
    \/ UNCHANGED <<Shown, Offered, Clearing>>
    \/ /\ UNCHANGED <<Shown, Clearing>>
       /\ \E g \in Offered \cup Offered' : Offered' \in {Offered \cup {g}, Offered \ {g}}
    \/ Shown' \in Offered /\ Offered' \in {Offered, Offered \ {Shown'}} /\ UNCHANGED Clearing
    \/ Clearing /\ Shown' = None /\ UNCHANGED <<Offered, Clearing>>
    \/ Clearing' # Clearing /\ UNCHANGED <<Shown, Offered>>

LEMMA AbstractIsNext == Abstract => [Graphs!Next]_(Graphs!vars)
BY DEF Abstract, Shown, Offered, Offers, Clearing, Graphs!Next, Graphs!vars, Graphs!Offer, Graphs!Replace,
       Graphs!Clear, Graphs!Begin

\* What one writer's graph changes of what is offered.
LEMMA OffersChange ==
    ASSUME NEW before, NEW after, NEW w \in Writers, \A v \in Writers \ {w} : after[v] = before[v]
    PROVE  /\ after[w] = before[w] => Offers(after) = Offers(before)
           /\ before[w] = NoSnapshot /\ after[w] # NoSnapshot =>
                  Offers(after) = Offers(before) \cup {TablesOf(after[w])}
           /\ before[w] # NoSnapshot /\ after[w] = NoSnapshot =>
                  /\ TablesOf(before[w]) \in Offers(before)
                  /\ Offers(after) \in {Offers(before), Offers(before) \ {TablesOf(before[w])}}
<1> DEFINE Others == {TablesOf(before[v]) : v \in {x \in Writers \ {w} : before[x] # NoSnapshot}}
           Of(given) == IF given[w] # NoSnapshot THEN {TablesOf(given[w])} ELSE {}
<1>1. Offers(before) = Others \cup Of(before)
  BY DEF Offers
<1>2. Offers(after) = Others \cup Of(after)
  BY DEF Offers
<1> HIDE DEF Others
<1> QED
  BY <1>1, <1>2

LEMMA ReadIsAbstract ==
    ASSUME IInv, NEW w \in Writers, Reads(w)
    PROVE  Abstract
<1>1. Shown' = Shown
  BY ReadKeeps DEF Shown
<1>2. CASE Ingest(w)
  <2>1. /\ snapshot[w] = NoSnapshot /\ snapshot'[w] # NoSnapshot
        /\ \A v \in Writers \ {w} : snapshot'[v] = snapshot[v]
    <3>1. snapshot'[w].id \in 1 .. MaxClock
      BY <1>2 DEF IInv, Ingest
    <3>2. NoSnapshot.id = None
      BY DEF NoSnapshot
    <3>3. step[w] \notin DOMAIN Inserted /\ \A v \in Writers \ {w} : Own(v)
      BY ReadKeeps
    <3> QED
      BY <3>1, <3>2, <3>3, GraphAssumption DEF IInv, WriterInv, Own
  <2>2. Offered' = Offered \cup {TablesOf(snapshot'[w])}
    BY <2>1, OffersChange DEF Offered
  <2>3. Clearing' = Clearing
    <3>1. step[w] = "ingest" /\ step'[w] = "ensure" /\ \A v \in Writers \ {w} : step'[v] = step[v]
      BY <1>2 DEF Ingest, At, Go, IInv
    <3> QED
      BY <3>1, StepFacts DEF Clearing
  <2> QED
    BY <1>1, <2>2, <2>3 DEF Abstract
<1>3. ASSUME ~Ingest(w)
      PROVE  Abstract
  <2>1. snapshot' = snapshot
    BY <1>3 DEF Reads, StartBuild, StartClear, ReadContext
  <2>2. Offered' = Offered
    BY <2>1 DEF Offered
  <2> QED
    BY <1>1, <2>2 DEF Abstract
<1> QED
  BY <1>2, <1>3

LEMMA StatementIsAbstract ==
    ASSUME IInv, NEW w \in Writers, StoreStep(w), clock' = clock
    PROVE  Abstract
<1>1. Shape /\ Shape' /\ \A v \in Writers \ {w} : Own(v)
  BY StatementShape DEF IInv, Shape
<1>2. \A v \in Writers \ {w} : snapshot'[v] = snapshot[v] /\ step'[v] = step[v]
  BY <1>1 DEF Own
<1>3. ASSUME snapshot'[w] = snapshot[w]
      PROVE  Offered' = Offered
  BY <1>2, <1>3, OffersChange DEF Offered
<1>4. ASSUME step[w] \notin DOMAIN ClearOrder, step'[w] \notin DOMAIN ClearOrder
      PROVE  Clearing' = Clearing
  BY <1>2, <1>4 DEF Clearing
<1>5. ASSUME Ensure(w) \/ Begin(w) \/ DeleteRows(w) \/ SetLatest(w) \/ \E t \in DOMAIN InsertOrder : Insert(w, t)
      PROVE  Abstract
  <2>1. disk' = disk /\ snapshot' = snapshot
    BY <1>5 DEF Ensure, Begin, DeleteRows, SetLatest, Insert
  <2>2. step[w] \notin DOMAIN ClearOrder /\ step'[w] \notin DOMAIN ClearOrder
    BY <1>1, <1>5, StepFacts, NextStatements
       DEF Shape, Ensure, Begin, DeleteRows, SetLatest, Insert, At, Go, Tables
  <2>3. Shown' = Shown
    BY <2>1 DEF Shown
  <2> QED
    BY <1>3, <1>4, <2>1, <2>2, <2>3 DEF Abstract
<1>6. CASE Commit(w)
  <2>1. step[w] = "commit" /\ step'[w] = "done" /\ snapshot'[w] = NoSnapshot /\ disk' = tx[w]
    BY <1>1, <1>6 DEF Commit, At, Go, Shape
  <2>2. snapshot[w].id \in 1 .. MaxClock
        /\ tx[w] = [t \in Tables |-> IF t \in Inserted["commit"] THEN RowsOf(snapshot[w], t) ELSE {}]
    BY <2>1, StepFacts DEF IInv, WriterInv, Inserting
  <2>3. tx[w] = TablesOf(snapshot[w])
    BY <2>2, InsertedAre DEF TablesOf
  <2>4. snapshot[w] # NoSnapshot
    BY <2>2, GraphAssumption DEF NoSnapshot
  <2>5. disk'.builds = {snapshot[w].id}
    BY <2>1, <2>3 DEF TablesOf, Tables, RowsOf
  <2>6. Shown' = TablesOf(snapshot[w])
    BY <2>1, <2>3, <2>5 DEF Shown
  <2>7. Shown' \in Offered /\ Offered' \in {Offered, Offered \ {Shown'}}
    BY <1>2, <2>1, <2>4, <2>6, OffersChange DEF Offered
  <2>8. Clearing' = Clearing
    BY <1>4, <2>1, StepFacts
  <2> QED
    BY <2>7, <2>8 DEF Abstract
<1>7. CASE ClearStatement(w)
  <2>1. Offered' = Offered
    BY <1>3, <1>7 DEF ClearStatement
  <2>2. Clearing
    BY <1>7 DEF ClearStatement, Clearing
  <2>3. CASE step[w] = "clear-builds"
    <3>1. disk' = [disk EXCEPT !["builds"] = {}] /\ step'[w] = "clear-nodes"
      BY <1>1, <1>7, <2>3, NextClears DEF ClearStatement, At, Go, Shape, ClearOrder
    <3>2. Shown' = None
      BY <1>1, <3>1 DEF Shown, Shape, Tables
    <3>3. Clearing'
      BY <3>1, StepFacts DEF Clearing
    <3> QED
      BY <2>1, <2>2, <3>2, <3>3 DEF Abstract
  <2>4. CASE step[w] # "clear-builds"
    <3>1. disk.builds = {} /\ disk'.builds = {}
      BY <1>1, <1>7, <2>4, NextClears DEF ClearStatement, IInv, ClearInv, Shape, Tables, At
    <3>2. Shown' = Shown
      BY <3>1 DEF Shown
    <3> QED
      BY <2>1, <3>2 DEF Abstract
  <2> QED
    BY <2>3, <2>4
<1>8. CASE Refused(w) \/ Failing(w)
  <2>1. disk' = disk /\ step'[w] = "failed" /\ snapshot'[w] = NoSnapshot
    BY <1>1, <1>8 DEF Refused, Failing, Ended, Go, Shape
  <2>2. Shown' = Shown
    BY <2>1 DEF Shown
  <2>3. CASE snapshot[w] = NoSnapshot
    BY <1>3, <2>1, <2>2, <2>3 DEF Abstract
  <2>4. CASE snapshot[w] # NoSnapshot
    <3>1. step[w] \in DOMAIN Inserted
      BY <2>4 DEF IInv, WriterInv
    <3>2. Clearing' = Clearing
      BY <1>4, <2>1, <3>1, StepFacts DEF Inserting
    <3>3. TablesOf(snapshot[w]) \in Offered /\ Offered' \in {Offered, Offered \ {TablesOf(snapshot[w])}}
      BY <1>2, <2>1, <2>4, OffersChange DEF Offered
    <3> QED
      BY <2>2, <3>2, <3>3 DEF Abstract
  <2> QED
    BY <2>3, <2>4
<1> QED
  BY <1>5, <1>6, <1>7, <1>8 DEF StoreStep

LEMMA ElseIsAbstract == ASSUME UNCHANGED storeVars PROVE Abstract
BY DEF storeVars, Abstract, Shown, Offered, Clearing

\* As long as clears run alone, what can be asked is the graph of one build as a whole, or none: whatever fails,
\* is refused or dies, and whoever else builds (replaceGraph, clear).
THEOREM GraphsAreWhole == AloneSpec => Implements
<1>1. Init => Graphs!Init
  <2>1. ASSUME Init
        PROVE  disk.builds = {} /\ \A w \in Writers : snapshot[w] = NoSnapshot /\ step[w] \notin DOMAIN ClearOrder
    BY <2>1, StepFacts DEF Init, StoreInit, Empty, Tables
  <2> QED
    BY <2>1 DEF Graphs!Init
<1>2. IInv /\ [Next /\ ClearsAlone']_vars => [Graphs!Next]_(Graphs!vars)
  <2> SUFFICES ASSUME IInv, [Next /\ ClearsAlone']_vars PROVE Abstract
    BY AbstractIsNext
  <2>1. ASSUME NEW w \in Writers, Write(w)
        PROVE  Abstract
    BY <2>1, StatementIsAbstract DEF Write
  <2>2. ASSUME NEW r \in Readers, Reading(r)
        PROVE  UNCHANGED storeVars
    BY <2>2, ReadingLeaves
  <2>3. ASSUME NEW r \in Readers, NEW question \in Questions, Ask(r, question)
        PROVE  UNCHANGED storeVars
    BY <2>3 DEF Ask
  <2>4. ASSUME Edit \/ Tick \/ UNCHANGED vars
        PROVE  UNCHANGED storeVars
    BY <2>4 DEF Edit, Tick, vars
  <2> QED
    BY <2>1, <2>2, <2>3, <2>4, ReadIsAbstract, ElseIsAbstract DEF Next, Reads
<1> QED
  BY <1>1, <1>2, IInvHolds, PTL DEF AloneSpec, Implements, Graphs!Spec

-----------------------------------------------------------------------------
(* The answers *)

Asking(r) == query[r].step \notin {"idle", "done"}

\* The committed tables of now are among those of each question under way, and what it has read
\* was in one of them.
AnswerInv ==
    /\ DOMAIN query = Readers /\ DOMAIN during = Readers
    /\ \A r \in Readers : DOMAIN query[r] = DOMAIN NoQuery
    /\ \A r \in Readers : Asking(r) => disk \in during[r]
    /\ \A r \in Readers : \A n \in query[r].nodes : \E d \in during[r] : n \in d.nodes
    /\ \A r \in Readers : \A e \in query[r].edges : \E d \in during[r] : e \in d.edges
    /\ \A r \in Readers : \A n \in query[r].starts : \E d \in during[r] : n \in d.nodes

\* What a reading of r does to its query: it was asking, and what it now has it had or reads.
ReadsOn(r) ==
    /\ Asking(r)
    /\ UNCHANGED <<storeVars, clock, during>>
    /\ query' = [query EXCEPT ![r] = query'[r]]
    /\ DOMAIN query'[r] = DOMAIN NoQuery
    /\ query'[r].question = query[r].question
    /\ query'[r].step = "build" => query[r].step = "latest"
    /\ query'[r].nodes \subseteq query[r].nodes \cup query[r].starts \cup disk.nodes
    /\ query'[r].starts \subseteq query[r].starts \cup disk.nodes
    /\ query'[r].edges \subseteq query[r].edges \cup disk.edges

LEMMA QueryFields ==
    DOMAIN NoQuery = {"step", "question", "kinds", "starts", "todo", "queue", "met", "ids", "edgeIds",
                      "nodes", "edges", "evidence", "build"}
BY DEF NoQuery

\* The next walk is begun with the records of before.
LEMMA NextWalkKeeps ==
    ASSUME NEW q, DOMAIN q = DOMAIN NoQuery
    PROVE  /\ DOMAIN NextWalk(q) = DOMAIN NoQuery
           /\ NextWalk(q).question = q.question
           /\ NextWalk(q).nodes = q.nodes /\ NextWalk(q).starts = q.starts /\ NextWalk(q).edges = q.edges
           /\ NextWalk(q).step \in {"walk", "edges"}
BY QueryFields DEF NextWalk

\* What is taken of some records.
LEMMA FirstOfIs == ASSUME NEW S, NEW limit, NEW K \in FirstOf(S, limit) PROVE K \subseteq S
BY DEF FirstOf

LEMMA ReadingReads ==
    ASSUME NEW r \in Readers, DOMAIN query = Readers, DOMAIN query[r] = DOMAIN NoQuery, Reading(r)
    PROVE  ReadsOn(r)
<1> DEFINE q == query[r]
           Has(new) == /\ DOMAIN new = DOMAIN NoQuery
                       /\ new.question = q.question
                       /\ new.step = "build" => q.step = "latest"
                       /\ new.nodes \subseteq q.nodes \cup q.starts \cup disk.nodes
                       /\ new.starts \subseteq q.starts \cup disk.nodes
                       /\ new.edges \subseteq q.edges \cup disk.edges
<1>1. ASSUME NEW new, Set(r, new), Has(new), Asking(r)
      PROVE  ReadsOn(r)
  BY <1>1 DEF Set, ReadsOn
<1>2. CASE Unmade(r)
  <2>1. Has([NoQuery EXCEPT !.step = "done", !.question = q.question])
    BY DEF NoQuery
  <2> QED
    BY <1>1, <1>2, <2>1 DEF Unmade, Asking
<1>3. CASE ReadKind(r)
  <2> DEFINE starts == q.starts \cup {n \in disk.nodes : n.id[1] = Head(q.kinds) /\ Named(n, q.question.target)}
             on == [q EXCEPT !.starts = starts, !.kinds = Tail(q.kinds)]
             next(walked) == [on EXCEPT !.todo = Listed(walked), !.nodes = starts]
  <2>1. Asking(r)
    BY <1>3 DEF ReadKind, Asking
  <2>2. starts \subseteq q.starts \cup disk.nodes
    OBVIOUS
  <2>3. PICK walked : Set(r, on) \/ Set(r, [on EXCEPT !.step = "done"]) \/ Set(r, NextWalk(next(walked)))
    BY <1>3 DEF ReadKind
  <2> HIDE DEF starts
  <2>4. Has(on) /\ Has([on EXCEPT !.step = "done"])
    BY <1>3, <2>2, QueryFields DEF ReadKind
  <2>5. /\ DOMAIN next(walked) = DOMAIN NoQuery /\ next(walked).question = q.question
        /\ next(walked).nodes = starts /\ next(walked).starts = starts /\ next(walked).edges = q.edges
    BY QueryFields
  <2> HIDE DEF on, next
  <2>6. Has(NextWalk(next(walked)))
    BY <2>2, <2>5, NextWalkKeeps
  <2> QED
    BY <1>1, <2>1, <2>3, <2>4, <2>6
<1>4. CASE Expand(r)
  <2> DEFINE way == Head(q.queue)
             edges == Touching(disk.edges, {way.id})
             on == Tail(q.queue) \o (IF Expands(q, Len(way.edges) + 1) THEN Beyond(way, edges, q.met) ELSE <<>>)
             met == q.met \cup {Other(e, way.id) : e \in edges}
             new(queue) == [q EXCEPT !.met = met, !.queue = queue, !.edgeIds = @ \cup {EdgeId(e) : e \in edges},
                                     !.ids = IF queue = <<>> THEN met ELSE {},
                                     !.step = IF queue = <<>> THEN "nodes" ELSE "walk"]
  <2>1. Set(r, new(on))
    BY <1>4 DEF Expand
  <2> HIDE DEF on, met, edges
  <2>2. Has(new(on))
    BY QueryFields
  <2> QED
    BY <1>1, <1>4, <2>1, <2>2 DEF Expand, Asking
<1>5. CASE Search(r)
  <2> DEFINE way == Head(q.queue)
             edges == Touching(disk.edges, {way.id})
             on == Tail(q.queue) \o (IF Compares(q, Len(way.edges) + 1) THEN Beyond(way, edges, q.met) ELSE <<>>)
             found == [q EXCEPT !.ids = Range(way.nodes), !.edgeIds = Range(way.edges), !.step = "nodes"]
             new(queue) == [q EXCEPT !.met = @ \cup {Other(e, way.id) : e \in edges}, !.queue = queue,
                                     !.step = IF queue = <<>> THEN "done" ELSE "walk"]
  <2>1. Set(r, found) \/ Set(r, new(on))
    BY <1>5 DEF Search
  <2> HIDE DEF on, edges
  <2>2. Has(found) /\ Has(new(on))
    BY QueryFields
  <2> QED
    BY <1>1, <1>5, <2>1, <2>2 DEF Search, Asking
<1>6. CASE ReadNode(r)
  <2> DEFINE id == CHOOSE x \in q.ids : TRUE
             kept == IF NodeRow(id) = {} THEN q.nodes ELSE {n \in q.nodes : n.id # id}
             on == [q EXCEPT !.ids = @ \ {id}, !.nodes = kept \cup NodeRow(id)]
  <2>1. Set(r, on) \/ Set(r, NextWalk(on))
    BY <1>6 DEF ReadNode
  <2>2. kept \cup NodeRow(id) \subseteq q.nodes \cup disk.nodes
    BY DEF NodeRow
  <2> HIDE DEF kept, id
  <2>3. Has(on)
    BY <1>6, <2>2, QueryFields DEF ReadNode
  <2> HIDE DEF on
  <2>4. Has(NextWalk(on))
    BY <2>3, NextWalkKeeps
  <2> QED
    BY <1>1, <1>6, <2>1, <2>3, <2>4 DEF ReadNode, Asking
<1>7. CASE ReadEdge(r)
  <2> DEFINE id == CHOOSE x \in q.edgeIds : TRUE
             on == [q EXCEPT !.edgeIds = @ \ {id}, !.edges = @ \cup {e \in disk.edges : EdgeId(e) = id}]
  <2>1. Set(r, on)
    BY <1>7 DEF ReadEdge
  <2>2. Has(on)
    BY <1>7, QueryFields DEF ReadEdge
  <2> QED
    BY <1>1, <1>7, <2>1, <2>2 DEF ReadEdge, Asking
<1>8. CASE ReadEvidence(r)
  <2> DEFINE new(nodes, edges, evidence) ==
                 [q EXCEPT !.nodes = nodes, !.edges = edges, !.evidence = evidence, !.step = "done"]
  <2>1. PICK nodes \in SUBSET q.nodes, edges \in SUBSET q.edges : \E evidence : Set(r, new(nodes, edges, evidence))
    BY <1>8, FirstOfIs, Zenon DEF ReadEvidence, NodesKept
  <2>2. PICK evidence : Set(r, new(nodes, edges, evidence))
    BY <2>1
  <2>3. Has(new(nodes, edges, evidence))
    BY QueryFields
  <2> QED
    BY <1>1, <1>8, <2>2, <2>3 DEF ReadEvidence, Asking
<1>9. CASE ReadLatest(r)
  <2> DEFINE new == [q EXCEPT !.build = latest, !.step = IF latest = None THEN "done" ELSE "build"]
  <2>1. Set(r, new) /\ q.step = "latest"
    BY <1>9 DEF ReadLatest
  <2>2. Has(new)
    BY <2>1, QueryFields
  <2> QED
    BY <1>1, <2>1, <2>2 DEF Asking
<1>10. CASE ReadBuild(r)
  <2> DEFINE new == [q EXCEPT !.build = BuildRow(q.build), !.step = "done"]
  <2>1. Set(r, new) /\ q.step = "build"
    BY <1>10 DEF ReadBuild
  <2>2. Has(new)
    BY QueryFields
  <2> QED
    BY <1>1, <2>1, <2>2 DEF Asking
<1> QED
  BY <1>2, <1>3, <1>4, <1>5, <1>6, <1>7, <1>8, <1>9, <1>10 DEF Reading

LEMMA AskingKeeps ==
    ASSUME AnswerInv, NEW r \in Readers, ReadsOn(r)
    PROVE  AnswerInv'
<1>1. /\ disk' = disk /\ during' = during
      /\ \A x \in Readers \ {r} : query'[x] = query[x]
      /\ disk \in during[r] /\ DOMAIN query' = Readers
  BY DEF AnswerInv, ReadsOn, storeVars
<1>2. \A n \in query'[r].nodes \cup query'[r].starts : \E d \in during[r] : n \in d.nodes
  BY <1>1 DEF AnswerInv, ReadsOn
<1>3. \A e \in query'[r].edges : \E d \in during[r] : e \in d.edges
  BY <1>1 DEF AnswerInv, ReadsOn
<1>4. \A x \in Readers : Asking(x)' => Asking(x)
  BY <1>1 DEF ReadsOn, Asking
<1>5. \A x \in Readers : DOMAIN query'[x] = DOMAIN NoQuery
  BY <1>1 DEF AnswerInv, ReadsOn
<1> QED
  BY <1>1, <1>2, <1>3, <1>4, <1>5 DEF AnswerInv

LEMMA AskKeeps ==
    ASSUME AnswerInv, NEW r \in Readers, NEW question \in Questions, Ask(r, question)
    PROVE  AnswerInv'
<1>1. /\ disk' = disk /\ during' = [during EXCEPT ![r] = {disk}]
      /\ \A x \in Readers \ {r} : query'[x] = query[x] /\ during'[x] = during[x]
      /\ DOMAIN query' = Readers /\ DOMAIN during' = Readers /\ during'[r] = {disk}
  BY DEF AnswerInv, Ask, storeVars
<1>2. /\ query'[r].nodes = {} /\ query'[r].edges = {} /\ query'[r].starts = {}
      /\ DOMAIN query'[r] = DOMAIN NoQuery
  BY QueryFields DEF AnswerInv, Ask, NoQuery
<1>3. \A x \in Readers \ {r} : Asking(x)' => Asking(x)
  BY <1>1 DEF Asking
<1> QED
  BY <1>1, <1>2, <1>3 DEF AnswerInv

LEMMA WriteKeeps ==
    ASSUME AnswerInv, NEW w \in Writers, Write(w)
    PROVE  AnswerInv'
<1>1. query' = query /\ DOMAIN during' = Readers
  BY DEF Write
<1>2. ASSUME NEW r \in Readers
      PROVE  during[r] \subseteq during'[r] /\ (Asking(r)' => disk' \in during'[r])
  BY <1>1 DEF Write, Asking
<1>3. /\ \A r \in Readers : \A n \in query'[r].nodes \cup query'[r].starts : \E d \in during'[r] : n \in d.nodes
      /\ \A r \in Readers : \A e \in query'[r].edges : \E d \in during'[r] : e \in d.edges
  BY <1>1, <1>2 DEF AnswerInv
<1> QED
  BY <1>1, <1>2, <1>3 DEF AnswerInv

LEMMA AnswerStep == AnswerInv /\ [Next]_vars => AnswerInv'
<1> SUFFICES ASSUME AnswerInv, [Next]_vars PROVE AnswerInv'
  OBVIOUS
<1>1. ASSUME UNCHANGED <<disk, query, during>>
      PROVE  AnswerInv'
  BY <1>1 DEF AnswerInv, Asking
<1>2. ASSUME NEW w \in Writers, Reads(w)
      PROVE  UNCHANGED <<disk, query, during>>
  BY <1>2 DEF Reads, StartBuild, StartClear, ReadContext, Ingest, graphVars
<1>3. ASSUME NEW r \in Readers, Reading(r)
      PROVE  AnswerInv'
  BY <1>3, ReadingReads, AskingKeeps DEF AnswerInv
<1>4. CASE Edit \/ Tick \/ UNCHANGED vars
  BY <1>1, <1>4 DEF Edit, Tick, vars, storeVars, graphVars
<1> QED
  BY <1>1, <1>2, <1>3, <1>4, AskKeeps, WriteKeeps DEF Next, Reads

\* Whatever is committed or cleared while a question is answered, each record of the answer was
\* committed at some time since it was asked.
THEOREM AnswersAlwaysCommitted == Spec => []AnswersWereCommitted
<1>1. Init => AnswerInv
  BY QueryFields DEF Init, AnswerInv, Asking, NoQuery
<1>2. AnswerInv => AnswersWereCommitted
  BY DEF AnswerInv, AnswersWereCommitted
<1> QED
  BY <1>1, <1>2, AnswerStep, PTL DEF Spec

-----------------------------------------------------------------------------
(* The status *)

\* The latest build is the stored one, as far as one is stored, and without tables none is.
LatestInv ==
    /\ disk.builds \subseteq {latest} \ {None}
    /\ DOMAIN txLatest = Writers
    /\ ~made => disk.builds = {} /\ \A w \in Writers : step[w] \notin {"begin", "delete"} \cup Inserting
    /\ \A w \in Writers : step[w] = "commit" => txLatest[w] = snapshot[w].id

\* Of a build whose row is to be read it is known that it was the latest during the question, and
\* of one that is answered with, that it was there.
Honest(r) ==
    IF query[r].build # None THEN \E d \in during[r] : query[r].build \in d.builds
    ELSE Cardinality(during[r]) > 1 \/ \E d \in during[r] : d.builds = {}

StatusInv ==
    /\ \A r \in Readers : IsFiniteSet(during[r])
    /\ \A r \in Readers : query[r].step = "build" => \E d \in during[r] : d.builds \subseteq {query[r].build}
    /\ \A r \in Readers : query[r].question.op = "status" =>
           /\ query[r].step \in {"latest", "build", "done"}
           /\ query[r].step = "latest" => query[r].build = None
           /\ query[r].step = "done" => Honest(r)

LEMMA StatementLatest ==
    ASSUME IInv, LatestInv, NEW w \in Writers, StoreStep(w), clock' = clock
    PROVE  LatestInv'
<1> USE DEF Go, At
<1>0. /\ Shape' /\ WriterInv(w)' /\ \A v \in Writers \ {w} : Own(v)
      /\ DOMAIN step = Writers /\ DOMAIN snapshot = Writers /\ DOMAIN txLatest = Writers /\ DOMAIN disk = Tables
  BY StatementShape, StatementWriterInv DEF IInv, Shape, LatestInv
<1>1. CASE Ensure(w)
  <2>1. UNCHANGED <<disk, latest, txLatest, snapshot>> /\ made' = TRUE /\ step'[w] = "begin"
    BY <1>0, <1>1 DEF Ensure
  <2> QED
    BY <1>0, <2>1 DEF LatestInv, Own
<1>2. CASE Begin(w)
  <2>1. UNCHANGED <<disk, latest, txLatest, snapshot, made>> /\ step'[w] = "delete" /\ step[w] = "begin"
    BY <1>0, <1>2 DEF Begin
  <2> QED
    BY <1>0, <2>1 DEF LatestInv, Own
<1>3. CASE DeleteRows(w)
  <2>1. /\ UNCHANGED <<disk, latest, snapshot, made>> /\ step'[w] = "builds" /\ step[w] = "delete"
        /\ DOMAIN txLatest' = Writers /\ \A v \in Writers \ {w} : txLatest'[v] = txLatest[v]
    BY <1>0, <1>3 DEF DeleteRows
  <2> QED
    BY <1>0, <2>1 DEF LatestInv, Own, Inserting
<1>4. ASSUME NEW t \in DOMAIN InsertOrder, Insert(w, t)
      PROVE  LatestInv'
  <2>1. UNCHANGED <<disk, latest, txLatest, snapshot, made>> /\ step'[w] = InsertOrder[t] /\ step[w] = t
    BY <1>0, <1>4 DEF Insert
  <2>2. step[w] \in Inserting /\ step'[w] # "commit"
    BY <2>1, StepFacts, NextStatements DEF Inserting, Tables
  <2> QED
    BY <1>0, <2>1, <2>2 DEF LatestInv, Own
<1>5. CASE SetLatest(w)
  <2>1. /\ UNCHANGED <<disk, latest, snapshot, made>> /\ step'[w] = "commit" /\ step[w] = "latest"
        /\ DOMAIN txLatest' = Writers /\ \A v \in Writers \ {w} : txLatest'[v] = txLatest[v]
        /\ txLatest'[w] = snapshot[w].id
    BY <1>0, <1>5 DEF SetLatest
  <2> QED
    BY <1>0, <2>1 DEF LatestInv, Own, Inserting
<1>6. CASE Commit(w)
  <2>1. /\ UNCHANGED <<txLatest, made>> /\ step'[w] = "done" /\ step[w] = "commit"
        /\ disk' = tx[w] /\ latest' = txLatest[w]
    BY <1>0, <1>6 DEF Commit
  <2>2. tx[w].builds = {snapshot[w].id} /\ snapshot[w].id # None
    BY <2>1, StepFacts, InsertedAre, GraphAssumption DEF IInv, WriterInv, Inserting, Tables, RowsOf
  <2>3. made /\ latest' = snapshot[w].id
    BY <2>1 DEF LatestInv, Inserting
  <2> QED
    BY <1>0, <2>1, <2>2, <2>3 DEF LatestInv, Own
<1>7. CASE ClearStatement(w)
  <2>1. /\ UNCHANGED <<txLatest, made, snapshot>> /\ made /\ step'[w] \in DOMAIN ClearOrder \cup {"done"}
        /\ step[w] \in DOMAIN ClearOrder
    BY <1>0, <1>7, NextClears DEF ClearStatement
  <2>2. CASE step[w] = "clear-latest"
    <3>1. disk.builds = {} /\ disk' = disk
      BY <1>7, <2>1, <2>2 DEF ClearStatement, IInv, ClearInv
    <3> QED
      BY <1>0, <2>1, <3>1, StepFacts DEF LatestInv, Own
  <2>3. CASE step[w] # "clear-latest"
    <3>1. disk'.builds \subseteq disk.builds /\ latest' = latest
      BY <1>0, <1>7, <2>3 DEF ClearStatement, Tables
    <3> QED
      BY <1>0, <2>1, <3>1, StepFacts DEF LatestInv, Own
  <2> QED
    BY <2>2, <2>3
<1>8. CASE Refused(w) \/ Failing(w)
  <2>1. UNCHANGED <<disk, latest, txLatest, made>> /\ step'[w] = "failed"
    BY <1>0, <1>8 DEF Refused, Failing, Ended
  <2> QED
    BY <1>0, <2>1 DEF LatestInv, Own, Inserting
<1> QED
  BY <1>1, <1>2, <1>3, <1>4, <1>5, <1>6, <1>7, <1>8 DEF StoreStep

LEMMA LatestStep == IInv /\ LatestInv /\ [Next]_vars => LatestInv'
<1> SUFFICES ASSUME IInv, LatestInv, [Next]_vars PROVE LatestInv'
  OBVIOUS
<1>1. ASSUME UNCHANGED storeVars
      PROVE  LatestInv'
  BY <1>1 DEF LatestInv, storeVars
<1>2. ASSUME NEW w \in Writers, Reads(w)
      PROVE  LatestInv'
  <2>1. UNCHANGED <<disk, latest, txLatest, made>> /\ \A v \in Writers \ {w} : Own(v)
    BY <1>2, ReadKeeps DEF Reads, StartBuild, StartClear, ReadContext, Ingest
  <2>2. step'[w] \notin {"begin", "delete"} \cup Inserting
    BY <1>2, ReadKeeps, StepFacts DEF Inserting
  <2> QED
    BY <2>1, <2>2 DEF LatestInv, Own, Inserting
<1>3. ASSUME NEW w \in Writers, Write(w)
      PROVE  LatestInv'
  BY <1>3, StatementLatest DEF Write
<1>4. ASSUME NEW r \in Readers, Reading(r)
      PROVE  UNCHANGED storeVars
  BY <1>4, ReadingLeaves
<1>5. ASSUME NEW r \in Readers, NEW question \in Questions, Ask(r, question)
      PROVE  UNCHANGED storeVars
  BY <1>5 DEF Ask
<1>6. CASE Edit \/ Tick \/ UNCHANGED vars
  BY <1>1, <1>6 DEF Edit, Tick, vars
<1> QED
  BY <1>1, <1>2, <1>3, <1>4, <1>5, <1>6 DEF Next, Reads

LEMMA TwoAtLeast ==
    ASSUME NEW S, IsFiniteSet(S), NEW a \in S, NEW b \in S, a # b
    PROVE  Cardinality(S) > 1
<1>1. IsFiniteSet({a}) /\ Cardinality({a}) = 1
  BY FS_Singleton
<1>2. IsFiniteSet(S \ {a}) /\ Cardinality(S \ {a}) = Cardinality(S) - 1
  BY FS_RemoveElement
<1>3. Cardinality(S \ {a}) # 0
  BY <1>2, FS_EmptySet
<1> QED
  BY <1>2, <1>3, FS_CardinalityType

\* The reads of a status, and that other questions do not become one.
LEMMA StatusRead ==
    ASSUME AnswerInv, LatestInv, StatusInv, NEW r \in Readers, Reading(r)
    PROVE  StatusInv'
<1>1. ReadsOn(r)
  BY ReadingReads DEF AnswerInv
<1>2. /\ during' = during /\ disk \in during[r]
      /\ query'[r].question = query[r].question
      /\ \A x \in Readers \ {r} : query'[x] = query[x]
  BY <1>1 DEF ReadsOn, AnswerInv
<1>3. SUFFICES /\ query'[r].step = "build" => \E d \in during[r] : d.builds \subseteq {query'[r].build}
               /\ query[r].question.op = "status" =>
                      /\ query'[r].step \in {"latest", "build", "done"}
                      /\ query'[r].step = "latest" => query'[r].build = None
                      /\ query'[r].step = "done" => Honest(r)'
  BY <1>2 DEF StatusInv, Honest
<1> USE QueryFields
<1> DEFINE q == query[r]
<1>4. CASE Unmade(r)
  <2>1. query'[r].step = "done" /\ query'[r].build = None /\ disk.builds = {}
    BY <1>4 DEF Unmade, Set, NoQuery, LatestInv, AnswerInv
  <2> QED
    BY <1>2, <2>1 DEF Honest
<1>5. CASE ReadLatest(r)
  <2>1. /\ query'[r].build = latest /\ disk.builds \subseteq {latest} \ {None}
        /\ query'[r].step = IF latest = None THEN "done" ELSE "build"
    BY <1>5 DEF ReadLatest, Set, AnswerInv, LatestInv
  <2> QED
    BY <1>2, <2>1 DEF Honest
<1>6. CASE ReadBuild(r)
  <2>1. /\ query'[r].build = BuildRow(q.build) /\ query'[r].step = "done" /\ q.step = "build"
    BY <1>6 DEF ReadBuild, Set, AnswerInv
  <2>2. PICK d \in during[r] : d.builds \subseteq {q.build}
    BY <2>1 DEF StatusInv
  <2>3. CASE q.build \in disk.builds
    BY <1>2, <2>1, <2>3 DEF Honest, BuildRow, LatestInv
  <2>4. CASE q.build \notin disk.builds /\ d = disk
    BY <1>2, <2>1, <2>2, <2>4 DEF Honest, BuildRow
  <2>5. CASE q.build \notin disk.builds /\ d # disk
    <3>1. Cardinality(during[r]) > 1
      BY <1>2, <2>5, TwoAtLeast DEF StatusInv
    <3> QED
      BY <1>2, <2>1, <2>5, <3>1 DEF Honest, BuildRow
  <2> QED
    BY <2>3, <2>4, <2>5
<1>7. CASE ReadKind(r) \/ Expand(r) \/ Search(r) \/ ReadNode(r) \/ ReadEdge(r) \/ ReadEvidence(r)
  <2>1. q.step \notin {"latest", "build", "done"}
    BY <1>7, Zenon DEF ReadKind, Expand, Search, ReadNode, ReadEdge, ReadEvidence
  <2>2. q.question.op # "status"
    BY <2>1 DEF StatusInv
  <2>3. query'[r].step # "build"
    BY <1>1, <2>1 DEF ReadsOn
  <2> QED
    BY <2>2, <2>3
<1> QED
  BY <1>4, <1>5, <1>6, <1>7 DEF Reading

LEMMA StatusStep == AnswerInv /\ LatestInv /\ StatusInv /\ [Next]_vars => StatusInv'
<1> SUFFICES ASSUME AnswerInv, LatestInv, StatusInv, [Next]_vars PROVE StatusInv'
  OBVIOUS
<1>1. ASSUME UNCHANGED <<query, during>>
      PROVE  StatusInv'
  BY <1>1 DEF StatusInv, Honest
<1>2. ASSUME NEW w \in Writers, Reads(w)
      PROVE  UNCHANGED <<query, during>>
  BY <1>2 DEF Reads, StartBuild, StartClear, ReadContext, Ingest, graphVars
<1>3. ASSUME NEW w \in Writers, Write(w)
      PROVE  StatusInv'
  <2>1. query' = query
    BY <1>3 DEF Write
  <2>2. ASSUME NEW r \in Readers
        PROVE  /\ query[r].step \in {"idle", "done"} => during'[r] = during[r]
               /\ during'[r] = during[r] \/ during'[r] = during[r] \cup {disk'}
    BY <1>3 DEF Write
  <2>3. ASSUME NEW r \in Readers
        PROVE  IsFiniteSet(during'[r])
    <3>1. IsFiniteSet(during[r] \cup {disk'})
      BY FS_AddElement DEF StatusInv
    <3> QED
      BY <2>2, <3>1 DEF StatusInv
  <2>4. \A r \in Readers : query[r].step = "done" => (Honest(r) <=> Honest(r)')
    BY <2>1, <2>2 DEF Honest
  <2> QED
    BY <2>1, <2>2, <2>3, <2>4 DEF StatusInv
<1>4. ASSUME NEW r \in Readers, NEW question \in Questions, Ask(r, question)
      PROVE  StatusInv'
  <2>1. /\ \A x \in Readers \ {r} : query'[x] = query[x] /\ during'[x] = during[x]
        /\ during'[r] = {disk}
    BY <1>4 DEF Ask, AnswerInv
  <2>2. /\ query'[r].question = question /\ query'[r].step \notin {"build", "done"}
        /\ question.op = "status" => query'[r].step = "latest" /\ query'[r].build = None
    BY <1>4 DEF Ask, AnswerInv, NoQuery
  <2>3. IsFiniteSet({disk})
    BY FS_Singleton
  <2>4. \A x \in Readers \ {r} : Honest(x) => Honest(x)'
    BY <2>1 DEF Honest
  <2> QED
    BY <2>1, <2>2, <2>3, <2>4 DEF StatusInv
<1>5. CASE Edit \/ Tick \/ UNCHANGED vars
  BY <1>1, <1>5 DEF Edit, Tick, vars, storeVars, graphVars
<1> QED
  BY <1>1, <1>2, <1>3, <1>4, <1>5, StatusRead DEF Next, Reads

\* The two statements of a status (getLatestBuild) name a build that was there while it was asked
\* for; that there is none is said only if there was none, or the tables changed in between.
THEOREM StatusAlwaysHonest == AloneSpec => []StatusIsHonest
<1>1. Init => LatestInv /\ AnswerInv /\ StatusInv
  <2> SUFFICES ASSUME Init PROVE LatestInv /\ AnswerInv /\ StatusInv
    OBVIOUS
  <2>1. LatestInv
    BY DEF Init, StoreInit, LatestInv, Empty, Tables, Inserting
  <2>2. AnswerInv
    BY QueryFields DEF Init, AnswerInv, Asking, NoQuery
  <2>3. StatusInv
    BY FS_EmptySet DEF Init, StatusInv, NoQuery
  <2> QED
    BY <2>1, <2>2, <2>3
<1>2. StatusInv => StatusIsHonest
  BY DEF StatusInv, Honest, StatusIsHonest
<1>3. [Next /\ ClearsAlone']_vars => [Next]_vars
  OBVIOUS
<1> QED
  BY <1>1, <1>2, <1>3, IInvHolds, AnswerStep, LatestStep, StatusStep, PTL DEF AloneSpec


-----------------------------------------------------------------------------
(* Induction over a set of numbers, and the operators that recur on one *)

LEMMA SetInduction ==
    ASSUME NEW S, 0 \in S, \A n \in Nat : n \in S => n + 1 \in S
    PROVE  \A n \in Nat : n \in S
<1> DEFINE T == {n \in Nat : n \notin S}
<1> SUFFICES ASSUME T # {} PROVE FALSE
  OBVIOUS
<1>1. PICK m \in T : \A n \in T : ~ (<<n, m>> \in OpToRel(<, Nat))
  <2>1. T \subseteq Nat
    OBVIOUS
  <2> HIDE DEF T
  <2> QED
    BY <2>1, WFMin, NatLessThanWellFounded
<1>2. \A n \in T : ~(n < m)
  BY <1>1 DEF OpToRel
<1>3. m # 0 /\ m - 1 \in Nat /\ m - 1 \notin T
  BY <1>2
<1> QED
  BY <1>3

Step(edges, ids) == ids \cup UNION {Ends(e) : e \in Touching(edges, ids)}

\* The rounds of Within, up to the nth.
IsReach(f, edges, starts, n) ==
    f = [k \in 0 .. n |-> IF k = 0 THEN starts ELSE Step(edges, f[k - 1])]

LEMMA ReachExists == ASSUME NEW edges, NEW starts PROVE \A n \in Nat : \E f : IsReach(f, edges, starts, n)
<1> DEFINE S == {n \in Nat : \E f : IsReach(f, edges, starts, n)}
<1>1. 0 \in S
  <2>1. IsReach([k \in 0 .. 0 |-> starts], edges, starts, 0)
    BY DEF IsReach
  <2> QED
    BY <2>1
<1>2. ASSUME NEW n \in Nat, n \in S
      PROVE  n + 1 \in S
  <2>1. PICK f : IsReach(f, edges, starts, n)
    BY <1>2
  <2> DEFINE g == [k \in 0 .. n + 1 |-> IF k = n + 1 THEN Step(edges, f[n]) ELSE f[k]]
  <2>2. ASSUME NEW k \in 0 .. n + 1
        PROVE  g[k] = IF k = 0 THEN starts ELSE Step(edges, g[k - 1])
    BY <2>1 DEF IsReach
  <2>3. g = [k \in 0 .. n + 1 |-> g[k]]
    OBVIOUS
  <2> HIDE DEF g
  <2>4. IsReach(g, edges, starts, n + 1)
    BY <2>2, <2>3 DEF IsReach
  <2> QED
    BY <2>4
<1> HIDE DEF S
<1>3. \A n \in Nat : n \in S
  BY <1>1, <1>2, SetInduction
<1> QED
  BY <1>3 DEF S

LEMMA ReachUnique ==
    ASSUME NEW edges, NEW starts, NEW f, NEW m \in Nat, IsReach(f, edges, starts, m),
           NEW g, NEW n \in Nat, IsReach(g, edges, starts, n)
    PROVE  \A k \in Nat : k <= m /\ k <= n => f[k] = g[k]
<1> DEFINE S == {k \in Nat : k <= m /\ k <= n => f[k] = g[k]}
<1>1. 0 \in S
  BY DEF IsReach
<1>2. ASSUME NEW k \in Nat, k \in S
      PROVE  k + 1 \in S
  <2> SUFFICES ASSUME k + 1 <= m, k + 1 <= n PROVE f[k + 1] = g[k + 1]
    OBVIOUS
  <2>1. f[k] = g[k]
    BY <1>2
  <2>2. f[k + 1] = Step(edges, f[k]) /\ g[k + 1] = Step(edges, g[k])
    BY DEF IsReach
  <2> QED
    BY <2>1, <2>2
<1> HIDE DEF S
<1>3. \A n_1 \in Nat : n_1 \in S
  BY <1>1, <1>2, SetInduction
<1> QED
  BY <1>3 DEF S

LEMMA WithinIsReach ==
    ASSUME NEW edges, NEW starts, NEW n \in Nat
    PROVE  \E f : IsReach(f, edges, starts, n) /\ Within(edges, starts, n) = f[n]
<1> DEFINE f == CHOOSE g : g = [k \in 0 .. n |-> IF k = 0 THEN starts ELSE g[k - 1] \cup UNION {Ends(e) : e \in Touching(edges, g[k - 1])}]
<1>1. \E g : g = [k \in 0 .. n |-> IF k = 0 THEN starts ELSE g[k - 1] \cup UNION {Ends(e) : e \in Touching(edges, g[k - 1])}]
  <2>1. PICK g : IsReach(g, edges, starts, n)
    BY ReachExists
  <2>2. g = [k \in 0 .. n |-> IF k = 0 THEN starts ELSE g[k - 1] \cup UNION {Ends(e) : e \in Touching(edges, g[k - 1])}]
    BY <2>1, Zenon DEF IsReach, Step
  <2> QED
    BY <2>2
<1>2. IsReach(f, edges, starts, n)
  BY <1>1 DEF IsReach, Step
<1>3. Within(edges, starts, n) = f[n]
  BY DEF Within
<1> QED
  BY <1>2, <1>3

\* The reference: nothing beyond the starts in no round, and one edge more in each.
LEMMA WithinNext ==
    ASSUME NEW edges, NEW starts
    PROVE  /\ Within(edges, starts, 0) = starts
           /\ \A n \in Nat : Within(edges, starts, n + 1) = Step(edges, Within(edges, starts, n))
<1>1. Within(edges, starts, 0) = starts
  BY WithinIsReach DEF IsReach
<1>2. ASSUME NEW n \in Nat
      PROVE  Within(edges, starts, n + 1) = Step(edges, Within(edges, starts, n))
  <2>1. PICK f : IsReach(f, edges, starts, n) /\ Within(edges, starts, n) = f[n]
    BY WithinIsReach
  <2>2. PICK g : IsReach(g, edges, starts, n + 1) /\ Within(edges, starts, n + 1) = g[n + 1]
    BY WithinIsReach
  <2>3. f[n] = g[n]
    BY <2>1, <2>2, ReachUnique
  <2>4. g[n + 1] = Step(edges, g[n])
    BY <2>2 DEF IsReach
  <2> QED
    BY <2>1, <2>2, <2>3, <2>4
<1> QED
  BY <1>1, <1>2

Rest(S) == S \ {CHOOSE x \in S : TRUE}

\* The members of Listed, taken away one after the other.
IsLeft(f, S) ==
    f = [k \in 0 .. Cardinality(S) |-> IF k = 0 THEN S ELSE Rest(f[k - 1])]

LEMMA LeftExists == ASSUME NEW S, IsFiniteSet(S) PROVE \E f : IsLeft(f, S)
<1> DEFINE Is(f, n) == f = [k \in 0 .. n |-> IF k = 0 THEN S ELSE Rest(f[k - 1])]
           T == {n \in Nat : \E f : Is(f, n)}
<1>1. 0 \in T
  <2>1. Is([k \in 0 .. 0 |-> S], 0)
    OBVIOUS
  <2> QED
    BY <2>1
<1>2. ASSUME NEW n \in Nat, n \in T
      PROVE  n + 1 \in T
  <2>1. PICK f : Is(f, n)
    BY <1>2
  <2> DEFINE g == [k \in 0 .. n + 1 |-> IF k = n + 1 THEN Rest(f[n]) ELSE f[k]]
  <2>2. ASSUME NEW k \in 0 .. n + 1
        PROVE  g[k] = IF k = 0 THEN S ELSE Rest(g[k - 1])
    BY <2>1
  <2>3. g = [k \in 0 .. n + 1 |-> g[k]]
    OBVIOUS
  <2> HIDE DEF g
  <2>4. Is(g, n + 1)
    BY <2>2, <2>3
  <2> QED
    BY <2>4
<1> HIDE DEF T
<1>3. \A n \in Nat : n \in T
  BY <1>1, <1>2, SetInduction
<1>4. Cardinality(S) \in T
  BY <1>3, FS_CardinalityType
<1> QED
  BY <1>4 DEF T, IsLeft

LEMMA ListedHasAll ==
    ASSUME NEW S, IsFiniteSet(S)
    PROVE  /\ Listed(S) \in [1 .. Cardinality(S) -> S] /\ Cardinality(S) \in Nat
           /\ \A x \in S : \E i \in 1 .. Cardinality(S) : Listed(S)[i] = x
<1> DEFINE n == Cardinality(S)
           f == CHOOSE g : g = [k \in 0 .. n |-> IF k = 0 THEN S ELSE Rest(g[k - 1])]
<1>1. n \in Nat
  BY FS_CardinalityType
<1>2. IsLeft(f, S)
  <2>1. \E g : g = [k \in 0 .. n |-> IF k = 0 THEN S ELSE Rest(g[k - 1])]
    BY LeftExists DEF IsLeft
  <2> QED
    BY <2>1 DEF IsLeft
<1>3. Listed(S) = [i \in 1 .. n |-> CHOOSE x \in f[i - 1] : TRUE]
  BY DEF Listed, Rest
<1> HIDE DEF f, n
<1> DEFINE T == {k \in Nat : k <= n => /\ f[k] \subseteq S /\ IsFiniteSet(f[k]) /\ Cardinality(f[k]) = n - k
                                       /\ \A x \in S \ f[k] : \E i \in 1 .. k : Listed(S)[i] = x}
<1>4. 0 \in T
  BY <1>1, <1>2 DEF IsLeft, n
<1>5. ASSUME NEW k \in Nat, k \in T
      PROVE  k + 1 \in T
  <2> SUFFICES ASSUME k + 1 <= n
               PROVE  /\ f[k + 1] \subseteq S /\ IsFiniteSet(f[k + 1]) /\ Cardinality(f[k + 1]) = n - (k + 1)
                      /\ \A x \in S \ f[k + 1] : \E i \in 1 .. k + 1 : Listed(S)[i] = x
    OBVIOUS
  <2> DEFINE x == CHOOSE y \in f[k] : TRUE
  <2>1. /\ f[k] \subseteq S /\ IsFiniteSet(f[k]) /\ Cardinality(f[k]) = n - k
        /\ \A y \in S \ f[k] : \E i \in 1 .. k : Listed(S)[i] = y
    BY <1>1, <1>5
  <2>2. f[k + 1] = f[k] \ {x}
    <3>1. f[k + 1] = Rest(f[k])
      BY <1>1, <1>2 DEF IsLeft, n
    <3> QED
      BY <3>1 DEF Rest
  <2>3. Listed(S)[k + 1] = x
    BY <1>1, <1>3
  <2>4. x \in f[k]
    <3>1. f[k] # {}
      BY <1>1, <2>1, FS_EmptySet
    <3> QED
      BY <3>1
  <2> HIDE DEF x
  <2>5. IsFiniteSet(f[k + 1]) /\ Cardinality(f[k + 1]) = n - k - 1
    <3>1. IsFiniteSet(f[k] \ {x}) /\ Cardinality(f[k] \ {x}) = Cardinality(f[k]) - 1
      BY <2>1, <2>4, FS_RemoveElement, Zenon
    <3>2. Cardinality(f[k]) = n - k
      BY <2>1
    <3> QED
      BY <1>1, <2>2, <3>1, <3>2
  <2>6. ASSUME NEW y \in S \ f[k + 1]
        PROVE  \E i \in 1 .. k + 1 : Listed(S)[i] = y
    BY <2>1, <2>2, <2>3
  <2> QED
    BY <1>1, <2>1, <2>2, <2>5, <2>6
<1> HIDE DEF T
<1>6. \A k \in Nat : k \in T
  BY <1>4, <1>5, SetInduction
<1>7. ASSUME NEW i \in 1 .. n
      PROVE  Listed(S)[i] \in S
  <2>1. i - 1 \in Nat /\ i - 1 <= n /\ i - 1 \in T
    BY <1>1, <1>6
  <2>2. f[i - 1] \subseteq S /\ IsFiniteSet(f[i - 1]) /\ Cardinality(f[i - 1]) = n - (i - 1)
    BY <2>1 DEF T
  <2>3. f[i - 1] # {}
    BY <1>1, <2>2, FS_EmptySet
  <2> QED
    BY <1>3, <2>2, <2>3
<1>8. f[n] = {}
  <2>1. IsFiniteSet(f[n]) /\ Cardinality(f[n]) = 0
    BY <1>1, <1>6 DEF T
  <2> QED
    BY <2>1, FS_EmptySet
<1>9. \A x \in S : \E i \in 1 .. n : Listed(S)[i] = x
  BY <1>1, <1>6, <1>8 DEF T
<1> QED
  BY <1>1, <1>3, <1>7, <1>9 DEF n

-----------------------------------------------------------------------------
(* Walks *)

Reach(E, s, k) == Within(E, {s}, k)
Neighbours(E, n) == {Other(e, n) : e \in Touching(E, {n})}

LEMMA StepIs ==
    ASSUME NEW E, NEW X
    PROVE  \A x : x \in Step(E, X) <=> x \in X \/ \E n \in X : x \in Neighbours(E, n)
<1>1. ASSUME NEW n \in X, NEW x \in Neighbours(E, n)
      PROVE  x \in Step(E, X)
  <2>1. PICK e \in E : Ends(e) \cap {n} # {} /\ x = Other(e, n)
    BY <1>1 DEF Neighbours, Touching
  <2>2. e \in Touching(E, X) /\ x \in Ends(e)
    BY <2>1 DEF Touching, Ends, Other
  <2> QED
    BY <2>2 DEF Step
<1>2. ASSUME NEW x \in Step(E, X), x \notin X
      PROVE  \E n \in X : x \in Neighbours(E, n)
  <2>1. PICK e \in Touching(E, X) : x \in Ends(e)
    BY <1>2 DEF Step
  <2>2. PICK n \in X : n \in Ends(e)
    BY <2>1 DEF Touching
  <2>3. e \in Touching(E, {n}) /\ x = Other(e, n)
    BY <1>2, <2>1, <2>2 DEF Touching, Ends, Other
  <2> QED
    BY <2>3 DEF Neighbours
<1>3. X \subseteq Step(E, X)
  BY DEF Step
<1> QED
  BY <1>1, <1>2, <1>3

LEMMA ReachGrows ==
    ASSUME NEW E, NEW s
    PROVE  /\ Reach(E, s, 0) = {s}
           /\ \A n \in Nat : Reach(E, s, n + 1) = Step(E, Reach(E, s, n))
           /\ \A n \in Nat : s \in Reach(E, s, n)
           /\ \A m \in Nat : \A n \in Nat : m <= n => Reach(E, s, m) \subseteq Reach(E, s, n)
<1>1. Reach(E, s, 0) = {s} /\ \A n \in Nat : Reach(E, s, n + 1) = Step(E, Reach(E, s, n))
  BY WithinNext DEF Reach
<1> HIDE DEF Reach
<1>2. ASSUME NEW m \in Nat
      PROVE  \A n \in Nat : m <= n => Reach(E, s, m) \subseteq Reach(E, s, n)
  <2> DEFINE S == {n \in Nat : m <= n => Reach(E, s, m) \subseteq Reach(E, s, n)}
  <2>1. 0 \in S
    OBVIOUS
  <2>2. ASSUME NEW n \in Nat, n \in S
        PROVE  n + 1 \in S
    <3>1. Reach(E, s, n) \subseteq Reach(E, s, n + 1)
      BY <1>1, StepIs
    <3>2. CASE m = n + 1
      BY <3>2
    <3>3. CASE m # n + 1
      BY <2>2, <3>1, <3>3
    <3> QED
      BY <3>2, <3>3
  <2> HIDE DEF S
  <2>3. \A n \in Nat : n \in S
    BY <2>1, <2>2, SetInduction
  <2> QED
    BY <2>3 DEF S
<1>3. \A n \in Nat : s \in Reach(E, s, n)
  BY <1>1, <1>2
<1> QED
  BY <1>1, <1>2, <1>3

\* From several starts one reaches what one reaches from one of them.
LEMMA WithinAll ==
    ASSUME NEW E, NEW S
    PROVE  \A n \in Nat : \A x : x \in Within(E, S, n) <=> \E s \in S : x \in Reach(E, s, n)
<1> DEFINE T == {n \in Nat : \A x : x \in Within(E, S, n) <=> \E s \in S : x \in Reach(E, s, n)}
<1>1. 0 \in T
  BY WithinNext, ReachGrows
<1>2. ASSUME NEW n \in Nat, n \in T
      PROVE  n + 1 \in T
  <2>1. \A x : x \in Within(E, S, n) <=> \E s \in S : x \in Reach(E, s, n)
    BY <1>2
  <2>2. Within(E, S, n + 1) = Step(E, Within(E, S, n)) /\ \A s : Reach(E, s, n + 1) = Step(E, Reach(E, s, n))
    <3>1. ASSUME NEW s
          PROVE  Reach(E, s, n + 1) = Step(E, Reach(E, s, n))
      BY ReachGrows
    <3> QED
      BY <3>1, WithinNext
  <2>3. ASSUME NEW x
        PROVE  x \in Within(E, S, n + 1) <=> \E s \in S : x \in Reach(E, s, n + 1)
    <3>1. x \in Within(E, S, n + 1) <=> x \in Within(E, S, n) \/ \E m \in Within(E, S, n) : x \in Neighbours(E, m)
      BY <2>2, StepIs
    <3>2. \A s : x \in Reach(E, s, n + 1) <=> x \in Reach(E, s, n) \/ \E m \in Reach(E, s, n) : x \in Neighbours(E, m)
      BY <2>2, StepIs
    <3> QED
      BY <2>1, <3>1, <3>2
  <2> QED
    BY <2>3
<1> HIDE DEF T
<1>3. \A n \in Nat : n \in T
  BY <1>1, <1>2, SetInduction
<1> QED
  BY <1>3 DEF T

\* The ways of a walk: the node and what is on the way to it.
Ids(E, s) == {s} \cup UNION {Ends(e) : e \in E}
WaysIn(E, s) == [id : Ids(E, s), edges : Seq({EdgeId(e) : e \in E}), nodes : Seq(Ids(E, s))]

\* The node n is reached in k rounds and no fewer.
Level(E, s, k, n) == n \in Reach(E, s, k) /\ (k > 0 => n \notin Reach(E, s, k - 1))

\* What `more` has when it lists what is beyond a way: each with one of the edges that lead there.
ListsBeyond(E, s, way, met, more) ==
    /\ more \in Seq(WaysIn(E, s))
    /\ \A i \in 1 .. Len(more) :
           /\ more[i].id \in Neighbours(E, way.id) \ met
           /\ \E e \in Touching(E, {way.id}) :
                  /\ Other(e, way.id) = more[i].id
                  /\ more[i].edges = Append(way.edges, EdgeId(e))
                  /\ more[i].nodes = Append(way.nodes, more[i].id)
    /\ \A n \in Neighbours(E, way.id) \ met : \E i \in 1 .. Len(more) : more[i].id = n

LEMMA BeyondIs ==
    ASSUME NEW E, IsFiniteSet(E), NEW s, NEW way \in WaysIn(E, s), NEW met
    PROVE  ListsBeyond(E, s, way, met, Beyond(way, Touching(E, {way.id}), met))
<1> DEFINE edges == Touching(E, {way.id})
           all == {Other(e, way.id) : e \in edges} \ met
           ids == Listed(all)
           by(id) == CHOOSE e \in edges : Other(e, way.id) = id
           more == Beyond(way, edges, met)
           on(id) == Way(id, Append(way.edges, EdgeId(by(id))), Append(way.nodes, id))
<1>1. all = Neighbours(E, way.id) \ met
  BY DEF Neighbours
<1>2. IsFiniteSet(all)
  <2>1. IsFiniteSet(edges)
    <3>1. edges \in SUBSET E
      BY DEF Touching
    <3> QED
      BY <3>1, FS_Subset
  <2> DEFINE f == [e \in edges |-> Other(e, way.id)]
             found == {Other(e, way.id) : e \in edges}
  <2>2. f \in Surjection(edges, found)
    BY DEF Surjection
  <2> HIDE DEF f, found, edges
  <2>3. IsFiniteSet(found)
    BY <2>1, <2>2, FS_Surjection
  <2> QED
    BY <2>3, FS_Difference DEF found
<1>3. /\ ids \in [1 .. Cardinality(all) -> all] /\ Cardinality(all) \in Nat
      /\ \A x \in all : \E i \in 1 .. Cardinality(all) : ids[i] = x
  BY <1>2, ListedHasAll
<1>4. more = [i \in 1 .. Cardinality(all) |-> on(ids[i])]
  <2>1. DOMAIN ids = 1 .. Cardinality(all)
    BY <1>3
  <2> QED
    BY <2>1 DEF Beyond
<1>5. ASSUME NEW n \in all
      PROVE  /\ by(n) \in edges /\ Other(by(n), way.id) = n
             /\ on(n) \in WaysIn(E, s)
             /\ on(n).id = n /\ on(n).edges = Append(way.edges, EdgeId(by(n))) /\ on(n).nodes = Append(way.nodes, n)
  <2>1. by(n) \in edges /\ Other(by(n), way.id) = n
    <3>1. \E e \in edges : Other(e, way.id) = n
      OBVIOUS
    <3> QED
      BY <3>1
  <2> HIDE DEF by
  <2>2. by(n) \in E /\ n \in Ends(by(n))
    BY <2>1 DEF Touching, Other, Ends
  <2>3. n \in Ids(E, s) /\ EdgeId(by(n)) \in {EdgeId(e) : e \in E}
    BY <2>2 DEF Ids
  <2>4. way.edges \in Seq({EdgeId(e) : e \in E}) /\ way.nodes \in Seq(Ids(E, s))
    BY DEF WaysIn
  <2>5. Append(way.edges, EdgeId(by(n))) \in Seq({EdgeId(e) : e \in E}) /\ Append(way.nodes, n) \in Seq(Ids(E, s))
    BY <2>3, <2>4
  <2> QED
    BY <2>1, <2>3, <2>5 DEF WaysIn, Way
<1> HIDE DEF all, ids, by, more, edges, on
<1>6. \A i \in 1 .. Cardinality(all) : ids[i] \in all /\ more[i] = on(ids[i])
  BY <1>3, <1>4
<1>7. more \in Seq(WaysIn(E, s)) /\ Len(more) = Cardinality(all)
  <2>1. more \in [1 .. Cardinality(all) -> WaysIn(E, s)]
    BY <1>4, <1>5, <1>6
  <2> QED
    BY <1>3, <2>1
<1>8. ASSUME NEW i \in 1 .. Len(more)
      PROVE  /\ more[i].id \in Neighbours(E, way.id) \ met
             /\ \E e \in edges : /\ Other(e, way.id) = more[i].id
                                 /\ more[i].edges = Append(way.edges, EdgeId(e))
                                 /\ more[i].nodes = Append(way.nodes, more[i].id)
  <2> DEFINE n == ids[i]
  <2>1. n \in all /\ more[i] = on(n)
    BY <1>6, <1>7
  <2> HIDE DEF n
  <2>2. /\ by(n) \in edges /\ Other(by(n), way.id) = n /\ more[i].id = n
        /\ more[i].edges = Append(way.edges, EdgeId(by(n))) /\ more[i].nodes = Append(way.nodes, n)
    BY <1>5, <2>1
  <2> QED
    BY <1>1, <2>1, <2>2
<1>9. ASSUME NEW n \in Neighbours(E, way.id) \ met
      PROVE  \E i \in 1 .. Len(more) : more[i].id = n
  <2>1. PICK i \in 1 .. Cardinality(all) : ids[i] = n
    BY <1>1, <1>3
  <2>2. more[i] = on(n) /\ n \in all
    BY <1>1, <1>6, <2>1
  <2>3. more[i].id = n
    BY <1>5, <2>2
  <2> QED
    BY <1>7, <2>3
<1> QED
  BY <1>7, <1>8, <1>9 DEF more, edges, ListsBeyond

\* The nodes that wait in the queue, and those in reach that do not wait any more.
Waiting(queue) == {queue[i].id : i \in 1 .. Len(queue)}
Through(E, s, lim, queue, met) == {n \in met \cap Reach(E, s, lim - 1) : n \notin Waiting(queue)}

\* A walk by rounds: those that wait are of the present round or the next, in this order, and have
\* been met; everything of the present round has been met; and so have the neighbours of every
\* node that does not wait any more.
ByRounds(E, s, lim, queue, met) ==
    /\ queue \in Seq(WaysIn(E, s))
    /\ s \in met /\ met \subseteq Reach(E, s, lim)
    /\ \A i \in 1 .. Len(queue) :
           /\ queue[i].id \in met
           /\ Level(E, s, Len(queue[i].edges), queue[i].id)
           /\ Len(queue[i].edges) < lim
    /\ \A i, j \in 1 .. Len(queue) :
           i <= j => /\ Len(queue[i].edges) <= Len(queue[j].edges)
                     /\ Len(queue[j].edges) <= Len(queue[1].edges) + 1
    /\ queue # <<>> => Reach(E, s, Len(queue[1].edges)) \subseteq met
    /\ \A n \in Through(E, s, lim, queue, met) : Neighbours(E, n) \subseteq met

LEMMA LevelNotBefore ==
    ASSUME NEW E, NEW s, NEW k \in Nat, NEW n, Level(E, s, k + 1, n) PROVE n \notin Reach(E, s, k)
<1>1. k + 1 > 0 /\ k + 1 - 1 = k
  OBVIOUS
<1> QED
  BY <1>1 DEF Level

LEMMA WalkBegins ==
    ASSUME NEW E, NEW s, NEW lim \in Nat \ {0}
    PROVE  ByRounds(E, s, lim, <<WayFrom(s)>>, {s}) /\ Through(E, s, lim, <<WayFrom(s)>>, {s}) = {}
<1> DEFINE way == WayFrom(s)
           queue == <<way>>
<1>1. way.id = s /\ way.edges = <<>> /\ way.nodes = <<s>> /\ way = [id |-> s, edges |-> <<>>, nodes |-> <<s>>]
  BY DEF WayFrom, Way
<1>2. way \in WaysIn(E, s)
  <2>1. s \in Ids(E, s)
    BY DEF Ids
  <2>2. <<>> \in Seq({EdgeId(e) : e \in E}) /\ <<s>> \in Seq(Ids(E, s))
    BY <2>1
  <2> QED
    BY <1>1, <2>1, <2>2 DEF WaysIn
<1> HIDE DEF way
<1>3. queue \in Seq(WaysIn(E, s)) /\ Len(queue) = 1 /\ queue[1] = way
  BY <1>2
<1>4. Len(way.edges) = 0
  BY <1>1
<1> HIDE DEF queue
<1>5. Reach(E, s, 0) = {s} /\ s \in Reach(E, s, lim)
  BY ReachGrows
<1>6. Waiting(queue) = {s}
  BY <1>1, <1>3 DEF Waiting
<1>7. Through(E, s, lim, queue, {s}) = {}
  BY <1>6 DEF Through
<1>8. queue \in Seq(WaysIn(E, s)) /\ s \in {s} /\ {s} \subseteq Reach(E, s, lim)
  BY <1>3, <1>5
<1>9. \A i \in 1 .. Len(queue) : /\ i = 1 /\ queue[i].id = s /\ Len(queue[i].edges) = 0
                                /\ Level(E, s, 0, s)
  BY <1>1, <1>3, <1>4, <1>5 DEF Level
<1>10. Reach(E, s, Len(queue[1].edges)) \subseteq {s}
  BY <1>3, <1>4, <1>5
<1>11. \A i \in 1 .. Len(queue) :
           /\ queue[i].id \in {s}
           /\ Level(E, s, Len(queue[i].edges), queue[i].id)
           /\ Len(queue[i].edges) < lim
  BY <1>9
<1>12. \A i \in 1 .. Len(queue) : \A j \in 1 .. Len(queue) :
           i <= j => /\ Len(queue[i].edges) <= Len(queue[j].edges)
                     /\ Len(queue[j].edges) <= Len(queue[1].edges) + 1
  BY <1>9
<1>13. ByRounds(E, s, lim, queue, {s})
  <2> HIDE DEF queue
  <2> QED
    BY <1>7, <1>8, <1>10, <1>11, <1>12 DEF ByRounds
<1> QED
  BY <1>7, <1>13 DEF queue, way

LEMMA WalkGoesOn ==
    ASSUME NEW E, IsFiniteSet(E), NEW s, NEW lim \in Nat \ {0}, NEW queue, NEW met,
           ByRounds(E, s, lim, queue, met), queue # <<>>
    PROVE  LET way == Head(queue)
               edges == Touching(E, {way.id})
               on == Tail(queue) \o (IF Len(way.edges) + 1 < lim THEN Beyond(way, edges, met) ELSE <<>>)
               more == met \cup {Other(e, way.id) : e \in edges}
           IN  /\ ByRounds(E, s, lim, on, more)
               /\ Through(E, s, lim, on, more) \subseteq Through(E, s, lim, queue, met) \cup {way.id}
               /\ way.id \in Reach(E, s, lim - 1)
<1> DEFINE way == Head(queue)
           depth == Len(way.edges)
           edges == Touching(E, {way.id})
           beyond == IF depth + 1 < lim THEN Beyond(way, edges, met) ELSE <<>>
           on == Tail(queue) \o beyond
           more == met \cup {Other(e, way.id) : e \in edges}
           last == Len(queue) - 1
<1>1. /\ queue \in Seq(WaysIn(E, s)) /\ way \in WaysIn(E, s) /\ way = queue[1] /\ last \in Nat
      /\ Tail(queue) \in Seq(WaysIn(E, s)) /\ Len(Tail(queue)) = last
      /\ \A i \in 1 .. last : Tail(queue)[i] = queue[i + 1]
  <2>1. queue \in Seq(WaysIn(E, s))
    BY DEF ByRounds
  <2>2. Len(queue) \in Nat \ {0}
    BY <2>1, EmptySeq
  <2> QED
    BY <2>1, <2>2, HeadTailProperties
<1>2. \A i \in 1 .. Len(queue) : queue[i].id \in met /\ Level(E, s, Len(queue[i].edges), queue[i].id)
                                 /\ Len(queue[i].edges) < lim /\ Len(queue[i].edges) \in Nat
  <2>1. \A i \in 1 .. Len(queue) : queue[i] \in WaysIn(E, s)
    BY <1>1, ElementOfSeq
  <2>2. \A i \in 1 .. Len(queue) : Len(queue[i].edges) \in Nat
    BY <2>1 DEF WaysIn
  <2> QED
    BY <2>2 DEF ByRounds
<1>3. /\ depth \in Nat /\ depth < lim /\ way.id \in met /\ Level(E, s, depth, way.id)
      /\ Reach(E, s, depth) \subseteq met
  BY <1>1, <1>2 DEF ByRounds
<1>4. \A i \in 1 .. Len(queue) : depth <= Len(queue[i].edges) /\ Len(queue[i].edges) <= depth + 1
  BY <1>1 DEF ByRounds
<1>5. /\ beyond \in Seq(WaysIn(E, s)) /\ Len(beyond) \in Nat
      /\ \A i \in 1 .. Len(beyond) : /\ depth + 1 < lim /\ beyond[i].id \in Neighbours(E, way.id) \ met
                                     /\ Len(beyond[i].edges) = depth + 1
      /\ depth + 1 < lim => \A n \in Neighbours(E, way.id) \ met : \E i \in 1 .. Len(beyond) : beyond[i].id = n
  <2>1. CASE depth + 1 < lim
    <3>1. beyond = Beyond(way, edges, met)
      BY <2>1
    <3> HIDE DEF beyond, way
    <3>2. way \in WaysIn(E, s) /\ IsFiniteSet(E)
      BY <1>1
    <3>6. /\ beyond \in Seq(WaysIn(E, s))
          /\ \A i \in 1 .. Len(beyond) :
                /\ beyond[i].id \in Neighbours(E, way.id) \ met
                /\ \E e \in edges : beyond[i].edges = Append(way.edges, EdgeId(e))
          /\ \A n \in Neighbours(E, way.id) \ met : \E i \in 1 .. Len(beyond) : beyond[i].id = n
      <4>1. ListsBeyond(E, s, way, met, Beyond(way, Touching(E, {way.id}), met))
        BY <3>2, BeyondIs
      <4>2. ListsBeyond(E, s, way, met, beyond)
        BY <3>1, <4>1
      <4> QED
        BY <4>2 DEF ListsBeyond
    <3>3. way.edges \in Seq({EdgeId(e) : e \in E})
      BY <1>1 DEF WaysIn
    <3>4. \A i \in 1 .. Len(beyond) : Len(beyond[i].edges) = depth + 1
      <4> SUFFICES ASSUME NEW i \in 1 .. Len(beyond) PROVE Len(beyond[i].edges) = depth + 1
        OBVIOUS
      <4>1. PICK e \in edges : beyond[i].edges = Append(way.edges, EdgeId(e))
        BY <3>6
      <4>2. EdgeId(e) \in {EdgeId(f) : f \in E}
        BY DEF Touching
      <4> QED
        BY <3>3, <4>1, <4>2
    <3>5. Len(beyond) \in Nat
      BY <3>6, LenProperties
    <3> QED
      BY <2>1, <3>4, <3>5, <3>6
  <2>2. CASE ~(depth + 1 < lim)
    <3>1. beyond = <<>>
      BY <2>2
    <3> QED
      BY <2>2, <3>1, EmptySeq
  <2> QED
    BY <2>1, <2>2
<1> HIDE DEF way, depth, edges, beyond
<1>6. /\ on \in Seq(WaysIn(E, s)) /\ Len(on) = last + Len(beyond)
      /\ \A j \in 1 .. Len(on) : on[j] = IF j <= last THEN queue[j + 1] ELSE beyond[j - last]
  <2>1. /\ on \in Seq(WaysIn(E, s)) /\ Len(on) = last + Len(beyond)
        /\ \A j \in 1 .. last + Len(beyond) : on[j] = IF j <= last THEN Tail(queue)[j] ELSE beyond[j - last]
    BY <1>1, <1>5, ConcatProperties
  <2> QED
    BY <1>1, <1>5, <2>1
<1> HIDE DEF on
<1>7. more = met \cup Neighbours(E, way.id)
  BY DEF Neighbours, edges
<1> HIDE DEF more
<1>8. ASSUME NEW j \in 1 .. Len(on)
      PROVE  /\ j <= last => on[j] = queue[j + 1] /\ j + 1 \in 1 .. Len(queue)
             /\ j > last => /\ depth + 1 < lim /\ on[j].id \in Neighbours(E, way.id) \ met
                            /\ Len(on[j].edges) = depth + 1
  <2>1. CASE j <= last
    BY <1>1, <1>6, <2>1
  <2>2. CASE j > last
    <3>1. j - last \in 1 .. Len(beyond) /\ on[j] = beyond[j - last]
      BY <1>1, <1>5, <1>6, <2>2
    <3> QED
      BY <1>1, <1>5, <2>2, <3>1
  <2> QED
    BY <1>1, <1>5, <1>6, <2>1, <2>2
<1>9. /\ \A n \in Nat : Reach(E, s, n + 1) = Step(E, Reach(E, s, n))
      /\ \A m \in Nat : \A n \in Nat : m <= n => Reach(E, s, m) \subseteq Reach(E, s, n)
  BY ReachGrows
<1>10. Neighbours(E, way.id) \subseteq Reach(E, s, depth + 1)
  <2>1. way.id \in Reach(E, s, depth)
    BY <1>3 DEF Level
  <2>2. Reach(E, s, depth + 1) = Step(E, Reach(E, s, depth))
    BY <1>3, <1>9
  <2>3. \A x : x \in Step(E, Reach(E, s, depth)) <=>
               x \in Reach(E, s, depth) \/ \E n \in Reach(E, s, depth) : x \in Neighbours(E, n)
    BY StepIs
  <2> QED
    BY <2>1, <2>2, <2>3
<1>11. way.id \in Reach(E, s, lim - 1) /\ more \subseteq Reach(E, s, lim)
  <2>1. way.id \in Reach(E, s, depth)
    BY <1>3 DEF Level
  <2>2. met \subseteq Reach(E, s, lim)
    BY DEF ByRounds
  <2>3. /\ depth \in Nat /\ lim \in Nat /\ lim - 1 \in Nat /\ depth + 1 \in Nat
        /\ depth <= lim - 1 /\ depth + 1 <= lim
    BY <1>3
  <2>4. Reach(E, s, depth) \subseteq Reach(E, s, lim - 1) /\ Reach(E, s, depth + 1) \subseteq Reach(E, s, lim)
    BY <1>9, <2>3
  <2> QED
    BY <1>7, <1>10, <2>1, <2>2, <2>4
<1>12. ASSUME NEW j \in 1 .. Len(on)
       PROVE  /\ on[j].id \in more /\ Level(E, s, Len(on[j].edges), on[j].id) /\ Len(on[j].edges) < lim
              /\ Len(on[j].edges) \in Nat /\ depth <= Len(on[j].edges) /\ Len(on[j].edges) <= depth + 1
  <2>1. CASE j <= last
    BY <1>2, <1>4, <1>7, <1>8, <2>1
  <2>2. CASE j > last
    <3>1. on[j].id \in Neighbours(E, way.id) \ met /\ Len(on[j].edges) = depth + 1 /\ depth + 1 < lim
      BY <1>8, <2>2
    <3>2. Level(E, s, depth + 1, on[j].id)
      BY <1>3, <1>10, <3>1 DEF Level
    <3> QED
      BY <1>3, <1>7, <3>1, <3>2
  <2> QED
    BY <1>1, <2>1, <2>2, <1>6
<1>13. ASSUME NEW i \in 1 .. Len(on), NEW j \in 1 .. Len(on), i <= j
       PROVE  Len(on[i].edges) <= Len(on[j].edges)
  <2>1. CASE j <= last
    <3>1. on[i] = queue[i + 1] /\ on[j] = queue[j + 1] /\ i + 1 \in 1 .. Len(queue) /\ j + 1 \in 1 .. Len(queue)
      BY <1>1, <1>8, <1>13, <2>1
    <3> QED
      BY <1>13, <3>1 DEF ByRounds
  <2>2. CASE j > last
    BY <1>8, <1>12, <2>2
  <2> QED
    BY <1>1, <1>6, <2>1, <2>2
<1>14. Through(E, s, lim, on, more) \subseteq Through(E, s, lim, queue, met) \cup {way.id}
  <2> SUFFICES ASSUME NEW n \in Through(E, s, lim, on, more), n # way.id
               PROVE  n \in met /\ n \notin Waiting(queue)
    BY DEF Through
  <2>1. n \in more /\ n \in Reach(E, s, lim - 1) /\ \A j \in 1 .. Len(on) : on[j].id # n
    BY DEF Through, Waiting
  <2>2. n \in met
    <3> SUFFICES ASSUME n \notin met PROVE FALSE
      OBVIOUS
    <3>1. n \in Neighbours(E, way.id) \ met
      BY <1>7, <2>1
    <3>2. CASE depth + 1 < lim
      <4>1. PICK i \in 1 .. Len(beyond) : beyond[i].id = n
        BY <1>5, <3>1, <3>2
      <4>2. last + i \in 1 .. Len(on) /\ on[last + i] = beyond[i]
        <5>1. Len(beyond) \in Nat /\ last \in Nat /\ Len(on) = last + Len(beyond) /\ i \in Nat /\ i >= 1
          BY <1>1, <1>5, <1>6
        <5>2. last + i \in 1 .. Len(on) /\ ~(last + i <= last) /\ last + i - last = i
          BY <5>1
        <5> HIDE DEF on, beyond, last
        <5> QED
          BY <1>6, <5>1, <5>2, SMTT(40)
      <4> QED
        BY <2>1, <4>1, <4>2
    <3>3. CASE ~(depth + 1 < lim)
      <4>1. depth = lim - 1
        BY <1>3, <3>3
      <4> QED
        BY <1>3, <2>1, <3>1, <4>1
    <3> QED
      BY <3>2, <3>3
  <2>3. ASSUME NEW i \in 1 .. Len(queue), queue[i].id = n
        PROVE  FALSE
    <3>1. i # 1
      BY <1>1, <2>3
    <3>2. i - 1 \in 1 .. last /\ i - 1 \in 1 .. Len(on)
      BY <1>1, <1>5, <1>6, <3>1
    <3>3. on[i - 1] = queue[i]
      BY <1>8, <3>2
    <3> QED
      BY <2>1, <2>3, <3>2, <3>3
  <2> QED
    BY <2>2, <2>3 DEF Waiting
<1>15. \A n \in Through(E, s, lim, on, more) : Neighbours(E, n) \subseteq more
  BY <1>7, <1>14 DEF ByRounds
<1>16. ASSUME on # <<>>
       PROVE  /\ 1 \in 1 .. Len(on)
              /\ Reach(E, s, Len(on[1].edges)) \subseteq more
  <2>1. 1 \in 1 .. Len(on)
    <3>1. Len(on) \in Nat /\ Len(on) # 0
      BY <1>6, <1>16, EmptySeq, LenProperties
    <3> QED
      BY <3>1
  <2>2. ASSUME Len(on[1].edges) = depth
        PROVE  Reach(E, s, Len(on[1].edges)) \subseteq more
    BY <1>3, <1>7, <2>1, <2>2
  <2>3. ASSUME Len(on[1].edges) = depth + 1
        PROVE  Reach(E, s, Len(on[1].edges)) \subseteq more
    <3> SUFFICES ASSUME NEW n \in Reach(E, s, depth + 1), n \notin met PROVE n \in more
      BY <1>7, <2>3
    <3>1. PICK m \in Reach(E, s, depth) : n \in Neighbours(E, m)
      BY <1>3, <1>9, StepIs
    <3>2. depth + 1 < lim
      BY <1>12, <2>1, <2>3
    <3>3. m \in met /\ m \in Reach(E, s, lim - 1)
      BY <1>3, <1>9, <3>2
    <3>4. m \notin Waiting(on)
      <4> SUFFICES ASSUME NEW j \in 1 .. Len(on), on[j].id = m PROVE FALSE
        BY DEF Waiting
      <4>1. Len(on[j].edges) = depth + 1
        BY <1>12, <1>13, <2>1, <2>3
      <4>2. Level(E, s, depth + 1, on[j].id)
        BY <1>12, <4>1
      <4>3. on[j].id \notin Reach(E, s, depth)
        BY <1>3, <4>2, LevelNotBefore
      <4> QED
        BY <4>3
    <3> QED
      BY <1>7, <1>15, <3>1, <3>3, <3>4 DEF Through
  <2>4. Len(on[1].edges) = depth \/ Len(on[1].edges) = depth + 1
    BY <1>3, <1>12, <2>1
  <2> QED
    BY <2>1, <2>2, <2>3, <2>4
<1>17. \A j \in 1 .. Len(on) : Len(on[j].edges) <= Len(on[1].edges) + 1
  <2> SUFFICES ASSUME NEW j \in 1 .. Len(on) PROVE Len(on[j].edges) <= Len(on[1].edges) + 1
    OBVIOUS
  <2>1. 1 \in 1 .. Len(on)
    BY <1>1, <1>5, <1>6
  <2> QED
    BY <1>3, <1>12, <2>1
<1>18. s \in more
  BY <1>7 DEF ByRounds
<1>19. ByRounds(E, s, lim, on, more)
  BY <1>6, <1>11, <1>12, <1>13, <1>15, <1>16, <1>17, <1>18 DEF ByRounds
<1> QED
  BY <1>11, <1>14, <1>19 DEF on, more, beyond, way, depth, edges

\* When none waits any more, everything in reach has been met.
LEMMA WalkEnds ==
    ASSUME NEW E, NEW s, NEW lim \in Nat \ {0}, NEW met, ByRounds(E, s, lim, <<>>, met)
    PROVE  met = Reach(E, s, lim) /\ Through(E, s, lim, <<>>, met) = Reach(E, s, lim - 1)
<1>1. Waiting(<<>>) = {}
  BY EmptySeq DEF Waiting
<1> DEFINE S == {n \in Nat : n <= lim => Reach(E, s, n) \subseteq met}
<1>2. 0 \in S
  BY ReachGrows DEF ByRounds
<1>3. ASSUME NEW n \in Nat, n \in S
      PROVE  n + 1 \in S
  <2> SUFFICES ASSUME n + 1 <= lim, NEW x \in Reach(E, s, n + 1), x \notin Reach(E, s, n) PROVE x \in met
    BY <1>3
  <2>0. x \in Step(E, Reach(E, s, n))
    BY ReachGrows
  <2>1. PICK m \in Reach(E, s, n) : x \in Neighbours(E, m)
    BY <2>0, StepIs
  <2>2. m \in met
    BY <1>3, <2>1
  <2>3. m \in Reach(E, s, lim - 1)
    <3>1. lim - 1 \in Nat /\ n <= lim - 1
      OBVIOUS
    <3>2. \A k \in Nat : \A l \in Nat : k <= l => Reach(E, s, k) \subseteq Reach(E, s, l)
      BY ReachGrows
    <3> QED
      BY <2>1, <3>1, <3>2
  <2> QED
    BY <1>1, <2>1, <2>2, <2>3 DEF Through, ByRounds
<1> HIDE DEF S
<1>4. \A n \in Nat : n \in S
  BY <1>2, <1>3, SetInduction
<1>5. Reach(E, s, lim) \subseteq met
  BY <1>4 DEF S
<1>6. Reach(E, s, lim - 1) \subseteq Reach(E, s, lim)
  <2>1. lim - 1 \in Nat /\ lim \in Nat /\ lim - 1 <= lim
    OBVIOUS
  <2>2. \A k \in Nat : \A l \in Nat : k <= l => Reach(E, s, k) \subseteq Reach(E, s, l)
    BY ReachGrows
  <2> QED
    BY <2>1, <2>2
<1> QED
  BY <1>1, <1>5, <1>6 DEF ByRounds, Through

\* Lists.

LEMMA ListIs ==
    ASSUME NEW s
    PROVE  /\ IsList(s) <=> \E n \in Nat : DOMAIN s = 1 .. n /\ s = [i \in 1 .. n |-> s[i]]
           /\ IsList(s) => /\ Len(s) \in Nat /\ DOMAIN s = 1 .. Len(s)
<1>1. ASSUME NEW n \in Nat, DOMAIN s = 1 .. n, s = [i \in 1 .. n |-> s[i]]
      PROVE  IsList(s)
  <2>1. s \in [1 .. n -> Range(s)]
    BY <1>1 DEF Range
  <2> QED
    BY <2>1 DEF IsList
<1>2. ASSUME IsList(s)
      PROVE  /\ Len(s) \in Nat /\ DOMAIN s = 1 .. Len(s)
             /\ s = [i \in 1 .. Len(s) |-> s[i]]
  BY <1>2, LenProperties DEF IsList
<1> QED
  BY <1>1, <1>2

LEMMA JoinIs ==
    ASSUME NEW s, NEW t, IsList(s), IsList(t)
    PROVE  IsList(s \o t) /\ Range(s \o t) = Range(s) \cup Range(t)
<1> DEFINE S == Range(s) \cup Range(t)
<1>1. s \in Seq(S) /\ t \in Seq(S)
  <2>1. \A x : IsList(x) => Len(x) \in Nat /\ DOMAIN x = 1 .. Len(x) /\ x = [i \in 1 .. Len(x) |-> x[i]]
    BY ListIs, LenProperties DEF IsList
  <2>2. s \in [1 .. Len(s) -> S] /\ t \in [1 .. Len(t) -> S] /\ Len(s) \in Nat /\ Len(t) \in Nat
    BY <2>1 DEF Range
  <2> QED
    BY <2>2
<1>2. /\ Len(s \o t) = Len(s) + Len(t) /\ s \o t \in Seq(S)
      /\ \A i \in 1 .. Len(s) + Len(t) : (s \o t)[i] = IF i <= Len(s) THEN s[i] ELSE t[i - Len(s)]
  BY <1>1, ConcatProperties
<1>3. Len(s) \in Nat /\ Len(t) \in Nat /\ DOMAIN s = 1 .. Len(s) /\ DOMAIN t = 1 .. Len(t)
      /\ DOMAIN (s \o t) = 1 .. Len(s) + Len(t)
  BY <1>1, <1>2, LenProperties
<1> DEFINE u == s \o t
<1> HIDE DEF S, u
<1>4. \A i \in DOMAIN u : u[i] \in Range(s) \cup Range(t)
  <2> SUFFICES ASSUME NEW i \in DOMAIN u PROVE u[i] \in Range(s) \cup Range(t)
    OBVIOUS
  <2>1. CASE i <= Len(s)
    BY <1>2, <1>3, <2>1 DEF Range, u
  <2>2. CASE ~(i <= Len(s))
    <3>1. i - Len(s) \in DOMAIN t /\ u[i] = t[i - Len(s)]
      BY <1>2, <1>3, <2>2 DEF u
    <3> QED
      BY <3>1 DEF Range
  <2> QED
    BY <2>1, <2>2
<1>5. \A i \in DOMAIN s : i \in DOMAIN u /\ u[i] = s[i]
  BY <1>2, <1>3 DEF u
<1>6. \A i \in DOMAIN t : Len(s) + i \in DOMAIN u /\ u[Len(s) + i] = t[i]
  <2> SUFFICES ASSUME NEW i \in DOMAIN t PROVE Len(s) + i \in DOMAIN u /\ u[Len(s) + i] = t[i]
    OBVIOUS
  <2>1. Len(s) + i \in 1 .. Len(s) + Len(t) /\ ~(Len(s) + i <= Len(s)) /\ Len(s) + i - Len(s) = i
    BY <1>3
  <2> QED
    BY <1>2, <1>3, <2>1 DEF u
<1>7. Range(u) = Range(s) \cup Range(t)
  BY <1>4, <1>5, <1>6 DEF Range
<1>8. IsList(u)
  <2>1. u \in Seq(S)
    BY <1>2 DEF u
  <2>2. Len(u) \in Nat /\ u = [i \in 1 .. Len(u) |-> u[i]] /\ DOMAIN u = 1 .. Len(u)
    BY <2>1, LenProperties
  <2> QED
    BY <2>2, ListIs
<1> QED
  BY <1>7, <1>8 DEF u

LEMMA OneIs ==
    /\ IsList(<<>>) /\ Range(<<>>) = {}
    /\ \A x : IsList(<<x>>) /\ Range(<<x>>) = {x}
    /\ \A x, y : IsList(<<x, y>>) /\ Range(<<x, y>>) = {x, y}
<1>1. IsList(<<>>) /\ Range(<<>>) = {}
  BY DEF IsList, Range
<1>2. ASSUME NEW x
      PROVE  IsList(<<x>>) /\ Range(<<x>>) = {x}
  <2>1. Range(<<x>>) = {x}
    BY DEF Range
  <2> QED
    BY <2>1 DEF IsList
<1>3. ASSUME NEW x, NEW y
      PROVE  IsList(<<x, y>>) /\ Range(<<x, y>>) = {x, y}
  <2>1. Range(<<x, y>>) = {x, y}
    BY DEF Range
  <2> QED
    BY <2>1 DEF IsList
<1> QED
  BY <1>1, <1>2, <1>3

\* FlattenSeq, whose definition recurs on the lists up to the ith.
IsJoined(f, ss, n) == f = [i \in 1 .. n |-> IF i = 1 THEN ss[i] ELSE f[i - 1] \o ss[i]]

LEMMA JoinedExists == ASSUME NEW ss PROVE \A n \in Nat : \E f : IsJoined(f, ss, n)
<1> DEFINE S == {n \in Nat : \E f : IsJoined(f, ss, n)}
<1>1. 0 \in S
  <2>1. IsJoined([i \in 1 .. 0 |-> ss], ss, 0)
    BY DEF IsJoined
  <2> QED
    BY <2>1
<1>2. ASSUME NEW n \in Nat, n \in S
      PROVE  n + 1 \in S
  <2>1. PICK f : IsJoined(f, ss, n)
    BY <1>2
  <2> DEFINE last == IF n = 0 THEN ss[1] ELSE f[n] \o ss[n + 1]
             g == [i \in 1 .. n + 1 |-> IF i = n + 1 THEN last ELSE f[i]]
  <2>2. ASSUME NEW i \in 1 .. n + 1
        PROVE  g[i] = IF i = 1 THEN ss[i] ELSE g[i - 1] \o ss[i]
    <3> HIDE DEF last
    <3>1. CASE i = n + 1
      BY <3>1 DEF last
    <3>2. CASE i # n + 1
      <4>1. i \in 1 .. n /\ g[i] = f[i] /\ (i # 1 => g[i - 1] = f[i - 1])
        BY <3>2
      <4>2. f[i] = IF i = 1 THEN ss[i] ELSE f[i - 1] \o ss[i]
        BY <2>1, <4>1 DEF IsJoined
      <4> QED
        BY <4>1, <4>2
    <3> QED
      BY <3>1, <3>2
  <2>3. g = [i \in 1 .. n + 1 |-> g[i]]
    OBVIOUS
  <2> HIDE DEF g
  <2>4. IsJoined(g, ss, n + 1)
    BY <2>2, <2>3 DEF IsJoined
  <2> QED
    BY <2>4
<1> HIDE DEF S
<1>3. \A n \in Nat : n \in S
  BY <1>1, <1>2, SetInduction
<1> QED
  BY <1>3 DEF S

LEMMA FlattenIs ==
    ASSUME NEW ss, IsList(ss), \A i \in DOMAIN ss : IsList(ss[i])
    PROVE  IsList(FlattenSeq(ss)) /\ Range(FlattenSeq(ss)) = UNION {Range(ss[i]) : i \in DOMAIN ss}
<1> DEFINE n == Len(ss)
           f == CHOOSE g : g = [i \in 1 .. n |-> IF i = 1 THEN ss[i] ELSE g[i - 1] \o ss[i]]
<1>1. n \in Nat /\ DOMAIN ss = 1 .. n
  BY ListIs
<1>2. CASE n = 0
  <2>1. FlattenSeq(ss) = ss /\ Range(ss) = {} /\ DOMAIN ss = {}
    BY <1>1, <1>2 DEF FlattenSeq, Range
  <2> QED
    BY <2>1
<1>3. CASE n # 0
  <2>1. IsJoined(f, ss, n)
    <3>1. \E g : g = [i \in 1 .. n |-> IF i = 1 THEN ss[i] ELSE g[i - 1] \o ss[i]]
      BY <1>1, JoinedExists, Zenon DEF IsJoined
    <3> QED
      BY <3>1, Zenon DEF IsJoined
  <2>2. FlattenSeq(ss) = f[n]
    BY <1>1, <1>3, Zenon DEF FlattenSeq
  <2> HIDE DEF f, n
  <2> DEFINE upTo(k) == UNION {Range(ss[i]) : i \in 1 .. k}
             S == {k \in Nat : k + 1 <= n => IsList(f[k + 1]) /\ Range(f[k + 1]) = upTo(k + 1)}
  <2>3. 0 \in S
    <3>1. f[1] = ss[1] /\ IsList(ss[1])
      BY <1>1, <1>3, <2>1 DEF IsJoined
    <3>2. upTo(1) = Range(ss[1])
      OBVIOUS
    <3> QED
      BY <3>1, <3>2
  <2>4. ASSUME NEW k \in Nat, k \in S
        PROVE  k + 1 \in S
    <3> SUFFICES ASSUME k + 2 <= n PROVE IsList(f[k + 2]) /\ Range(f[k + 2]) = upTo(k + 2)
      OBVIOUS
    <3>1. IsList(f[k + 1]) /\ Range(f[k + 1]) = upTo(k + 1)
      BY <1>1, <2>4
    <3>2. f[k + 2] = f[k + 1] \o ss[k + 2] /\ IsList(ss[k + 2])
      <4>1. k + 2 \in 1 .. n /\ k + 2 # 1 /\ k + 1 = k + 2 - 1
        BY <1>1
      <4>2. ASSUME NEW i \in 1 .. n, i # 1
            PROVE  f[i] = f[i - 1] \o ss[i]
        BY <2>1, <4>2 DEF IsJoined
      <4> DEFINE next == k + 2
                 last == k + 1
      <4>3. next \in 1 .. n /\ next # 1 /\ next - 1 = last
        BY <4>1
      <4> HIDE DEF next, last
      <4>5. f[next] = f[next - 1] \o ss[next]
        BY <4>2, <4>3
      <4>6. f[next] = f[last] \o ss[next]
        BY <4>3, <4>5
      <4>4. IsList(ss[k + 2])
        BY <1>1, <4>1
      <4> QED
        BY <4>4, <4>6 DEF next, last
    <3>3. upTo(k + 2) = upTo(k + 1) \cup Range(ss[k + 2])
      <4>1. 1 .. k + 2 = (1 .. k + 1) \cup {k + 2}
        OBVIOUS
      <4> QED
        BY <4>1
    <3> HIDE DEF upTo
    <3>4. IsList(f[k + 2]) /\ Range(f[k + 2]) = Range(f[k + 1]) \cup Range(ss[k + 2])
      BY <3>1, <3>2, JoinIs
    <3> QED
      BY <3>1, <3>3, <3>4
  <2> HIDE DEF S
  <2>5. \A k \in Nat : k \in S
    BY <2>3, <2>4, SetInduction
  <2>6. n - 1 \in S /\ n - 1 \in Nat /\ n - 1 + 1 = n
    BY <1>1, <1>3, <2>5
  <2>7. IsList(f[n]) /\ Range(f[n]) = upTo(n)
    BY <1>1, <2>6 DEF S
  <2>8. upTo(n) = UNION {Range(ss[i]) : i \in DOMAIN ss}
    BY <1>1
  <2> HIDE DEF upTo
  <2> QED
    BY <2>2, <2>7, <2>8, Zenon
<1> QED
  BY <1>2, <1>3

LEMMA OverIs ==
    ASSUME NEW s, IsList(s), NEW of, \A x \in Range(s) : IsList(of[x])
    PROVE  /\ IsList(Over(s, of))
           /\ \A y : y \in Range(Over(s, of)) <=> \E x \in Range(s) : y \in Range(of[x])
<1> DEFINE ss == [i \in DOMAIN s |-> of[s[i]]]
<1>1. Len(s) \in Nat /\ DOMAIN s = 1 .. Len(s) /\ DOMAIN ss = DOMAIN s
  BY ListIs
<1>2. IsList(ss)
  BY <1>1, ListIs
<1>3. \A i \in DOMAIN ss : IsList(ss[i])
  BY DEF Range
<1>4. \A i \in DOMAIN s : ss[i] = of[s[i]]
  OBVIOUS
<1>5. Over(s, of) = FlattenSeq(ss)
  BY DEF Over
<1> HIDE DEF ss
<1>6. IsList(FlattenSeq(ss)) /\ Range(FlattenSeq(ss)) = UNION {Range(ss[i]) : i \in DOMAIN s}
  BY <1>1, <1>2, <1>3, FlattenIs
<1>7. \A x : x \in Range(s) <=> \E i \in DOMAIN s : x = s[i]
  BY DEF Range
<1>8. \A y : y \in Range(Over(s, of)) <=> \E i \in DOMAIN s : y \in Range(of[s[i]])
  BY <1>4, <1>5, <1>6
<1> QED
  BY <1>5, <1>6, <1>7, <1>8


\* The list of what s has, each of which becomes something else.
LEMMA MapIs ==
    ASSUME NEW s, IsList(s), NEW ss, ss = [i \in DOMAIN s |-> ss[i]]
    PROVE  IsList(ss) /\ \A x : x \in Range(ss) <=> \E i \in DOMAIN s : x = ss[i]
<1>1. Len(s) \in Nat /\ DOMAIN s = 1 .. Len(s) /\ DOMAIN ss = DOMAIN s
  BY ListIs
<1>2. IsList(ss)
  BY <1>1, ListIs
<1> QED
  BY <1>1, <1>2 DEF Range

-----------------------------------------------------------------------------
(* What the lists that the parts are made of have *)

\* A node of a file is named by the path.
NodeFine(n) ==
    /\ DOMAIN n = {"id", "path", "meta", "evidence"}
    /\ n.id[1] = "file" /\ n.path # "" => n.id = <<"file", n.path>>

\* The ends that no part need have a node for.
Elsewhere(c, extractor, id) ==
    \/ extractor = "reference-index" /\ id[1] = "component"
    \/ extractor = "runtime-nodes" /\ id = <<"file", id[2]>> /\ id[2] \notin Paths(c)
    \/ extractor = "route-index" /\ id[1] = "symbol"

\* An edge of one of the extractors X, whose ends are among the ids K of a graph's nodes.
EdgeFine(c, K, X, e) ==
    /\ DOMAIN e = {"source", "target", "kind", "extractor", "evidence"}
    /\ e.extractor \in X
    /\ e.source \in K \/ Elsewhere(c, e.extractor, e.source)
    /\ e.target \in K \/ Elsewhere(c, e.extractor, e.target)

NodesFine(s) == IsList(s) /\ \A n \in Range(s) : NodeFine(n)
EdgesFine(c, K, X, s) == IsList(s) /\ \A e \in Range(s) : EdgeFine(c, K, X, e)

-----------------------------------------------------------------------------
(* A part, and the union of the parts *)

LEMMA LeastOf ==
    ASSUME NEW T, T \subseteq Nat, T # {} PROVE \E m \in T : \A n \in T : m <= n
<1>1. PICK m \in T : \A n \in T : ~ (<<n, m>> \in OpToRel(<, Nat))
  BY WFMin, NatLessThanWellFounded
<1>2. \A n \in T : ~(n < m)
  BY <1>1 DEF OpToRel
<1>3. \A n \in T : m <= n
  BY <1>2
<1> QED
  BY <1>3

\* A part of a graph's nodes K: its edges are of extractors X.
PartFine(c, K, X, p) ==
    /\ IsFiniteSet(p.nodes) /\ IsFiniteSet(p.edges)
    /\ \A n \in p.nodes : NodeFine(n) /\ n.evidence \subseteq p.evidence
    /\ \A e \in p.edges : EdgeFine(c, K, X, e) /\ e.evidence \subseteq p.evidence
    /\ \A e, f \in p.edges : EdgeId(e) = EdgeId(f) => e = f

LEMMA PartHas ==
    ASSUME NEW nodes, NEW edges, IsList(nodes)
    PROVE  \A n \in Range(nodes) : \E m \in Part(nodes, edges).nodes : m.id = n.id
<1> SUFFICES ASSUME NEW n \in Range(nodes) PROVE \E m \in Part(nodes, edges).nodes : m.id = n.id
  OBVIOUS
<1> DEFINE T == {i \in DOMAIN nodes : nodes[i].id = n.id}
<1>1. T \subseteq Nat /\ T # {} /\ DOMAIN nodes = 1 .. Len(nodes) /\ Len(nodes) \in Nat
  BY ListIs DEF Range
<1>2. PICK i \in T : \A j \in T : i <= j
  <2> HIDE DEF T
  <2> QED
    BY <1>1, LeastOf
<1>3. \A k \in 1 .. i - 1 : nodes[k].id # nodes[i].id
  BY <1>1, <1>2
<1> QED
  BY <1>3 DEF Part

LEMMA PartIs ==
    ASSUME NEW c, NEW K, NEW X, NEW nodes, NEW edges, NodesFine(nodes), EdgesFine(c, K, X, edges)
    PROVE  PartFine(c, K, X, Part(nodes, edges))
<1> DEFINE p == Part(nodes, edges)
<1>1. IsList(nodes) /\ IsList(edges)
  BY DEF NodesFine, EdgesFine
<1>2. /\ DOMAIN nodes = 1 .. Len(nodes) /\ Len(nodes) \in Nat
      /\ DOMAIN edges = 1 .. Len(edges) /\ Len(edges) \in Nat
  BY <1>1, ListIs
<1>3. p.nodes \subseteq Range(nodes) /\ p.edges \subseteq Range(edges)
  BY DEF Part, Range
<1>4. IsFiniteSet(p.nodes) /\ IsFiniteSet(p.edges)
  <2>1. \A s : IsList(s) => IsFiniteSet(Range(s))
    <3> SUFFICES ASSUME NEW s, IsList(s) PROVE IsFiniteSet(Range(s))
      OBVIOUS
    <3>1. IsFiniteSet(1 .. Len(s)) /\ DOMAIN s = 1 .. Len(s)
      BY ListIs, FS_Interval
    <3>2. s \in Surjection(1 .. Len(s), Range(s))
      BY <3>1, ListIs DEF Surjection, Range
    <3> QED
      BY <3>1, <3>2, FS_Surjection
  <2> QED
    BY <1>1, <1>3, <2>1, FS_Subset
<1>5. \A n \in p.nodes : NodeFine(n) /\ n.evidence \subseteq p.evidence
  <2> SUFFICES ASSUME NEW n \in p.nodes PROVE NodeFine(n) /\ n.evidence \subseteq p.evidence
    OBVIOUS
  <2>1. n \in Range(nodes)
    BY <1>3
  <2>2. p.evidence = (UNION {r.evidence : r \in Range(nodes)}) \cup UNION {r.evidence : r \in Range(edges)}
    BY DEF Part
  <2> QED
    BY <2>1, <2>2 DEF NodesFine
<1>6. \A e \in p.edges : EdgeFine(c, K, X, e) /\ e.evidence \subseteq p.evidence
  <2> SUFFICES ASSUME NEW e \in p.edges PROVE EdgeFine(c, K, X, e) /\ e.evidence \subseteq p.evidence
    OBVIOUS
  <2>1. e \in Range(edges)
    BY <1>3
  <2>2. p.evidence = (UNION {r.evidence : r \in Range(nodes)}) \cup UNION {r.evidence : r \in Range(edges)}
    BY DEF Part
  <2> QED
    BY <2>1, <2>2 DEF EdgesFine
<1>7. ASSUME NEW e \in p.edges, NEW f \in p.edges, EdgeId(e) = EdgeId(f)
      PROVE  e = f
  <2>1. PICK i \in 1 .. Len(edges) : e = edges[i] /\ \A k \in i + 1 .. Len(edges) : EdgeId(edges[k]) # EdgeId(edges[i])
    BY <1>2 DEF Part
  <2>2. PICK j \in 1 .. Len(edges) : f = edges[j] /\ \A k \in j + 1 .. Len(edges) : EdgeId(edges[k]) # EdgeId(edges[j])
    BY <1>2 DEF Part
  <2>3. ~(i < j) /\ ~(j < i)
    BY <1>2, <1>7, <2>1, <2>2
  <2> QED
    BY <2>1, <2>2, <2>3
<1> QED
  BY <1>4, <1>5, <1>6, <1>7 DEF PartFine

LEMMA MergedIs ==
    ASSUME NEW parts, IsList(parts)
    PROVE  /\ \A n \in MergedNodes(parts) : \E i \in DOMAIN parts : n \in parts[i].nodes
           /\ \A i \in DOMAIN parts : \A n \in parts[i].nodes : \E m \in MergedNodes(parts) : m.id = n.id
<1>1. Len(parts) \in Nat /\ DOMAIN parts = 1 .. Len(parts)
  BY ListIs
<1>2. ASSUME NEW i \in DOMAIN parts, NEW n \in parts[i].nodes
      PROVE  \E m \in MergedNodes(parts) : m.id = n.id
  <2> DEFINE T == {k \in Nat : \E j \in DOMAIN parts : k = Len(parts) - j /\ \E m \in parts[j].nodes : m.id = n.id}
  <2>1. Len(parts) - i \in T
    BY <1>1, <1>2
  <2>2. PICK k \in T : \A l \in T : k <= l
    <3> HIDE DEF T
    <3>1. T \subseteq Nat
      BY DEF T
    <3> QED
      BY <2>1, <3>1, LeastOf
  <2>3. PICK j \in DOMAIN parts : k = Len(parts) - j /\ \E m \in parts[j].nodes : m.id = n.id
    BY <2>2
  <2>4. PICK m \in parts[j].nodes : m.id = n.id
    BY <2>3
  <2>5. ASSUME NEW h \in j + 1 .. Len(parts), NEW o \in parts[h].nodes, o.id = m.id
        PROVE  FALSE
    <3>1. h \in DOMAIN parts /\ Len(parts) - h \in Nat /\ Len(parts) - h < k
      BY <1>1, <2>3, <2>5
    <3>2. Len(parts) - h \in T
      BY <2>4, <2>5, <3>1
    <3> QED
      BY <1>1, <2>2, <2>3, <3>1, <3>2
  <2>6. m \in {x \in parts[j].nodes : \A h \in j + 1 .. Len(parts) : \A o \in parts[h].nodes : o.id # x.id}
    BY <2>4, <2>5
  <2> QED
    BY <2>3, <2>4, <2>6 DEF MergedNodes
<1>3. \A n \in MergedNodes(parts) : \E i \in DOMAIN parts : n \in parts[i].nodes
  BY DEF MergedNodes
<1> QED
  BY <1>2, <1>3

\* A context of lists, as the scan, the contract and the doctor make them.
ContextFine(c) ==
    /\ IsList(c.files) /\ \A f \in Range(c.files) : f.path # "" /\ IsList(f.dirs)
    /\ IsList(c.facts)
    /\ \A f \in Range(c.facts) :
           IsList(f.mentions) /\ IsList(f.jobs) /\ \A j \in Range(f.jobs) : IsList(j.commands)
    /\ \A p \in DOMAIN c.texts :
           LET t == c.texts[p] IN
           IsList(t.exports) /\ IsList(t.imports) /\ IsList(t.calls) /\ IsList(t.accesses) /\ IsList(t.mentions)
    /\ IsList(c.contract.apps) /\ \A a \in Range(c.contract.apps) : IsList(a.commands)
    /\ IsList(c.contract.services) /\ IsList(c.contract.unsafe) /\ IsList(c.contract.setup)
    /\ IsList(c.contract.generated) /\ \A g \in Range(c.contract.generated) : IsList(g.sources)
    /\ IsList(c.contract.checks) /\ \A k \in Range(c.contract.checks) : IsList(k.paths) /\ IsList(k.components)
    /\ ~c.contract.present => c.contract.apps = <<>>
    /\ IsList(c.problems) /\ \A p \in Range(c.problems) : IsList(p.targets)
    /\ IsList(c.candidates)

\* What the parts rely on each other for.
FilesKnown(c, K) == \A p \in Paths(c) : <<"file", p>> \in K
CommandsKnown(c, K) ==
    \A a \in Range(c.contract.apps) :
        /\ a.entrypoint # "" => <<"file", a.entrypoint>> \in K
        /\ \A k \in Range(a.commands) : <<"command", "application", a.id, k>> \in K
AppsKnown(c, K) ==
    \A a \in Range(c.contract.apps) : <<"application", a.id>> \in K /\ <<"component", a.id>> \in K

RoutesKnown(c, K) == \A f \in Range(c.facts) : f.kind = "route" /\ f.path # "" => Route(f) \in K
WorkersKnown(c, K) ==
    \A f \in Range(c.facts) : f.kind = "worker" /\ f.path # "" => <<"worker", f.path>> \in K

LEMMA NodeIs ==
    /\ \A p, e : NodeFine(FileNode(p, e))
    /\ \A e : NodeFine(Repository(e))
    /\ \A id, p, e : id[1] # "file" \/ p = "" => NodeFine(Node(id, p, e))
BY DEF NodeFine, Node, FileNode, Repository

LEMMA NodesOf ==
    /\ NodesFine(<<>>)
    /\ \A x : NodesFine(<<x>>) <=> NodeFine(x)
    /\ \A x, y : NodesFine(<<x, y>>) <=> NodeFine(x) /\ NodeFine(y)
BY OneIs DEF NodesFine

LEMMA NodesJoin == ASSUME NEW s, NEW t, NodesFine(s), NodesFine(t) PROVE NodesFine(s \o t)
BY JoinIs DEF NodesFine

LEMMA NodesOver ==
    ASSUME NEW s, IsList(s), NEW of, \A x \in Range(s) : NodesFine(of[x]) PROVE NodesFine(Over(s, of))
BY OverIs DEF NodesFine

LEMMA NodesMap ==
    ASSUME NEW s, IsList(s), NEW ss, ss = [i \in DOMAIN s |-> ss[i]], \A i \in DOMAIN s : NodeFine(ss[i])
    PROVE  NodesFine(ss)
BY MapIs DEF NodesFine

LEMMA EdgesOf ==
    ASSUME NEW c, NEW K, NEW X
    PROVE  /\ EdgesFine(c, K, X, <<>>)
           /\ \A x : EdgesFine(c, K, X, <<x>>) <=> EdgeFine(c, K, X, x)
           /\ \A x, y : EdgesFine(c, K, X, <<x, y>>) <=> EdgeFine(c, K, X, x) /\ EdgeFine(c, K, X, y)
BY OneIs DEF EdgesFine

LEMMA EdgesJoin ==
    ASSUME NEW c, NEW K, NEW X, NEW s, NEW t, EdgesFine(c, K, X, s), EdgesFine(c, K, X, t)
    PROVE  EdgesFine(c, K, X, s \o t)
BY JoinIs DEF EdgesFine

LEMMA EdgesOver ==
    ASSUME NEW c, NEW K, NEW X, NEW s, IsList(s), NEW of, \A x \in Range(s) : EdgesFine(c, K, X, of[x])
    PROVE  EdgesFine(c, K, X, Over(s, of))
BY OverIs DEF EdgesFine

LEMMA EdgesMap ==
    ASSUME NEW c, NEW K, NEW X, NEW s, IsList(s), NEW ss, ss = [i \in DOMAIN s |-> ss[i]],
           \A i \in DOMAIN s : EdgeFine(c, K, X, ss[i])
    PROVE  EdgesFine(c, K, X, ss)
BY MapIs DEF EdgesFine

LEMMA EdgeIs ==
    ASSUME NEW c, NEW K, NEW X
    PROVE  \A source, kind, target, extractor, evidence :
               /\ extractor \in X
               /\ source \in K \/ Elsewhere(c, extractor, source)
               /\ target \in K \/ Elsewhere(c, extractor, target)
               => EdgeFine(c, K, X, Edge(source, kind, target, extractor, evidence))
BY DEF EdgeFine, Edge

\* The ids of the nodes in a list are among K.
IdsIn(K, s) == \A n \in Range(s) : n.id \in K

LEMMA IdsOf ==
    ASSUME NEW K
    PROVE  /\ \A x : IdsIn(K, <<x>>) <=> x.id \in K
           /\ \A x, y : IdsIn(K, <<x, y>>) <=> x.id \in K /\ y.id \in K
           /\ \A id, p, e : Node(id, p, e).id = id
           /\ \A p, e : FileNode(p, e).id = <<"file", p>>
           /\ \A e : Repository(e).id = <<"repository", ".">>
BY OneIs DEF IdsIn, Node, FileNode, Repository

LEMMA IdsNode == ASSUME NEW K, NEW id, NEW p, NEW e PROVE IdsIn(K, <<Node(id, p, e)>>) <=> id \in K
BY IdsOf

LEMMA IdsFile == ASSUME NEW K, NEW p, NEW e PROVE IdsIn(K, <<FileNode(p, e)>>) <=> <<"file", p>> \in K
<1>1. FileNode(p, e).id = <<"file", p>>
  BY DEF FileNode, Node
<1> HIDE DEF FileNode
<1> QED
  BY <1>1, IdsOf

LEMMA IdsRepository == ASSUME NEW K, NEW e PROVE IdsIn(K, <<Repository(e)>>) <=> <<"repository", ".">> \in K
BY IdsOf

LEMMA IdsJoin ==
    ASSUME NEW K, NEW s, NEW t, IsList(s), IsList(t) PROVE IdsIn(K, s \o t) <=> IdsIn(K, s) /\ IdsIn(K, t)
BY JoinIs DEF IdsIn

LEMMA IdsOver ==
    ASSUME NEW K, NEW s, IsList(s), NEW of, \A x \in Range(s) : IsList(of[x]), IdsIn(K, Over(s, of))
    PROVE  \A x, y : x \in Range(s) /\ y = of[x] => IdsIn(K, y)
BY OverIs DEF IdsIn

LEMMA IdsMap ==
    ASSUME NEW K, NEW s, IsList(s), NEW ss, ss = [i \in DOMAIN s |-> ss[i]]
    PROVE  IdsIn(K, ss) <=> \A i \in DOMAIN s : ss[i].id \in K
BY MapIs DEF IdsIn

LEMMA IdsPart ==
    ASSUME NEW K, NEW nodes, NEW edges, IsList(nodes), \A n \in Part(nodes, edges).nodes : n.id \in K
    PROVE  IdsIn(K, nodes)
BY PartHas DEF IdsIn

LEMMA ThoseIs ==
    ASSUME NEW s, IsList(s), NEW of, \A x \in Range(s) : of[x] = <<x>> \/ of[x] = <<>>
    PROVE  /\ IsList(Over(s, of))
           /\ \A y : y \in Range(Over(s, of)) <=> y \in Range(s) /\ of[y] # <<>>
<1>1. \A x \in Range(s) : IsList(of[x])
  BY OneIs
<1>2. ASSUME NEW x \in Range(s), NEW y
      PROVE  y \in Range(of[x]) <=> y = x /\ of[x] # <<>>
  <2>1. CASE of[x] = <<x>>
    <3>1. <<x>> # <<>>
      OBVIOUS
    <3> QED
      BY <2>1, <3>1, OneIs
  <2>2. CASE of[x] = <<>>
    BY <2>2, OneIs
  <2> QED
    BY <2>1, <2>2
<1>3. IsList(Over(s, of)) /\ \A y : y \in Range(Over(s, of)) <=> \E x \in Range(s) : y \in Range(of[x])
  BY <1>1, OverIs
<1> DEFINE one == Over(s, of)
<1> HIDE DEF one
<1>4. \A y : y \in Range(one) <=> \E x \in Range(s) : y = x /\ of[x] # <<>>
  BY <1>2, <1>3, ZenonT(40) DEF one
<1>5. \A y : y \in Range(one) <=> y \in Range(s) /\ of[y] # <<>>
  BY <1>4
<1> QED
  BY <1>3, <1>5 DEF one

LEMMA OfKindsIs ==
    ASSUME NEW c, IsList(c.facts), NEW kinds
    PROVE  /\ IsList(OfKinds(c, kinds))
           /\ \A f : f \in Range(OfKinds(c, kinds)) <=> f \in Range(c.facts) /\ f.kind \in kinds
<1> DEFINE of == [f \in Range(c.facts) |-> IF f.kind \in kinds THEN <<f>> ELSE <<>>]
<1>1. OfKinds(c, kinds) = Over(c.facts, of)
  BY DEF OfKinds, Those, Each
<1>2. ASSUME NEW f \in Range(c.facts)
      PROVE  (of[f] = <<f>> \/ of[f] = <<>>) /\ (of[f] # <<>> <=> f.kind \in kinds)
  <2>1. of[f] = IF f.kind \in kinds THEN <<f>> ELSE <<>>
    OBVIOUS
  <2>2. <<f>> # <<>>
    OBVIOUS
  <2> HIDE DEF of
  <2> QED
    BY <2>1, <2>2
<1> HIDE DEF of
<1>3. IsList(Over(c.facts, of)) /\ \A f : f \in Range(Over(c.facts, of)) <=> f \in Range(c.facts) /\ of[f] # <<>>
  BY <1>2, ThoseIs
<1> QED
  BY <1>1, <1>2, <1>3

LEMMA OfLanguageIs ==
    ASSUME NEW c, IsList(c.files), NEW lang
    PROVE  /\ IsList(OfLanguage(c, lang))
           /\ \A f : f \in Range(OfLanguage(c, lang)) <=> f \in Range(c.files) /\ f.lang = lang
<1> DEFINE of == [f \in Range(c.files) |-> IF f.lang = lang THEN <<f>> ELSE <<>>]
<1>1. OfLanguage(c, lang) = Over(c.files, of)
  BY DEF OfLanguage, Those, Each
<1>2. ASSUME NEW f \in Range(c.files)
      PROVE  (of[f] = <<f>> \/ of[f] = <<>>) /\ (of[f] # <<>> <=> f.lang = lang)
  <2>1. of[f] = IF f.lang = lang THEN <<f>> ELSE <<>>
    OBVIOUS
  <2>2. <<f>> # <<>>
    OBVIOUS
  <2> HIDE DEF of
  <2> QED
    BY <2>1, <2>2
<1> HIDE DEF of
<1>3. IsList(Over(c.files, of)) /\ \A f : f \in Range(Over(c.files, of)) <=> f \in Range(c.files) /\ of[f] # <<>>
  BY <1>2, ThoseIs
<1> QED
  BY <1>1, <1>2, <1>3

LEMMA ReadableIs ==
    ASSUME NEW c, NEW files, IsList(files)
    PROVE  /\ IsList(Readable(c, files))
           /\ \A f : f \in Range(Readable(c, files)) <=> f \in Range(files) /\ f.path \in DOMAIN c.texts
<1> DEFINE of == [f \in Range(files) |-> IF f.path \in DOMAIN c.texts THEN <<f>> ELSE <<>>]
<1>1. Readable(c, files) = Over(files, of)
  BY DEF Readable, Those, Each
<1>2. ASSUME NEW f \in Range(files)
      PROVE  (of[f] = <<f>> \/ of[f] = <<>>) /\ (of[f] # <<>> <=> f.path \in DOMAIN c.texts)
  <2>1. of[f] = IF f.path \in DOMAIN c.texts THEN <<f>> ELSE <<>>
    OBVIOUS
  <2>2. <<f>> # <<>>
    OBVIOUS
  <2> HIDE DEF of
  <2> QED
    BY <2>1, <2>2
<1> HIDE DEF of
<1>3. IsList(Over(files, of)) /\ \A f : f \in Range(Over(files, of)) <=> f \in Range(files) /\ of[f] # <<>>
  BY <1>2, ThoseIs
<1> QED
  BY <1>1, <1>2, <1>3

LEMMA ContractPartFine ==
    ASSUME NEW c, ContextFine(c), NEW K, \A n \in ContractPart(c).nodes : n.id \in K
    PROVE  /\ PartFine(c, K, {"contract-ingest"}, ContractPart(c))
           /\ c.contract.present => \A a \in Range(c.contract.apps) :
                  /\ a.entrypoint # "" => <<"file", a.entrypoint>> \in K
                  /\ \A k \in Range(a.commands) : <<"command", "application", a.id, k>> \in K
<1> DEFINE e == ContractEvidence("Repository contract")
           X == {"contract-ingest"}
           repository == <<"repository", ".">>
           contains(id) == Edge(repository, "contains", id, "contract-ingest", e)
           application(a) == <<"application", a.id>>
           command(a, k) == <<Node(<<"command", "application", a.id, k>>, "", e)>>
           commands(a) == Each(a.commands, LAMBDA k : command(a, k))
           entry(a) == Given(a.entrypoint, <<FileNode(a.entrypoint, e)>>)
           appNodes(a) == <<Node(application(a), "", e)>>
                          \o entry(a) \o commands(a)
           service(s) == <<Node(<<"service", s>>, "", e)>>
           artifact(g) == <<Node(<<"generated_artifact", g.pattern>>, g.pattern, e)>>
           unsafe(p) == <<FileNode(p, e)>>
           nodes == <<Repository(e)>> \o Each(c.contract.apps, appNodes) \o Each(c.contract.services, service)
                    \o Each(c.contract.generated, artifact) \o Each(c.contract.unsafe, unsafe)
           appEdges(a) == <<contains(application(a))>>
                       \o Given(a.entrypoint, <<Edge(application(a), "owns", <<"file", a.entrypoint>>, "contract-ingest", e)>>)
                       \o Each(commands(a), LAMBDA n : <<contains(n.id)>>)
           serviceEdges(s) == <<contains(<<"service", s>>)>>
           artifactEdges(g) == <<contains(<<"generated_artifact", g.pattern>>)>>
           unsafeEdges(p) == <<Edge(repository, "unsafe_to_edit", <<"file", p>>, "contract-ingest", e)>>
           edges == Each(c.contract.apps, appEdges) \o Each(c.contract.services, serviceEdges)
                    \o Each(c.contract.generated, artifactEdges) \o Each(c.contract.unsafe, unsafeEdges)
<1>1. ContractPart(c) = IF ~c.contract.present THEN Part(<<>>, <<>>) ELSE Part(nodes, edges)
  BY DEF ContractPart, Each, Those
<1>2. CASE ~c.contract.present
  BY <1>1, <1>2, NodesOf, EdgesOf, PartIs
<1> SUFFICES ASSUME c.contract.present PROVE
           /\ PartFine(c, K, X, ContractPart(c))
           /\ \A a \in Range(c.contract.apps) :
                  /\ a.entrypoint # "" => <<"file", a.entrypoint>> \in K
                  /\ \A k \in Range(a.commands) : <<"command", "application", a.id, k>> \in K
  BY <1>2
<1>3. /\ \A a, k : NodesFine(command(a, k)) /\ (IdsIn(K, command(a, k)) => <<"command", "application", a.id, k>> \in K)
      /\ \A a : NodesFine(entry(a)) /\ (IdsIn(K, entry(a)) => (a.entrypoint # "" => <<"file", a.entrypoint>> \in K))
      /\ \A s : NodesFine(service(s)) /\ (IdsIn(K, service(s)) => <<"service", s>> \in K)
      /\ \A g : NodesFine(artifact(g)) /\ (IdsIn(K, artifact(g)) => <<"generated_artifact", g.pattern>> \in K)
      /\ \A p : NodesFine(unsafe(p)) /\ (IdsIn(K, unsafe(p)) => <<"file", p>> \in K)
  BY NodesOf, NodeIs, IdsNode, IdsFile DEF Given
<1> HIDE DEF command, entry, service, artifact, unsafe, e
<1>4. ASSUME NEW a \in Range(c.contract.apps)
      PROVE  /\ NodesFine(commands(a)) /\ NodesFine(appNodes(a))
             /\ IdsIn(K, appNodes(a)) =>
                    /\ application(a) \in K /\ IdsIn(K, commands(a))
                    /\ a.entrypoint # "" => <<"file", a.entrypoint>> \in K
                    /\ \A k \in Range(a.commands) : <<"command", "application", a.id, k>> \in K
  <2>1. IsList(a.commands)
    BY DEF ContextFine
  <2>2. NodesFine(commands(a)) /\ NodesFine(<<Node(application(a), "", e)>>)
    BY <1>3, <2>1, NodesOf, NodeIs, NodesOver DEF Each
  <2>3. NodesFine(appNodes(a))
    BY <1>3, <2>2, NodesJoin DEF Each
  <2>4. IdsIn(K, appNodes(a)) => IdsIn(K, commands(a)) /\ IdsIn(K, entry(a)) /\ application(a) \in K
    BY <1>3, <2>2, IdsJoin, JoinIs, IdsNode DEF Each, NodesFine
  <2>5. IdsIn(K, commands(a)) => \A k \in Range(a.commands) : IdsIn(K, command(a, k))
    <3>1. \A k : IsList(command(a, k))
      BY <1>3 DEF NodesFine
    <3> QED
      BY <2>1, <3>1, IdsOver DEF Each
  <2> QED
    BY <1>3, <2>2, <2>3, <2>4, <2>5
<1> HIDE DEF appNodes
<1>5. IsList(c.contract.apps) /\ IsList(c.contract.services) /\ IsList(c.contract.generated) /\ IsList(c.contract.unsafe)
  BY DEF ContextFine
<1>6. /\ NodesFine(<<Repository(e)>>)
      /\ NodesFine(Each(c.contract.apps, appNodes)) /\ NodesFine(Each(c.contract.services, service))
      /\ NodesFine(Each(c.contract.generated, artifact)) /\ NodesFine(Each(c.contract.unsafe, unsafe))
  BY <1>3, <1>4, <1>5, NodesOver, NodesOf, NodeIs DEF Each
<1>7. NodesFine(nodes)
  BY <1>6, NodesJoin DEF Each
<1>8. IdsIn(K, nodes)
  BY <1>1, <1>7, IdsPart DEF NodesFine
<1>9. /\ IdsIn(K, <<Repository(e)>>)
      /\ IdsIn(K, Each(c.contract.apps, appNodes)) /\ IdsIn(K, Each(c.contract.services, service))
      /\ IdsIn(K, Each(c.contract.generated, artifact)) /\ IdsIn(K, Each(c.contract.unsafe, unsafe))
  BY <1>6, <1>8, IdsJoin, JoinIs DEF NodesFine, Each
<1>10. /\ \A a \in Range(c.contract.apps) : IdsIn(K, appNodes(a))
       /\ \A s \in Range(c.contract.services) : IdsIn(K, service(s))
       /\ \A g \in Range(c.contract.generated) : IdsIn(K, artifact(g))
       /\ \A p \in Range(c.contract.unsafe) : IdsIn(K, unsafe(p))
  <2>1. /\ \A a \in Range(c.contract.apps) : IsList(appNodes(a))
        /\ \A s : IsList(service(s))
        /\ \A g : IsList(artifact(g))
        /\ \A p : IsList(unsafe(p))
    BY <1>3, <1>4 DEF NodesFine
  <2>2. \A a \in Range(c.contract.apps) : IdsIn(K, appNodes(a))
    BY <1>5, <1>9, <2>1, IdsOver DEF Each
  <2>3. \A s \in Range(c.contract.services) : IdsIn(K, service(s))
    BY <1>5, <1>9, <2>1, IdsOver DEF Each
  <2>4. \A g \in Range(c.contract.generated) : IdsIn(K, artifact(g))
    BY <1>5, <1>9, <2>1, IdsOver DEF Each
  <2>5. \A p \in Range(c.contract.unsafe) : IdsIn(K, unsafe(p))
    BY <1>5, <1>9, <2>1, IdsOver DEF Each
  <2> QED
    BY <2>2, <2>3, <2>4, <2>5
<1>11. /\ repository \in K
       /\ \A a \in Range(c.contract.apps) :
              /\ application(a) \in K /\ IdsIn(K, commands(a))
              /\ a.entrypoint # "" => <<"file", a.entrypoint>> \in K
              /\ \A k \in Range(a.commands) : <<"command", "application", a.id, k>> \in K
       /\ \A s \in Range(c.contract.services) : <<"service", s>> \in K
       /\ \A g \in Range(c.contract.generated) : <<"generated_artifact", g.pattern>> \in K
       /\ \A p \in Range(c.contract.unsafe) : <<"file", p>> \in K
  BY <1>3, <1>4, <1>9, <1>10, IdsRepository
<1>17. ASSUME NEW a \in Range(c.contract.apps)
       PROVE  EdgesFine(c, K, X, appEdges(a))
  <2>1. \A n \in Range(commands(a)) : n.id \in K
    BY <1>11 DEF IdsIn
  <2>2. EdgesFine(c, K, X, Each(commands(a), LAMBDA n : <<contains(n.id)>>))
    <3>1. \A n \in Range(commands(a)) : EdgesFine(c, K, X, <<contains(n.id)>>)
      BY <1>11, <2>1, EdgesOf, EdgeIs
    <3>2. IsList(commands(a))
      BY <1>4 DEF NodesFine
    <3> DEFINE list == commands(a)
    <3> HIDE DEF list
    <3>3. EdgesFine(c, K, X, Each(list, LAMBDA n : <<contains(n.id)>>))
      BY <3>1, <3>2, EdgesOver DEF Each, list
    <3> QED
      BY <3>3 DEF list, Each
  <2>3. EdgesFine(c, K, X, <<contains(application(a))>>)
    BY <1>11, EdgesOf, EdgeIs
  <2>4. EdgesFine(c, K, X, Given(a.entrypoint, <<Edge(application(a), "owns", <<"file", a.entrypoint>>, "contract-ingest", e)>>))
    BY <1>11, EdgesOf, EdgeIs DEF Given
  <2> QED
    BY <2>2, <2>3, <2>4, EdgesJoin DEF Each
<1>18. /\ \A s \in Range(c.contract.services) : EdgesFine(c, K, X, serviceEdges(s))
       /\ \A g \in Range(c.contract.generated) : EdgesFine(c, K, X, artifactEdges(g))
       /\ \A p \in Range(c.contract.unsafe) : EdgesFine(c, K, X, unsafeEdges(p))
  BY <1>11, EdgesOf, EdgeIs
<1> HIDE DEF appEdges, serviceEdges, artifactEdges, unsafeEdges
<1>19. /\ EdgesFine(c, K, X, Each(c.contract.apps, appEdges))
       /\ EdgesFine(c, K, X, Each(c.contract.services, serviceEdges))
       /\ EdgesFine(c, K, X, Each(c.contract.generated, artifactEdges))
       /\ EdgesFine(c, K, X, Each(c.contract.unsafe, unsafeEdges))
  BY <1>17, <1>18, <1>5, EdgesOver DEF Each
<1>20. EdgesFine(c, K, X, edges)
  BY <1>19, EdgesJoin DEF Each
<1> HIDE DEF nodes, edges
<1> QED
  BY <1>1, <1>7, <1>11, <1>20, PartIs

LEMMA FactPartFine ==
    ASSUME NEW c, ContextFine(c), NEW K, \A n \in FactPart(c).nodes : n.id \in K
    PROVE  PartFine(c, K, {"scanner-fact-ingest"}, FactPart(c))
<1> DEFINE X == {"scanner-fact-ingest"}
           key(f) == Stated(<<f.path, f.name, f.command>>)
           mapped == Those(OfKinds(c, DOMAIN FactNodeKind), LAMBDA f : key(f) # "")
           id(f) == <<FactNodeKind[f.kind], key(f)>>
           factNodes(f) == <<Node(id(f), f.path, FactEvidence(f))>>
           factEdges(f) == <<Edge(<<"repository", ".">>, "contains", id(f), "scanner-fact-ingest", FactEvidence(f))>>
           nodes == <<Repository({})>> \o Each(mapped, factNodes)
           edges == Each(mapped, factEdges)
<1>1. FactPart(c) = Part(nodes, edges)
  BY DEF FactPart, Each, Those
<1>2. IsList(mapped) /\ \A f \in Range(mapped) : f.kind \in DOMAIN FactNodeKind
  <2>1. IsList(OfKinds(c, DOMAIN FactNodeKind)) /\ \A f \in Range(OfKinds(c, DOMAIN FactNodeKind)) : f.kind \in DOMAIN FactNodeKind
    BY OfKindsIs DEF ContextFine
  <2> QED
    BY <2>1, ThoseIs DEF Those, Each
<1> HIDE DEF mapped
<1>3. \A f \in Range(mapped) : NodesFine(factNodes(f)) /\ (IdsIn(K, factNodes(f)) => id(f) \in K)
  <2>1. \A k \in DOMAIN FactNodeKind : FactNodeKind[k] # "file"
    BY DEF FactNodeKind
  <2> QED
    BY <1>2, <2>1, NodesOf, NodeIs, IdsNode
<1> HIDE DEF id
<1> HIDE DEF factNodes
<1>4. NodesFine(<<Repository({})>>) /\ NodesFine(Each(mapped, factNodes))
  BY <1>2, <1>3, NodesOver, NodesOf, NodeIs DEF Each
<1>5. NodesFine(nodes)
  BY <1>4, NodesJoin DEF Each
<1>6. IdsIn(K, <<Repository({})>>) /\ IdsIn(K, Each(mapped, factNodes))
  <2>1. IdsIn(K, nodes)
    BY <1>1, <1>5, IdsPart DEF NodesFine
  <2> QED
    BY <1>4, <2>1, IdsJoin DEF NodesFine, Each
<1>7. \A f \in Range(mapped) : IdsIn(K, factNodes(f))
  <2>1. \A f \in Range(mapped) : IsList(factNodes(f))
    BY <1>3 DEF NodesFine
  <2> QED
    BY <1>2, <1>6, <2>1, IdsOver DEF Each
<1>8. \A f \in Range(mapped) : EdgesFine(c, K, X, factEdges(f))
  BY <1>3, <1>6, <1>7, IdsRepository, EdgesOf, EdgeIs
<1> HIDE DEF factEdges
<1>9. EdgesFine(c, K, X, edges)
  BY <1>2, <1>8, EdgesOver DEF Each
<1> HIDE DEF nodes, edges, X
<1>99. PartFine(c, K, X, Part(nodes, edges))
  BY <1>5, <1>9, PartIs
<1> QED
  BY <1>1, <1>99, Zenon DEF X

LEMMA StructuralPartFine ==
    ASSUME NEW c, ContextFine(c), NEW K, \A n \in StructuralPart(c).nodes : n.id \in K
    PROVE  /\ PartFine(c, K, {"structural-nodes"}, StructuralPart(c))
           /\ \A f \in Range(c.files) : <<"file", f.path>> \in K
<1> DEFINE X == {"structural-nodes"}
           e(f) == SourceEvidence("Tracked repository file", f.path)
           of(dir) == SourceEvidence("Repository directory", dir)
           manifest == Those(c.files, LAMBDA f : f.lang = "manifest")
           package(m) == <<"package", IF Folder(m) = "" THEN "." ELSE Folder(m)>>
           within(m) == Those(c.files, LAMBDA f : Folder(m) = "" \/ Folder(m) \in Range(f.dirs))
           workspace == \E f \in Range(c.facts) : f.kind = "workspace"
           root == IF workspace THEN Those(manifest, LAMBDA m : m.dirs = <<>>) ELSE <<>>
           owned(source, kind, id, evidence) == Edge(source, kind, id, "structural-nodes", evidence)
           fileNode(f) == <<[FileNode(f.path, e(f)) EXCEPT !.meta = c.prints[f.path]]>>
           dirNodes(f) == [i \in DOMAIN f.dirs |-> Node(Directories(f)[i], f.dirs[i], of(f.dirs[i]))]
           fileNodes(f) == fileNode(f) \o dirNodes(f)
           packageNodes(m) == <<Node(package(m), Folder(m), SourceEvidence("Package manifest", m.path))>>
           rootNodes(m) == <<Node(<<"workspace", ".">>, "", SourceEvidence("Workspace manifest", m.path))>>
           nodes == <<Repository({})>> \o Each(c.files, fileNodes) \o Each(manifest, packageNodes) \o Each(root, rootNodes)
           fileEdge(f) == <<owned(Holder(f, Len(f.dirs)), "contains", <<"file", f.path>>, e(f))>>
           dirEdges(f) == [i \in DOMAIN f.dirs |-> owned(Holder(f, i - 1), "contains", Directories(f)[i], of(f.dirs[i]))]
           fileEdges(f) == fileEdge(f) \o dirEdges(f)
           packageHas(m, f) == <<owned(package(m), "owns", <<"file", f.path>>, SourceEvidence("Package manifest", m.path))>>
           packageEdges(m) ==
               <<owned(<<"repository", ".">>, "contains", package(m), SourceEvidence("Package manifest", m.path))>>
               \o Each(within(m), LAMBDA f : packageHas(m, f))
           rootHas(r, m) == <<owned(<<"workspace", ".">>, "owns", package(m), SourceEvidence("Workspace manifest", r.path))>>
           rootEdges(r) ==
               <<owned(<<"repository", ".">>, "contains", <<"workspace", ".">>, SourceEvidence("Workspace manifest", r.path))>>
               \o Each(manifest, LAMBDA m : rootHas(r, m))
           edges == Each(c.files, fileEdges) \o Each(manifest, packageEdges) \o Each(root, rootEdges)
<1>1. StructuralPart(c) = Part(nodes, edges)
  BY DEF StructuralPart, Each, Those
<1>2. /\ IsList(c.files) /\ \A f \in Range(c.files) : IsList(f.dirs)
      /\ IsList(manifest) /\ Range(manifest) \subseteq Range(c.files)
      /\ IsList(root)
      /\ \A m : IsList(within(m)) /\ Range(within(m)) \subseteq Range(c.files)
  <2>1. IsList(c.files) /\ \A f \in Range(c.files) : IsList(f.dirs)
    BY DEF ContextFine
  <2>2. IsList(manifest) /\ Range(manifest) \subseteq Range(c.files)
    BY <2>1, ThoseIs DEF Those, Each
  <2>3. \A m : IsList(within(m)) /\ Range(within(m)) \subseteq Range(c.files)
    BY <2>1, ThoseIs DEF Those, Each
  <2> HIDE DEF manifest, workspace
  <2>4. IsList(root)
    BY <2>2, ThoseIs, OneIs DEF Those, Each
  <2> QED
    BY <2>1, <2>2, <2>3, <2>4
<1> HIDE DEF manifest, within, root
<1>3. /\ \A f : NodesFine(fileNode(f)) /\ (IdsIn(K, fileNode(f)) => <<"file", f.path>> \in K)
      /\ \A m : NodesFine(packageNodes(m)) /\ (IdsIn(K, packageNodes(m)) => package(m) \in K)
      /\ \A m : NodesFine(rootNodes(m)) /\ (IdsIn(K, rootNodes(m)) => <<"workspace", ".">> \in K)
  <2> DEFINE row(f) == [FileNode(f.path, e(f)) EXCEPT !.meta = c.prints[f.path]]
  <2>1. \A f : NodeFine(row(f)) /\ row(f).id = <<"file", f.path>> /\ fileNode(f) = <<row(f)>>
    BY DEF NodeFine, FileNode, Node
  <2>2. \A f : NodesFine(fileNode(f)) /\ (IdsIn(K, fileNode(f)) => <<"file", f.path>> \in K)
    <3> HIDE DEF row, fileNode
    <3>1. \A f : NodesFine(<<row(f)>>) /\ (IdsIn(K, <<row(f)>>) <=> row(f).id \in K)
      BY <2>1, NodesOf, IdsOf
    <3> QED
      BY <2>1, <3>1
  <2>3. \A m : NodesFine(packageNodes(m)) /\ (IdsIn(K, packageNodes(m)) => package(m) \in K)
    BY NodesOf, NodeIs, IdsNode, ZenonT(40)
  <2>4. \A m : NodesFine(rootNodes(m)) /\ (IdsIn(K, rootNodes(m)) => <<"workspace", ".">> \in K)
    BY NodesOf, NodeIs, IdsNode
  <2> QED
    BY <2>2, <2>3, <2>4
<1>4. ASSUME NEW f \in Range(c.files)
      PROVE  /\ NodesFine(dirNodes(f))
             /\ IdsIn(K, dirNodes(f)) => \A i \in DOMAIN f.dirs : Directories(f)[i] \in K
  <2>1. \A i \in DOMAIN f.dirs : Directories(f)[i] = <<"directory", f.dirs[i]>>
    BY DEF Directories
  <2>2. \A i \in DOMAIN f.dirs : NodeFine(dirNodes(f)[i]) /\ dirNodes(f)[i].id = Directories(f)[i]
    <3> SUFFICES ASSUME NEW i \in DOMAIN f.dirs
                 PROVE  NodeFine(dirNodes(f)[i]) /\ dirNodes(f)[i].id = Directories(f)[i]
      OBVIOUS
    <3>1. \E p, evidence : dirNodes(f)[i] = Node(Directories(f)[i], p, evidence)
      OBVIOUS
    <3>2. Directories(f)[i][1] # "file"
      BY <2>1
    <3> QED
      BY <3>1, <3>2, NodeIs DEF Node
  <2>3. dirNodes(f) = [i \in DOMAIN f.dirs |-> dirNodes(f)[i]]
    OBVIOUS
  <2> HIDE DEF dirNodes
  <2>4. NodesFine(dirNodes(f))
    BY <1>2, <2>2, <2>3, NodesMap
  <2>5. IdsIn(K, dirNodes(f)) => \A i \in DOMAIN f.dirs : dirNodes(f)[i].id \in K
    BY <1>2, <2>3, IdsMap
  <2> QED
    BY <2>2, <2>4, <2>5
<1> HIDE DEF fileNode, dirNodes, packageNodes, rootNodes, package
<1>5. \A f \in Range(c.files) : NodesFine(fileNodes(f))
  BY <1>3, <1>4, NodesJoin DEF Each
<1>6. \A f \in Range(c.files) : IdsIn(K, fileNodes(f)) => IdsIn(K, fileNode(f)) /\ IdsIn(K, dirNodes(f))
  BY <1>3, <1>4, IdsJoin DEF NodesFine
<1> HIDE DEF fileNodes
<1>7. /\ NodesFine(<<Repository({})>>) /\ NodesFine(Each(c.files, fileNodes))
      /\ NodesFine(Each(manifest, packageNodes)) /\ NodesFine(Each(root, rootNodes))
  BY <1>2, <1>3, <1>5, NodesOver, NodesOf, NodeIs DEF Each
<1>8. NodesFine(nodes)
  BY <1>7, NodesJoin DEF Each
<1>9. /\ IdsIn(K, <<Repository({})>>) /\ IdsIn(K, Each(c.files, fileNodes))
      /\ IdsIn(K, Each(manifest, packageNodes)) /\ IdsIn(K, Each(root, rootNodes))
  <2>1. IdsIn(K, nodes)
    BY <1>1, <1>8, IdsPart DEF NodesFine
  <2> QED
    BY <1>7, <2>1, IdsJoin, JoinIs DEF NodesFine, Each
<1>10. /\ \A f \in Range(c.files) : IdsIn(K, fileNodes(f))
       /\ \A m \in Range(manifest) : IdsIn(K, packageNodes(m))
       /\ \A m \in Range(root) : IdsIn(K, rootNodes(m))
  <2>1. /\ \A f \in Range(c.files) : IsList(fileNodes(f))
        /\ \A m : IsList(packageNodes(m)) /\ IsList(rootNodes(m))
    BY <1>3, <1>5 DEF NodesFine
  <2>2. \A f \in Range(c.files) : IdsIn(K, fileNodes(f))
    BY <1>2, <1>9, <2>1, IdsOver DEF Each
  <2>3. \A m \in Range(manifest) : IdsIn(K, packageNodes(m))
    BY <1>2, <1>9, <2>1, IdsOver DEF Each
  <2>4. \A m \in Range(root) : IdsIn(K, rootNodes(m))
    BY <1>2, <1>9, <2>1, IdsOver DEF Each
  <2> QED
    BY <2>2, <2>3, <2>4
<1>11. /\ <<"repository", ".">> \in K
       /\ \A f \in Range(c.files) :
              <<"file", f.path>> \in K /\ \A i \in DOMAIN f.dirs : Directories(f)[i] \in K
       /\ \A m \in Range(manifest) : package(m) \in K
       /\ \A m \in Range(root) : <<"workspace", ".">> \in K
  BY <1>3, <1>4, <1>6, <1>9, <1>10, IdsRepository
<1>12. \A f \in Range(c.files) : \A i \in 0 .. Len(f.dirs) : Holder(f, i) \in K
  <2> SUFFICES ASSUME NEW f \in Range(c.files), NEW i \in 0 .. Len(f.dirs) PROVE Holder(f, i) \in K
    OBVIOUS
  <2>1. DOMAIN f.dirs = 1 .. Len(f.dirs) /\ Len(f.dirs) \in Nat
    BY <1>2, ListIs
  <2>2. CASE i = 0
    BY <1>11, <2>2 DEF Holder
  <2>3. CASE i # 0
    <3>1. i \in DOMAIN f.dirs
      BY <2>1, <2>3
    <3> QED
      BY <1>11, <2>3, <3>1 DEF Holder
  <2> QED
    BY <2>2, <2>3
<1>13. \A f \in Range(c.files) : EdgesFine(c, K, X, fileEdge(f)) /\ EdgesFine(c, K, X, dirEdges(f))
  <2> SUFFICES ASSUME NEW f \in Range(c.files) PROVE EdgesFine(c, K, X, fileEdge(f)) /\ EdgesFine(c, K, X, dirEdges(f))
    OBVIOUS
  <2>1. DOMAIN f.dirs = 1 .. Len(f.dirs) /\ Len(f.dirs) \in Nat
    BY <1>2, ListIs
  <2>2. Holder(f, Len(f.dirs)) \in K /\ \A i \in DOMAIN f.dirs : Holder(f, i - 1) \in K
    BY <1>12, <2>1
  <2>3. EdgesFine(c, K, X, fileEdge(f))
    BY <1>11, <2>2, EdgesOf, EdgeIs
  <2>4. \A i \in DOMAIN f.dirs : EdgeFine(c, K, X, dirEdges(f)[i])
    BY <1>11, <2>2, EdgeIs
  <2>5. dirEdges(f) = [i \in DOMAIN f.dirs |-> dirEdges(f)[i]]
    OBVIOUS
  <2> HIDE DEF dirEdges
  <2> QED
    BY <1>2, <2>3, <2>4, <2>5, EdgesMap
<1>14. \A m \in Range(manifest) : EdgesFine(c, K, X, packageEdges(m))
  <2> SUFFICES ASSUME NEW m \in Range(manifest) PROVE EdgesFine(c, K, X, packageEdges(m))
    OBVIOUS
  <2>1. \A f \in Range(c.files) : EdgesFine(c, K, X, packageHas(m, f))
    BY <1>11, EdgesOf, EdgeIs
  <2> HIDE DEF packageHas
  <2>2. EdgesFine(c, K, X, Each(within(m), LAMBDA f : packageHas(m, f)))
    BY <1>2, <2>1, EdgesOver DEF Each
  <2>3. EdgesFine(c, K, X, <<owned(<<"repository", ".">>, "contains", package(m), SourceEvidence("Package manifest", m.path))>>)
    BY <1>11, EdgesOf, EdgeIs
  <2> QED
    BY <2>2, <2>3, EdgesJoin DEF Each
<1>15. \A r \in Range(root) : EdgesFine(c, K, X, rootEdges(r))
  <2> SUFFICES ASSUME NEW r \in Range(root) PROVE EdgesFine(c, K, X, rootEdges(r))
    OBVIOUS
  <2>1. \A m \in Range(manifest) : EdgesFine(c, K, X, rootHas(r, m))
    BY <1>11, EdgesOf, EdgeIs
  <2> HIDE DEF rootHas
  <2>2. EdgesFine(c, K, X, Each(manifest, LAMBDA m : rootHas(r, m)))
    BY <1>2, <2>1, EdgesOver DEF Each
  <2>3. EdgesFine(c, K, X, <<owned(<<"repository", ".">>, "contains", <<"workspace", ".">>, SourceEvidence("Workspace manifest", r.path))>>)
    BY <1>11, EdgesOf, EdgeIs
  <2> QED
    BY <2>2, <2>3, EdgesJoin DEF Each
<1> HIDE DEF fileEdge, dirEdges
<1>16. \A f \in Range(c.files) : EdgesFine(c, K, X, fileEdges(f))
  BY <1>13, EdgesJoin
<1> HIDE DEF fileEdges, packageEdges, rootEdges
<1>17. /\ EdgesFine(c, K, X, Each(c.files, fileEdges)) /\ EdgesFine(c, K, X, Each(manifest, packageEdges))
       /\ EdgesFine(c, K, X, Each(root, rootEdges))
  BY <1>2, <1>14, <1>15, <1>16, EdgesOver DEF Each
<1>18. EdgesFine(c, K, X, edges)
  BY <1>17, EdgesJoin DEF Each
<1> HIDE DEF nodes, edges
<1> QED
  BY <1>1, <1>8, <1>11, <1>18, PartIs

LEMMA RuntimePartFine ==
    ASSUME NEW c, ContextFine(c), NEW K, \A n \in RuntimePart(c).nodes : n.id \in K,
           FilesKnown(c, K), CommandsKnown(c, K)
    PROVE  PartFine(c, K, {"runtime-nodes"}, RuntimePart(c)) /\ AppsKnown(c, K)
<1> DEFINE X == {"runtime-nodes"}
           e == IF c.contract.present THEN ContractEvidence("Repository contract") ELSE {}
           joined(source, kind, id, evidence) == Edge(source, kind, id, "runtime-nodes", evidence)
           contains(id, evidence) == joined(<<"repository", ".">>, "contains", id, evidence)
           units == Those(OfKinds(c, {"application", "worker"}), LAMBDA f : Stated(<<f.name, f.path>>) # "")
           unit(f) == <<f.kind, Stated(<<f.name, f.path>>)>>
           component(f) == <<"component", Stated(<<f.name, f.path>>)>>
           file(f) == <<"file", f.path>>
           appNodes(a) == <<Node(<<"application", a.id>>, "", e), Node(<<"component", a.id>>, a.root, e)>>
           serviceNodes(s) == <<Node(<<"service", s>>, "", e)>>
           unitNode(f) == <<Node(unit(f), f.path, FactEvidence(f))>>
           placeNode(f) == IF f.kind = "application" /\ f.path # "" THEN <<Node(component(f), f.path, FactEvidence(f))>>
                           ELSE <<>>
           unitNodes(f) == unitNode(f) \o placeNode(f)
           nodes == <<Repository({})>> \o Each(c.contract.apps, appNodes) \o Each(c.contract.services, serviceNodes)
                    \o Each(units, unitNodes)
           appEdge(a) == <<contains(<<"application", a.id>>, e),
                           joined(<<"component", a.id>>, "owns", <<"application", a.id>>, e)>>
           entryEdge(a) == Given(a.entrypoint, <<joined(<<"component", a.id>>, "owns", <<"file", a.entrypoint>>, e)>>)
           commandEdge(a, k) ==
               <<joined(<<"application", a.id>>, "runs", <<"command", "application", a.id, k>>, e)>>
           appEdges(a) == appEdge(a) \o entryEdge(a) \o Each(a.commands, LAMBDA k : commandEdge(a, k))
           serviceEdges(s) == <<contains(<<"service", s>>, e)>>
           unitEdge(f) == <<contains(unit(f), FactEvidence(f))>>
           placeEdges(f) == IF f.path = "" THEN <<>>
                            ELSE IF f.kind = "worker" THEN <<joined(unit(f), "owns", file(f), FactEvidence(f))>>
                            ELSE <<joined(component(f), "owns", unit(f), FactEvidence(f)),
                                   joined(component(f), "owns", file(f), FactEvidence(f))>>
           unitEdges(f) == unitEdge(f) \o placeEdges(f)
           edges == Each(c.contract.apps, appEdges) \o Each(c.contract.services, serviceEdges) \o Each(units, unitEdges)
<1>1. RuntimePart(c) = Part(nodes, edges)
  BY DEF RuntimePart, Each, Those
<1>2. /\ IsList(units) /\ \A f \in Range(units) : f.kind = "application" \/ f.kind = "worker"
      /\ IsList(c.contract.apps) /\ IsList(c.contract.services)
      /\ \A a \in Range(c.contract.apps) : IsList(a.commands)
  <2> DEFINE kinds == {"application", "worker"}
             facts == OfKinds(c, kinds)
  <2>3. \A k \in kinds : k = "application" \/ k = "worker"
    OBVIOUS
  <2> HIDE DEF kinds
  <2>1. IsList(facts) /\ \A f \in Range(facts) : f.kind \in kinds
    BY OfKindsIs DEF ContextFine
  <2>2. IsList(units) /\ Range(units) \subseteq Range(facts)
    BY <2>1, ThoseIs DEF Those, Each, kinds
  <2> HIDE DEF units, facts
  <2> QED
    BY <2>1, <2>2, <2>3 DEF ContextFine
<1> HIDE DEF units, e
<1>3. /\ \A a : /\ NodesFine(appNodes(a))
                /\ IdsIn(K, appNodes(a)) => <<"application", a.id>> \in K /\ <<"component", a.id>> \in K
      /\ \A s : NodesFine(serviceNodes(s)) /\ (IdsIn(K, serviceNodes(s)) => <<"service", s>> \in K)
  <2>1. \A a : /\ NodesFine(appNodes(a))
               /\ IdsIn(K, appNodes(a)) => <<"application", a.id>> \in K /\ <<"component", a.id>> \in K
    <3> TAKE a
    <3> DEFINE x == Node(<<"application", a.id>>, "", e)
               y == Node(<<"component", a.id>>, a.root, e)
    <3>1. NodeFine(x) /\ NodeFine(y)
      BY NodeIs
    <3>3. x.id = <<"application", a.id>> /\ y.id = <<"component", a.id>>
      BY DEF Node
    <3>2. appNodes(a) = <<x, y>>
      OBVIOUS
    <3> HIDE DEF x, y, appNodes
    <3>4. NodesFine(<<x, y>>)
      BY <3>1, NodesOf
    <3>5. IdsIn(K, <<x, y>>) <=> x.id \in K /\ y.id \in K
      BY IdsOf
    <3> QED
      BY <3>2, <3>3, <3>4, <3>5
  <2>2. \A s : NodesFine(serviceNodes(s)) /\ (IdsIn(K, serviceNodes(s)) => <<"service", s>> \in K)
    BY NodesOf, NodeIs, IdsNode
  <2> QED
    BY <2>1, <2>2
<1>4. \A f \in Range(units) :
          /\ NodesFine(unitNode(f)) /\ NodesFine(placeNode(f))
          /\ IdsIn(K, unitNode(f)) => unit(f) \in K
          /\ IdsIn(K, placeNode(f)) => (f.kind = "application" /\ f.path # "" => component(f) \in K)
  BY <1>2, NodesOf, NodeIs, IdsNode
<1> HIDE DEF appNodes, serviceNodes, unitNode, placeNode, unit, component
<1>5. \A f \in Range(units) :
          /\ NodesFine(unitNodes(f))
          /\ IdsIn(K, unitNodes(f)) => IdsIn(K, unitNode(f)) /\ IdsIn(K, placeNode(f))
  BY <1>4, NodesJoin, IdsJoin DEF NodesFine
<1> HIDE DEF unitNodes
<1>6. /\ NodesFine(<<Repository({})>>) /\ NodesFine(Each(c.contract.apps, appNodes))
      /\ NodesFine(Each(c.contract.services, serviceNodes)) /\ NodesFine(Each(units, unitNodes))
  BY <1>2, <1>3, <1>5, NodesOver, NodesOf, NodeIs DEF Each
<1>7. NodesFine(nodes)
  BY <1>6, NodesJoin DEF Each
<1>8. /\ IdsIn(K, <<Repository({})>>) /\ IdsIn(K, Each(c.contract.apps, appNodes))
      /\ IdsIn(K, Each(c.contract.services, serviceNodes)) /\ IdsIn(K, Each(units, unitNodes))
  <2>1. IdsIn(K, nodes)
    BY <1>1, <1>7, IdsPart DEF NodesFine
  <2> QED
    BY <1>6, <2>1, IdsJoin, JoinIs DEF NodesFine, Each
<1>9. /\ \A a \in Range(c.contract.apps) : IdsIn(K, appNodes(a))
      /\ \A s \in Range(c.contract.services) : IdsIn(K, serviceNodes(s))
      /\ \A f \in Range(units) : IdsIn(K, unitNodes(f))
  <2>1. /\ \A f \in Range(units) : IsList(unitNodes(f))
        /\ \A x : IsList(appNodes(x)) /\ IsList(serviceNodes(x))
    BY <1>3, <1>5 DEF NodesFine
  <2>2. \A a \in Range(c.contract.apps) : IdsIn(K, appNodes(a))
    BY <1>2, <1>8, <2>1, IdsOver DEF Each
  <2>3. \A s \in Range(c.contract.services) : IdsIn(K, serviceNodes(s))
    BY <1>2, <1>8, <2>1, IdsOver DEF Each
  <2>4. \A f \in Range(units) : IdsIn(K, unitNodes(f))
    BY <1>2, <1>8, <2>1, IdsOver DEF Each
  <2> QED
    BY <2>2, <2>3, <2>4
<1>10. /\ <<"repository", ".">> \in K
       /\ \A a \in Range(c.contract.apps) : <<"application", a.id>> \in K /\ <<"component", a.id>> \in K
       /\ \A s \in Range(c.contract.services) : <<"service", s>> \in K
       /\ \A f \in Range(units) : unit(f) \in K /\ (f.kind = "application" /\ f.path # "" => component(f) \in K)
  BY <1>3, <1>4, <1>5, <1>8, <1>9, IdsRepository
<1>11. ASSUME NEW a \in Range(c.contract.apps)
       PROVE  EdgesFine(c, K, X, appEdges(a))
  <2>1. EdgesFine(c, K, X, appEdge(a))
    <3>1. /\ EdgeFine(c, K, X, contains(<<"application", a.id>>, e))
          /\ EdgeFine(c, K, X, joined(<<"component", a.id>>, "owns", <<"application", a.id>>, e))
      BY <1>10, EdgeIs
    <3> HIDE DEF contains, joined
    <3> QED
      BY <3>1, EdgesOf
  <2>2. EdgesFine(c, K, X, entryEdge(a))
    BY <1>10, EdgesOf, EdgeIs DEF Given, CommandsKnown
  <2>3. \A k \in Range(a.commands) : EdgesFine(c, K, X, commandEdge(a, k))
    BY <1>10, EdgesOf, EdgeIs DEF CommandsKnown
  <2> HIDE DEF appEdge, entryEdge, commandEdge
  <2>4. EdgesFine(c, K, X, Each(a.commands, LAMBDA k : commandEdge(a, k)))
    BY <1>2, <2>3, EdgesOver DEF Each
  <2> QED
    BY <2>1, <2>2, <2>4, EdgesJoin DEF Each
<1>12. \A s \in Range(c.contract.services) : EdgesFine(c, K, X, serviceEdges(s))
  BY <1>10, EdgesOf, EdgeIs
<1>13. ASSUME NEW f \in Range(units)
       PROVE  EdgesFine(c, K, X, unitEdges(f))
  <2>1. EdgesFine(c, K, X, unitEdge(f))
    BY <1>10, EdgesOf, EdgeIs
  <2>2. file(f) \in K \/ Elsewhere(c, "runtime-nodes", file(f))
    <3>1. file(f)[1] = "file" /\ file(f)[2] = f.path
      OBVIOUS
    <3> QED
      BY <3>1 DEF Elsewhere, FilesKnown
  <2> HIDE DEF file
  <2>3. EdgesFine(c, K, X, placeEdges(f))
    <3>1. CASE f.path = ""
      BY <3>1, EdgesOf
    <3>2. CASE f.path # "" /\ f.kind = "worker"
      BY <1>10, <2>2, <3>2, EdgesOf, EdgeIs
    <3>3. CASE f.path # "" /\ f.kind = "application"
      <4>1. /\ EdgeFine(c, K, X, joined(component(f), "owns", unit(f), FactEvidence(f)))
            /\ EdgeFine(c, K, X, joined(component(f), "owns", file(f), FactEvidence(f)))
        BY <1>10, <2>2, <3>3, EdgeIs
      <4>2. "application" # "worker"
        OBVIOUS
      <4> QED
        BY <3>3, <4>1, <4>2, EdgesOf
    <3> QED
      BY <1>2, <3>1, <3>2, <3>3
  <2> HIDE DEF unitEdge, placeEdges
  <2> QED
    BY <2>1, <2>3, EdgesJoin
<1> HIDE DEF appEdges, serviceEdges, unitEdges
<1>14. /\ EdgesFine(c, K, X, Each(c.contract.apps, appEdges))
       /\ EdgesFine(c, K, X, Each(c.contract.services, serviceEdges)) /\ EdgesFine(c, K, X, Each(units, unitEdges))
  BY <1>2, <1>11, <1>12, <1>13, EdgesOver DEF Each
<1>15. EdgesFine(c, K, X, edges)
  BY <1>14, EdgesJoin DEF Each
<1> HIDE DEF nodes, edges
<1> QED
  BY <1>1, <1>7, <1>10, <1>15, PartIs DEF AppsKnown

LEMMA ExportsFine ==
    ASSUME NEW c, ContextFine(c), NEW lang, NEW extractor, NEW K,
           \A n \in Exports(c, lang, extractor).nodes : n.id \in K
    PROVE  PartFine(c, K, {extractor}, Exports(c, lang, extractor))
<1> DEFINE X == {extractor}
           legible == Readable(c, OfLanguage(c, lang))
           e(f, name) == SourceEvidence("Export " \o name, f.path)
           exports(f) == c.texts[f.path].exports
           fileNode(f) == <<FileNode(f.path, {})>>
           symbol(f, x) == <<Node(<<"symbol", f.path, x>>, f.path, e(f, x))>>
           symbols(f) == Each(exports(f), LAMBDA x : symbol(f, x))
           fileNodes(f) == fileNode(f) \o symbols(f)
           nodes == Each(legible, fileNodes)
           edge(f, x) == <<Edge(<<"file", f.path>>, "exports", <<"symbol", f.path, x>>, extractor, e(f, x))>>
           fileEdges(f) == Each(exports(f), LAMBDA x : edge(f, x))
           edges == Each(legible, fileEdges)
<1>1. Exports(c, lang, extractor) = Part(nodes, edges)
  BY DEF Exports, Each, Those
<1>2. IsList(legible) /\ \A f \in Range(legible) : IsList(exports(f))
  <2>1. IsList(OfLanguage(c, lang))
    BY OfLanguageIs DEF ContextFine
  <2>2. IsList(legible) /\ \A f \in Range(legible) : f.path \in DOMAIN c.texts
    BY <2>1, ReadableIs
  <2> HIDE DEF legible
  <2> QED
    BY <2>2 DEF ContextFine
<1> HIDE DEF legible, e, exports
<1>3. /\ \A f : NodesFine(fileNode(f)) /\ (IdsIn(K, fileNode(f)) => <<"file", f.path>> \in K)
      /\ \A f, x : NodesFine(symbol(f, x)) /\ (IdsIn(K, symbol(f, x)) => <<"symbol", f.path, x>> \in K)
  BY NodesOf, NodeIs, IdsNode, IdsFile
<1> HIDE DEF fileNode, symbol
<1>4. \A f \in Range(legible) : NodesFine(symbols(f))
  BY <1>2, <1>3, NodesOver DEF Each
<1>5. \A f \in Range(legible) : IdsIn(K, symbols(f)) => \A x \in Range(exports(f)) : IdsIn(K, symbol(f, x))
  <2>1. \A f, x : IsList(symbol(f, x))
    BY <1>3 DEF NodesFine
  <2> QED
    BY <1>2, <2>1, IdsOver DEF Each
<1> HIDE DEF symbols
<1>6. \A f \in Range(legible) :
          /\ NodesFine(fileNodes(f))
          /\ IdsIn(K, fileNodes(f)) => IdsIn(K, fileNode(f)) /\ IdsIn(K, symbols(f))
  BY <1>3, <1>4, NodesJoin, IdsJoin DEF NodesFine
<1> HIDE DEF fileNodes
<1>7. NodesFine(nodes)
  BY <1>2, <1>6, NodesOver DEF Each
<1>8. \A f \in Range(legible) : IdsIn(K, fileNodes(f))
  <2>1. IdsIn(K, nodes)
    BY <1>1, <1>7, IdsPart DEF NodesFine
  <2>2. \A f \in Range(legible) : IsList(fileNodes(f))
    BY <1>6 DEF NodesFine
  <2> QED
    BY <1>2, <2>1, <2>2, IdsOver DEF Each
<1>9. \A f \in Range(legible) : <<"file", f.path>> \in K /\ \A x \in Range(exports(f)) : <<"symbol", f.path, x>> \in K
  BY <1>3, <1>5, <1>6, <1>8
<1>10. \A f \in Range(legible) : \A x \in Range(exports(f)) : EdgesFine(c, K, X, edge(f, x))
  BY <1>9, EdgesOf, EdgeIs
<1> HIDE DEF edge
<1>11. \A f \in Range(legible) : EdgesFine(c, K, X, fileEdges(f))
  BY <1>2, <1>10, EdgesOver DEF Each
<1> HIDE DEF fileEdges
<1>12. EdgesFine(c, K, X, edges)
  BY <1>2, <1>11, EdgesOver DEF Each
<1> HIDE DEF nodes, edges, X
<1>99. PartFine(c, K, X, Part(nodes, edges))
  BY <1>7, <1>12, PartIs
<1> QED
  BY <1>1, <1>99, Zenon DEF X

LEMMA ImportsFine ==
    ASSUME NEW c, ContextFine(c), NEW lang, NEW packages, NEW extractor, NEW K,
           \A n \in Imports(c, lang, packages, extractor).nodes : n.id \in K
    PROVE  PartFine(c, K, {extractor}, Imports(c, lang, packages, extractor))
<1> DEFINE X == {extractor}
           legible == Readable(c, OfLanguage(c, lang))
           local == {f.path : f \in Range(OfLanguage(c, lang))}
           e(f, to) == SourceEvidence("Import " \o to, f.path)
           resolved(f) == Those(c.texts[f.path].imports, LAMBDA to : to \in local \cup packages)
           fileNode(f) == <<FileNode(f.path, {})>>
           import(f, to) == <<IF to \in local THEN FileNode(to, {}) ELSE Node(<<"package", to>>, "", e(f, to))>>
           imports(f) == Each(resolved(f), LAMBDA to : import(f, to))
           fileNodes(f) == fileNode(f) \o imports(f)
           nodes == Each(legible, fileNodes)
           edge(f, to) == <<IF to \in local THEN Edge(<<"file", f.path>>, "imports", <<"file", to>>, extractor, e(f, to))
                            ELSE Edge(<<"file", f.path>>, "depends_on", <<"package", to>>, extractor, e(f, to))>>
           fileEdges(f) == Each(resolved(f), LAMBDA to : edge(f, to))
           edges == Each(legible, fileEdges)
<1>1. Imports(c, lang, packages, extractor) = Part(nodes, edges)
  BY DEF Imports, Each, Those
<1>2. IsList(legible) /\ \A f \in Range(legible) : IsList(resolved(f))
  <2>1. IsList(OfLanguage(c, lang))
    BY OfLanguageIs DEF ContextFine
  <2>2. IsList(legible) /\ \A f \in Range(legible) : f.path \in DOMAIN c.texts
    BY <2>1, ReadableIs
  <2> HIDE DEF legible, local
  <2>3. \A f \in Range(legible) : IsList(c.texts[f.path].imports)
    BY <2>2 DEF ContextFine
  <2> QED
    BY <2>2, <2>3, ThoseIs DEF Those, Each
<1> HIDE DEF legible, e, resolved, local
<1>3. /\ \A f : NodesFine(fileNode(f)) /\ (IdsIn(K, fileNode(f)) => <<"file", f.path>> \in K)
      /\ \A f, to : /\ NodesFine(import(f, to))
                    /\ IdsIn(K, import(f, to)) => IF to \in local THEN <<"file", to>> \in K ELSE <<"package", to>> \in K
  BY NodesOf, NodeIs, IdsNode, IdsFile
<1> HIDE DEF fileNode, import
<1>4. \A f \in Range(legible) : NodesFine(imports(f))
  BY <1>2, <1>3, NodesOver DEF Each
<1>5. \A f \in Range(legible) : IdsIn(K, imports(f)) => \A to \in Range(resolved(f)) : IdsIn(K, import(f, to))
  <2>1. \A f, to : IsList(import(f, to))
    BY <1>3 DEF NodesFine
  <2> QED
    BY <1>2, <2>1, IdsOver DEF Each
<1> HIDE DEF imports
<1>6. \A f \in Range(legible) :
          /\ NodesFine(fileNodes(f))
          /\ IdsIn(K, fileNodes(f)) => IdsIn(K, fileNode(f)) /\ IdsIn(K, imports(f))
  BY <1>3, <1>4, NodesJoin, IdsJoin DEF NodesFine
<1> HIDE DEF fileNodes
<1>7. NodesFine(nodes)
  BY <1>2, <1>6, NodesOver DEF Each
<1>8. \A f \in Range(legible) : IdsIn(K, fileNodes(f))
  <2>1. IdsIn(K, nodes)
    BY <1>1, <1>7, IdsPart DEF NodesFine
  <2>2. \A f \in Range(legible) : IsList(fileNodes(f))
    BY <1>6 DEF NodesFine
  <2> QED
    BY <1>2, <2>1, <2>2, IdsOver DEF Each
<1>9. \A f \in Range(legible) :
          /\ <<"file", f.path>> \in K
          /\ \A to \in Range(resolved(f)) : IF to \in local THEN <<"file", to>> \in K ELSE <<"package", to>> \in K
  BY <1>3, <1>5, <1>6, <1>8
<1>10. \A f \in Range(legible) : \A to \in Range(resolved(f)) : EdgesFine(c, K, X, edge(f, to))
  BY <1>9, EdgesOf, EdgeIs
<1> HIDE DEF edge
<1>11. \A f \in Range(legible) : EdgesFine(c, K, X, fileEdges(f))
  BY <1>2, <1>10, EdgesOver DEF Each
<1> HIDE DEF fileEdges
<1>12. EdgesFine(c, K, X, edges)
  BY <1>2, <1>11, EdgesOver DEF Each
<1> HIDE DEF nodes, edges, X
<1>99. PartFine(c, K, X, Part(nodes, edges))
  BY <1>7, <1>12, PartIs
<1> QED
  BY <1>1, <1>99, Zenon DEF X

LEMMA RoutePartFine ==
    ASSUME NEW c, ContextFine(c), NEW K, \A n \in RoutePart(c).nodes : n.id \in K, AppsKnown(c, K)
    PROVE  PartFine(c, K, {"route-index"}, RoutePart(c)) /\ RoutesKnown(c, K)
<1> DEFINE X == {"route-index"}
           facts == OfKinds(c, {"route"})
           routes == Those(facts, LAMBDA f : f.path # "")
           handles(source, target, evidence) == Edge(source, "handles_route", target, "route-index", evidence)
           handler(f) == IF f.path \in DOMAIN c.texts THEN c.texts[f.path].handler ELSE ""
           apps(f) == Those(c.contract.apps, LAMBDA a : Under(c, f.path, a.root))
           routeNodes(f) == <<Node(Route(f), f.path, FactEvidence(f)), FileNode(f.path, FactEvidence(f))>>
           nodes == Each(routes, routeNodes)
           fileEdge(f) == <<handles(Route(f), <<"file", f.path>>, FactEvidence(f))>>
           handlerEdge(f) == Given(handler(f), <<handles(Route(f), <<"symbol", f.path, handler(f)>>,
                                                         SourceEvidence("Route handler", f.path))>>)
           appEdge(f, a) == <<handles(<<"application", a.id>>, Route(f), FactEvidence(f)),
                              handles(<<"component", a.id>>, Route(f), FactEvidence(f))>>
           routeEdges(f) == fileEdge(f) \o handlerEdge(f) \o Each(apps(f), LAMBDA a : appEdge(f, a))
           edges == Each(routes, routeEdges)
<1>1. RoutePart(c) = Part(nodes, edges)
  BY DEF RoutePart, Each, Those
<1>2. /\ IsList(routes) /\ \A f : IsList(apps(f)) /\ Range(apps(f)) \subseteq Range(c.contract.apps)
      /\ \A f \in Range(c.facts) : f.kind = "route" /\ f.path # "" => f \in Range(routes)
  <2> DEFINE kinds == {"route"}
  <2>1. IsList(OfKinds(c, kinds)) /\ \A f \in Range(c.facts) : f.kind \in kinds => f \in Range(OfKinds(c, kinds))
    BY OfKindsIs DEF ContextFine
  <2>2. IsList(facts) /\ \A f \in Range(c.facts) : f.kind = "route" => f \in Range(facts)
    BY <2>1
  <2> HIDE DEF facts
  <2> DEFINE of == [f \in Range(facts) |-> IF f.path # "" THEN <<f>> ELSE <<>>]
  <2>3. routes = Over(facts, of)
    BY DEF Those, Each
  <2>4. \A f \in Range(facts) : (of[f] = <<f>> \/ of[f] = <<>>) /\ (f.path # "" => of[f] = <<f>>) /\ <<f>> # <<>>
    OBVIOUS
  <2> HIDE DEF of, routes
  <2>5. IsList(Over(facts, of)) /\ \A f \in Range(facts) : of[f] # <<>> => f \in Range(Over(facts, of))
    BY <2>2, <2>4, ThoseIs
  <2>6. \A f : IsList(apps(f)) /\ Range(apps(f)) \subseteq Range(c.contract.apps)
    <3>1. IsList(c.contract.apps)
      BY DEF ContextFine
    <3> QED
      BY <3>1, ThoseIs DEF Those, Each
  <2> HIDE DEF apps
  <2> QED
    BY <2>2, <2>3, <2>4, <2>5, <2>6
<1> HIDE DEF routes, apps, handler
<1>3. ASSUME NEW f
      PROVE  /\ NodesFine(routeNodes(f))
             /\ IdsIn(K, routeNodes(f)) => Route(f) \in K /\ <<"file", f.path>> \in K
  <2> DEFINE x == Node(Route(f), f.path, FactEvidence(f))
             y == FileNode(f.path, FactEvidence(f))
  <2>1. Route(f)[1] # "file"
    BY DEF Route
  <2>2. NodeFine(x) /\ NodeFine(y)
    BY <2>1, NodeIs
  <2>3. x.id = Route(f) /\ y.id = <<"file", f.path>>
    BY IdsOf
  <2>4. routeNodes(f) = <<x, y>>
    OBVIOUS
  <2> HIDE DEF x, y, routeNodes
  <2>5. NodesFine(<<x, y>>)
    BY <2>2, NodesOf
  <2>6. IdsIn(K, <<x, y>>) <=> x.id \in K /\ y.id \in K
    BY IdsOf
  <2> QED
    BY <2>3, <2>4, <2>5, <2>6
<1> HIDE DEF routeNodes
<1>4. NodesFine(nodes)
  BY <1>2, <1>3, NodesOver DEF Each
<1>5. \A f \in Range(routes) : IdsIn(K, routeNodes(f))
  <2>1. IdsIn(K, nodes)
    BY <1>1, <1>4, IdsPart DEF NodesFine
  <2>2. IsList(routes) /\ \A f \in Range(routes) : IsList(routeNodes(f))
    BY <1>2, <1>3 DEF NodesFine
  <2> QED
    BY <2>1, <2>2, IdsOver DEF Each
<1>6. \A f \in Range(routes) : Route(f) \in K /\ <<"file", f.path>> \in K
  BY <1>3, <1>5
<1>7. ASSUME NEW f \in Range(routes)
      PROVE  EdgesFine(c, K, X, routeEdges(f))
  <2>1. EdgesFine(c, K, X, fileEdge(f))
    BY <1>6, EdgesOf, EdgeIs
  <2>2. EdgesFine(c, K, X, handlerEdge(f))
    <3> DEFINE symbol == <<"symbol", f.path, handler(f)>>
    <3>1. Elsewhere(c, "route-index", symbol)
      BY DEF Elsewhere
    <3> HIDE DEF symbol
    <3>2. EdgeFine(c, K, X, handles(Route(f), symbol, SourceEvidence("Route handler", f.path)))
      BY <1>6, <3>1, EdgeIs
    <3>3. EdgeFine(c, K, X, handles(Route(f), <<"symbol", f.path, handler(f)>>, SourceEvidence("Route handler", f.path)))
      BY <3>2 DEF symbol
    <3> HIDE DEF handles
    <3> QED
      BY <3>3, EdgesOf DEF Given
  <2>3. \A a \in Range(apps(f)) : EdgesFine(c, K, X, appEdge(f, a))
    <3> SUFFICES ASSUME NEW a \in Range(apps(f)) PROVE EdgesFine(c, K, X, appEdge(f, a))
      OBVIOUS
    <3>0. <<"application", a.id>> \in K /\ <<"component", a.id>> \in K
      BY <1>2 DEF AppsKnown
    <3>1. /\ EdgeFine(c, K, X, handles(<<"application", a.id>>, Route(f), FactEvidence(f)))
          /\ EdgeFine(c, K, X, handles(<<"component", a.id>>, Route(f), FactEvidence(f)))
      BY <1>6, <3>0, EdgeIs
    <3> HIDE DEF handles
    <3> QED
      BY <3>1, EdgesOf
  <2> HIDE DEF fileEdge, handlerEdge, appEdge
  <2>4. EdgesFine(c, K, X, Each(apps(f), LAMBDA a : appEdge(f, a)))
    BY <1>2, <2>3, EdgesOver DEF Each
  <2> QED
    BY <2>1, <2>2, <2>4, EdgesJoin DEF Each
<1> HIDE DEF routeEdges
<1>8. EdgesFine(c, K, X, edges)
  BY <1>2, <1>7, EdgesOver DEF Each
<1>9. RoutesKnown(c, K)
  BY <1>2, <1>6 DEF RoutesKnown
<1> HIDE DEF nodes, edges, X
<1>99. PartFine(c, K, X, Part(nodes, edges))
  BY <1>4, <1>8, PartIs
<1> QED
  BY <1>1, <1>99, <1>9 DEF X

LEMMA RequestFlowPartFine ==
    ASSUME NEW c, ContextFine(c), NEW K, \A n \in RequestFlowPart(c).nodes : n.id \in K
    PROVE  PartFine(c, K, {"request-flow"}, RequestFlowPart(c))
<1> DEFINE X == {"request-flow"}
           routes == Those(OfKinds(c, {"route"}), LAMBDA f : f.path \in DOMAIN c.texts)
           calls(f) == Those(c.texts[f.path].calls, LAMBDA to : to \in Paths(c))
           routeNode(f) == <<Node(Route(f), f.path, {})>>
           called(to) == <<FileNode(to, {})>>
           calledNodes(f) == Each(calls(f), LAMBDA to : called(to))
           routeNodes(f) == routeNode(f) \o calledNodes(f)
           nodes == Each(routes, routeNodes)
           edge(f, to) == <<Edge(Route(f), "calls", <<"file", to>>, "request-flow", SourceEvidence("Direct route call", f.path))>>
           routeEdges(f) == Each(calls(f), LAMBDA to : edge(f, to))
           edges == Each(routes, routeEdges)
<1>1. RequestFlowPart(c) = Part(nodes, edges)
  BY DEF RequestFlowPart, Each, Those
<1>2. IsList(routes) /\ \A f \in Range(routes) : IsList(calls(f))
  <2> DEFINE kinds == {"route"}
             facts == OfKinds(c, kinds)
  <2>1. IsList(facts)
    BY OfKindsIs DEF ContextFine
  <2> DEFINE of == [f \in Range(facts) |-> IF f.path \in DOMAIN c.texts THEN <<f>> ELSE <<>>]
  <2>2. routes = Over(facts, of)
    BY DEF Those, Each
  <2> HIDE DEF facts
  <2>3. \A f \in Range(facts) : (of[f] = <<f>> \/ of[f] = <<>>) /\ (of[f] # <<>> => f.path \in DOMAIN c.texts)
    OBVIOUS
  <2> HIDE DEF of, routes
  <2>4. IsList(Over(facts, of)) /\ \A f \in Range(Over(facts, of)) : f \in Range(facts) /\ of[f] # <<>>
    BY <2>1, <2>3, ThoseIs
  <2>5. IsList(routes) /\ \A f \in Range(routes) : f.path \in DOMAIN c.texts
    BY <2>2, <2>3, <2>4
  <2>6. \A f \in Range(routes) : IsList(c.texts[f.path].calls)
    BY <2>5 DEF ContextFine
  <2> QED
    BY <2>5, <2>6, ThoseIs DEF Those, Each
<1> HIDE DEF routes, calls
<1>3. /\ \A f : NodesFine(routeNode(f)) /\ (IdsIn(K, routeNode(f)) => Route(f) \in K)
      /\ \A to : NodesFine(called(to)) /\ (IdsIn(K, called(to)) => <<"file", to>> \in K)
  <2>1. \A f : Route(f)[1] # "file"
    BY DEF Route
  <2> QED
    BY <2>1, NodesOf, NodeIs, IdsNode, IdsFile
<1> HIDE DEF routeNode, called
<1>4. \A f \in Range(routes) : NodesFine(calledNodes(f))
  BY <1>2, <1>3, NodesOver DEF Each
<1>5. \A f \in Range(routes) : IdsIn(K, calledNodes(f)) => \A to \in Range(calls(f)) : IdsIn(K, called(to))
  <2>1. \A to : IsList(called(to))
    BY <1>3 DEF NodesFine
  <2> QED
    BY <1>2, <2>1, IdsOver DEF Each
<1> HIDE DEF calledNodes
<1>6. \A f \in Range(routes) :
          /\ NodesFine(routeNodes(f))
          /\ IdsIn(K, routeNodes(f)) => IdsIn(K, routeNode(f)) /\ IdsIn(K, calledNodes(f))
  BY <1>3, <1>4, NodesJoin, IdsJoin DEF NodesFine
<1> HIDE DEF routeNodes
<1>7. NodesFine(nodes)
  BY <1>2, <1>6, NodesOver DEF Each
<1>8. \A f \in Range(routes) : IdsIn(K, routeNodes(f))
  <2>1. IdsIn(K, nodes)
    BY <1>1, <1>7, IdsPart DEF NodesFine
  <2>2. \A f \in Range(routes) : IsList(routeNodes(f))
    BY <1>6 DEF NodesFine
  <2> QED
    BY <1>2, <2>1, <2>2, IdsOver DEF Each
<1>9. \A f \in Range(routes) : Route(f) \in K /\ \A to \in Range(calls(f)) : <<"file", to>> \in K
  BY <1>3, <1>5, <1>6, <1>8
<1>10. \A f \in Range(routes) : \A to \in Range(calls(f)) : EdgesFine(c, K, X, edge(f, to))
  BY <1>9, EdgesOf, EdgeIs
<1> HIDE DEF edge
<1>11. \A f \in Range(routes) : EdgesFine(c, K, X, routeEdges(f))
  BY <1>2, <1>10, EdgesOver DEF Each
<1> HIDE DEF routeEdges
<1>12. EdgesFine(c, K, X, edges)
  BY <1>2, <1>11, EdgesOver DEF Each
<1> HIDE DEF nodes, edges, X
<1>99. PartFine(c, K, X, Part(nodes, edges))
  BY <1>7, <1>12, PartIs
<1> QED
  BY <1>1, <1>99, Zenon DEF X

LEMMA TripleIs == \A r, s, t : DOMAIN <<r, s, t>> = 1 .. 3
OBVIOUS

LEMMA FirstIs == (\A j : j \notin 1 .. 1 - 1) /\ (1 \in 1 .. 3) /\ \A i \in 1 .. 3 : i # 1 => 1 \in 1 .. i - 1
OBVIOUS

LEMMA StatedFirst ==
    ASSUME NEW texts, DOMAIN texts = 1 .. 3, NEW none, none = "", texts[1] # none PROVE Stated(texts) = texts[1]
<1> DEFINE first(i) == texts[i] # none /\ \A j \in 1 .. i - 1 : texts[j] = none
<1>2. first(1) /\ 1 \in DOMAIN texts
  BY FirstIs
<1>4. \A i \in DOMAIN texts : first(i) => i = 1
  BY FirstIs
<1>5. Stated(texts) = texts[CHOOSE i \in DOMAIN texts : first(i)]
  <2>1. ~ \A i \in DOMAIN texts : texts[i] = none
    BY <1>2
  <2> QED
    BY <2>1, Zenon DEF Stated
<1> HIDE DEF first
<1>6. (CHOOSE i \in DOMAIN texts : first(i)) = 1
  BY <1>2, <1>4, Zenon
<1> QED
  BY <1>5, <1>6, Zenon

LEMMA WorkerPartFine ==
    ASSUME NEW c, ContextFine(c), NEW K, \A n \in WorkerPart(c).nodes : n.id \in K
    PROVE  PartFine(c, K, {"worker-flow"}, WorkerPart(c)) /\ WorkersKnown(c, K)
<1> DEFINE X == {"worker-flow"}
           key(f) == Stated(<<f.path, f.command, f.service>>)
           facts == OfKinds(c, {"worker"})
           workers == Those(facts, LAMBDA f : key(f) # "")
           file(f) == IF IsSource(c, f.path) THEN <<<<"owns", FileNode(f.path, FactEvidence(f))>>>> ELSE <<>>
           queue(f) == Given(f.queue, <<<<"depends_on", Node(<<"queue", f.queue>>, "", FactEvidence(f))>>>>)
           command(f) == Given(f.command, <<<<"runs", Node(<<"command", "worker", f.command>>, "", FactEvidence(f))>>>>)
           service(f) == Given(f.service, <<<<"depends_on", Node(<<"service", f.service>>, "", FactEvidence(f))>>>>)
           joined(f) == file(f) \o queue(f) \o command(f) \o service(f)
           workerNode(f) == <<Node(<<"worker", key(f)>>, f.path, FactEvidence(f))>>
           joinedNodes(f) == [i \in DOMAIN joined(f) |-> joined(f)[i][2]]
           workerNodes(f) == workerNode(f) \o joinedNodes(f)
           nodes == Each(workers, workerNodes)
           workerEdges(f) == [i \in DOMAIN joined(f) |->
                  Edge(<<"worker", key(f)>>, joined(f)[i][1], joined(f)[i][2].id, "worker-flow", FactEvidence(f))]
           edges == Each(workers, workerEdges)
<1>1. WorkerPart(c) = Part(nodes, edges)
  BY Zenon DEF WorkerPart, Each, Those
<1>2. IsList(workers)
  <2> DEFINE kinds == {"worker"}
  <2>1. IsList(OfKinds(c, kinds))
    BY OfKindsIs DEF ContextFine
  <2>2. IsList(facts)
    BY <2>1
  <2> HIDE DEF facts
  <2> QED
    BY <2>2, ThoseIs DEF Those, Each
<1>3. \A f \in Range(c.facts) : f.kind = "worker" /\ f.path # "" => f \in Range(workers) /\ key(f) = f.path
  <2> DEFINE kinds == {"worker"}
  <2>1. IsList(OfKinds(c, kinds)) /\ \A f \in Range(c.facts) : f.kind \in kinds => f \in Range(OfKinds(c, kinds))
    BY OfKindsIs DEF ContextFine
  <2>2. IsList(facts) /\ \A f \in Range(c.facts) : f.kind = "worker" => f \in Range(facts)
    BY <2>1
  <2>3. \A f : f.path # "" => key(f) = f.path
    <3> SUFFICES ASSUME NEW f, f.path # "" PROVE key(f) = f.path
      OBVIOUS
    <3> DEFINE texts == <<f.path, f.command, f.service>>
    <3>1. texts[1] = f.path
      OBVIOUS
    <3>2. DOMAIN texts = 1 .. 3
      BY TripleIs
    <3>3. key(f) = Stated(texts)
      OBVIOUS
    <3> HIDE DEF texts, key
    <3> QED
      BY <3>1, <3>2, <3>3, StatedFirst
  <2> HIDE DEF facts, key
  <2> DEFINE of == [f \in Range(facts) |-> IF key(f) # "" THEN <<f>> ELSE <<>>]
  <2>4. workers = Over(facts, of)
    BY DEF Those, Each
  <2>5. \A f \in Range(facts) : (of[f] = <<f>> \/ of[f] = <<>>) /\ (key(f) # "" => of[f] = <<f>>) /\ <<f>> # <<>>
    OBVIOUS
  <2> HIDE DEF of, workers
  <2>6. \A f \in Range(facts) : of[f] # <<>> => f \in Range(Over(facts, of))
    BY <2>2, <2>5, ThoseIs
  <2> QED
    BY <2>2, <2>3, <2>4, <2>5, <2>6
<1> HIDE DEF workers, key
<1>4. \A f : IsList(joined(f)) /\ \A x \in Range(joined(f)) : NodeFine(x[2])
  <2> TAKE f
  <2> DEFINE Pairs(s) == IsList(s) /\ \A x \in Range(s) : NodeFine(x[2])
  <2>1. Pairs(<<>>) /\ \A k, n : NodeFine(n) => Pairs(<<<<k, n>>>>)
    <3>1. \A k, n : <<k, n>>[2] = n
      OBVIOUS
    <3> QED
      BY <3>1, OneIs
  <2>2. \A s, t : Pairs(s) /\ Pairs(t) => Pairs(s \o t)
    BY JoinIs
  <2> HIDE DEF Pairs
  <2>3. Pairs(file(f)) /\ Pairs(queue(f)) /\ Pairs(command(f)) /\ Pairs(service(f))
    BY <2>1, NodeIs DEF Given
  <2> HIDE DEF file, queue, command, service
  <2>4. Pairs(joined(f))
    BY <2>2, <2>3
  <2> QED
    BY <2>4 DEF Pairs
<1> HIDE DEF joined
<1>5. \A f : NodesFine(workerNode(f)) /\ (IdsIn(K, workerNode(f)) => <<"worker", key(f)>> \in K)
  BY NodesOf, NodeIs, IdsNode
<1>6. ASSUME NEW f
      PROVE  /\ NodesFine(joinedNodes(f))
             /\ IdsIn(K, joinedNodes(f)) => \A i \in DOMAIN joined(f) : joined(f)[i][2].id \in K
  <2>1. \A i \in DOMAIN joined(f) : NodeFine(joinedNodes(f)[i]) /\ joinedNodes(f)[i] = joined(f)[i][2]
    BY <1>4 DEF Range
  <2>2. joinedNodes(f) = [i \in DOMAIN joined(f) |-> joinedNodes(f)[i]]
    OBVIOUS
  <2>3. IsList(joined(f))
    BY <1>4
  <2> HIDE DEF joinedNodes
  <2>4. NodesFine(joinedNodes(f))
    BY <2>1, <2>2, <2>3, NodesMap
  <2>5. IdsIn(K, joinedNodes(f)) => \A i \in DOMAIN joined(f) : joinedNodes(f)[i].id \in K
    BY <2>2, <2>3, IdsMap
  <2> QED
    BY <2>1, <2>4, <2>5
<1> HIDE DEF workerNode, joinedNodes
<1>7. \A f : /\ NodesFine(workerNodes(f))
             /\ IdsIn(K, workerNodes(f)) => IdsIn(K, workerNode(f)) /\ IdsIn(K, joinedNodes(f))
  BY <1>5, <1>6, NodesJoin, IdsJoin DEF NodesFine
<1> HIDE DEF workerNodes
<1>8. NodesFine(nodes)
  BY <1>2, <1>7, NodesOver DEF Each
<1>9. \A f \in Range(workers) : IdsIn(K, workerNodes(f))
  <2>1. IdsIn(K, nodes)
    BY <1>1, <1>8, IdsPart DEF NodesFine
  <2>2. \A f : IsList(workerNodes(f))
    BY <1>7 DEF NodesFine
  <2> QED
    BY <1>2, <2>1, <2>2, IdsOver DEF Each
<1>10. \A f \in Range(workers) : <<"worker", key(f)>> \in K /\ \A i \in DOMAIN joined(f) : joined(f)[i][2].id \in K
  BY <1>5, <1>6, <1>7, <1>9
<1>11. \A f \in Range(workers) : EdgesFine(c, K, X, workerEdges(f))
  <2> SUFFICES ASSUME NEW f \in Range(workers) PROVE EdgesFine(c, K, X, workerEdges(f))
    OBVIOUS
  <2>1. \A i \in DOMAIN joined(f) : EdgeFine(c, K, X, workerEdges(f)[i])
    BY <1>10, EdgeIs
  <2>2. workerEdges(f) = [i \in DOMAIN joined(f) |-> workerEdges(f)[i]]
    OBVIOUS
  <2>3. IsList(joined(f))
    BY <1>4
  <2> HIDE DEF workerEdges
  <2> QED
    BY <2>1, <2>2, <2>3, EdgesMap
<1> HIDE DEF workerEdges
<1>12. EdgesFine(c, K, X, edges)
  BY <1>2, <1>11, EdgesOver DEF Each
<1>13. WorkersKnown(c, K)
  BY <1>3, <1>10 DEF WorkersKnown
<1> HIDE DEF nodes, edges, X
<1>99. PartFine(c, K, X, Part(nodes, edges))
  BY <1>8, <1>12, PartIs
<1> QED
  BY <1>1, <1>99, <1>13 DEF X

LEMMA DatabasePartFine ==
    ASSUME NEW c, ContextFine(c), NEW K, \A n \in DatabasePart(c).nodes : n.id \in K,
           RoutesKnown(c, K), WorkersKnown(c, K)
    PROVE  PartFine(c, K, {"database-access"}, DatabasePart(c))
<1> DEFINE X == {"database-access"}
           stores == OfKinds(c, {"database"})
           database(f) == <<Node(<<"database", f.name>>, "", FactEvidence(f))>>
           databases == Each(stores, database)
           places == Those(OfKinds(c, {"migration", "seed"}), LAMBDA f : f.path # "")
           place(f) == IF f.kind = "migration" THEN Node(<<"migration", f.path>>, f.path, FactEvidence(f))
                       ELSE FileNode(f.path, FactEvidence(f))
           command(f) == <<Node(<<"command", "setup", f.kind>>, "", FactEvidence(f))>>
           runner(f) == Each(Setup(c, IF f.kind = "migration" THEN "migrate" ELSE "seed"), LAMBDA s : command(f))
           sources == Readable(c, Those(c.files, LAMBDA f : IsSource(c, f.path)))
           accesses(f) == c.texts[f.path].accesses
           table(a) == <<"table", a.table>>
           e(f, a) == SourceEvidence(a.kind \o " " \o a.table, f.path)
           joined(source, kind, target, evidence) == Edge(source, kind, target, "database-access", evidence)
           there(f) == Those(OfKinds(c, {"route", "worker"}), LAMBDA x : x.path = f.path)
           unit(x) == <<IF x.kind = "route" THEN Route(x) ELSE <<"worker", x.path>>>>
           units(f) == Each(there(f), unit)
           placeNodes(f) == <<place(f)>> \o runner(f)
           tableNodes(f, a) == <<FileNode(f.path, {}), Node(table(a), "", e(f, a))>>
           sourceNodes(f) == Each(accesses(f), LAMBDA a : tableNodes(f, a))
           nodes == databases \o Each(places, placeNodes) \o Each(sources, sourceNodes)
           onDatabase(f, d) == <<joined(place(f).id, "depends_on", d.id, FactEvidence(f))>>
           runs(f, n) == <<joined(n.id, "runs", place(f).id, FactEvidence(f))>>
           placeEdges(f) == Each(databases, LAMBDA d : onDatabase(f, d)) \o Each(runner(f), LAMBDA n : runs(f, n))
           inDatabase(f, a, d) == <<joined(table(a), "contains", d.id, e(f, a))>>
           byFile(f, a) == <<joined(<<"file", f.path>>, a.kind, table(a), e(f, a))>>
           byUnit(f, a, u) == <<joined(u, a.kind, table(a), e(f, a))>>
           tableEdges(f, a) == Each(databases, LAMBDA d : inDatabase(f, a, d)) \o byFile(f, a)
                               \o Each(units(f), LAMBDA u : byUnit(f, a, u))
           sourceEdges(f) == Each(accesses(f), LAMBDA a : tableEdges(f, a))
           edges == Each(places, placeEdges) \o Each(sources, sourceEdges)
<1>1. DatabasePart(c) = Part(nodes, edges)
  BY DEF DatabasePart, Each, Those
<1>2. IsList(stores) /\ IsList(places) /\ \A f : IsList(Setup(c, IF f.kind = "migration" THEN "migrate" ELSE "seed"))
  <2> DEFINE kinds == {"migration", "seed"}
             facts == OfKinds(c, kinds)
             kind == {"database"}
  <2>1. IsList(facts) /\ IsList(OfKinds(c, kind))
    BY OfKindsIs DEF ContextFine
  <2>2. IsList(stores)
    BY <2>1
  <2>3. facts = OfKinds(c, {"migration", "seed"})
    OBVIOUS
  <2> HIDE DEF facts
  <2>4. IsList(places)
    BY <2>1, <2>3, ThoseIs DEF Those, Each
  <2>5. IsList(c.contract.setup)
    BY DEF ContextFine
  <2>6. \A name : IsList(Setup(c, name))
    BY <2>5, ThoseIs DEF Setup, Those, Each
  <2> QED
    BY <2>2, <2>4, <2>6
<1>3. /\ IsList(sources)
      /\ \A f \in Range(sources) : f.path # "" /\ IsList(accesses(f))
  <2> DEFINE code == Those(c.files, LAMBDA f : IsSource(c, f.path))
  <2>1. IsList(c.files)
    BY DEF ContextFine
  <2>2. IsList(code) /\ Range(code) \subseteq Range(c.files)
    BY <2>1, ThoseIs DEF Those, Each
  <2>3. sources = Readable(c, code)
    BY DEF Those, Each
  <2> HIDE DEF code, sources
  <2>4. IsList(sources) /\ \A f \in Range(sources) : f \in Range(c.files) /\ f.path \in DOMAIN c.texts
    BY <2>2, <2>3, ReadableIs
  <2> QED
    BY <2>4 DEF ContextFine
<1>4. \A f : IsList(there(f)) /\ (f.path # "" => \A x \in Range(there(f)) :
          IF x.kind = "route" THEN Route(x) \in K ELSE <<"worker", x.path>> \in K)
  <2> SUFFICES ASSUME NEW f
               PROVE  IsList(there(f)) /\ (f.path # "" => \A x \in Range(there(f)) :
                          IF x.kind = "route" THEN Route(x) \in K ELSE <<"worker", x.path>> \in K)
    OBVIOUS
  <2> DEFINE kinds == {"route", "worker"}
             facts == OfKinds(c, kinds)
             of == [x \in Range(facts) |-> IF x.path = f.path THEN <<x>> ELSE <<>>]
  <2>1. \A k \in kinds : k = "route" \/ k = "worker"
    OBVIOUS
  <2>2. there(f) = Over(facts, of)
    BY DEF Those, Each
  <2> HIDE DEF kinds
  <2>3. IsList(facts) /\ \A x \in Range(facts) : x \in Range(c.facts) /\ x.kind \in kinds
    BY OfKindsIs DEF ContextFine
  <2> HIDE DEF facts
  <2>4. \A x \in Range(facts) : (of[x] = <<x>> \/ of[x] = <<>>) /\ (of[x] # <<>> => x.path = f.path)
    OBVIOUS
  <2> HIDE DEF of, there
  <2>5. IsList(Over(facts, of)) /\ \A x \in Range(Over(facts, of)) : x \in Range(facts) /\ of[x] # <<>>
    BY <2>3, <2>4, ThoseIs
  <2> QED
    BY <2>1, <2>2, <2>3, <2>4, <2>5 DEF RoutesKnown, WorkersKnown
<1> HIDE DEF stores, places, sources, there
<1>5. /\ \A f : NodesFine(database(f)) /\ NodesFine(command(f))
      /\ \A f : NodeFine(place(f))
      /\ \A f, a : NodesFine(tableNodes(f, a))
             /\ (IdsIn(K, tableNodes(f, a)) => <<"file", f.path>> \in K /\ table(a) \in K)
  <2>1. \A f : NodesFine(database(f)) /\ NodesFine(command(f))
    BY NodesOf, NodeIs
  <2>2. \A f : NodeFine(place(f))
    BY NodeIs
  <2>3. ASSUME NEW f, NEW a
        PROVE  NodesFine(tableNodes(f, a))
               /\ (IdsIn(K, tableNodes(f, a)) => <<"file", f.path>> \in K /\ table(a) \in K)
    <3> DEFINE x == FileNode(f.path, {})
               y == Node(table(a), "", e(f, a))
    <3>1. NodeFine(x) /\ NodeFine(y)
      BY NodeIs
    <3>2. x.id = <<"file", f.path>> /\ y.id = table(a)
      BY DEF FileNode, Node
    <3>3. tableNodes(f, a) = <<x, y>>
      OBVIOUS
    <3> HIDE DEF x, y, tableNodes
    <3>4. NodesFine(<<x, y>>)
      BY <3>1, NodesOf
    <3>5. IdsIn(K, <<x, y>>) <=> x.id \in K /\ y.id \in K
      BY IdsOf
    <3> QED
      BY <3>2, <3>3, <3>4, <3>5
  <2> QED
    BY <2>1, <2>2, <2>3
<1> HIDE DEF database, command, place, tableNodes, table, e
<1>6. NodesFine(databases) /\ \A f : NodesFine(runner(f))
  BY <1>2, <1>5, NodesOver DEF Each
<1> HIDE DEF databases, runner
<1>7. \A f : /\ NodesFine(placeNodes(f))
             /\ IdsIn(K, placeNodes(f)) => place(f).id \in K /\ IdsIn(K, runner(f))
  <2> SUFFICES ASSUME NEW f
               PROVE  /\ NodesFine(placeNodes(f))
                      /\ IdsIn(K, placeNodes(f)) => place(f).id \in K /\ IdsIn(K, runner(f))
    OBVIOUS
  <2> DEFINE one == <<place(f)>>
  <2>1. NodesFine(one) /\ (IdsIn(K, one) => place(f).id \in K)
    BY <1>5, NodesOf, IdsOf
  <2> HIDE DEF one
  <2>2. NodesFine(one \o runner(f)) /\ (IdsIn(K, one \o runner(f)) => IdsIn(K, one) /\ IdsIn(K, runner(f)))
    BY <1>6, <2>1, NodesJoin, IdsJoin DEF NodesFine
  <2> QED
    BY <2>1, <2>2 DEF one
<1>8. \A f \in Range(sources) : NodesFine(sourceNodes(f))
  BY <1>3, <1>5, NodesOver DEF Each
<1>9. \A f \in Range(sources) : IdsIn(K, sourceNodes(f)) => \A a \in Range(accesses(f)) : IdsIn(K, tableNodes(f, a))
  <2>1. \A f \in Range(sources) : IsList(accesses(f))
    BY <1>3
  <2>2. \A f, a : IsList(tableNodes(f, a))
    BY <1>5 DEF NodesFine
  <2> HIDE DEF accesses
  <2> QED
    BY <2>1, <2>2, IdsOver DEF Each
<1> HIDE DEF placeNodes, sourceNodes, accesses
<1>10. NodesFine(Each(places, placeNodes)) /\ NodesFine(Each(sources, sourceNodes))
  BY <1>2, <1>3, <1>7, <1>8, NodesOver DEF Each
<1>11. NodesFine(nodes)
  BY <1>6, <1>10, NodesJoin DEF Each
<1>12. IdsIn(K, databases) /\ IdsIn(K, Each(places, placeNodes)) /\ IdsIn(K, Each(sources, sourceNodes))
  <2>1. IdsIn(K, nodes)
    BY <1>1, <1>11, IdsPart DEF NodesFine
  <2> QED
    BY <1>6, <1>10, <2>1, IdsJoin, JoinIs DEF NodesFine, Each
<1>13. /\ \A f \in Range(places) : IdsIn(K, placeNodes(f))
       /\ \A f \in Range(sources) : IdsIn(K, sourceNodes(f))
  <2>1. /\ IsList(places) /\ IsList(sources)
        /\ \A f : IsList(placeNodes(f))
        /\ \A f \in Range(sources) : IsList(sourceNodes(f))
    BY <1>2, <1>3, <1>7, <1>8 DEF NodesFine
  <2>2. \A f \in Range(places) : IdsIn(K, placeNodes(f))
    BY <1>12, <2>1, IdsOver DEF Each
  <2>3. \A f \in Range(sources) : IdsIn(K, sourceNodes(f))
    BY <1>12, <2>1, IdsOver DEF Each
  <2> QED
    BY <2>2, <2>3
<1>14. /\ \A d \in Range(databases) : d.id \in K
       /\ \A f \in Range(places) : place(f).id \in K /\ \A n \in Range(runner(f)) : n.id \in K
  BY <1>7, <1>12, <1>13 DEF IdsIn
<1>15. \A f \in Range(sources) : \A a \in Range(accesses(f)) : <<"file", f.path>> \in K /\ table(a) \in K
  BY <1>5, <1>9, <1>13
<1>16. \A f : IsList(units(f)) /\ (f.path # "" => \A u \in Range(units(f)) : u \in K)
  <2> SUFFICES ASSUME NEW f PROVE IsList(units(f)) /\ (f.path # "" => \A u \in Range(units(f)) : u \in K)
    OBVIOUS
  <2> DEFINE id(x) == IF x.kind = "route" THEN Route(x) ELSE <<"worker", x.path>>
  <2>1. \A x : unit(x) = <<id(x)>>
    OBVIOUS
  <2>2. \A x \in Range(there(f)) : f.path # "" => id(x) \in K
    BY <1>4
  <2> HIDE DEF unit, id
  <2>3. \A x : IsList(unit(x)) /\ Range(unit(x)) = {id(x)}
    BY <2>1, OneIs
  <2> DEFINE of == [x \in Range(there(f)) |-> unit(x)]
  <2>4. units(f) = Over(there(f), of)
    BY DEF Each
  <2>5. \A x \in Range(there(f)) : of[x] = unit(x)
    OBVIOUS
  <2> HIDE DEF of, units
  <2>6. /\ IsList(Over(there(f), of))
        /\ \A u : u \in Range(Over(there(f), of)) <=> \E x \in Range(there(f)) : u \in Range(of[x])
    <3>1. IsList(there(f)) /\ \A x \in Range(there(f)) : IsList(of[x])
      BY <1>4, <2>3, <2>5
    <3> QED
      BY <3>1, OverIs
  <2>7. ASSUME NEW u \in Range(units(f)), f.path # ""
        PROVE  u \in K
    <3>1. PICK x \in Range(there(f)) : u \in Range(of[x])
      BY <2>4, <2>6, <2>7
    <3>2. u = id(x)
      BY <2>3, <2>5, <3>1
    <3> QED
      BY <2>2, <2>7, <3>2
  <2> QED
    BY <2>4, <2>6, <2>7
<1> HIDE DEF units
<1>17. ASSUME NEW f \in Range(places)
       PROVE  EdgesFine(c, K, X, placeEdges(f))
  <2>1. \A d \in Range(databases) : EdgesFine(c, K, X, onDatabase(f, d))
    BY <1>14, EdgesOf, EdgeIs
  <2>2. \A n \in Range(runner(f)) : EdgesFine(c, K, X, runs(f, n))
    BY <1>14, EdgesOf, EdgeIs
  <2>3. IsList(databases) /\ IsList(runner(f))
    BY <1>6 DEF NodesFine
  <2> HIDE DEF onDatabase, runs
  <2>4. EdgesFine(c, K, X, Each(databases, LAMBDA d : onDatabase(f, d)))
    BY <2>1, <2>3, EdgesOver DEF Each
  <2>5. EdgesFine(c, K, X, Each(runner(f), LAMBDA n : runs(f, n)))
    BY <2>2, <2>3, EdgesOver DEF Each
  <2> QED
    BY <2>4, <2>5, EdgesJoin DEF Each
<1>18. ASSUME NEW f \in Range(sources)
       PROVE  EdgesFine(c, K, X, sourceEdges(f))
  <2>1. ASSUME NEW a \in Range(accesses(f))
        PROVE  EdgesFine(c, K, X, tableEdges(f, a))
    <3>1. \A d \in Range(databases) : EdgesFine(c, K, X, inDatabase(f, a, d))
      BY <1>14, <1>15, EdgesOf, EdgeIs
    <3>2. EdgesFine(c, K, X, byFile(f, a))
      BY <1>15, EdgesOf, EdgeIs
    <3>3. IsList(units(f)) /\ \A u \in Range(units(f)) : u \in K
      BY <1>3, <1>16
    <3>4. \A u \in Range(units(f)) : EdgesFine(c, K, X, byUnit(f, a, u))
      BY <1>15, <3>3, EdgesOf, EdgeIs
    <3>5. IsList(databases)
      BY <1>6 DEF NodesFine
    <3> HIDE DEF inDatabase, byFile, byUnit
    <3>6. EdgesFine(c, K, X, Each(databases, LAMBDA d : inDatabase(f, a, d)))
      BY <3>1, <3>5, EdgesOver DEF Each
    <3>7. EdgesFine(c, K, X, Each(units(f), LAMBDA u : byUnit(f, a, u)))
      BY <3>3, <3>4, EdgesOver DEF Each
    <3> QED
      BY <3>2, <3>6, <3>7, EdgesJoin DEF Each
  <2> HIDE DEF tableEdges
  <2>2. IsList(accesses(f))
    BY <1>3 DEF accesses
  <2> QED
    BY <2>1, <2>2, EdgesOver DEF Each
<1> HIDE DEF placeEdges, sourceEdges
<1>19. EdgesFine(c, K, X, Each(places, placeEdges)) /\ EdgesFine(c, K, X, Each(sources, sourceEdges))
  BY <1>2, <1>3, <1>17, <1>18, EdgesOver DEF Each
<1>20. EdgesFine(c, K, X, edges)
  BY <1>19, EdgesJoin DEF Each
<1> HIDE DEF nodes, edges, X
<1>99. PartFine(c, K, X, Part(nodes, edges))
  BY <1>11, <1>20, PartIs
<1> QED
  BY <1>1, <1>99, Zenon DEF X

LEMMA TestPartFine ==
    ASSUME NEW c, ContextFine(c), NEW K, \A n \in TestPart(c).nodes : n.id \in K
    PROVE  PartFine(c, K, {"test-relations:naming", "test-relations:import"}, TestPart(c))
<1> DEFINE X == {"test-relations:naming", "test-relations:import"}
           tests == Those(c.files, LAMBDA f : f.test)
           sources == {f.path : f \in {g \in Range(c.files) : ~g.test}}
           named(f) == IF f.named \in sources THEN <<f.named>> ELSE <<>>
           imported(f) == IF f.path \in DOMAIN c.texts
                          THEN Those(c.texts[f.path].imports, LAMBDA to : to \in sources) ELSE <<>>
           tested(f, to, extractor, summary) ==
               Edge(<<"test", f.path>>, "tests", <<"file", to>>, extractor, SourceEvidence(summary, f.path))
           testNode(f) == <<Node(<<"test", f.path>>, f.path, {})>>
           source(to) == <<FileNode(to, {})>>
           sourceNodes(f) == Each(named(f) \o imported(f), source)
           testNodes(f) == testNode(f) \o sourceNodes(f)
           nodes == Each(tests, testNodes)
           byName(f, to) == <<tested(f, to, "test-relations:naming", "Conventional test filename")>>
           byImport(f, to) == <<tested(f, to, "test-relations:import", "Test import " \o to)>>
           testEdges(f) == Each(named(f), LAMBDA to : byName(f, to)) \o Each(imported(f), LAMBDA to : byImport(f, to))
           edges == Each(tests, testEdges)
<1>1. TestPart(c) = Part(nodes, edges)
  BY Zenon DEF TestPart, Each, Those
<1>2. IsList(tests) /\ \A f : IsList(named(f)) /\ IsList(imported(f))
  <2>1. IsList(tests)
    <3>1. IsList(c.files)
      BY DEF ContextFine
    <3> QED
      BY <3>1, ThoseIs DEF Those, Each
  <2>2. \A f : IsList(named(f))
    BY OneIs
  <2>3. ASSUME NEW f, f.path \in DOMAIN c.texts
        PROVE  IsList(Those(c.texts[f.path].imports, LAMBDA to : to \in sources))
    <3>1. IsList(c.texts[f.path].imports)
      BY <2>3 DEF ContextFine
    <3> HIDE DEF sources
    <3> QED
      BY <3>1, ThoseIs DEF Those, Each
  <2>4. \A f : IsList(imported(f))
    BY <2>3, OneIs DEF Those, Each
  <2> QED
    BY <2>1, <2>2, <2>4
<1> HIDE DEF tests, named, imported
<1>3. \A f : IsList(named(f) \o imported(f)) /\ Range(named(f) \o imported(f)) = Range(named(f)) \cup Range(imported(f))
  BY <1>2, JoinIs
<1>4. /\ \A f : NodesFine(testNode(f)) /\ (IdsIn(K, testNode(f)) => <<"test", f.path>> \in K)
      /\ \A to : NodesFine(source(to)) /\ (IdsIn(K, source(to)) => <<"file", to>> \in K)
  BY NodesOf, NodeIs, IdsNode, IdsFile
<1> HIDE DEF testNode, source
<1>5. \A f : NodesFine(sourceNodes(f))
  BY <1>3, <1>4, NodesOver DEF Each
<1>6. \A f : IdsIn(K, sourceNodes(f)) => \A to \in Range(named(f) \o imported(f)) : IdsIn(K, source(to))
  <2> SUFFICES ASSUME NEW f, IdsIn(K, sourceNodes(f)) PROVE \A to \in Range(named(f) \o imported(f)) : IdsIn(K, source(to))
    OBVIOUS
  <2> DEFINE list == named(f) \o imported(f)
  <2>1. \A to : IsList(source(to))
    BY <1>4 DEF NodesFine
  <2>2. IsList(list) /\ IdsIn(K, Each(list, source))
    BY <1>3 DEF Each
  <2> HIDE DEF list
  <2>3. \A to \in Range(list) : IdsIn(K, source(to))
    BY <2>1, <2>2, IdsOver DEF Each
  <2> QED
    BY <2>3 DEF list
<1> HIDE DEF sourceNodes
<1>7. \A f : /\ NodesFine(testNodes(f))
             /\ IdsIn(K, testNodes(f)) => IdsIn(K, testNode(f)) /\ IdsIn(K, sourceNodes(f))
  BY <1>4, <1>5, NodesJoin, IdsJoin DEF NodesFine
<1> HIDE DEF testNodes
<1>8. NodesFine(nodes)
  BY <1>2, <1>7, NodesOver DEF Each
<1>9. \A f \in Range(tests) : IdsIn(K, testNodes(f))
  <2>1. IdsIn(K, nodes)
    BY <1>1, <1>8, IdsPart DEF NodesFine
  <2>2. IsList(tests) /\ \A f : IsList(testNodes(f))
    BY <1>2, <1>7 DEF NodesFine
  <2> QED
    BY <2>1, <2>2, IdsOver DEF Each
<1>10. \A f \in Range(tests) :
           /\ <<"test", f.path>> \in K
           /\ \A to \in Range(named(f)) : <<"file", to>> \in K
           /\ \A to \in Range(imported(f)) : <<"file", to>> \in K
  BY <1>3, <1>4, <1>6, <1>7, <1>9
<1>11. ASSUME NEW f \in Range(tests)
       PROVE  EdgesFine(c, K, X, testEdges(f))
  <2>1. \A to \in Range(named(f)) : EdgesFine(c, K, X, byName(f, to))
    BY <1>10, EdgesOf, EdgeIs
  <2>2. \A to \in Range(imported(f)) : EdgesFine(c, K, X, byImport(f, to))
    BY <1>10, EdgesOf, EdgeIs
  <2>3. IsList(named(f)) /\ IsList(imported(f))
    BY <1>2
  <2> HIDE DEF byName, byImport
  <2>4. EdgesFine(c, K, X, Each(named(f), LAMBDA to : byName(f, to)))
    BY <2>1, <2>3, EdgesOver DEF Each
  <2>5. EdgesFine(c, K, X, Each(imported(f), LAMBDA to : byImport(f, to)))
    BY <2>2, <2>3, EdgesOver DEF Each
  <2> QED
    BY <2>4, <2>5, EdgesJoin DEF Each
<1> HIDE DEF testEdges
<1>12. EdgesFine(c, K, X, edges)
  BY <1>2, <1>11, EdgesOver DEF Each
<1> HIDE DEF nodes, edges, X
<1>99. PartFine(c, K, X, Part(nodes, edges))
  BY <1>8, <1>12, PartIs
<1> QED
  BY <1>1, <1>99, Zenon DEF X

LEMMA GeneratedPartFine ==
    ASSUME NEW c, ContextFine(c), NEW K, \A n \in GeneratedPart(c).nodes : n.id \in K
    PROVE  PartFine(c, K, {"generated-paths"}, GeneratedPart(c))
<1> DEFINE X == {"generated-paths"}
           facts == Those(OfKinds(c, {"generated"}), LAMBDA f : f.path # "")
           e == ContractEvidence("Repository contract generated path")
           artifact(path) == <<"generated_artifact", path>>
           command(text) == <<"command", "generate", text>>
           unsafe(source, path, evidence) == Edge(source, "unsafe_to_edit", <<"file", path>>, "generated-paths", evidence)
           generates(source, path, evidence) == Edge(source, "generates", artifact(path), "generated-paths", evidence)
           of(path, evidence) == <<Node(artifact(path), path, evidence), FileNode(path, evidence)>>
           by(text, evidence) == Given(text, <<Node(command(text), "", evidence)>>)
           factNodes(f) == of(f.path, FactEvidence(f)) \o by(f.command, FactEvidence(f))
           from(p) == <<FileNode(p, e)>>
           sourceNodes(g) == Each(g.sources, from)
           artifactNodes(g) == of(g.pattern, e) \o by(g.command, e) \o sourceNodes(g)
           unsafeNodes(p) == <<Repository(e), FileNode(p, e)>>
           nodes == Each(facts, factNodes) \o Each(c.contract.generated, artifactNodes) \o Each(c.contract.unsafe, unsafeNodes)
           one(source, path, evidence) == <<unsafe(source, path, evidence)>>
           byCommand(text, path, evidence) == Given(text, <<generates(command(text), path, evidence)>>)
           factEdges(f) == one(artifact(f.path), f.path, FactEvidence(f)) \o byCommand(f.command, f.path, FactEvidence(f))
           bySource(p, g) == <<generates(<<"file", p>>, g.pattern, e)>>
           artifactEdges(g) == one(artifact(g.pattern), g.pattern, e) \o byCommand(g.command, g.pattern, e)
                               \o Each(g.sources, LAMBDA p : bySource(p, g))
           unsafeEdges(p) == one(<<"repository", ".">>, p, e)
           edges == Each(facts, factEdges) \o Each(c.contract.generated, artifactEdges) \o Each(c.contract.unsafe, unsafeEdges)
<1>1. GeneratedPart(c) = Part(nodes, edges)
  BY DEF GeneratedPart, Each, Those
<1>2. /\ IsList(facts) /\ IsList(c.contract.generated) /\ IsList(c.contract.unsafe)
      /\ \A g \in Range(c.contract.generated) : IsList(g.sources)
  <2> DEFINE kinds == {"generated"}
             all == OfKinds(c, kinds)
  <2>1. IsList(all)
    BY OfKindsIs DEF ContextFine
  <2>2. all = OfKinds(c, {"generated"})
    OBVIOUS
  <2> HIDE DEF all
  <2>3. IsList(facts)
    BY <2>1, <2>2, ThoseIs DEF Those, Each
  <2> HIDE DEF facts
  <2> QED
    BY <2>3 DEF ContextFine
<1> HIDE DEF facts, e
<1>3. /\ \A path, ev : /\ NodesFine(of(path, ev))
                       /\ IdsIn(K, of(path, ev)) => artifact(path) \in K /\ <<"file", path>> \in K
      /\ \A text, ev : /\ NodesFine(by(text, ev))
                       /\ IdsIn(K, by(text, ev)) => (text # "" => command(text) \in K)
      /\ \A p : NodesFine(from(p)) /\ (IdsIn(K, from(p)) => <<"file", p>> \in K)
      /\ \A p : /\ NodesFine(unsafeNodes(p))
                /\ IdsIn(K, unsafeNodes(p)) => <<"repository", ".">> \in K /\ <<"file", p>> \in K
  <2>1. ASSUME NEW path, NEW ev
        PROVE  /\ NodesFine(of(path, ev))
               /\ IdsIn(K, of(path, ev)) => artifact(path) \in K /\ <<"file", path>> \in K
    <3> DEFINE x == Node(artifact(path), path, ev)
               y == FileNode(path, ev)
    <3>1. NodeFine(x) /\ NodeFine(y)
      BY NodeIs
    <3>2. x.id = artifact(path) /\ y.id = <<"file", path>>
      BY IdsOf
    <3>3. of(path, ev) = <<x, y>>
      OBVIOUS
    <3> HIDE DEF x, y, of
    <3>4. NodesFine(<<x, y>>)
      BY <3>1, NodesOf
    <3>5. IdsIn(K, <<x, y>>) <=> x.id \in K /\ y.id \in K
      BY IdsOf
    <3> QED
      BY <3>2, <3>3, <3>4, <3>5
  <2>2. \A text, ev : NodesFine(by(text, ev)) /\ (IdsIn(K, by(text, ev)) => (text # "" => command(text) \in K))
    BY NodesOf, NodeIs, IdsNode DEF Given
  <2>3. \A p : NodesFine(from(p)) /\ (IdsIn(K, from(p)) => <<"file", p>> \in K)
    BY NodesOf, NodeIs, IdsFile
  <2>4. ASSUME NEW p
        PROVE  /\ NodesFine(unsafeNodes(p))
               /\ IdsIn(K, unsafeNodes(p)) => <<"repository", ".">> \in K /\ <<"file", p>> \in K
    <3> DEFINE x == Repository(e)
               y == FileNode(p, e)
    <3>1. NodeFine(x) /\ NodeFine(y)
      BY NodeIs
    <3>2. x.id = <<"repository", ".">> /\ y.id = <<"file", p>>
      BY IdsOf
    <3>3. unsafeNodes(p) = <<x, y>>
      OBVIOUS
    <3> HIDE DEF x, y, unsafeNodes
    <3>4. NodesFine(<<x, y>>)
      BY <3>1, NodesOf
    <3>5. IdsIn(K, <<x, y>>) <=> x.id \in K /\ y.id \in K
      BY IdsOf
    <3> QED
      BY <3>2, <3>3, <3>4, <3>5
  <2> QED
    BY <2>1, <2>2, <2>3, <2>4
<1> HIDE DEF of, by, from, unsafeNodes, artifact, command
<1>4. \A f : /\ NodesFine(factNodes(f))
             /\ IdsIn(K, factNodes(f)) => IdsIn(K, of(f.path, FactEvidence(f))) /\ IdsIn(K, by(f.command, FactEvidence(f)))
  BY <1>3, NodesJoin, IdsJoin DEF NodesFine
<1>5. ASSUME NEW g \in Range(c.contract.generated)
      PROVE  /\ NodesFine(artifactNodes(g))
             /\ IdsIn(K, artifactNodes(g)) =>
                    /\ artifact(g.pattern) \in K /\ <<"file", g.pattern>> \in K
                    /\ g.command # "" => command(g.command) \in K
                    /\ \A p \in Range(g.sources) : <<"file", p>> \in K
  <2>1. IsList(g.sources)
    BY <1>2
  <2>2. NodesFine(sourceNodes(g))
    BY <1>3, <2>1, NodesOver DEF Each
  <2>3. IdsIn(K, sourceNodes(g)) => \A p \in Range(g.sources) : IdsIn(K, from(p))
    <3>1. \A p : IsList(from(p))
      BY <1>3 DEF NodesFine
    <3> QED
      BY <2>1, <3>1, IdsOver DEF Each
  <2> HIDE DEF sourceNodes
  <2>4. NodesFine(artifactNodes(g))
    BY <1>3, <2>2, NodesJoin
  <2>5. IdsIn(K, artifactNodes(g)) => IdsIn(K, of(g.pattern, e)) /\ IdsIn(K, by(g.command, e)) /\ IdsIn(K, sourceNodes(g))
    BY <1>3, <2>2, IdsJoin, JoinIs DEF NodesFine
  <2> QED
    BY <1>3, <2>3, <2>4, <2>5
<1> HIDE DEF factNodes, artifactNodes
<1>6. /\ NodesFine(Each(facts, factNodes)) /\ NodesFine(Each(c.contract.generated, artifactNodes))
      /\ NodesFine(Each(c.contract.unsafe, unsafeNodes))
  BY <1>2, <1>3, <1>4, <1>5, NodesOver DEF Each
<1>7. NodesFine(nodes)
  BY <1>6, NodesJoin DEF Each
<1>8. /\ IdsIn(K, Each(facts, factNodes)) /\ IdsIn(K, Each(c.contract.generated, artifactNodes))
      /\ IdsIn(K, Each(c.contract.unsafe, unsafeNodes))
  <2>1. IdsIn(K, nodes)
    BY <1>1, <1>7, IdsPart DEF NodesFine
  <2> QED
    BY <1>6, <2>1, IdsJoin, JoinIs DEF NodesFine, Each
<1>9. /\ \A f \in Range(facts) : IdsIn(K, factNodes(f))
      /\ \A g \in Range(c.contract.generated) : IdsIn(K, artifactNodes(g))
      /\ \A p \in Range(c.contract.unsafe) : IdsIn(K, unsafeNodes(p))
  <2>1. /\ IsList(facts) /\ IsList(c.contract.generated) /\ IsList(c.contract.unsafe)
        /\ \A f : IsList(factNodes(f)) /\ IsList(unsafeNodes(f))
        /\ \A g \in Range(c.contract.generated) : IsList(artifactNodes(g))
    BY <1>2, <1>3, <1>4, <1>5 DEF NodesFine
  <2>2. \A f \in Range(facts) : IdsIn(K, factNodes(f))
    BY <1>8, <2>1, IdsOver DEF Each
  <2>3. \A g \in Range(c.contract.generated) : IdsIn(K, artifactNodes(g))
    BY <1>8, <2>1, IdsOver DEF Each
  <2>4. \A p \in Range(c.contract.unsafe) : IdsIn(K, unsafeNodes(p))
    BY <1>8, <2>1, IdsOver DEF Each
  <2> QED
    BY <2>2, <2>3, <2>4
<1>10. /\ \A f \in Range(facts) : /\ artifact(f.path) \in K /\ <<"file", f.path>> \in K
                                  /\ f.command # "" => command(f.command) \in K
       /\ \A g \in Range(c.contract.generated) :
              /\ artifact(g.pattern) \in K /\ <<"file", g.pattern>> \in K
              /\ g.command # "" => command(g.command) \in K
              /\ \A p \in Range(g.sources) : <<"file", p>> \in K
       /\ \A p \in Range(c.contract.unsafe) : <<"repository", ".">> \in K /\ <<"file", p>> \in K
  BY <1>3, <1>4, <1>5, <1>9
<1>11. /\ \A source, path, ev : source \in K /\ <<"file", path>> \in K => EdgesFine(c, K, X, one(source, path, ev))
       /\ \A text, path, ev : (text # "" => command(text) \in K) /\ artifact(path) \in K
                              => EdgesFine(c, K, X, byCommand(text, path, ev))
       /\ \A p, g : <<"file", p>> \in K /\ artifact(g.pattern) \in K => EdgesFine(c, K, X, bySource(p, g))
  <2>1. \A source, path, ev : source \in K /\ <<"file", path>> \in K => EdgesFine(c, K, X, one(source, path, ev))
    BY EdgesOf, EdgeIs
  <2>2. \A text, path, ev : (text # "" => command(text) \in K) /\ artifact(path) \in K
                              => EdgesFine(c, K, X, byCommand(text, path, ev))
    BY EdgesOf, EdgeIs DEF Given
  <2>3. \A p, g : <<"file", p>> \in K /\ artifact(g.pattern) \in K => EdgesFine(c, K, X, bySource(p, g))
    BY EdgesOf, EdgeIs
  <2> QED
    BY <2>1, <2>2, <2>3
<1> HIDE DEF one, byCommand, bySource
<1>12. \A f \in Range(facts) : EdgesFine(c, K, X, factEdges(f))
  BY <1>10, <1>11, EdgesJoin
<1>13. ASSUME NEW g \in Range(c.contract.generated)
       PROVE  EdgesFine(c, K, X, artifactEdges(g))
  <2>1. IsList(g.sources)
    BY <1>2
  <2>2. \A p \in Range(g.sources) : EdgesFine(c, K, X, bySource(p, g))
    BY <1>10, <1>11
  <2>3. EdgesFine(c, K, X, Each(g.sources, LAMBDA p : bySource(p, g)))
    BY <2>1, <2>2, EdgesOver DEF Each
  <2>4. EdgesFine(c, K, X, one(artifact(g.pattern), g.pattern, e)) /\ EdgesFine(c, K, X, byCommand(g.command, g.pattern, e))
    BY <1>10, <1>11
  <2> QED
    BY <2>3, <2>4, EdgesJoin DEF Each
<1>14. \A p \in Range(c.contract.unsafe) : EdgesFine(c, K, X, unsafeEdges(p))
  BY <1>10, <1>11
<1> HIDE DEF factEdges, artifactEdges, unsafeEdges
<1>15. /\ EdgesFine(c, K, X, Each(facts, factEdges)) /\ EdgesFine(c, K, X, Each(c.contract.generated, artifactEdges))
       /\ EdgesFine(c, K, X, Each(c.contract.unsafe, unsafeEdges))
  BY <1>2, <1>12, <1>13, <1>14, EdgesOver DEF Each
<1>16. EdgesFine(c, K, X, edges)
  BY <1>15, EdgesJoin DEF Each
<1> HIDE DEF nodes, edges, X
<1>99. PartFine(c, K, X, Part(nodes, edges))
  BY <1>7, <1>16, PartIs
<1> QED
  BY <1>1, <1>99, Zenon DEF X

LEMMA ByTextIs ==
    ASSUME NEW commands, IsList(commands)
    PROVE  \A t \in DOMAIN ByText(commands) : \E x \in Range(commands) : ByText(commands)[t] = x.id
<1> SUFFICES ASSUME NEW t \in DOMAIN ByText(commands) PROVE \E x \in Range(commands) : ByText(commands)[t] = x.id
  OBVIOUS
<1> DEFINE n == Len(commands)
           last(i) == commands[i].text = t /\ \A j \in i + 1 .. Len(commands) : commands[j].text # t
           T == {k \in Nat : \E i \in DOMAIN commands : k = n - i /\ commands[i].text = t}
<1>1. n \in Nat /\ DOMAIN commands = 1 .. n
  BY ListIs
<1>2. PICK i \in DOMAIN commands : commands[i].text = t
  BY DEF ByText, Range
<1>3. n - i \in T
  BY <1>1, <1>2
<1>4. PICK k \in T : \A l \in T : k <= l
  <2>1. T \subseteq Nat
    OBVIOUS
  <2> HIDE DEF T
  <2> QED
    BY <1>3, <2>1, LeastOf
<1>5. PICK h \in DOMAIN commands : k = n - h /\ commands[h].text = t
  BY <1>4
<1>6. ASSUME NEW j \in h + 1 .. n, commands[j].text = t
      PROVE  FALSE
  <2>1. j \in DOMAIN commands /\ n - j \in Nat /\ n - j < k
    BY <1>1, <1>5, <1>6
  <2>2. n - j \in T
    BY <1>6, <2>1
  <2> QED
    BY <1>1, <1>4, <1>5, <2>1, <2>2
<1>7. last(h)
  BY <1>5, <1>6
<1>8. ByText(commands)[t] = commands[CHOOSE m \in DOMAIN commands : last(m)].id
  BY DEF ByText
<1> HIDE DEF last
<1>9. (CHOOSE m \in DOMAIN commands : last(m)) \in DOMAIN commands
  BY <1>5, <1>7
<1> QED
  BY <1>8, <1>9 DEF Range

\* The commands, jobs and documents that a scan and a contract refer to.
LEMMA ScannedIs ==
    ASSUME NEW c, ContextFine(c)
    PROVE  /\ IsList(ScannedCommands(c)) /\ \A x \in Range(ScannedCommands(c)) : IsList(x.mentions)
           /\ IsList(SetupCommands(c))
<1> DEFINE kinds == {"command"}
           all == OfKinds(c, kinds)
           facts == Those(all, LAMBDA f : f.command # "")
           command(f) == [text |-> f.command, mentions |-> f.mentions, evidence |-> FactEvidence(f),
                          id |-> <<"command", "command", Stated(<<f.name, f.command>>), ".">>]
           one(f) == <<command(f)>>
           of == [f \in Range(facts) |-> one(f)]
<1>1. IsList(all) /\ Range(all) \subseteq Range(c.facts)
  BY OfKindsIs DEF ContextFine
<1>2. all = OfKinds(c, {"command"})
  OBVIOUS
<1> HIDE DEF all
<1>3. IsList(facts) /\ Range(facts) \subseteq Range(all)
  BY <1>1, ThoseIs DEF Those, Each
<1>4. ScannedCommands(c) = Over(facts, of)
  BY <1>2 DEF ScannedCommands, Each, Those
<1> HIDE DEF facts
<1>5. \A f \in Range(facts) : of[f] = one(f)
  OBVIOUS
<1>6. \A f : one(f) = <<command(f)>> /\ command(f).mentions = f.mentions
  OBVIOUS
<1> HIDE DEF of, one, command
<1>7. \A f : IsList(one(f)) /\ Range(one(f)) = {command(f)}
  BY <1>6, OneIs
<1>8. /\ IsList(Over(facts, of))
      /\ \A x : x \in Range(Over(facts, of)) <=> \E f \in Range(facts) : x \in Range(of[f])
  <2>1. \A f \in Range(facts) : IsList(of[f])
    BY <1>5, <1>7
  <2> QED
    BY <1>3, <2>1, OverIs
<1>9. ASSUME NEW x \in Range(ScannedCommands(c))
      PROVE  IsList(x.mentions)
  <2>1. PICK f \in Range(facts) : x \in Range(of[f])
    BY <1>4, <1>8, <1>9
  <2>2. x = command(f) /\ f \in Range(c.facts)
    BY <1>1, <1>3, <1>5, <1>7, <2>1
  <2>3. IsList(f.mentions)
    BY <2>2 DEF ContextFine
  <2> QED
    BY <1>6, <2>2, <2>3
<1>10. IsList(SetupCommands(c))
  <2> DEFINE setup(s) == <<[text |-> s.command, mentions |-> <<>>, id |-> <<"command", "setup", s.name>>,
                            evidence |-> ContractEvidence("Repository contract reference")]>>
             by == [s \in Range(c.contract.setup) |-> setup(s)]
  <2>1. SetupCommands(c) = Over(c.contract.setup, by)
    BY DEF SetupCommands, Each
  <2>2. \A s : IsList(setup(s))
    BY OneIs
  <2>3. \A s \in Range(c.contract.setup) : by[s] = setup(s)
    OBVIOUS
  <2> HIDE DEF setup, by
  <2>4. \A s \in Range(c.contract.setup) : IsList(by[s])
    BY <2>2, <2>3
  <2>5. IsList(c.contract.setup)
    BY DEF ContextFine
  <2> QED
    BY <2>1, <2>4, <2>5, OverIs
<1> QED
  BY <1>4, <1>8, <1>9, <1>10

LEMMA ReferencePartFine ==
    ASSUME NEW c, ContextFine(c), NEW K, \A n \in ReferencePart(c).nodes : n.id \in K
    PROVE  PartFine(c, K, {"reference-index"}, ReferencePart(c))
<1> DEFINE X == {"reference-index"}
           scanned == ScannedCommands(c)
           setup == SetupCommands(c)
           known == ByText(scanned \o setup)
           joined(source, kind, target, evidence) == Edge(source, kind, target, "reference-index", evidence)
           mentioned(x) == Those(x.mentions, LAMBDA p : p \in Paths(c))
           workflows == Those(OfKinds(c, {"workflow"}), LAMBDA f : f.path # "")
           job(f, j) == <<[path |-> f.path, id |-> j.id, commands |-> j.commands, evidence |-> FactEvidence(f)]>>
           jobsOf(f) == Each(f.jobs, LAMBDA j : job(f, j))
           jobs == Each(workflows, jobsOf)
           run(j, text) == IF text \in DOMAIN ByText(scanned) THEN ByText(scanned)[text]
                           ELSE <<"command", "ci", j.path, j.id, text>>
           e == ContractEvidence("Repository contract reference")
           documents == Those(OfKinds(c, {"document", "instruction"}), LAMBDA f : f.path # "")
           document(f) == <<IF f.kind = "document" THEN "document" ELSE "agent_instruction", f.path>>
           said(f) == IF f.path \in DOMAIN c.texts THEN c.texts[f.path].mentions ELSE <<>>
           saidFiles(f) == Those(said(f), LAMBDA t : t \in Paths(c))
           saidCommands(f) == Those(said(f), LAMBDA t : t \in DOMAIN known)
           at(f, t) == SourceEvidence("Document reference " \o t, f.path)
           command(x) == <<Node(x.id, "", x.evidence)>>
           mention(p) == <<FileNode(p, {})>>
           mentions(x) == Each(mentioned(x), mention)
           commandNodes(x) == command(x) \o mentions(x)
           jobNode(j) == <<Node(<<"ci_job", j.path, j.id>>, j.path, j.evidence)>>
           runNode(j, t) == <<Node(run(j, t), "", j.evidence)>>
           runNodes(j) == Each(j.commands, LAMBDA t : runNode(j, t))
           jobNodes(j) == jobNode(j) \o runNodes(j)
           checkNode(k) == <<Node(<<"verification_check", k.id>>, "", e), Node(<<"command", "verification", k.id>>, "", e)>>
           pathNode(p) == <<FileNode(p, e)>>
           pathNodes(k) == Each(k.paths, pathNode)
           checkNodes(k) == checkNode(k) \o pathNodes(k)
           documentNode(f) == <<Node(document(f), f.path, FactEvidence(f))>>
           saidNodes(f) == Each(saidFiles(f), mention)
           documentNodes(f) == documentNode(f) \o saidNodes(f)
           nodes == Each(scanned, commandNodes) \o Each(jobs, jobNodes) \o Each(setup, command)
                    \o Each(c.contract.checks, checkNodes) \o Each(documents, documentNodes)
           mentionEdge(x, p) == <<joined(x.id, "references", <<"file", p>>, x.evidence)>>
           commandEdges(x) == Each(mentioned(x), LAMBDA p : mentionEdge(x, p))
           runEdge(j, t) == <<joined(<<"ci_job", j.path, j.id>>, "runs", run(j, t), j.evidence)>>
           jobEdges(j) == Each(j.commands, LAMBDA t : runEdge(j, t))
           checkEdge(k) == <<joined(<<"verification_check", k.id>>, "runs", <<"command", "verification", k.id>>, e)>>
           pathEdge(k, p) == <<joined(<<"verification_check", k.id>>, "verifies", <<"file", p>>, e)>>
           componentEdge(k, m) == <<joined(<<"verification_check", k.id>>, "verifies", <<"component", m>>, e)>>
           checkEdges(k) == checkEdge(k) \o Each(k.paths, LAMBDA p : pathEdge(k, p))
                            \o Each(k.components, LAMBDA m : componentEdge(k, m))
           fileEdge(f, p) == <<joined(document(f), "documents", <<"file", p>>, at(f, p))>>
           textEdge(f, t) == <<joined(document(f), "documents", known[t], at(f, t))>>
           documentEdges(f) == Each(saidFiles(f), LAMBDA p : fileEdge(f, p))
                               \o Each(saidCommands(f), LAMBDA t : textEdge(f, t))
           edges == Each(scanned, commandEdges) \o Each(jobs, jobEdges) \o Each(c.contract.checks, checkEdges)
                    \o Each(documents, documentEdges)
<1>1. ReferencePart(c) = Part(nodes, edges)
  BY Zenon DEF ReferencePart, Each, Those
<1>2. /\ IsList(scanned) /\ \A x \in Range(scanned) : IsList(mentioned(x))
      /\ IsList(setup)
  <2>1. IsList(scanned) /\ IsList(setup) /\ \A x \in Range(scanned) : IsList(x.mentions)
    BY ScannedIs
  <2>2. \A x \in Range(scanned) : IsList(mentioned(x))
    BY <2>1, ThoseIs DEF Those, Each
  <2> HIDE DEF scanned, setup, mentioned
  <2> QED
    BY <2>1, <2>2
<1>3. IsList(jobs) /\ \A j \in Range(jobs) : IsList(j.commands)
  <2> DEFINE kinds == {"workflow"}
             all == OfKinds(c, kinds)
  <2>1. IsList(all) /\ Range(all) \subseteq Range(c.facts)
    BY OfKindsIs DEF ContextFine
  <2>2. all = OfKinds(c, {"workflow"})
    OBVIOUS
  <2> HIDE DEF all
  <2>3. IsList(workflows) /\ Range(workflows) \subseteq Range(all)
    BY <2>1, <2>2, ThoseIs DEF Those, Each
  <2> HIDE DEF workflows
  <2>4. \A f \in Range(workflows) : IsList(f.jobs) /\ \A j \in Range(f.jobs) : IsList(j.commands)
    BY <2>1, <2>3 DEF ContextFine
  <2> DEFINE Jobs(s) == IsList(s) /\ \A j \in Range(s) : IsList(j.commands)
  <2>5. \A f, j : IsList(j.commands) => Jobs(job(f, j))
    <3> SUFFICES ASSUME NEW f, NEW j, IsList(j.commands) PROVE Jobs(job(f, j))
      OBVIOUS
    <3> DEFINE it == [path |-> f.path, id |-> j.id, commands |-> j.commands, evidence |-> FactEvidence(f)]
    <3>1. it.commands = j.commands /\ job(f, j) = <<it>>
      OBVIOUS
    <3> HIDE DEF it, job
    <3> QED
      BY <3>1, OneIs
  <2>6. ASSUME NEW f \in Range(workflows)
        PROVE  Jobs(jobsOf(f))
    <3> DEFINE of == [j \in Range(f.jobs) |-> job(f, j)]
    <3>1. \A j \in Range(f.jobs) : Jobs(of[j])
      BY <2>4, <2>5
    <3>2. jobsOf(f) = Over(f.jobs, of)
      BY DEF Each
    <3> HIDE DEF of, jobsOf
    <3>3. IsList(f.jobs) /\ \A j \in Range(f.jobs) : IsList(of[j])
      BY <2>4, <3>1
    <3>4. IsList(Over(f.jobs, of)) /\ \A x : x \in Range(Over(f.jobs, of)) <=> \E j \in Range(f.jobs) : x \in Range(of[j])
      BY <3>3, OverIs
    <3> QED
      BY <3>1, <3>2, <3>4
  <2> HIDE DEF jobsOf
  <2> DEFINE by == [f \in Range(workflows) |-> jobsOf(f)]
  <2>7. \A f \in Range(workflows) : Jobs(by[f])
    BY <2>6
  <2>8. jobs = Over(workflows, by)
    BY DEF Each
  <2> HIDE DEF by, jobs
  <2>9. /\ IsList(Over(workflows, by))
        /\ \A x : x \in Range(Over(workflows, by)) <=> \E f \in Range(workflows) : x \in Range(by[f])
    <3>1. IsList(workflows) /\ \A f \in Range(workflows) : IsList(by[f])
      BY <2>3, <2>7
    <3> QED
      BY <3>1, OverIs
  <2> QED
    BY <2>7, <2>8, <2>9
<1>4. /\ IsList(c.contract.checks)
      /\ \A k \in Range(c.contract.checks) : IsList(k.paths) /\ IsList(k.components)
  BY DEF ContextFine
<1>5. IsList(documents) /\ \A f : IsList(said(f)) /\ IsList(saidFiles(f)) /\ IsList(saidCommands(f))
  <2> DEFINE kinds == {"document", "instruction"}
             all == OfKinds(c, kinds)
  <2>1. IsList(all)
    BY OfKindsIs DEF ContextFine
  <2>2. all = OfKinds(c, {"document", "instruction"})
    OBVIOUS
  <2> HIDE DEF all
  <2>3. IsList(documents)
    BY <2>1, <2>2, ThoseIs DEF Those, Each
  <2>4. \A f : IsList(said(f))
    BY OneIs DEF ContextFine
  <2> HIDE DEF documents, said, known
  <2>5. \A f : IsList(saidFiles(f))
    BY <2>4, ThoseIs DEF Those, Each
  <2>6. \A f : IsList(saidCommands(f))
    BY <2>4, ThoseIs DEF Those, Each
  <2> QED
    BY <2>3, <2>4, <2>5, <2>6
<1>6. \A f : \A t \in Range(saidCommands(f)) : t \in DOMAIN known
  <2> TAKE f
  <2> HIDE DEF known, said
  <2> DEFINE of == [t \in Range(said(f)) |-> IF t \in DOMAIN known THEN <<t>> ELSE <<>>]
  <2>1. saidCommands(f) = Over(said(f), of)
    BY DEF Those, Each
  <2>2. \A t \in Range(said(f)) : (of[t] = <<t>> \/ of[t] = <<>>) /\ (of[t] # <<>> => t \in DOMAIN known)
    OBVIOUS
  <2>3. IsList(said(f))
    BY <1>5
  <2> HIDE DEF of, saidCommands
  <2>4. \A t \in Range(Over(said(f), of)) : t \in Range(said(f)) /\ of[t] # <<>>
    BY <2>2, <2>3, ThoseIs
  <2> QED
    BY <2>1, <2>2, <2>4
<1> HIDE DEF jobs, documents, saidFiles, saidCommands, mentioned, e
<1>7. /\ \A x : NodesFine(command(x)) /\ (IdsIn(K, command(x)) => x.id \in K)
      /\ \A p : NodesFine(mention(p)) /\ (IdsIn(K, mention(p)) => <<"file", p>> \in K)
      /\ \A p : NodesFine(pathNode(p)) /\ (IdsIn(K, pathNode(p)) => <<"file", p>> \in K)
      /\ \A j : NodesFine(jobNode(j)) /\ (IdsIn(K, jobNode(j)) => <<"ci_job", j.path, j.id>> \in K)
  BY NodesOf, NodeIs, IdsNode, IdsFile
<1>8. \A j, t : NodesFine(runNode(j, t)) /\ (IdsIn(K, runNode(j, t)) => run(j, t) \in K)
  <2> HIDE DEF run
  <2> QED
    BY NodesOf, NodeIs, IdsNode
<1>9. \A f : NodesFine(documentNode(f)) /\ (IdsIn(K, documentNode(f)) => document(f) \in K)
  <2>1. \A f : document(f)[1] # "file"
    OBVIOUS
  <2> HIDE DEF document
  <2> QED
    BY <2>1, NodesOf, NodeIs, IdsNode
<1>10. ASSUME NEW k
       PROVE  /\ NodesFine(checkNode(k))
              /\ IdsIn(K, checkNode(k)) =>
                     <<"verification_check", k.id>> \in K /\ <<"command", "verification", k.id>> \in K
  <2> DEFINE x == Node(<<"verification_check", k.id>>, "", e)
             y == Node(<<"command", "verification", k.id>>, "", e)
  <2>1. NodeFine(x) /\ NodeFine(y)
    BY NodeIs
  <2>2. x.id = <<"verification_check", k.id>> /\ y.id = <<"command", "verification", k.id>>
    BY DEF Node
  <2>3. checkNode(k) = <<x, y>>
    OBVIOUS
  <2> HIDE DEF x, y, checkNode
  <2>4. NodesFine(<<x, y>>)
    BY <2>1, NodesOf
  <2>5. IdsIn(K, <<x, y>>) <=> x.id \in K /\ y.id \in K
    BY IdsOf
  <2> QED
    BY <2>2, <2>3, <2>4, <2>5
<1> HIDE DEF command, mention, pathNode, jobNode, runNode, documentNode, checkNode, document, run
<1>11. ASSUME NEW x \in Range(scanned)
       PROVE  /\ NodesFine(commandNodes(x))
              /\ IdsIn(K, commandNodes(x)) => x.id \in K /\ \A p \in Range(mentioned(x)) : <<"file", p>> \in K
  <2>1. IsList(mentioned(x)) /\ \A p : IsList(mention(p))
    BY <1>2, <1>7 DEF NodesFine
  <2>2. NodesFine(mentions(x))
    BY <1>7, <2>1, NodesOver DEF Each
  <2>3. IdsIn(K, mentions(x)) => \A p \in Range(mentioned(x)) : IdsIn(K, mention(p))
    BY <2>1, IdsOver DEF Each
  <2> HIDE DEF mentions
  <2>4. NodesFine(commandNodes(x)) /\ (IdsIn(K, commandNodes(x)) => IdsIn(K, command(x)) /\ IdsIn(K, mentions(x)))
    BY <1>7, <2>2, NodesJoin, IdsJoin DEF NodesFine
  <2> QED
    BY <1>7, <2>3, <2>4
<1>12. ASSUME NEW j \in Range(jobs)
       PROVE  /\ NodesFine(jobNodes(j))
              /\ IdsIn(K, jobNodes(j)) =>
                     <<"ci_job", j.path, j.id>> \in K /\ \A t \in Range(j.commands) : run(j, t) \in K
  <2>1. IsList(j.commands) /\ \A t : IsList(runNode(j, t))
    BY <1>3, <1>8 DEF NodesFine
  <2>2. NodesFine(runNodes(j))
    BY <1>8, <2>1, NodesOver DEF Each
  <2>3. IdsIn(K, runNodes(j)) => \A t \in Range(j.commands) : IdsIn(K, runNode(j, t))
    BY <2>1, IdsOver DEF Each
  <2> HIDE DEF runNodes
  <2>4. NodesFine(jobNodes(j)) /\ (IdsIn(K, jobNodes(j)) => IdsIn(K, jobNode(j)) /\ IdsIn(K, runNodes(j)))
    BY <1>7, <2>2, NodesJoin, IdsJoin DEF NodesFine
  <2> QED
    BY <1>7, <1>8, <2>3, <2>4
<1>13. ASSUME NEW k \in Range(c.contract.checks)
       PROVE  /\ NodesFine(checkNodes(k))
              /\ IdsIn(K, checkNodes(k)) =>
                     /\ <<"verification_check", k.id>> \in K /\ <<"command", "verification", k.id>> \in K
                     /\ \A p \in Range(k.paths) : <<"file", p>> \in K
  <2>1. IsList(k.paths) /\ \A p : IsList(pathNode(p))
    BY <1>4, <1>7 DEF NodesFine
  <2>2. NodesFine(pathNodes(k))
    BY <1>7, <2>1, NodesOver DEF Each
  <2>3. IdsIn(K, pathNodes(k)) => \A p \in Range(k.paths) : IdsIn(K, pathNode(p))
    BY <2>1, IdsOver DEF Each
  <2> HIDE DEF pathNodes
  <2>4. NodesFine(checkNodes(k)) /\ (IdsIn(K, checkNodes(k)) => IdsIn(K, checkNode(k)) /\ IdsIn(K, pathNodes(k)))
    BY <1>10, <2>2, NodesJoin, IdsJoin DEF NodesFine
  <2> QED
    BY <1>7, <1>10, <2>3, <2>4
<1>14. ASSUME NEW f \in Range(documents)
       PROVE  /\ NodesFine(documentNodes(f))
              /\ IdsIn(K, documentNodes(f)) => document(f) \in K /\ \A p \in Range(saidFiles(f)) : <<"file", p>> \in K
  <2>1. IsList(saidFiles(f)) /\ \A p : IsList(mention(p))
    BY <1>5, <1>7 DEF NodesFine
  <2>2. NodesFine(saidNodes(f))
    BY <1>7, <2>1, NodesOver DEF Each
  <2>3. IdsIn(K, saidNodes(f)) => \A p \in Range(saidFiles(f)) : IdsIn(K, mention(p))
    BY <2>1, IdsOver DEF Each
  <2> HIDE DEF saidNodes
  <2>4. NodesFine(documentNodes(f)) /\ (IdsIn(K, documentNodes(f)) => IdsIn(K, documentNode(f)) /\ IdsIn(K, saidNodes(f)))
    BY <1>9, <2>2, NodesJoin, IdsJoin DEF NodesFine
  <2> QED
    BY <1>7, <1>9, <2>3, <2>4
<1> HIDE DEF commandNodes, jobNodes, checkNodes, documentNodes, scanned, setup
<1>15. /\ NodesFine(Each(scanned, commandNodes)) /\ NodesFine(Each(jobs, jobNodes)) /\ NodesFine(Each(setup, command))
       /\ NodesFine(Each(c.contract.checks, checkNodes)) /\ NodesFine(Each(documents, documentNodes))
  <2>1. IsList(scanned) /\ IsList(jobs) /\ IsList(setup) /\ IsList(c.contract.checks) /\ IsList(documents)
    BY <1>2, <1>3, <1>4, <1>5
  <2>2. NodesFine(Each(scanned, commandNodes)) /\ NodesFine(Each(jobs, jobNodes)) /\ NodesFine(Each(setup, command))
    BY <1>7, <1>11, <1>12, <2>1, NodesOver DEF Each
  <2>3. NodesFine(Each(c.contract.checks, checkNodes)) /\ NodesFine(Each(documents, documentNodes))
    BY <1>13, <1>14, <2>1, NodesOver DEF Each
  <2> QED
    BY <2>2, <2>3
<1>16. NodesFine(nodes)
  BY <1>15, NodesJoin DEF Each
<1>17. /\ IdsIn(K, Each(scanned, commandNodes)) /\ IdsIn(K, Each(jobs, jobNodes)) /\ IdsIn(K, Each(setup, command))
       /\ IdsIn(K, Each(c.contract.checks, checkNodes)) /\ IdsIn(K, Each(documents, documentNodes))
  <2>1. IdsIn(K, nodes)
    BY <1>1, <1>16, IdsPart DEF NodesFine
  <2> QED
    BY <1>15, <2>1, IdsJoin, JoinIs DEF NodesFine, Each
<1>18. /\ \A x \in Range(scanned) : IdsIn(K, commandNodes(x))
       /\ \A j \in Range(jobs) : IdsIn(K, jobNodes(j))
       /\ \A x \in Range(setup) : IdsIn(K, command(x))
       /\ \A k \in Range(c.contract.checks) : IdsIn(K, checkNodes(k))
       /\ \A f \in Range(documents) : IdsIn(K, documentNodes(f))
  <2>1. /\ IsList(scanned) /\ IsList(jobs) /\ IsList(setup) /\ IsList(c.contract.checks) /\ IsList(documents)
        /\ \A x \in Range(scanned) : IsList(commandNodes(x))
        /\ \A j \in Range(jobs) : IsList(jobNodes(j))
        /\ \A x : IsList(command(x))
        /\ \A k \in Range(c.contract.checks) : IsList(checkNodes(k))
        /\ \A f \in Range(documents) : IsList(documentNodes(f))
    BY <1>2, <1>3, <1>4, <1>5, <1>7, <1>11, <1>12, <1>13, <1>14 DEF NodesFine
  <2>2. \A x \in Range(scanned) : IdsIn(K, commandNodes(x))
    BY <1>17, <2>1, IdsOver DEF Each
  <2>3. \A j \in Range(jobs) : IdsIn(K, jobNodes(j))
    BY <1>17, <2>1, IdsOver DEF Each
  <2>4. \A x \in Range(setup) : IdsIn(K, command(x))
    BY <1>17, <2>1, IdsOver DEF Each
  <2>5. \A k \in Range(c.contract.checks) : IdsIn(K, checkNodes(k))
    BY <1>17, <2>1, IdsOver DEF Each
  <2>6. \A f \in Range(documents) : IdsIn(K, documentNodes(f))
    BY <1>17, <2>1, IdsOver DEF Each
  <2> QED
    BY <2>2, <2>3, <2>4, <2>5, <2>6
<1>19. /\ \A x \in Range(scanned) : x.id \in K /\ \A p \in Range(mentioned(x)) : <<"file", p>> \in K
       /\ \A x \in Range(setup) : x.id \in K
       /\ \A j \in Range(jobs) : <<"ci_job", j.path, j.id>> \in K /\ \A t \in Range(j.commands) : run(j, t) \in K
       /\ \A k \in Range(c.contract.checks) :
              /\ <<"verification_check", k.id>> \in K /\ <<"command", "verification", k.id>> \in K
              /\ \A p \in Range(k.paths) : <<"file", p>> \in K
       /\ \A f \in Range(documents) : document(f) \in K /\ \A p \in Range(saidFiles(f)) : <<"file", p>> \in K
  BY <1>7, <1>11, <1>12, <1>13, <1>14, <1>18
<1>20. \A t \in DOMAIN known : known[t] \in K
  <2>1. IsList(scanned \o setup) /\ Range(scanned \o setup) = Range(scanned) \cup Range(setup)
    BY <1>2, JoinIs
  <2>2. \A t \in DOMAIN known : \E x \in Range(scanned \o setup) : known[t] = x.id
    BY <2>1, ByTextIs
  <2> HIDE DEF known
  <2> QED
    BY <1>19, <2>1, <2>2
<1> HIDE DEF known, at
<1>21. \A x \in Range(scanned) : EdgesFine(c, K, X, commandEdges(x))
  <2>1. \A x \in Range(scanned) : \A p \in Range(mentioned(x)) : EdgesFine(c, K, X, mentionEdge(x, p))
    BY <1>19, EdgesOf, EdgeIs
  <2> HIDE DEF mentionEdge
  <2> QED
    BY <1>2, <2>1, EdgesOver DEF Each
<1>22. \A j \in Range(jobs) : EdgesFine(c, K, X, jobEdges(j))
  <2>1. \A j \in Range(jobs) : \A t \in Range(j.commands) : EdgesFine(c, K, X, runEdge(j, t))
    BY <1>19, EdgesOf, EdgeIs
  <2> HIDE DEF runEdge
  <2> QED
    BY <1>3, <2>1, EdgesOver DEF Each
<1>23. ASSUME NEW k \in Range(c.contract.checks)
       PROVE  EdgesFine(c, K, X, checkEdges(k))
  <2>1. EdgesFine(c, K, X, checkEdge(k))
    BY <1>19, EdgesOf, EdgeIs
  <2>2. \A p \in Range(k.paths) : EdgesFine(c, K, X, pathEdge(k, p))
    BY <1>19, EdgesOf, EdgeIs
  <2>3. \A m : EdgesFine(c, K, X, componentEdge(k, m))
    <3>1. \A m : Elsewhere(c, "reference-index", <<"component", m>>)
      BY DEF Elsewhere
    <3> QED
      BY <1>19, <3>1, EdgesOf, EdgeIs
  <2>4. IsList(k.paths) /\ IsList(k.components)
    BY <1>4
  <2> HIDE DEF checkEdge, pathEdge, componentEdge
  <2>5. EdgesFine(c, K, X, Each(k.paths, LAMBDA p : pathEdge(k, p)))
    BY <2>2, <2>4, EdgesOver DEF Each
  <2>6. EdgesFine(c, K, X, Each(k.components, LAMBDA m : componentEdge(k, m)))
    BY <2>3, <2>4, EdgesOver DEF Each
  <2> QED
    BY <2>1, <2>5, <2>6, EdgesJoin DEF Each
<1>24. ASSUME NEW f \in Range(documents)
       PROVE  EdgesFine(c, K, X, documentEdges(f))
  <2>1. \A p \in Range(saidFiles(f)) : EdgesFine(c, K, X, fileEdge(f, p))
    BY <1>19, EdgesOf, EdgeIs
  <2>2. \A t \in Range(saidCommands(f)) : EdgesFine(c, K, X, textEdge(f, t))
    BY <1>6, <1>19, <1>20, EdgesOf, EdgeIs
  <2>3. IsList(saidFiles(f)) /\ IsList(saidCommands(f))
    BY <1>5
  <2> HIDE DEF fileEdge, textEdge
  <2>4. EdgesFine(c, K, X, Each(saidFiles(f), LAMBDA p : fileEdge(f, p)))
    BY <2>1, <2>3, EdgesOver DEF Each
  <2>5. EdgesFine(c, K, X, Each(saidCommands(f), LAMBDA t : textEdge(f, t)))
    BY <2>2, <2>3, EdgesOver DEF Each
  <2> QED
    BY <2>4, <2>5, EdgesJoin DEF Each
<1> HIDE DEF commandEdges, jobEdges, checkEdges, documentEdges
<1>25. /\ EdgesFine(c, K, X, Each(scanned, commandEdges)) /\ EdgesFine(c, K, X, Each(jobs, jobEdges))
       /\ EdgesFine(c, K, X, Each(c.contract.checks, checkEdges)) /\ EdgesFine(c, K, X, Each(documents, documentEdges))
  <2>1. IsList(scanned) /\ IsList(jobs) /\ IsList(c.contract.checks) /\ IsList(documents)
    BY <1>2, <1>3, <1>4, <1>5
  <2> QED
    BY <1>21, <1>22, <1>23, <1>24, <2>1, EdgesOver DEF Each
<1>26. EdgesFine(c, K, X, edges)
  BY <1>25, EdgesJoin DEF Each
<1> HIDE DEF nodes, edges, X
<1>99. PartFine(c, K, X, Part(nodes, edges))
  BY <1>16, <1>26, PartIs
<1> QED
  BY <1>1, <1>99, Zenon DEF X

LEMMA DoctorPartFine ==
    ASSUME NEW c, ContextFine(c), NEW K, \A n \in DoctorPart(c).nodes : n.id \in K
    PROVE  PartFine(c, K, {"doctor-ingest"}, DoctorPart(c))
<1> DEFINE X == {"doctor-ingest"}
           e(r) == {<<"doctor", r.id, "">>}
           record(kind, r) == [Node(<<kind, r.id>>, "", e(r)) EXCEPT !.meta = r.status]
           target(p, t) == DoctorTarget(c, "path", t, e(p))
           problem(p) == Each(p.targets, LAMBDA t : target(p, t))
           candidate(x) == DoctorTarget(c, x.kind, x.target, e(x))
           placed(x) == IF x.kind \in {"path", "doc_reference"} THEN x.target ELSE ""
           edge(source, kind, n, r) == <<Edge(source, kind, n.id, "doctor-ingest", e(r))>>
           about(source, kind, targets, r) == Each(targets, LAMBDA n : edge(source, kind, n, r))
           problemNode(p) == <<record("known_problem", p)>>
           problemNodes(p) == problemNode(p) \o problem(p)
           candidateNode(x) == <<[record("legacy_candidate", x) EXCEPT !.path = placed(x)]>>
           candidateNodes(x) == candidateNode(x) \o candidate(x)
           nodes == Each(c.problems, problemNodes) \o Each(c.candidates, candidateNodes)
           problemEdges(p) == about(<<"known_problem", p.id>>, "matched_known_problem", problem(p), p)
           candidateEdges(x) == about(<<"legacy_candidate", x.id>>, "candidate_for", candidate(x), x)
           edges == Each(c.problems, problemEdges) \o Each(c.candidates, candidateEdges)
<1>1. DoctorPart(c) = Part(nodes, edges)
  BY DEF DoctorPart, Each, Those
<1>2. IsList(c.problems) /\ IsList(c.candidates) /\ \A p \in Range(c.problems) : IsList(p.targets)
  BY DEF ContextFine
<1>3. \A kind, t, ev : NodesFine(DoctorTarget(c, kind, t, ev))
  <2> TAKE kind, t, ev
  <2>1. NodesFine(<<FileNode(t, ev)>>) /\ NodesFine(<<Node(<<"document", t>>, t, ev)>>) /\ NodesFine(<<>>)
    BY NodesOf, NodeIs
  <2>2. NodesFine(<<Node(<<kind, t>>, "", ev)>>)
    BY NodesOf, NodeIs
  <2> QED
    BY <2>1, <2>2 DEF DoctorTarget
<1> HIDE DEF placed
<1>4. /\ \A p : NodesFine(problemNode(p)) /\ (IdsIn(K, problemNode(p)) => <<"known_problem", p.id>> \in K)
      /\ \A x : NodesFine(candidateNode(x)) /\ (IdsIn(K, candidateNode(x)) => <<"legacy_candidate", x.id>> \in K)
  <2>1. ASSUME NEW p
        PROVE  NodesFine(problemNode(p)) /\ (IdsIn(K, problemNode(p)) => <<"known_problem", p.id>> \in K)
    <3> DEFINE n == record("known_problem", p)
    <3>1. NodeFine(n) /\ n.id = <<"known_problem", p.id>>
      BY DEF NodeFine, Node
    <3> HIDE DEF n
    <3>2. NodesFine(<<n>>) /\ (IdsIn(K, <<n>>) <=> n.id \in K)
      BY <3>1, NodesOf, IdsOf
    <3> QED
      BY <3>1, <3>2 DEF n
  <2>2. ASSUME NEW x
        PROVE  NodesFine(candidateNode(x)) /\ (IdsIn(K, candidateNode(x)) => <<"legacy_candidate", x.id>> \in K)
    <3> DEFINE n == [record("legacy_candidate", x) EXCEPT !.path = placed(x)]
    <3>1. NodeFine(n) /\ n.id = <<"legacy_candidate", x.id>>
      BY DEF NodeFine, Node
    <3> HIDE DEF n
    <3>2. NodesFine(<<n>>) /\ (IdsIn(K, <<n>>) <=> n.id \in K)
      BY <3>1, NodesOf, IdsOf
    <3> QED
      BY <3>1, <3>2 DEF n
  <2> QED
    BY <2>1, <2>2
<1>5. NodesFine(<<>>) /\ \A p, t : NodesFine(target(p, t))
  BY <1>3, NodesOf
<1> HIDE DEF problemNode, candidateNode, target, e
<1>6. /\ \A p \in Range(c.problems) : NodesFine(problem(p))
      /\ \A x : NodesFine(candidate(x))
  BY <1>2, <1>3, <1>5, NodesOver DEF Each
<1> HIDE DEF problem, candidate
<1>7. /\ \A p \in Range(c.problems) :
             /\ NodesFine(problemNodes(p))
             /\ IdsIn(K, problemNodes(p)) => IdsIn(K, problemNode(p)) /\ IdsIn(K, problem(p))
      /\ \A x : /\ NodesFine(candidateNodes(x))
                /\ IdsIn(K, candidateNodes(x)) => IdsIn(K, candidateNode(x)) /\ IdsIn(K, candidate(x))
  BY <1>4, <1>6, NodesJoin, IdsJoin DEF NodesFine
<1> HIDE DEF problemNodes, candidateNodes
<1>8. NodesFine(Each(c.problems, problemNodes)) /\ NodesFine(Each(c.candidates, candidateNodes))
  BY <1>2, <1>7, NodesOver DEF Each
<1>9. NodesFine(nodes)
  BY <1>8, NodesJoin DEF Each
<1>10. IdsIn(K, Each(c.problems, problemNodes)) /\ IdsIn(K, Each(c.candidates, candidateNodes))
  <2>1. IdsIn(K, nodes)
    BY <1>1, <1>9, IdsPart DEF NodesFine
  <2> QED
    BY <1>8, <2>1, IdsJoin DEF NodesFine, Each
<1>11. /\ \A p \in Range(c.problems) : IdsIn(K, problemNodes(p))
       /\ \A x \in Range(c.candidates) : IdsIn(K, candidateNodes(x))
  <2>1. /\ IsList(c.problems) /\ IsList(c.candidates)
        /\ \A p \in Range(c.problems) : IsList(problemNodes(p))
        /\ \A x : IsList(candidateNodes(x))
    BY <1>2, <1>7 DEF NodesFine
  <2>2. \A p \in Range(c.problems) : IdsIn(K, problemNodes(p))
    BY <1>10, <2>1, IdsOver DEF Each
  <2>3. \A x \in Range(c.candidates) : IdsIn(K, candidateNodes(x))
    BY <1>10, <2>1, IdsOver DEF Each
  <2> QED
    BY <2>2, <2>3
<1>12. /\ \A p \in Range(c.problems) : <<"known_problem", p.id>> \in K /\ \A n \in Range(problem(p)) : n.id \in K
       /\ \A x \in Range(c.candidates) : <<"legacy_candidate", x.id>> \in K /\ \A n \in Range(candidate(x)) : n.id \in K
  BY <1>4, <1>7, <1>11 DEF IdsIn
<1>13. ASSUME NEW source \in K, NEW kind, NEW targets, NEW r, IsList(targets), \A n \in Range(targets) : n.id \in K
       PROVE  EdgesFine(c, K, X, about(source, kind, targets, r))
  <2>1. \A n \in Range(targets) : EdgesFine(c, K, X, edge(source, kind, n, r))
    BY <1>13, EdgesOf, EdgeIs
  <2> HIDE DEF edge
  <2> QED
    BY <1>13, <2>1, EdgesOver DEF Each
<1> HIDE DEF about
<1>14. \A p \in Range(c.problems) : EdgesFine(c, K, X, problemEdges(p))
  <2>1. \A p \in Range(c.problems) : IsList(problem(p))
    BY <1>6 DEF NodesFine
  <2> QED
    BY <1>12, <1>13, <2>1
<1>15. \A x \in Range(c.candidates) : EdgesFine(c, K, X, candidateEdges(x))
  <2>1. \A x : IsList(candidate(x))
    BY <1>6 DEF NodesFine
  <2> QED
    BY <1>12, <1>13, <2>1
<1> HIDE DEF problemEdges, candidateEdges
<1>16. EdgesFine(c, K, X, Each(c.problems, problemEdges)) /\ EdgesFine(c, K, X, Each(c.candidates, candidateEdges))
  BY <1>2, <1>14, <1>15, EdgesOver DEF Each
<1>17. EdgesFine(c, K, X, edges)
  BY <1>16, EdgesJoin DEF Each
<1> HIDE DEF nodes, edges, X
<1>99. PartFine(c, K, X, Part(nodes, edges))
  BY <1>9, <1>17, PartIs
<1> QED
  BY <1>1, <1>99, Zenon DEF X


-----------------------------------------------------------------------------
(* The graph of a context *)

IdsOfNodes(nodes) == {n.id : n \in nodes}

GraphFine(c, graph) ==
    /\ IsFiniteSet(graph.nodes) /\ IsFiniteSet(graph.edges)
    /\ \A n \in graph.nodes : NodeFine(n) /\ n.evidence \subseteq graph.evidence
    /\ \A e \in graph.edges :
           /\ EdgeFine(c, IdsOfNodes(graph.nodes), {e.extractor}, e)
           /\ e.evidence \subseteq graph.evidence
    /\ \A e, f \in graph.edges : EdgeId(e) = EdgeId(f) => e = f

\* Each extractor is of one part.
PartOf(extractor) ==
    CASE extractor = "contract-ingest" -> 1
      [] extractor = "scanner-fact-ingest" -> 2
      [] extractor = "structural-nodes" -> 3
      [] extractor = "runtime-nodes" -> 4
      [] extractor = "typescript-symbol-index" -> 5
      [] extractor = "typescript-import-graph" -> 6
      [] extractor = "python-symbol-index" -> 7
      [] extractor = "python-import-graph" -> 8
      [] extractor = "route-index" -> 9
      [] extractor = "request-flow" -> 10
      [] extractor = "worker-flow" -> 11
      [] extractor = "database-access" -> 12
      [] extractor \in {"test-relations:naming", "test-relations:import"} -> 13
      [] extractor = "generated-paths" -> 14
      [] extractor = "reference-index" -> 15
      [] extractor = "doctor-ingest" -> 16

LEMMA PartOfIs ==
    /\ PartOf("contract-ingest") = 1 /\ PartOf("scanner-fact-ingest") = 2 /\ PartOf("structural-nodes") = 3
    /\ PartOf("runtime-nodes") = 4 /\ PartOf("typescript-symbol-index") = 5
    /\ PartOf("typescript-import-graph") = 6 /\ PartOf("python-symbol-index") = 7
    /\ PartOf("python-import-graph") = 8 /\ PartOf("route-index") = 9 /\ PartOf("request-flow") = 10
    /\ PartOf("worker-flow") = 11 /\ PartOf("database-access") = 12
    /\ PartOf("test-relations:naming") = 13 /\ PartOf("test-relations:import") = 13
    /\ PartOf("generated-paths") = 14 /\ PartOf("reference-index") = 15 /\ PartOf("doctor-ingest") = 16
BY DEF PartOf

LEMMA PartFineMore ==
    ASSUME NEW c, NEW K, NEW X, NEW p, PartFine(c, K, X, p), NEW i, \A x \in X : PartOf(x) = i
    PROVE  /\ IsFiniteSet(p.nodes) /\ IsFiniteSet(p.edges)
           /\ \A n \in p.nodes : NodeFine(n) /\ n.evidence \subseteq p.evidence
           /\ \A e \in p.edges :
                  EdgeFine(c, K, {e.extractor}, e) /\ PartOf(e.extractor) = i /\ e.evidence \subseteq p.evidence
           /\ \A e, f \in p.edges : EdgeId(e) = EdgeId(f) => e = f
BY DEF PartFine, EdgeFine

LEMMA PartsAre ==
    ASSUME NEW c
    PROVE  /\ IsList(Parts(c)) /\ Len(Parts(c)) = 16 /\ DOMAIN Parts(c) = 1 .. 16
           /\ Parts(c)[1] = ContractPart(c) /\ Parts(c)[2] = FactPart(c) /\ Parts(c)[3] = StructuralPart(c)
           /\ Parts(c)[4] = RuntimePart(c) /\ Parts(c)[5] = TypeScriptSymbolPart(c)
           /\ Parts(c)[6] = TypeScriptImportPart(c) /\ Parts(c)[7] = PythonSymbolPart(c)
           /\ Parts(c)[8] = PythonImportPart(c) /\ Parts(c)[9] = RoutePart(c) /\ Parts(c)[10] = RequestFlowPart(c)
           /\ Parts(c)[11] = WorkerPart(c) /\ Parts(c)[12] = DatabasePart(c) /\ Parts(c)[13] = TestPart(c)
           /\ Parts(c)[14] = GeneratedPart(c) /\ Parts(c)[15] = ReferencePart(c) /\ Parts(c)[16] = DoctorPart(c)
<1>1. /\ DOMAIN Parts(c) = 1 .. 16 /\ Len(Parts(c)) = 16
      /\ Parts(c) = [i \in 1 .. 16 |-> Parts(c)[i]]
  BY DEF Parts
<1>2. IsList(Parts(c))
  BY <1>1, ListIs
<1>3. /\ Parts(c)[1] = ContractPart(c) /\ Parts(c)[2] = FactPart(c) /\ Parts(c)[3] = StructuralPart(c)
      /\ Parts(c)[4] = RuntimePart(c) /\ Parts(c)[5] = TypeScriptSymbolPart(c)
      /\ Parts(c)[6] = TypeScriptImportPart(c) /\ Parts(c)[7] = PythonSymbolPart(c)
      /\ Parts(c)[8] = PythonImportPart(c)
  BY DEF Parts
<1>4. /\ Parts(c)[9] = RoutePart(c) /\ Parts(c)[10] = RequestFlowPart(c)
      /\ Parts(c)[11] = WorkerPart(c) /\ Parts(c)[12] = DatabasePart(c) /\ Parts(c)[13] = TestPart(c)
      /\ Parts(c)[14] = GeneratedPart(c) /\ Parts(c)[15] = ReferencePart(c) /\ Parts(c)[16] = DoctorPart(c)
  BY DEF Parts
<1> QED
  BY <1>1, <1>2, <1>3, <1>4

\* What the parts need of each other is there.
LEMMA PartsFit ==
    ASSUME NEW c, ContextFine(c), NEW K, \A i \in 1 .. 16 : \A n \in Parts(c)[i].nodes : n.id \in K
    PROVE  /\ FilesKnown(c, K) /\ CommandsKnown(c, K) /\ AppsKnown(c, K)
           /\ RoutesKnown(c, K) /\ WorkersKnown(c, K)
<1> DEFINE In(i) == \A n \in Parts(c)[i].nodes : n.id \in K
<1>1. In(1) /\ In(3) /\ In(4) /\ In(9) /\ In(11)
  OBVIOUS
<1>2. CommandsKnown(c, K)
  <2>1. c.contract.present => \A a \in Range(c.contract.apps) :
                  /\ a.entrypoint # "" => <<"file", a.entrypoint>> \in K
                  /\ \A k \in Range(a.commands) : <<"command", "application", a.id, k>> \in K
    BY <1>1, PartsAre, ContractPartFine
  <2>2. ~c.contract.present => Range(c.contract.apps) = {}
    BY OneIs DEF ContextFine
  <2> QED
    BY <2>1, <2>2 DEF CommandsKnown
<1>3. FilesKnown(c, K)
  <2>1. \A f \in Range(c.files) : <<"file", f.path>> \in K
    BY <1>1, PartsAre, StructuralPartFine
  <2> QED
    BY <2>1 DEF FilesKnown, Paths
<1>4. AppsKnown(c, K)
  BY <1>1, <1>2, <1>3, PartsAre, RuntimePartFine
<1>5. RoutesKnown(c, K)
  BY <1>1, <1>4, PartsAre, RoutePartFine
<1>6. WorkersKnown(c, K)
  BY <1>1, PartsAre, WorkerPartFine
<1> QED
  BY <1>2, <1>3, <1>4, <1>5, <1>6

LEMMA PartsFine ==
    ASSUME NEW c, ContextFine(c), NEW K, \A i \in 1 .. 16 : \A n \in Parts(c)[i].nodes : n.id \in K
    PROVE  \A i \in 1 .. 16 : \E X : PartFine(c, K, X, Parts(c)[i]) /\ \A x \in X : PartOf(x) = i
<1> DEFINE In(i) == \A n \in Parts(c)[i].nodes : n.id \in K
           Fine(i) == \E X : PartFine(c, K, X, Parts(c)[i]) /\ \A x \in X : PartOf(x) = i
<1>0. \A i \in 1 .. 16 : In(i)
  OBVIOUS
<1> HIDE DEF In
<1>k. /\ FilesKnown(c, K) /\ CommandsKnown(c, K) /\ AppsKnown(c, K)
      /\ RoutesKnown(c, K) /\ WorkersKnown(c, K)
  BY PartsFit
<1>1. Fine(1)
  <2>1. PartFine(c, K, {"contract-ingest"}, ContractPart(c))
    <3>1. \A n \in ContractPart(c).nodes : n.id \in K
      BY <1>0, PartsAre DEF In
    <3> QED
      BY <3>1, ContractPartFine
  <2>2. PartFine(c, K, {"contract-ingest"}, Parts(c)[1])
    BY <2>1, PartsAre
  <2> QED
    BY <2>2, PartOfIs
<1>2. Fine(2)
  <2>1. PartFine(c, K, {"scanner-fact-ingest"}, FactPart(c))
    <3>1. \A n \in FactPart(c).nodes : n.id \in K
      BY <1>0, PartsAre DEF In
    <3> QED
      BY <3>1, FactPartFine
  <2>2. PartFine(c, K, {"scanner-fact-ingest"}, Parts(c)[2])
    BY <2>1, PartsAre
  <2> QED
    BY <2>2, PartOfIs
<1>3. Fine(3)
  <2>1. PartFine(c, K, {"structural-nodes"}, StructuralPart(c))
    <3>1. \A n \in StructuralPart(c).nodes : n.id \in K
      BY <1>0, PartsAre DEF In
    <3> QED
      BY <3>1, StructuralPartFine
  <2>2. PartFine(c, K, {"structural-nodes"}, Parts(c)[3])
    BY <2>1, PartsAre
  <2> QED
    BY <2>2, PartOfIs
<1>4. Fine(4)
  <2>1. PartFine(c, K, {"runtime-nodes"}, RuntimePart(c))
    <3>1. \A n \in RuntimePart(c).nodes : n.id \in K
      BY <1>0, PartsAre DEF In
    <3> QED
      BY <3>1, <1>k, RuntimePartFine
  <2>2. PartFine(c, K, {"runtime-nodes"}, Parts(c)[4])
    BY <2>1, PartsAre
  <2> QED
    BY <2>2, PartOfIs
<1>5. Fine(5)
  <2>1. PartFine(c, K, {"typescript-symbol-index"}, TypeScriptSymbolPart(c))
    <3>1. \A n \in TypeScriptSymbolPart(c).nodes : n.id \in K
      BY <1>0, PartsAre DEF In
    <3> QED
      BY <3>1, ExportsFine DEF TypeScriptSymbolPart
  <2>2. PartFine(c, K, {"typescript-symbol-index"}, Parts(c)[5])
    BY <2>1, PartsAre
  <2> QED
    BY <2>2, PartOfIs
<1>6. Fine(6)
  <2>1. PartFine(c, K, {"typescript-import-graph"}, TypeScriptImportPart(c))
    <3>1. \A n \in TypeScriptImportPart(c).nodes : n.id \in K
      BY <1>0, PartsAre DEF In
    <3> QED
      BY <3>1, ImportsFine DEF TypeScriptImportPart
  <2>2. PartFine(c, K, {"typescript-import-graph"}, Parts(c)[6])
    BY <2>1, PartsAre
  <2> QED
    BY <2>2, PartOfIs
<1>7. Fine(7)
  <2>1. PartFine(c, K, {"python-symbol-index"}, PythonSymbolPart(c))
    <3>1. \A n \in PythonSymbolPart(c).nodes : n.id \in K
      BY <1>0, PartsAre DEF In
    <3> QED
      BY <3>1, ExportsFine DEF PythonSymbolPart
  <2>2. PartFine(c, K, {"python-symbol-index"}, Parts(c)[7])
    BY <2>1, PartsAre
  <2> QED
    BY <2>2, PartOfIs
<1>8. Fine(8)
  <2>1. PartFine(c, K, {"python-import-graph"}, PythonImportPart(c))
    <3>1. \A n \in PythonImportPart(c).nodes : n.id \in K
      BY <1>0, PartsAre DEF In
    <3> QED
      BY <3>1, ImportsFine DEF PythonImportPart
  <2>2. PartFine(c, K, {"python-import-graph"}, Parts(c)[8])
    BY <2>1, PartsAre
  <2> QED
    BY <2>2, PartOfIs
<1>9. Fine(9)
  <2>1. PartFine(c, K, {"route-index"}, RoutePart(c))
    <3>1. \A n \in RoutePart(c).nodes : n.id \in K
      BY <1>0, PartsAre DEF In
    <3> QED
      BY <3>1, <1>k, RoutePartFine
  <2>2. PartFine(c, K, {"route-index"}, Parts(c)[9])
    BY <2>1, PartsAre
  <2> QED
    BY <2>2, PartOfIs
<1>10. Fine(10)
  <2>1. PartFine(c, K, {"request-flow"}, RequestFlowPart(c))
    <3>1. \A n \in RequestFlowPart(c).nodes : n.id \in K
      BY <1>0, PartsAre DEF In
    <3> QED
      BY <3>1, RequestFlowPartFine
  <2>2. PartFine(c, K, {"request-flow"}, Parts(c)[10])
    BY <2>1, PartsAre
  <2> QED
    BY <2>2, PartOfIs
<1>11. Fine(11)
  <2>1. PartFine(c, K, {"worker-flow"}, WorkerPart(c))
    <3>1. \A n \in WorkerPart(c).nodes : n.id \in K
      BY <1>0, PartsAre DEF In
    <3> QED
      BY <3>1, WorkerPartFine
  <2>2. PartFine(c, K, {"worker-flow"}, Parts(c)[11])
    BY <2>1, PartsAre
  <2> QED
    BY <2>2, PartOfIs
<1>12. Fine(12)
  <2>1. PartFine(c, K, {"database-access"}, DatabasePart(c))
    <3>1. \A n \in DatabasePart(c).nodes : n.id \in K
      BY <1>0, PartsAre DEF In
    <3> QED
      BY <3>1, <1>k, DatabasePartFine
  <2>2. PartFine(c, K, {"database-access"}, Parts(c)[12])
    BY <2>1, PartsAre
  <2> QED
    BY <2>2, PartOfIs
<1>13. Fine(13)
  <2>1. PartFine(c, K, {"test-relations:naming", "test-relations:import"}, TestPart(c))
    <3>1. \A n \in TestPart(c).nodes : n.id \in K
      BY <1>0, PartsAre DEF In
    <3> QED
      BY <3>1, TestPartFine
  <2>2. PartFine(c, K, {"test-relations:naming", "test-relations:import"}, Parts(c)[13])
    BY <2>1, PartsAre
  <2> QED
    BY <2>2, PartOfIs
<1>14. Fine(14)
  <2>1. PartFine(c, K, {"generated-paths"}, GeneratedPart(c))
    <3>1. \A n \in GeneratedPart(c).nodes : n.id \in K
      BY <1>0, PartsAre DEF In
    <3> QED
      BY <3>1, GeneratedPartFine
  <2>2. PartFine(c, K, {"generated-paths"}, Parts(c)[14])
    BY <2>1, PartsAre
  <2> QED
    BY <2>2, PartOfIs
<1>15. Fine(15)
  <2>1. PartFine(c, K, {"reference-index"}, ReferencePart(c))
    <3>1. \A n \in ReferencePart(c).nodes : n.id \in K
      BY <1>0, PartsAre DEF In
    <3> QED
      BY <3>1, ReferencePartFine
  <2>2. PartFine(c, K, {"reference-index"}, Parts(c)[15])
    BY <2>1, PartsAre
  <2> QED
    BY <2>2, PartOfIs
<1>16. Fine(16)
  <2>1. PartFine(c, K, {"doctor-ingest"}, DoctorPart(c))
    <3>1. \A n \in DoctorPart(c).nodes : n.id \in K
      BY <1>0, PartsAre DEF In
    <3> QED
      BY <3>1, DoctorPartFine
  <2>2. PartFine(c, K, {"doctor-ingest"}, Parts(c)[16])
    BY <2>1, PartsAre
  <2> QED
    BY <2>2, PartOfIs
<1> HIDE DEF Fine
<1>17. \A i \in 1 .. 16 : Fine(i)
  <2> SUFFICES ASSUME NEW i \in 1 .. 16 PROVE Fine(i)
    OBVIOUS
  <2>1. \/ i = 1 \/ i = 2 \/ i = 3 \/ i = 4 \/ i = 5 \/ i = 6 \/ i = 7 \/ i = 8
        \/ i = 9 \/ i = 10 \/ i = 11 \/ i = 12 \/ i = 13 \/ i = 14 \/ i = 15 \/ i = 16
    OBVIOUS
  <2> QED
    BY <2>1, <1>1, <1>2, <1>3, <1>4, <1>5, <1>6, <1>7, <1>8, <1>9, <1>10, <1>11, <1>12, <1>13, <1>14, <1>15, <1>16
<1> QED
  BY <1>17 DEF Fine

\* Each graph is a finite one, in which an edge is known by its id and ends at nodes, but for
\* those of Elsewhere, and whose evidence has what its records cite.
LEMMA GraphIsFine == ASSUME NEW c, ContextFine(c) PROVE GraphFine(c, Graph(c))
<1> DEFINE parts == Parts(c)
           graph == Graph(c)
           K == IdsOfNodes(graph.nodes)
<1>1. /\ graph.nodes = MergedNodes(parts) /\ graph.edges = MergedEdges(parts)
      /\ graph.evidence = UNION {p.evidence : p \in Range(parts)}
  BY DEF Graph
<1>2. IsList(parts) /\ DOMAIN parts = 1 .. 16
  BY PartsAre
<1>3. /\ \A n \in graph.nodes : \E i \in 1 .. 16 : n \in parts[i].nodes
      /\ \A i \in 1 .. 16 : \A n \in parts[i].nodes : n.id \in K
  BY <1>1, <1>2, MergedIs, SMTT(40) DEF IdsOfNodes
<1>4. \A i \in 1 .. 16 : \E X : PartFine(c, K, X, parts[i]) /\ \A x \in X : PartOf(x) = i
  BY <1>3, PartsFine
<1>5. \A i \in 1 .. 16 : parts[i].evidence \subseteq graph.evidence
  BY <1>1, <1>2 DEF Range
<1>6. \A e \in graph.edges : \E i \in 1 .. 16 : e \in parts[i].edges
  BY <1>1, <1>2 DEF MergedEdges, Range
<1> HIDE DEF K, graph, parts
<1>7. ASSUME NEW i \in 1 .. 16
      PROVE  /\ IsFiniteSet(parts[i].nodes) /\ IsFiniteSet(parts[i].edges)
             /\ \A n \in parts[i].nodes : NodeFine(n) /\ n.evidence \subseteq parts[i].evidence
             /\ \A e \in parts[i].edges :
                    EdgeFine(c, K, {e.extractor}, e) /\ PartOf(e.extractor) = i /\ e.evidence \subseteq parts[i].evidence
             /\ \A e, f \in parts[i].edges : EdgeId(e) = EdgeId(f) => e = f
  <2>1. PICK X : PartFine(c, K, X, parts[i]) /\ \A x \in X : PartOf(x) = i
    BY <1>4
  <2> QED
    BY <2>1, PartFineMore
<1>8. IsFiniteSet(graph.nodes) /\ IsFiniteSet(graph.edges)
  <2> DEFINE nodes == {parts[i].nodes : i \in 1 .. 16}
             edges == {parts[i].edges : i \in 1 .. 16}
  <2>1. IsFiniteSet(1 .. 16)
    <3>1. \A n \in Nat : IsFiniteSet(1 .. n)
      BY FS_Interval
    <3> QED
      BY <3>1
  <2>2. IsFiniteSet(nodes) /\ IsFiniteSet(edges)
    <3>1. [i \in 1 .. 16 |-> parts[i].nodes] \in Surjection(1 .. 16, nodes)
      BY DEF Surjection
    <3>2. [i \in 1 .. 16 |-> parts[i].edges] \in Surjection(1 .. 16, edges)
      BY DEF Surjection
    <3> HIDE DEF nodes, edges
    <3> QED
      BY <2>1, <3>1, <3>2, FS_Surjection
  <2>3. \A s \in nodes : IsFiniteSet(s)
    BY <1>7
  <2>4. \A s \in edges : IsFiniteSet(s)
    BY <1>7
  <2>5. graph.nodes \subseteq UNION nodes /\ graph.edges \subseteq UNION edges
    BY <1>3, <1>6
  <2> HIDE DEF nodes, edges
  <2>6. IsFiniteSet(UNION nodes) /\ IsFiniteSet(UNION edges)
    BY <2>2, <2>3, <2>4, FS_UNION
  <2> QED
    BY <2>5, <2>6, FS_Subset
<1>9. \A n \in graph.nodes : NodeFine(n) /\ n.evidence \subseteq graph.evidence
  BY <1>3, <1>5, <1>7
<1>10. \A e \in graph.edges : EdgeFine(c, K, {e.extractor}, e) /\ e.evidence \subseteq graph.evidence
  BY <1>5, <1>6, <1>7
<1>11. ASSUME NEW e \in graph.edges, NEW f \in graph.edges, EdgeId(e) = EdgeId(f)
       PROVE  e = f
  <2>1. PICK i \in 1 .. 16 : e \in parts[i].edges
    BY <1>6
  <2>2. PICK j \in 1 .. 16 : f \in parts[j].edges
    BY <1>6
  <2>3. e.extractor = f.extractor
    BY <1>11 DEF EdgeId
  <2>4. i = j
    BY <1>7, <2>1, <2>2, <2>3
  <2> QED
    BY <1>7, <1>11, <2>1, <2>2, <2>4
<1>12. GraphFine(c, graph)
  BY <1>8, <1>9, <1>10, <1>11 DEF GraphFine, K
<1> QED
  BY <1>12 DEF graph


-----------------------------------------------------------------------------
(* Every context that a build reads is one of lists *)

Versions == 1 .. Len(Worlds)
ReadParts == {"inventory", "contract", "scan", "state"}

LEMMA WorldsAre ==
    /\ Len(Worlds) \in Nat \ {0} /\ DOMAIN Worlds = Versions /\ 1 \in Versions
    /\ \A i \in Versions : WorldListed(Worlds[i])
<1>1. IsList(Worlds) /\ Worlds # <<>> /\ \A w \in Range(Worlds) : WorldListed(w)
  BY ListsAssumption
<1>2. Len(Worlds) \in Nat /\ DOMAIN Worlds = 1 .. Len(Worlds) /\ Worlds \in Seq(Range(Worlds))
  BY <1>1, ListIs DEF IsList
<1>3. Len(Worlds) # 0
  BY <1>1, <1>2, EmptySeq
<1>4. \A i \in DOMAIN Worlds : Worlds[i] \in Range(Worlds)
  BY DEF Range
<1> QED
  BY <1>1, <1>2, <1>3, <1>4 DEF Versions

LEMMA ContextIsFine ==
    ASSUME NEW at, \A part \in ReadParts : at[part] \in Versions, NEW now \in Versions
    PROVE  ContextFine(Context(at, now)) /\ Paths(Context(at, now)) = PathsOf(Worlds[at.inventory])
<1> DEFINE c == Context(at, now)
           paths == PathsOf(Worlds[at.inventory])
<1>1. /\ at.inventory \in Versions /\ at.contract \in Versions /\ at.scan \in Versions /\ at.state \in Versions
  BY DEF ReadParts
<1>2. /\ c.files = Worlds[at.inventory].files /\ c.contract = ContractOf(Worlds[at.contract])
      /\ c.facts = Worlds[at.scan].facts /\ c.problems = Worlds[at.state].problems
      /\ c.candidates = Worlds[at.state].candidates
      /\ c.texts = [p \in paths \cap PathsOf(Worlds[now]) |-> FileAt(Worlds[now], p).text]
  BY DEF Context
<1> HIDE DEF c, paths
<1>3. IsList(c.files) /\ \A f \in Range(c.files) : f.path # "" /\ IsList(f.dirs)
  BY <1>1, <1>2, WorldsAre DEF WorldListed
<1>4. /\ IsList(c.facts)
      /\ \A f \in Range(c.facts) :
             IsList(f.mentions) /\ IsList(f.jobs) /\ \A j \in Range(f.jobs) : IsList(j.commands)
  BY <1>1, <1>2, WorldsAre DEF WorldListed
<1>5. \A p \in DOMAIN c.texts : TextListed(c.texts[p])
  <2> SUFFICES ASSUME NEW p \in DOMAIN c.texts PROVE TextListed(c.texts[p])
    OBVIOUS
  <2>1. c.texts[p] = FileAt(Worlds[now], p).text /\ p \in PathsOf(Worlds[now])
    BY <1>2
  <2>2. \E f \in Range(Worlds[now].files) : f.path = p
    BY <2>1 DEF PathsOf
  <2>3. FileAt(Worlds[now], p) \in Range(Worlds[now].files)
    BY <2>2 DEF FileAt
  <2> QED
    BY <2>1, <2>3, WorldsAre DEF WorldListed
<1>6. ContractListed(c.contract)
  BY <1>1, <1>2, WorldsAre, ListsAssumption DEF ContractOf, WorldListed
<1>7. IsList(c.problems) /\ (\A p \in Range(c.problems) : IsList(p.targets)) /\ IsList(c.candidates)
  BY <1>1, <1>2, WorldsAre DEF WorldListed
<1>8. ContextFine(c)
  <2>1. \A p \in DOMAIN c.texts :
           LET t == c.texts[p] IN
           IsList(t.exports) /\ IsList(t.imports) /\ IsList(t.calls) /\ IsList(t.accesses) /\ IsList(t.mentions)
    BY <1>5 DEF TextListed
  <2>2. /\ IsList(c.contract.apps) /\ \A a \in Range(c.contract.apps) : IsList(a.commands)
        /\ IsList(c.contract.services) /\ IsList(c.contract.unsafe) /\ IsList(c.contract.setup)
        /\ IsList(c.contract.generated) /\ \A g \in Range(c.contract.generated) : IsList(g.sources)
        /\ IsList(c.contract.checks) /\ \A k \in Range(c.contract.checks) : IsList(k.paths) /\ IsList(k.components)
        /\ ~c.contract.present => c.contract.apps = <<>>
    BY <1>6 DEF ContractListed
  <2> QED
    BY <1>3, <1>4, <1>7, <2>1, <2>2 DEF ContextFine
<1>9. Paths(c) = PathsOf(Worlds[at.inventory])
  BY <1>2 DEF Paths, PathsOf
<1> QED
  BY <1>8, <1>9 DEF c

\* A graph has the file of each path of the inventory.
LEMMA GraphHasFiles ==
    ASSUME NEW c, ContextFine(c) PROVE \A p \in Paths(c) : <<"file", p>> \in IdsOfNodes(Graph(c).nodes)
<1> DEFINE K == IdsOfNodes(Graph(c).nodes)
<1>1. Graph(c).nodes = MergedNodes(Parts(c))
  BY DEF Graph
<1>2. \A i \in 1 .. 16 : \A n \in Parts(c)[i].nodes : n.id \in K
  BY <1>1, PartsAre, MergedIs DEF IdsOfNodes
<1> HIDE DEF K
<1>3. FilesKnown(c, K)
  BY <1>2, PartsFit
<1> QED
  BY <1>3 DEF FilesKnown, K


-----------------------------------------------------------------------------
(* Whatever is stored is of the graph of some context *)

\* The rows that were committed, of one graph or of what a clear has left of it.
TablesFine(d) ==
    /\ IsFiniteSet(d.nodes) /\ IsFiniteSet(d.edges)
    /\ \A n \in d.nodes : NodeFine(n) /\ n.evidence \subseteq d.evidence
    /\ \A e \in d.edges :
           /\ DOMAIN e = {"source", "target", "kind", "extractor", "evidence"}
           /\ e.evidence \subseteq d.evidence
    /\ \A e, f \in d.edges : EdgeId(e) = EdgeId(f) => e = f

\* A graph to be written is the one of a context.
OfContext(s) ==
    \E c : /\ ContextFine(c)
           /\ s.nodes = Graph(c).nodes /\ s.edges = Graph(c).edges /\ s.evidence = Graph(c).evidence

\* What a clear has deleted so far.
ClearedSoFar(w) ==
    /\ step[w] \in {"clear-edges", "clear-evidence"} => disk.nodes = {}
    /\ step[w] = "clear-evidence" => disk.edges = {}

GraphInv ==
    /\ world \in Versions
    /\ DOMAIN read = Writers /\ \A w \in Writers : read[w] \in [ReadParts -> Versions]
    /\ \A w \in Writers : step[w] \in DOMAIN Inserted => OfContext(snapshot[w])
    /\ \A w \in Writers : ClearedSoFar(w)
    /\ TablesFine(disk)

LEMMA NothingReadIs == NothingRead \in [ReadParts -> Versions]
<1>1. DOMAIN NothingRead = ReadParts /\ \A x \in ReadParts : NothingRead[x] = 1
  BY DEF NothingRead, ReadParts
<1>2. NothingRead = [x \in ReadParts |-> NothingRead[x]]
  BY DEF NothingRead, ReadParts
<1> QED
  BY <1>1, <1>2, WorldsAre

LEMMA OfContextFine == ASSUME NEW s, OfContext(s) PROVE TablesFine(s)
<1>1. PICK c : /\ ContextFine(c)
               /\ s.nodes = Graph(c).nodes /\ s.edges = Graph(c).edges /\ s.evidence = Graph(c).evidence
  BY DEF OfContext
<1>2. GraphFine(c, Graph(c))
  BY <1>1, GraphIsFine
<1> QED
  BY <1>1, <1>2 DEF GraphFine, EdgeFine, TablesFine

LEMMA InitGraphInv == Init => GraphInv
<1> SUFFICES ASSUME Init PROVE GraphInv
  OBVIOUS
<1>1. world \in Versions /\ DOMAIN read = Writers /\ \A w \in Writers : read[w] \in [ReadParts -> Versions]
  BY WorldsAre, NothingReadIs DEF Init
<1>2. \A w \in Writers : step[w] = "idle"
  BY DEF Init, StoreInit
<1>3. disk.nodes = {} /\ disk.edges = {} /\ disk.evidence = {}
  BY DEF Init, StoreInit, Empty, Tables
<1>4. TablesFine(disk)
  BY <1>3, FS_EmptySet DEF TablesFine
<1> QED
  BY <1>1, <1>2, <1>4, StepFacts DEF GraphInv, ClearedSoFar, Inserting

LEMMA GraphReads ==
    ASSUME IInv, GraphInv, NEW w \in Writers, Reads(w)
    PROVE  GraphInv'
<1> USE DEF At, Go
<1>1. /\ disk' = disk /\ \A v \in Writers \ {w} : Own(v)
      /\ step'[w] \in {"ensure", "ingest", "clear-builds"} \cup DOMAIN ReadOrder
      /\ DOMAIN step = Writers /\ DOMAIN snapshot = Writers
  BY ReadKeeps DEF IInv
<1>2. world' = world
  BY DEF Reads, StartBuild, StartClear, Ingest, ReadContext, graphVars
<1>3. DOMAIN read' = Writers /\ \A v \in Writers : read'[v] \in [ReadParts -> Versions]
  <2>1. CASE StartBuild(w) \/ StartClear(w)
    BY <2>1 DEF StartBuild, StartClear, graphVars, GraphInv
  <2>2. CASE Ingest(w)
    BY <2>2, NothingReadIs DEF Ingest, GraphInv
  <2>3. ASSUME NEW part \in DOMAIN ReadOrder, ReadContext(w, part)
        PROVE  DOMAIN read' = Writers /\ \A v \in Writers : read'[v] \in [ReadParts -> Versions]
    BY <2>3, StepFacts DEF ReadContext, GraphInv, ReadParts
  <2> QED
    BY <2>1, <2>2, <2>3 DEF Reads
<1>4. \A v \in Writers \ {w} : /\ step'[v] \in DOMAIN Inserted => OfContext(snapshot'[v])
                               /\ ClearedSoFar(v)'
  BY <1>1 DEF GraphInv, Own, ClearedSoFar
<1>5. ClearedSoFar(w)'
  BY <1>1, StepFacts DEF ClearedSoFar
<1>6. step'[w] \in DOMAIN Inserted => OfContext(snapshot'[w])
  <2>1. CASE Ingest(w)
    <3> DEFINE c == Context(read[w], world)
    <3>1. /\ snapshot'[w].nodes = Graph(c).nodes /\ snapshot'[w].edges = Graph(c).edges
          /\ snapshot'[w].evidence = Graph(c).evidence
      BY <1>1, <2>1 DEF Ingest
    <3>2. ContextFine(c)
      BY ContextIsFine DEF GraphInv
    <3> HIDE DEF c
    <3> QED
      BY <3>1, <3>2 DEF OfContext
  <2>2. CASE ~Ingest(w)
    <3>1. step'[w] # "ensure"
      BY <1>1, <2>2, StepFacts DEF Reads, StartBuild, StartClear, ReadContext, ReadOrder
    <3> QED
      BY <1>1, <3>1, StepFacts DEF Inserting
  <2> QED
    BY <2>1, <2>2
<1> QED
  BY <1>1, <1>2, <1>3, <1>4, <1>5, <1>6 DEF GraphInv

LEMMA GraphStatement ==
    ASSUME IInv, GraphInv, NEW w \in Writers, StoreStep(w), UNCHANGED <<world, read, clock>>, ClearsAlone'
    PROVE  GraphInv'
<1> USE DEF At, Go
<1>1. /\ \A v \in Writers \ {w} : Own(v)
      /\ DOMAIN step = Writers /\ DOMAIN snapshot = Writers /\ DOMAIN disk = Tables
  BY StatementShape DEF IInv, Shape
<1>2. ASSUME disk' = disk, step'[w] \notin {"clear-edges", "clear-evidence"},
             step'[w] \in DOMAIN Inserted => step[w] \in DOMAIN Inserted /\ snapshot'[w] = snapshot[w]
      PROVE  GraphInv'
  BY <1>1, <1>2 DEF GraphInv, Own, ClearedSoFar
<1>3. CASE Ensure(w) \/ Begin(w) \/ DeleteRows(w) \/ SetLatest(w) \/ \E t \in DOMAIN InsertOrder : Insert(w, t)
  <2>1. disk' = disk /\ snapshot' = snapshot
    BY <1>3 DEF Ensure, Begin, DeleteRows, SetLatest, Insert
  <2>2. step[w] \in DOMAIN Inserted /\ step'[w] \notin DOMAIN ClearOrder
    BY <1>1, <1>3, StepFacts, NextStatements
       DEF Ensure, Begin, DeleteRows, SetLatest, Insert, Tables, Inserting
  <2> QED
    BY <1>2, <2>1, <2>2, StepFacts
<1>4. CASE Refused(w) \/ Failing(w)
  <2>1. disk' = disk /\ step'[w] = "failed"
    BY <1>1, <1>4 DEF Refused, Failing, Ended
  <2> QED
    BY <1>2, <2>1, StepFacts DEF Inserting
<1>5. CASE Commit(w)
  <2>1. step[w] = "commit" /\ step'[w] = "done" /\ disk' = tx[w]
    BY <1>1, <1>5 DEF Commit
  <2>2. tx[w] = [t \in Tables |-> IF t \in Inserted["commit"] THEN RowsOf(snapshot[w], t) ELSE {}]
    BY <2>1, StepFacts DEF IInv, WriterInv, Inserting
  <2>3. /\ disk'.nodes = snapshot[w].nodes /\ disk'.edges = snapshot[w].edges
        /\ disk'.evidence = snapshot[w].evidence
    BY <2>1, <2>2, InsertedAre DEF Tables, RowsOf
  <2>4. OfContext(snapshot[w])
    BY <2>1, StepFacts DEF GraphInv, Inserting
  <2>5. TablesFine(disk')
    BY <2>3, <2>4, OfContextFine DEF TablesFine
  <2>6. \A v \in Writers : step'[v] \notin DOMAIN ClearOrder
    <3>1. \A v \in Writers \ {w} : step[v] \notin DOMAIN ClearOrder
      BY <2>1, StepFacts DEF IInv, ClearsAlone
    <3> QED
      BY <1>1, <2>1, <3>1, StepFacts DEF Own
  <2> QED
    BY <1>1, <2>1, <2>5, <2>6, StepFacts DEF GraphInv, Own, ClearedSoFar, Inserting
<1>6. CASE ClearStatement(w)
  <2>1. step[w] \in DOMAIN ClearOrder /\ step'[w] = ClearOrder[step[w]] /\ snapshot' = snapshot
    BY <1>1, <1>6 DEF ClearStatement
  <2>2. \A v \in Writers \ {w} : step'[v] \notin DOMAIN ClearOrder
    <3>1. \A v \in Writers \ {w} : step[v] \in {"idle", "done", "failed"}
      BY <2>1, StepFacts DEF IInv, ClearsAlone
    <3> QED
      BY <1>1, <3>1, StepFacts DEF Own
  <2>3. step'[w] \notin DOMAIN Inserted
    BY <2>1, NextClears, StepFacts DEF Inserting
  <2>4. TablesFine(disk') /\ ClearedSoFar(w)'
    <3>1. CASE step[w] = "clear-latest"
      <4>1. disk' = disk /\ step'[w] = "done"
        BY <1>6, <2>1, <3>1 DEF ClearStatement, ClearOrder
      <4> QED
        BY <4>1 DEF GraphInv, ClearedSoFar
    <3>2. CASE step[w] = "clear-builds"
      <4>1. disk' = [disk EXCEPT !["builds"] = {}] /\ step'[w] = "clear-nodes"
        BY <1>6, <2>1, <3>2, NextClears DEF ClearStatement, ClearOrder
      <4>2. disk'.nodes = disk.nodes /\ disk'.edges = disk.edges /\ disk'.evidence = disk.evidence
        BY <1>1, <4>1 DEF Tables
      <4> QED
        BY <4>1, <4>2 DEF GraphInv, ClearedSoFar, TablesFine
    <3>3. CASE step[w] = "clear-nodes"
      <4>1. disk' = [disk EXCEPT !["nodes"] = {}] /\ step'[w] = "clear-edges"
        BY <1>6, <2>1, <3>3 DEF ClearStatement, ClearOrder, Cleared
      <4>2. disk'.nodes = {} /\ disk'.edges = disk.edges /\ disk'.evidence = disk.evidence
        BY <1>1, <4>1 DEF Tables
      <4> QED
        BY <4>1, <4>2, FS_EmptySet DEF GraphInv, ClearedSoFar, TablesFine
    <3>4. CASE step[w] = "clear-edges"
      <4>1. disk' = [disk EXCEPT !["edges"] = {}] /\ step'[w] = "clear-evidence"
        BY <1>6, <2>1, <3>4 DEF ClearStatement, ClearOrder, Cleared
      <4>2. disk'.nodes = {} /\ disk'.edges = {} /\ disk'.evidence = disk.evidence
        BY <1>1, <3>4, <4>1 DEF Tables, GraphInv, ClearedSoFar
      <4> QED
        BY <4>1, <4>2, FS_EmptySet DEF GraphInv, ClearedSoFar, TablesFine
    <3>5. CASE step[w] = "clear-evidence"
      <4>1. disk' = [disk EXCEPT !["evidence"] = {}] /\ step'[w] = "clear-latest"
        BY <1>6, <2>1, <3>5 DEF ClearStatement, ClearOrder, Cleared
      <4>2. disk'.nodes = {} /\ disk'.edges = {}
        BY <1>1, <3>5, <4>1 DEF Tables, GraphInv, ClearedSoFar
      <4> QED
        BY <4>1, <4>2, FS_EmptySet DEF ClearedSoFar, TablesFine
    <3> QED
      BY <2>1, <3>1, <3>2, <3>3, <3>4, <3>5, StepFacts
  <2> QED
    BY <1>1, <2>1, <2>2, <2>3, <2>4, StepFacts DEF GraphInv, Own, ClearedSoFar
<1> QED
  BY <1>3, <1>4, <1>5, <1>6 DEF StoreStep

LEMMA GraphNext == IInv /\ GraphInv /\ [Next /\ ClearsAlone']_vars => GraphInv'
<1> SUFFICES ASSUME IInv, GraphInv, [Next /\ ClearsAlone']_vars PROVE GraphInv'
  OBVIOUS
<1>1. ASSUME UNCHANGED <<storeVars, read>>, world' \in Versions
      PROVE  GraphInv'
  BY <1>1, SMTT(40) DEF GraphInv, ClearedSoFar, storeVars
<1>2. ASSUME NEW w \in Writers, Write(w), ClearsAlone'
      PROVE  GraphInv'
  BY <1>2, GraphStatement, SMTT(40) DEF Write
<1>3. ASSUME NEW r \in Readers, Reading(r)
      PROVE  UNCHANGED <<storeVars, read, world>>
  BY <1>3, ReadingLeaves
<1>4. ASSUME NEW r \in Readers, NEW question \in Questions, Ask(r, question)
      PROVE  UNCHANGED <<storeVars, read, world>>
  BY <1>4 DEF Ask
<1>5. CASE Edit
  <2>1. world' \in Versions
    BY <1>5, WorldsAre DEF Edit, GraphInv, Versions
  <2> QED
    BY <1>1, <1>5, <2>1 DEF Edit
<1>6. CASE Tick
  BY <1>1, <1>6 DEF Tick, GraphInv
<1>7. CASE UNCHANGED vars
  BY <1>1, <1>7 DEF vars, graphVars, GraphInv
<1>8. world \in Versions
  BY DEF GraphInv
<1> QED
  BY <1>1, <1>2, <1>3, <1>4, <1>5, <1>6, <1>7, <1>8, GraphReads DEF Next, Reads

LEMMA GraphInvHolds == AloneSpec => []GraphInv
BY InitGraphInv, GraphNext, IInvHolds, PTL DEF AloneSpec


-----------------------------------------------------------------------------
(* The plan of an invalidation *)

LEMMA RenamesAre ==
    ASSUME NEW graph, NEW prints
    PROVE  \A m \in Renames(graph, prints) :
               /\ m[1] \in {n.path : n \in Files(graph)} /\ m[1] \notin DOMAIN prints
               /\ m[2] \in DOMAIN prints /\ m[2] \notin {n.path : n \in Files(graph)}
<1> DEFINE before == {n.path : n \in Files(graph)}
           becomes(n) == {p \in DOMAIN prints \ before : n.meta # "" /\ prints[p] = n.meta}
<1> SUFFICES ASSUME NEW m \in Renames(graph, prints)
             PROVE  /\ m[1] \in before /\ m[1] \notin DOMAIN prints
                    /\ m[2] \in DOMAIN prints /\ m[2] \notin before
  OBVIOUS
<1>1. PICK n \in Files(graph) : /\ n.path \notin DOMAIN prints /\ becomes(n) # {}
                                /\ m = <<n.path, CHOOSE p \in becomes(n) : TRUE>>
  BY DEF Renames
<1>2. m[1] = n.path /\ m[2] \in becomes(n)
  BY <1>1
<1> QED
  BY <1>1, <1>2

\* The plan of a graph whose file nodes are named by their paths has the nodes of all files that
\* are gone or have another fingerprint, and of no other.
Covers(graph, prints, changedOnly) ==
    LET plan == Plan(graph, prints, changedOnly)
        paths == {n.path : n \in Files(graph)}
        stale == {n.id : n \in {f \in Files(graph) : f.path \notin DOMAIN prints \/ prints[f.path] # f.meta}}
    IN  /\ stale = plan.nodes
        /\ {EdgeId(e) : e \in Touching(graph.edges, stale)} = plan.edges
        /\ (plan.mode = "none") <=> (stale = {} /\ DOMAIN prints = paths)
        /\ \A m \in plan.renamed : m[1] \notin DOMAIN prints /\ m[2] \notin paths

LEMMA PlanCovers ==
    ASSUME NEW graph, \A n \in graph.nodes : NodeFine(n), NEW prints, NEW changedOnly \in BOOLEAN,
           Plan(graph, prints, changedOnly).mode # "full"
    PROVE  Covers(graph, prints, changedOnly)
<1> DEFINE files == Files(graph)
           before == {n.path : n \in files}
           added == DOMAIN prints \ before
           deleted == before \ DOMAIN prints
           changed == {n.path : n \in {m \in files : m.path \in DOMAIN prints /\ m.meta # prints[m.path]}}
           renamed == Renames(graph, prints)
           direct == changed \cup deleted \cup {r[1] : r \in renamed} \cup {r[2] : r \in renamed}
           nodes == {n.id : n \in {m \in files : m.path \in direct}}
           stale == {n.id : n \in {f \in files : f.path \notin DOMAIN prints \/ prints[f.path] # f.meta}}
           plan == Plan(graph, prints, changedOnly)
<1>1. ~(changedOnly /\ \E n \in files : n.meta = "")
  BY DEF Plan, FullPlan
<1>2. /\ plan.mode = IF direct \cup added = {} THEN "none" ELSE "incremental"
      /\ plan.nodes = nodes /\ plan.renamed = renamed
      /\ plan.edges = {EdgeId(e) : e \in Touching(graph.edges, nodes)}
  BY <1>1 DEF Plan
<1>3. \A m \in renamed : /\ m[1] \in before /\ m[1] \notin DOMAIN prints
                         /\ m[2] \in DOMAIN prints /\ m[2] \notin before
  BY RenamesAre
<1> HIDE DEF plan, renamed
<1>4. \A n \in files : n.id = <<"file", n.path>>
  BY DEF Files, NodeFine
<1>5. \A p \in before : p \in direct <=> p \in changed \/ p \in deleted
  BY <1>3
<1>6. stale = nodes
  <2>1. ASSUME NEW x \in stale
        PROVE  x \in nodes
    <3>1. PICK n \in files : x = n.id /\ (n.path \notin DOMAIN prints \/ prints[n.path] # n.meta)
      OBVIOUS
    <3>2. n.path \in direct
      BY <3>1
    <3> QED
      BY <3>1, <3>2
  <2>2. ASSUME NEW x \in nodes
        PROVE  x \in stale
    <3>1. PICK n \in files : x = n.id /\ n.path \in direct
      OBVIOUS
    <3>2. n.path \in changed \/ n.path \in deleted
      BY <1>5, <3>1
    <3>3. CASE n.path \in deleted
      BY <3>1, <3>3
    <3>4. CASE n.path \in changed
      <4>1. PICK m \in files : m.path = n.path /\ m.path \in DOMAIN prints /\ m.meta # prints[m.path]
        BY <3>4
      <4>2. m.id = n.id
        BY <1>4, <4>1
      <4> QED
        BY <3>1, <4>1, <4>2
    <3> QED
      BY <3>2, <3>3, <3>4
  <2> QED
    BY <2>1, <2>2
<1>7. direct \cup added = {} <=> stale = {} /\ DOMAIN prints = before
  <2>1. ASSUME direct \cup added = {}
        PROVE  stale = {} /\ DOMAIN prints = before
    <3>1. direct = {} /\ added = {} /\ deleted = {}
      BY <2>1
    <3>2. nodes = {}
      BY <3>1
    <3> QED
      BY <1>6, <3>1, <3>2
  <2>2. ASSUME stale = {}, DOMAIN prints = before
        PROVE  direct \cup added = {}
    <3>1. added = {} /\ deleted = {}
      BY <2>2
    <3>2. changed = {}
      <4>1. ASSUME NEW n \in files, n.path \in DOMAIN prints, n.meta # prints[n.path]
            PROVE  n.id \in stale
        BY <4>1
      <4> HIDE DEF stale
      <4> QED
        BY <2>2, <4>1
    <3>3. renamed = {}
      BY <1>3, <2>2
    <3> HIDE DEF changed, added, deleted
    <3> QED
      BY <3>1, <3>2, <3>3
  <2> QED
    BY <2>1, <2>2
<1>8. plan.mode = "none" <=> direct \cup added = {}
  BY <1>2
<1> HIDE DEF files, before, stale, nodes, direct, added
<1>9. /\ stale = plan.nodes
      /\ {EdgeId(e) : e \in Touching(graph.edges, stale)} = plan.edges
      /\ (plan.mode = "none") <=> (stale = {} /\ DOMAIN prints = before)
      /\ \A m \in plan.renamed : m[1] \notin DOMAIN prints /\ m[2] \notin before
  BY <1>2, <1>3, <1>6, <1>7, <1>8
<1> QED
  BY <1>9 DEF Covers, files, before, stale, plan

\* Whatever graph is stored, and however the repository was edited since or while it was read, the
\* plan has all nodes and edges that a changed, deleted or renamed file stands behind, and no
\* other (planGraphInvalidation).
THEOREM InvalidationAlwaysCovers == AloneSpec => []InvalidationCovers
<1>1. GraphInv => InvalidationCovers
  <2> SUFFICES ASSUME GraphInv, NEW changedOnly \in BOOLEAN, Plan(disk, Prints, changedOnly).mode # "full"
               PROVE  Covers(disk, Prints, changedOnly)
    BY DEF InvalidationCovers, Covers
  <2>1. \A n \in disk.nodes : NodeFine(n)
    BY DEF GraphInv, TablesFine
  <2> HIDE DEF Prints
  <2> QED
    BY <2>1, PlanCovers
<1> QED
  BY <1>1, GraphInvHolds, PTL

-----------------------------------------------------------------------------
(* The ends of the edges *)

LEMMA EdgesEnd == IInv /\ GraphInv => EdgesEndAtNodes
<1> SUFFICES ASSUME IInv, GraphInv, NEW w \in Writers, At(w, "commit"),
                    tx[w].nodes = GraphsOfWorlds[world].nodes,
                    NEW e \in tx[w].edges, NEW id \in Ends(e), id \notin {n.id : n \in tx[w].nodes}
             PROVE  \/ e.extractor = "reference-index" /\ id[1] = "component"
                    \/ e.extractor = "runtime-nodes" /\ id[1] = "file" /\ id[2] \notin PathsOf(Worlds[world])
                    \/ e.extractor = "route-index" /\ id[1] = "symbol"
  BY DEF EdgesEndAtNodes
<1> DEFINE at == [inventory |-> world, contract |-> world, scan |-> world, state |-> world]
           present == Context(at, world)
           K == IdsOfNodes(tx[w].nodes)
<1>1. step[w] = "commit"
  BY DEF At
<1>2. tx[w] = [t \in Tables |-> IF t \in Inserted["commit"] THEN RowsOf(snapshot[w], t) ELSE {}]
  BY <1>1, StepFacts DEF IInv, WriterInv, Inserting
<1>3. tx[w].nodes = snapshot[w].nodes /\ tx[w].edges = snapshot[w].edges
  BY <1>2, InsertedAre DEF Tables, RowsOf
<1>4. PICK c : /\ ContextFine(c)
               /\ snapshot[w].nodes = Graph(c).nodes /\ snapshot[w].edges = Graph(c).edges
  BY <1>1, StepFacts DEF GraphInv, OfContext, Inserting
<1>5. EdgeFine(c, K, {e.extractor}, e)
  BY <1>3, <1>4, GraphIsFine DEF GraphFine
<1>6. Elsewhere(c, e.extractor, id)
  BY <1>5 DEF EdgeFine, Ends, IdsOfNodes
<1>7. tx[w].nodes = Graph(present).nodes
  <2>1. DOMAIN Worlds = Versions /\ world \in Versions
    BY WorldsAre DEF GraphInv
  <2>2. GraphsOfWorlds[world] = Graph(present)
    BY <2>1 DEF GraphsOfWorlds
  <2> QED
    BY <2>2
<1>8. ContextFine(present) /\ Paths(present) = PathsOf(Worlds[world])
  <2>1. (\A part \in ReadParts : at[part] \in Versions) /\ at.inventory = world /\ world \in Versions
    BY DEF ReadParts, GraphInv
  <2> HIDE DEF at
  <2> QED
    BY <2>1, ContextIsFine
<1>9. \A p \in PathsOf(Worlds[world]) : <<"file", p>> \in K
  BY <1>7, <1>8, GraphHasFiles
<1>10. ASSUME e.extractor = "runtime-nodes", id[1] = "file"
       PROVE  id[2] \notin PathsOf(Worlds[world])
  <2>1. id \notin K
    BY DEF IdsOfNodes
  <2>2. id = <<"file", id[2]>>
    BY <1>6, <1>10 DEF Elsewhere
  <2> QED
    BY <1>9, <2>1, <2>2
<1> QED
  BY <1>6, <1>10 DEF Elsewhere

\* An edge of a graph of the present repository ends at nodes of it, but for those three kinds
\* of ends that the parts do not make a node of (addRepositoryGraphParts).
THEOREM EdgesAlwaysEnd == AloneSpec => []EdgesEndAtNodes
BY EdgesEnd, IInvHolds, GraphInvHolds, PTL


-----------------------------------------------------------------------------
(* What a question has found out so far, if only one graph was committed in its time *)

Among(d, target, kinds) == {n \in d.nodes : n.id[1] \in kinds /\ Named(n, target)}
StartsOf(q, d) == Among(d, q.question.target, Range(NodeKinds))
StartIds(q, d) == {n.id : n \in StartsOf(q, d)}
NodesAt(d, ids) == {n \in d.nodes : n.id \in ids}
EdgeIds(edges) == {EdgeId(e) : e \in edges}

\* The nodes that can be walked from, and what is around them.
Walks(q, d) == FirstOf(StartIds(q, d), StartLimit(q.question))
AroundOf(q, d, all) == Around(d, all, DepthOf(q.question))

\* The nodes of some kinds have been asked for, those of the rest are to be.
KindsAsked(q, d) ==
    /\ IsList(q.kinds) /\ q.kinds # <<>>
    /\ q.nodes = {} /\ q.edges = {} /\ q.edgeIds = {} /\ q.evidence = {}
    /\ \E asked \in SUBSET Range(NodeKinds) :
           /\ asked \cup Range(q.kinds) = Range(NodeKinds)
           /\ q.starts = Among(d, q.question.target, asked)

\* The walks from the nodes `walked` are over, that from s is under way.
WalksFrom(q, d, walked, s) ==
    /\ IsList(q.todo) /\ walked \cup {s} \cup Range(q.todo) \in Walks(q, d)
    /\ q.edges = {} /\ q.starts = StartsOf(q, d)

Walking(q, d, walked, s) ==
    LET depth == DepthOf(q.question)
        through == Through(d.edges, s, depth, q.queue, q.met)
    IN  /\ WalksFrom(q, d, walked, s)
        /\ ByRounds(d.edges, s, depth, q.queue, q.met) /\ q.queue # <<>>
        /\ EdgeIds(Touching(d.edges, Within(d.edges, walked, depth - 1) \cup through)) \subseteq q.edgeIds
        /\ q.edgeIds \subseteq EdgeIds(Touching(d.edges, Within(d.edges, walked \cup {s}, depth - 1)))
        /\ q.nodes = StartsOf(q, d) \cup NodesAt(d, Within(d.edges, walked, depth))

\* It has met all nodes within reach, and those with one of q.ids are still to be read.
Fetching(q, d, walked, s) ==
    LET depth == DepthOf(q.question) IN
    /\ WalksFrom(q, d, walked, s)
    /\ q.ids # {} /\ q.ids \subseteq Reach(d.edges, s, depth)
    /\ q.edgeIds = EdgeIds(Touching(d.edges, Within(d.edges, walked \cup {s}, depth - 1)))
    /\ q.nodes = StartsOf(q, d)
                 \cup NodesAt(d, Within(d.edges, walked, depth) \cup (Reach(d.edges, s, depth) \ q.ids))

\* Of the edges those with one of q.edgeIds are still to be read.
EdgesLeft(q, edges) ==
    /\ q.edges \subseteq edges /\ q.edgeIds \subseteq EdgeIds(edges)
    /\ \A e \in edges : e \in q.edges \/ EdgeId(e) \in q.edgeIds

\* All was read that is around the nodes `all`.
ReadAround(q, d, all) ==
    /\ q.starts = StartsOf(q, d)
    /\ q.nodes = StartsOf(q, d) \cup AroundOf(q, d, all).nodes
    /\ EdgesLeft(q, AroundOf(q, d, all).edges)

Exact(q, d) ==
    /\ \E all \in Walks(q, d) :
           /\ q.nodes \in NodesKept(StartsOf(q, d) \cup AroundOf(q, d, all).nodes, StartIds(q, d))
           /\ q.edges \in FirstOf(AroundOf(q, d, all).edges, MaxRecords)
    /\ q.evidence = Cited(q.nodes) \cup Cited(q.edges)

RelatedSoFar(q, d) ==
    /\ q.step \in {"kinds", "walk", "nodes", "edges", "done"}
    /\ q.step = "kinds" => KindsAsked(q, d)
    /\ q.step = "walk" => \E walked \in SUBSET StartIds(q, d) : \E s \in StartIds(q, d) : Walking(q, d, walked, s)
    /\ q.step = "nodes" => \E walked \in SUBSET StartIds(q, d) : \E s \in StartIds(q, d) : Fetching(q, d, walked, s)
    /\ q.step = "edges" => \E all \in Walks(q, d) : ReadAround(q, d, all)
    /\ q.step = "done" => Exact(q, d)

\* The edges of a way lead to its end, one by one.
Trail(E, way) == {e \in E : EdgeId(e) \in Range(way.edges)}
Leads(E, s, way) ==
    LET edges == Trail(E, way) IN
    /\ IsFiniteSet(edges) /\ Cardinality(edges) = Len(way.edges) /\ EdgeIds(edges) = Range(way.edges)
    /\ way.id \in Within(edges, {s}, Len(way.edges))
    /\ \A e \in edges : Ends(e) \subseteq Reach(E, s, Len(way.edges))

Searching(q, d) ==
    LET s == q.question.source
        lim == q.question.depth + 1
    IN  /\ q.nodes = {} /\ q.edges = {} /\ q.edgeIds = {} /\ q.todo = <<>>
        /\ ByRounds(d.edges, s, lim, q.queue, q.met) /\ q.queue # <<>>
        /\ q.question.target \notin Through(d.edges, s, lim, q.queue, q.met)
        /\ \A i \in DOMAIN q.queue : Leads(d.edges, s, q.queue[i])

\* A way of k edges to the target, than which none is shorter.
Shortest(q, d, edges) ==
    LET k == Cardinality(edges) IN
    /\ edges \subseteq d.edges /\ IsFiniteSet(edges) /\ k <= q.question.depth
    /\ q.question.target \in Within(edges, {q.question.source}, k)
    /\ Level(d.edges, q.question.source, k, q.question.target)

PathSoFar(q, d) ==
    /\ q.step \in {"walk", "nodes", "edges", "done"}
    /\ q.step = "walk" => Searching(q, d)
    /\ q.step \in {"nodes", "edges"} =>
           /\ q.todo = <<>>
           /\ Shortest(q, d, q.edges \cup {e \in d.edges : EdgeId(e) \in q.edgeIds})
           /\ EdgesLeft(q, q.edges \cup {e \in d.edges : EdgeId(e) \in q.edgeIds})
    /\ q.step = "done" =>
           \/ Shortest(q, d, q.edges)
           \/ q.edges = {} /\ q.question.target \notin Reach(d.edges, q.question.source, q.question.depth)

SoFar(q, d) ==
    /\ q.question \in Questions
    /\ q.question.op \in {"related", "explain"} => RelatedSoFar(q, d)
    /\ q.question.op = "path" => PathSoFar(q, d)

QuietInv ==
    \A r \in Readers : \A d \in during[r] :
        during[r] = {d} /\ query[r].step # "idle" => TablesFine(d) /\ SoFar(query[r], d)

EmptyInv == ~made => disk.nodes = {} /\ disk.edges = {} /\ disk.evidence = {}

-----------------------------------------------------------------------------
(* Sets that are reached, and lists *)

LEMMA WithinParts ==
    ASSUME NEW E, NEW n \in Nat
    PROVE  /\ Within(E, {}, n) = {}
           /\ \A s : Within(E, {s}, n) = Reach(E, s, n)
           /\ \A A, B : Within(E, A \cup B, n) = Within(E, A, n) \cup Within(E, B, n)
           /\ \A A : A \subseteq Within(E, A, n)
<1>1. \A S, x : x \in Within(E, S, n) <=> \E s \in S : x \in Reach(E, s, n)
  BY WithinAll
<1>2. \A s : s \in Reach(E, s, n)
  BY ReachGrows
<1>3. \A s : Within(E, {s}, n) = Reach(E, s, n)
  BY DEF Reach
<1> HIDE DEF Reach
<1>4. Within(E, {}, n) = {}
  BY <1>1
<1>5. \A A, B : Within(E, A \cup B, n) = Within(E, A, n) \cup Within(E, B, n)
  <2> SUFFICES ASSUME NEW A, NEW B PROVE Within(E, A \cup B, n) = Within(E, A, n) \cup Within(E, B, n)
    OBVIOUS
  <2>1. \A x : x \in Within(E, A \cup B, n) <=> x \in Within(E, A, n) \/ x \in Within(E, B, n)
    BY <1>1
  <2> QED
    BY <2>1
<1>6. \A A : A \subseteq Within(E, A, n)
  BY <1>1, <1>2
<1> QED
  BY <1>3, <1>4, <1>5, <1>6

\* What is within two numbers of steps, of the same starts.
LEMMA WithinGrows ==
    ASSUME NEW E, NEW A, NEW m \in Nat, NEW n \in Nat, m <= n
    PROVE  Within(E, A, m) \subseteq Within(E, A, n)
<1>1. \A s : Reach(E, s, m) \subseteq Reach(E, s, n)
  BY ReachGrows
<1>2. \A x : x \in Within(E, A, m) => \E s \in A : x \in Reach(E, s, m)
  BY WithinAll
<1>3. \A x : (\E s \in A : x \in Reach(E, s, n)) => x \in Within(E, A, n)
  BY WithinAll
<1> QED
  BY <1>1, <1>2, <1>3

LEMMA ReachOfMore ==
    ASSUME NEW P, NEW E, P \subseteq E, NEW s
    PROVE  \A n \in Nat : Reach(P, s, n) \subseteq Reach(E, s, n)
<1> DEFINE S == {n \in Nat : Reach(P, s, n) \subseteq Reach(E, s, n)}
<1>1. 0 \in S
  BY ReachGrows
<1>2. ASSUME NEW n \in Nat, n \in S
      PROVE  n + 1 \in S
  <2>1. \A x : Neighbours(P, x) \subseteq Neighbours(E, x)
    BY DEF Neighbours, Touching
  <2>2. Step(P, Reach(P, s, n)) \subseteq Step(E, Reach(E, s, n))
    BY <1>2, <2>1, StepIs
  <2>3. Reach(P, s, n + 1) = Step(P, Reach(P, s, n)) /\ Reach(E, s, n + 1) = Step(E, Reach(E, s, n))
    BY ReachGrows
  <2> QED
    BY <2>2, <2>3
<1> HIDE DEF S
<1>3. \A n \in Nat : n \in S
  BY <1>1, <1>2, SetInduction
<1> QED
  BY <1>3 DEF S

LEMMA ListedIs ==
    ASSUME NEW S, IsFiniteSet(S)
    PROVE  IsList(Listed(S)) /\ Range(Listed(S)) = S /\ (S # {} => Listed(S) # <<>>)
<1> DEFINE s == Listed(S)
           n == Cardinality(S)
<1>1. s \in [1 .. n -> S] /\ n \in Nat /\ \A x \in S : \E i \in 1 .. n : s[i] = x
  BY ListedHasAll
<1> HIDE DEF s, n
<1>2. IsList(s)
  BY <1>1, ListIs
<1>3. Range(s) = S
  BY <1>1 DEF Range
<1>4. Range(<<>>) = {}
  BY OneIs
<1> QED
  BY <1>2, <1>3, <1>4 DEF s

LEMMA FirstOfList ==
    ASSUME NEW s, IsList(s), s # <<>>
    PROVE  /\ Head(s) \in Range(s) /\ IsList(Tail(s))
           /\ Range(s) = {Head(s)} \cup Range(Tail(s))
<1>1. s \in Seq(Range(s)) /\ Len(s) \in Nat /\ DOMAIN s = 1 .. Len(s) /\ Len(s) # 0
  BY ListIs, EmptySeq DEF IsList
<1> DEFINE t == Tail(s)
           n == Len(s) - 1
<1>2. /\ Head(s) = s[1] /\ t \in Seq(Range(s)) /\ Len(t) = n
      /\ \A i \in 1 .. n : t[i] = s[i + 1]
  BY <1>1, HeadTailProperties
<1>3. n \in Nat /\ DOMAIN t = 1 .. n /\ t = [i \in 1 .. n |-> t[i]]
  <2>1. DOMAIN t = 1 .. Len(t) /\ t = [i \in 1 .. Len(t) |-> t[i]]
    BY <1>2, LenProperties
  <2> QED
    BY <1>1, <1>2, <2>1
<1> HIDE DEF t
<1>4. IsList(t)
  BY <1>3, ListIs
<1>5. \A i \in 1 .. Len(s) : i = 1 \/ (i - 1 \in 1 .. n /\ s[i] = t[i - 1])
  <2> SUFFICES ASSUME NEW i \in 1 .. Len(s), i # 1 PROVE i - 1 \in 1 .. n /\ s[i] = t[i - 1]
    OBVIOUS
  <2>1. i - 1 \in 1 .. n /\ i - 1 + 1 = i
    BY <1>1
  <2> QED
    BY <1>2, <2>1
<1>6. \A i \in 1 .. n : i + 1 \in 1 .. Len(s) /\ t[i] = s[i + 1]
  BY <1>1, <1>2
<1>7. 1 \in 1 .. Len(s)
  BY <1>1
<1> HIDE DEF n
<1>8. Range(s) = {Head(s)} \cup Range(t)
  <2>1. \A i \in 1 .. Len(s) : s[i] \in {Head(s)} \cup Range(t)
    BY <1>2, <1>3, <1>5 DEF Range
  <2>2. \A i \in 1 .. n : t[i] \in Range(s)
    BY <1>1, <1>6 DEF Range
  <2>3. Head(s) \in Range(s)
    BY <1>1, <1>2, <1>7 DEF Range
  <2> QED
    BY <1>1, <1>3, <2>1, <2>2, <2>3 DEF Range
<1> QED
  BY <1>1, <1>2, <1>4, <1>7, <1>8 DEF Range, t


-----------------------------------------------------------------------------
(* The reads of a question for related records *)

LEMMA AroundIs ==
    ASSUME NEW q, NEW d
    PROVE  /\ \A all : /\ AroundOf(q, d, all).nodes = NodesAt(d, Within(d.edges, all, DepthOf(q.question)))
                       /\ AroundOf(q, d, all).edges = Touching(d.edges, Within(d.edges, all, DepthOf(q.question) - 1))
           /\ StartsOf(q, d) = NodesAt(d, StartIds(q, d)) \cap StartsOf(q, d)
           /\ StartsOf(q, d) \subseteq d.nodes
BY DEF AroundOf, Around, NodesAt, StartIds, StartsOf, Among

\* What is asked for does not depend on what has been read.
LEMMA SameQuestion ==
    ASSUME NEW q, NEW p, q.question = p.question
    PROVE  \A d : /\ StartsOf(q, d) = StartsOf(p, d) /\ StartIds(q, d) = StartIds(p, d) /\ Walks(q, d) = Walks(p, d)
                  /\ \A all : AroundOf(q, d, all) = AroundOf(p, d, all)
BY DEF StartsOf, StartIds, AroundOf, Walks

\* How far a question looks.
LEMMA DepthIs ==
    ASSUME NEW question, question.depth \in Nat \ {0}
    PROVE  DepthOf(question) \in Nat \ {0}
BY LimitsAssumption DEF DepthOf

\* Of nothing nothing is left out.
LEMMA NothingKept ==
    /\ \A limit \in Nat : FirstOf({}, limit) = {{}}
    /\ \A asked : NodesKept({}, asked) = {{}}
<1>1. IsFiniteSet({}) /\ Cardinality({}) = 0
  BY FS_EmptySet
<1>2. \A limit \in Nat : FirstOf({}, limit) = {{}}
  BY <1>1 DEF FirstOf
<1>3. FirstOf({}, MaxRecords) = {{}}
  BY <1>2, LimitsAssumption
<1> QED
  BY <1>2, <1>3 DEF NodesKept

LEMMA StartLimitIs == \A question : StartLimit(question) \in Nat \ {0}
BY LimitsAssumption DEF StartLimit

\* The walks from the nodes `walked` are over, and those from the rest are to come.
LEMMA NextWalkIs ==
    ASSUME NEW q, NEW d, NEW walked \in SUBSET StartIds(q, d),
           DOMAIN q = DOMAIN NoQuery, q.question.depth \in Nat \ {0},
           IsList(q.todo), walked \cup Range(q.todo) \in Walks(q, d), q.edges = {}, q.starts = StartsOf(q, d),
           q.edgeIds = EdgeIds(Touching(d.edges, Within(d.edges, walked, DepthOf(q.question) - 1))),
           q.nodes = StartsOf(q, d) \cup NodesAt(d, Within(d.edges, walked, DepthOf(q.question)))
    PROVE  RelatedSoFar(NextWalk(q), d)
<1> DEFINE depth == DepthOf(q.question)
           E == d.edges
           next == NextWalk(q)
           ids == StartIds(q, d)
<1>1. depth \in Nat /\ depth - 1 \in Nat /\ depth \in Nat \ {0}
  <2>1. depth \in Nat \ {0}
    BY DepthIs
  <2> QED
    BY <2>1
<1>2. /\ next.question = q.question /\ next.nodes = q.nodes /\ next.edges = q.edges /\ next.edgeIds = q.edgeIds
      /\ next.starts = q.starts
  BY QueryFields DEF NextWalk
<1>3. /\ StartsOf(next, d) = StartsOf(q, d) /\ StartIds(next, d) = ids /\ Walks(next, d) = Walks(q, d)
      /\ \A all : AroundOf(next, d, all) = AroundOf(q, d, all)
  BY <1>2, SameQuestion
<1>4. CASE q.todo = <<>>
  <2>1. next.step = "edges"
    BY <1>4, QueryFields DEF NextWalk
  <2>2. walked \in Walks(q, d)
    BY <1>4, OneIs
  <2>3. next.nodes = StartsOf(q, d) \cup AroundOf(q, d, walked).nodes
    BY <1>2, AroundIs
  <2>4. EdgesLeft(next, AroundOf(q, d, walked).edges)
    BY <1>2, AroundIs DEF EdgesLeft, EdgeIds
  <2> HIDE DEF next
  <2>5. ReadAround(next, d, walked)
    BY <1>2, <1>3, <2>3, <2>4 DEF ReadAround
  <2>6. RelatedSoFar(next, d)
    BY <1>3, <2>1, <2>2, <2>5 DEF RelatedSoFar
  <2> QED
    BY <2>6 DEF next
<1>5. CASE q.todo # <<>>
  <2> DEFINE s == Head(q.todo)
  <2>1. next.step = "walk" /\ next.queue = <<WayFrom(s)>> /\ next.met = {s} /\ next.todo = Tail(q.todo)
    BY <1>5, QueryFields DEF NextWalk
  <2>2. s \in Range(q.todo) /\ IsList(Tail(q.todo)) /\ Range(q.todo) = {s} \cup Range(Tail(q.todo))
    BY <1>5, FirstOfList
  <2> HIDE DEF s, next
  <2>3. s \in ids /\ walked \cup {s} \cup Range(next.todo) \in Walks(q, d) /\ IsList(next.todo)
    <3>1. walked \cup Range(q.todo) = walked \cup {s} \cup Range(next.todo)
      BY <2>1, <2>2
    <3>2. walked \cup Range(q.todo) \subseteq ids
      BY FirstOfIs DEF Walks
    <3> QED
      BY <2>1, <2>2, <3>1, <3>2
  <2>4. ByRounds(E, s, depth, next.queue, next.met) /\ Through(E, s, depth, next.queue, next.met) = {}
    <3>1. ByRounds(E, s, depth, <<WayFrom(s)>>, {s}) /\ Through(E, s, depth, <<WayFrom(s)>>, {s}) = {}
      BY <1>1, WalkBegins
    <3> QED
      BY <2>1, <3>1
  <2>5. next.queue # <<>>
    BY <2>1
  <2>6. Within(E, walked \cup {s}, depth - 1) = Within(E, walked, depth - 1) \cup Within(E, {s}, depth - 1)
    <3>1. \A A, B : Within(E, A \cup B, depth - 1) = Within(E, A, depth - 1) \cup Within(E, B, depth - 1)
      BY <1>1, WithinParts
    <3> QED
      BY <3>1
  <2>7. WalksFrom(next, d, walked, s)
    BY <1>2, <1>3, <2>3 DEF WalksFrom
  <2> DEFINE before == Within(E, walked, depth - 1)
             with == Within(E, walked \cup {s}, depth - 1)
             through == Through(E, s, depth, next.queue, next.met)
  <2>8. /\ EdgeIds(Touching(E, before \cup through)) \subseteq next.edgeIds
        /\ next.edgeIds \subseteq EdgeIds(Touching(E, with))
    <3>1. next.edgeIds = EdgeIds(Touching(E, before)) /\ before \subseteq with /\ before \cup through = before
      BY <1>2, <2>4, <2>6
    <3> HIDE DEF before, with, through
    <3> QED
      BY <3>1 DEF EdgeIds, Touching
  <2>9. Walking(next, d, walked, s)
    BY <1>2, <1>3, <2>4, <2>5, <2>7, <2>8 DEF Walking
  <2>10. RelatedSoFar(next, d)
    BY <1>3, <2>1, <2>3, <2>9 DEF RelatedSoFar
  <2> QED
    BY <2>10 DEF next
<1> QED
  BY <1>4, <1>5

\* A reader that has asked for records up to some depth, of tables that were built.
AskedFor(r) ==
    /\ DOMAIN query = Readers /\ DOMAIN query[r] = DOMAIN NoQuery
    /\ query[r].question.depth \in Nat \ {0}
    /\ TablesFine(disk)

LEMMA KindIsRead ==
    ASSUME NEW r \in Readers, AskedFor(r), RelatedSoFar(query[r], disk), ReadKind(r)
    PROVE  RelatedSoFar(query'[r], disk)
<1> DEFINE q == query[r]
           d == disk
           target == q.question.target
           starts == q.starts \cup {n \in d.nodes : n.id[1] = Head(q.kinds) /\ Named(n, target)}
           on == [q EXCEPT !.starts = starts, !.kinds = Tail(q.kinds)]
           limit == StartLimit(q.question)
<1>0. PICK walked \in FirstOf({n.id : n \in starts}, limit) :
          Set(r, IF on.kinds # <<>> THEN on
                 ELSE IF starts = {} THEN [on EXCEPT !.step = "done"]
                 ELSE NextWalk([on EXCEPT !.todo = Listed(walked), !.nodes = starts]))
  BY DEF ReadKind
<1> DEFINE all == [on EXCEPT !.todo = Listed(walked), !.nodes = starts]
           none == [on EXCEPT !.step = "done"]
<1>1. /\ query'[r] = IF on.kinds # <<>> THEN on ELSE IF starts = {} THEN none ELSE NextWalk(all)
      /\ q.step = "kinds" /\ KindsAsked(q, d)
  BY <1>0 DEF ReadKind, Set, AskedFor, RelatedSoFar
<1>2. /\ on.step = "kinds" /\ on.kinds = Tail(q.kinds) /\ on.starts = starts /\ on.nodes = {} /\ on.edges = {}
      /\ on.edgeIds = {} /\ on.evidence = {} /\ on.question = q.question /\ DOMAIN on = DOMAIN NoQuery
  BY <1>1, QueryFields DEF AskedFor, KindsAsked
<1>3. PICK asked \in SUBSET Range(NodeKinds) :
          asked \cup Range(q.kinds) = Range(NodeKinds) /\ q.starts = Among(d, target, asked)
  BY <1>1 DEF KindsAsked
<1>4. /\ Head(q.kinds) \in Range(q.kinds) /\ IsList(Tail(q.kinds))
      /\ Range(q.kinds) = {Head(q.kinds)} \cup Range(Tail(q.kinds))
  BY <1>1, FirstOfList DEF KindsAsked
<1> DEFINE more == asked \cup {Head(q.kinds)}
<1>5. starts = Among(d, target, more)
  BY <1>3 DEF Among
<1>6. more \in SUBSET Range(NodeKinds) /\ more \cup Range(Tail(q.kinds)) = Range(NodeKinds)
  BY <1>3, <1>4
<1>7. none.step = "done" /\ none.nodes = {} /\ none.edges = {} /\ none.evidence = {} /\ none.question = q.question
  BY <1>2, QueryFields
<1>8. /\ all.todo = Listed(walked) /\ all.nodes = starts /\ all.starts = starts /\ all.edges = {} /\ all.edgeIds = {}
      /\ all.question = q.question /\ DOMAIN all = DOMAIN NoQuery
  BY <1>2, QueryFields
<1> HIDE DEF on, none, all, starts, more
<1>9. CASE on.kinds # <<>>
  <2>1. KindsAsked(on, d)
    BY <1>2, <1>4, <1>5, <1>6, <1>9 DEF KindsAsked
  <2> QED
    BY <1>1, <1>2, <1>9, <2>1 DEF RelatedSoFar
<1> DEFINE ids == StartIds(q, d)
<1>10. ASSUME on.kinds = <<>>
       PROVE  starts = StartsOf(q, d) /\ ids = {n.id : n \in starts}
  <2>1. more = Range(NodeKinds)
    BY <1>2, <1>6, <1>10, OneIs
  <2> QED
    BY <1>5, <2>1 DEF StartsOf, StartIds
<1> DEFINE depth == DepthOf(q.question)
<1>11. Within(d.edges, {}, depth) = {} /\ Within(d.edges, {}, depth - 1) = {}
  <2>1. depth \in Nat \ {0}
    BY DepthIs DEF AskedFor
  <2> HIDE DEF depth
  <2> QED
    BY <2>1, WithinParts
<1>12. Touching(d.edges, {}) = {} /\ NodesAt(d, {}) = {} /\ EdgeIds({}) = {} /\ Cited({}) = {}
  BY DEF Touching, NodesAt, EdgeIds, Cited
<1>13. CASE on.kinds = <<>> /\ starts = {}
  <2>1. ids = {}
    BY <1>10, <1>13
  <2>2. AroundOf(none, d, {}).nodes = {} /\ AroundOf(none, d, {}).edges = {}
    <3>1. AroundOf(none, d, {}) = AroundOf(q, d, {})
      BY <1>7, SameQuestion
    <3>2. /\ AroundOf(q, d, {}).nodes = NodesAt(d, Within(d.edges, {}, depth))
          /\ AroundOf(q, d, {}).edges = Touching(d.edges, Within(d.edges, {}, depth - 1))
      BY AroundIs
    <3> QED
      BY <1>11, <1>12, <3>1, <3>2
  <2>3. StartsOf(none, d) = {} /\ {} \in Walks(none, d)
    <3>1. StartsOf(none, d) = {} /\ StartIds(none, d) = {}
      BY <1>7, <1>10, <1>13, <2>1, SameQuestion
    <3> QED
      BY <3>1, NothingKept, StartLimitIs DEF Walks
  <2>4. {} \in NodesKept({}, StartIds(none, d)) /\ {} \in FirstOf({}, MaxRecords)
    BY NothingKept, LimitsAssumption
  <2>5. Exact(none, d)
    BY <1>7, <1>12, <2>2, <2>3, <2>4 DEF Exact
  <2> QED
    BY <1>1, <1>7, <1>13, <2>5 DEF RelatedSoFar
<1>14. CASE on.kinds = <<>> /\ starts # {}
  <2>1. IsFiniteSet(ids)
    <3>1. starts \in SUBSET d.nodes /\ IsFiniteSet(d.nodes)
      BY <1>10, <1>14, AroundIs DEF AskedFor, TablesFine
    <3>2. IsFiniteSet(starts)
      BY <3>1, FS_Subset
    <3> DEFINE f == [n \in starts |-> n.id]
    <3>3. f \in Surjection(starts, ids)
      BY <1>10, <1>14 DEF Surjection
    <3> HIDE DEF f
    <3> QED
      BY <3>2, <3>3, FS_Surjection
  <2>2. IsList(all.todo) /\ Range(all.todo) = walked
    <3>1. walked \in SUBSET ids
      BY <1>0, <1>10, <1>14, FirstOfIs
    <3>2. IsFiniteSet(walked)
      BY <2>1, <3>1, FS_Subset
    <3> QED
      BY <1>8, <3>2, ListedIs
  <2>3. StartsOf(all, d) = StartsOf(q, d) /\ StartIds(all, d) = ids /\ all.question.depth \in Nat \ {0}
    BY <1>8, SameQuestion DEF AskedFor
  <2>4. /\ all.edgeIds = EdgeIds(Touching(d.edges, Within(d.edges, {}, DepthOf(all.question) - 1)))
        /\ all.nodes = StartsOf(all, d) \cup NodesAt(d, Within(d.edges, {}, DepthOf(all.question)))
    BY <1>8, <1>10, <1>11, <1>12, <1>14, <2>3
  <2>5. {} \cup Range(all.todo) \in Walks(all, d) /\ {} \in SUBSET StartIds(all, d) /\ all.starts = StartsOf(all, d)
    BY <1>0, <1>8, <1>10, <1>14, <2>2, <2>3 DEF Walks
  <2>6. RelatedSoFar(NextWalk(all), d)
    BY <1>8, <2>2, <2>3, <2>4, <2>5, NextWalkIs
  <2> QED
    BY <1>1, <1>14, <2>6
<1> QED
  BY <1>9, <1>13, <1>14

Positive == Nat \ {0}
IsOver(E, s, lim, met) == ByRounds(E, s, lim, <<>>, met)
HasAll(E, s, lim, met) == met = Reach(E, s, lim) /\ Through(E, s, lim, <<>>, met) = Reach(E, s, lim - 1)

\* A walk with no way left to follow.
LEMMA WalkOver ==
    \A E, s : \A lim \in Positive : \A met : IsOver(E, s, lim, met) => HasAll(E, s, lim, met)
BY WalkEnds DEF Positive, IsOver, HasAll

\* A walk from s has a way less to follow, or has met everything in reach.
LEMMA ExpandIsRead ==
    ASSUME NEW r \in Readers, AskedFor(r), RelatedSoFar(query[r], disk), Expand(r)
    PROVE  RelatedSoFar(query'[r], disk)
<1> DEFINE q == query[r]
           d == disk
           E == d.edges
           depth == DepthOf(q.question)
           way == Head(q.queue)
           edges == Touching(E, {way.id})
           on == Tail(q.queue) \o (IF Expands(q, Len(way.edges) + 1) THEN Beyond(way, edges, q.met) ELSE <<>>)
           met == q.met \cup {Other(e, way.id) : e \in edges}
           new == [q EXCEPT !.met = met, !.queue = on, !.edgeIds = @ \cup {EdgeId(e) : e \in edges},
                            !.ids = IF on = <<>> THEN met ELSE {}, !.step = IF on = <<>> THEN "nodes" ELSE "walk"]
           ids == StartIds(q, d)
<1>1. query'[r] = new /\ q.step = "walk"
  BY DEF Expand, Set, AskedFor
<1>2. /\ new.question = q.question /\ new.nodes = q.nodes /\ new.edges = q.edges /\ new.todo = q.todo
      /\ new.starts = q.starts
      /\ new.met = met /\ new.queue = on /\ new.edgeIds = q.edgeIds \cup EdgeIds(edges)
      /\ new.ids = IF on = <<>> THEN met ELSE {}
      /\ new.step = IF on = <<>> THEN "nodes" ELSE "walk"
  BY QueryFields DEF AskedFor, EdgeIds
<1> HIDE DEF new
<1>3. StartsOf(new, d) = StartsOf(q, d) /\ StartIds(new, d) = ids /\ Walks(new, d) = Walks(q, d)
  <2>1. \A g : StartsOf(new, g) = StartsOf(q, g) /\ StartIds(new, g) = StartIds(q, g) /\ Walks(new, g) = Walks(q, g)
    <3>1. new.question = q.question
      BY <1>2
    <3> QED
      BY <3>1, SameQuestion
  <2> QED
    BY <2>1
<1>4. PICK walked \in SUBSET ids : \E s \in ids : Walking(q, d, walked, s)
  BY <1>1 DEF RelatedSoFar
<1>5. PICK s \in ids : Walking(q, d, walked, s)
  BY <1>4
<1>6. depth \in Nat \ {0} /\ depth \in Nat /\ depth - 1 \in Nat /\ IsFiniteSet(E)
  <2>1. depth \in Nat \ {0}
    BY DepthIs DEF AskedFor
  <2> QED
    BY <2>1 DEF AskedFor, TablesFine
<1> DEFINE through == Through(E, s, depth, q.queue, q.met)
           on2 == Tail(q.queue) \o (IF Len(way.edges) + 1 < depth THEN Beyond(way, edges, q.met) ELSE <<>>)
<1>7. /\ ByRounds(E, s, depth, on, met)
      /\ Through(E, s, depth, on, met) \subseteq through \cup {way.id}
      /\ way.id \in Reach(E, s, depth - 1)
  <2>1. ByRounds(E, s, depth, q.queue, q.met) /\ q.queue # <<>>
    BY <1>5 DEF Walking
  <2>2. /\ ByRounds(E, s, depth, on2, met)
        /\ Through(E, s, depth, on2, met) \subseteq through \cup {way.id}
        /\ way.id \in Reach(E, s, depth - 1)
    BY <1>6, <2>1, WalkGoesOn
  <2>3. on = on2
    BY DEF Expands
  <2> HIDE DEF on, on2, met, through, way
  <2> QED
    BY <2>2, <2>3
<1> HIDE DEF on, met, edges, way, through, ids, on2
<1> DEFINE before == Within(E, walked, depth - 1)
           with == Within(E, walked \cup {s}, depth - 1)
<1>8. /\ WalksFrom(q, d, walked, s)
      /\ EdgeIds(Touching(E, before \cup through)) \subseteq q.edgeIds
      /\ q.edgeIds \subseteq EdgeIds(Touching(E, with))
      /\ q.nodes = StartsOf(q, d) \cup NodesAt(d, Within(E, walked, depth))
  BY <1>5 DEF Walking, through
<1>9. with = before \cup Reach(E, s, depth - 1)
  <2>1. \A A, B : Within(E, A \cup B, depth - 1) = Within(E, A, depth - 1) \cup Within(E, B, depth - 1)
    BY <1>6, WithinParts
  <2>2. with = before \cup Within(E, {s}, depth - 1)
    BY <2>1
  <2> QED
    BY <2>2 DEF Reach
<1> HIDE DEF before, with
<1>10. WalksFrom(new, d, walked, s)
  BY <1>2, <1>3, <1>8 DEF WalksFrom, ids
<1>11. EdgeIds(edges) = {EdgeId(e) : e \in {x \in E : way.id \in Ends(x)}}
  BY DEF EdgeIds, edges, Touching
<1>12. new.edgeIds \subseteq EdgeIds(Touching(E, with))
  BY <1>2, <1>7, <1>8, <1>9, <1>11 DEF EdgeIds, Touching
<1>13. ASSUME NEW X, X \subseteq through \cup {way.id}
       PROVE  EdgeIds(Touching(E, before \cup X)) \subseteq new.edgeIds
  <2> SUFFICES ASSUME NEW e \in Touching(E, before \cup X) PROVE EdgeId(e) \in new.edgeIds
    BY DEF EdgeIds
  <2>1. CASE way.id \in Ends(e)
    BY <1>2, <1>11, <2>1 DEF Touching
  <2>2. CASE way.id \notin Ends(e)
    BY <1>2, <1>8, <1>13, <2>2 DEF Touching, EdgeIds
  <2> QED
    BY <2>1, <2>2
<1>14. CASE on # <<>>
  <2>1. new.step = "walk"
    BY <1>2, <1>14
  <2>2. EdgeIds(Touching(E, before \cup Through(E, s, depth, new.queue, new.met))) \subseteq new.edgeIds
    BY <1>2, <1>7, <1>13
  <2>3. Walking(new, d, walked, s)
    BY <1>2, <1>3, <1>7, <1>8, <1>10, <1>12, <1>14, <2>2 DEF Walking, before, with
  <2> QED
    BY <1>1, <1>3, <2>1, <2>3 DEF RelatedSoFar
<1>15. CASE on = <<>>
  <2>1. new.step = "nodes" /\ new.ids = met
    BY <1>2, <1>15
  <2>2. ByRounds(E, s, depth, <<>>, met)
    BY <1>7, <1>15
  <2>3. met = Reach(E, s, depth) /\ Through(E, s, depth, <<>>, met) = Reach(E, s, depth - 1)
    <3>1. depth \in Positive /\ IsOver(E, s, depth, met)
      BY <1>6, <2>2 DEF Positive, IsOver
    <3>2. HasAll(E, s, depth, met)
      <4> HIDE DEF E, depth
      <4> QED
        BY <3>1, WalkOver
    <3> QED
      BY <3>2 DEF HasAll
  <2>4. s \in met
    <3>1. \A n \in Nat : s \in Reach(E, s, n)
      BY ReachGrows
    <3> QED
      BY <1>6, <2>3, <3>1
  <2>5. EdgeIds(Touching(E, before \cup Reach(E, s, depth - 1))) \subseteq new.edgeIds
    BY <1>7, <1>13, <1>15, <2>3
  <2>6. new.edgeIds = EdgeIds(Touching(E, with))
    BY <1>9, <1>12, <2>5
  <2>7. new.nodes = StartsOf(q, d) \cup NodesAt(d, Within(E, walked, depth) \cup (Reach(E, s, depth) \ new.ids))
    BY <1>2, <1>8, <2>1, <2>3
  <2>8. Fetching(new, d, walked, s)
    BY <1>2, <1>3, <1>10, <2>1, <2>3, <2>4, <2>6, <2>7 DEF Fetching, with
  <2> QED
    BY <1>1, <1>3, <2>1, <2>8 DEF RelatedSoFar
<1> QED
  BY <1>14, <1>15

LEMMA NodeIsRead ==
    ASSUME NEW r \in Readers, AskedFor(r), RelatedSoFar(query[r], disk), ReadNode(r)
    PROVE  RelatedSoFar(query'[r], disk)
<1> DEFINE q == query[r]
           d == disk
           E == d.edges
           depth == DepthOf(q.question)
           id == CHOOSE x \in q.ids : TRUE
           kept == IF NodeRow(id) = {} THEN q.nodes ELSE {n \in q.nodes : n.id # id}
           on == [q EXCEPT !.ids = @ \ {id}, !.nodes = kept \cup NodeRow(id)]
           ids == StartIds(q, d)
<1>1. query'[r] = (IF on.ids # {} THEN on ELSE NextWalk(on)) /\ q.step = "nodes"
  BY DEF ReadNode, Set, AskedFor
<1>2. /\ on.question = q.question /\ on.edges = q.edges /\ on.todo = q.todo /\ on.edgeIds = q.edgeIds
      /\ on.starts = q.starts /\ on.step = "nodes" /\ on.ids = q.ids \ {id} /\ on.nodes = kept \cup NodeRow(id) /\ DOMAIN on = DOMAIN NoQuery
  BY <1>1, QueryFields DEF AskedFor
<1> HIDE DEF on
<1>3. /\ StartsOf(on, d) = StartsOf(q, d) /\ StartIds(on, d) = ids /\ Walks(on, d) = Walks(q, d)
      /\ DepthOf(on.question) = depth
  BY <1>2, SameQuestion
<1>4. PICK walked \in SUBSET ids : \E s \in ids : Fetching(q, d, walked, s)
  BY <1>1 DEF RelatedSoFar
<1>5. PICK s \in ids : Fetching(q, d, walked, s)
  BY <1>4
<1> DEFINE met == Reach(E, s, depth)
           before == Within(E, walked, depth)
<1>6. /\ WalksFrom(q, d, walked, s)
      /\ q.ids # {} /\ q.ids \subseteq met
      /\ q.edgeIds = EdgeIds(Touching(E, Within(E, walked \cup {s}, depth - 1)))
      /\ q.nodes = StartsOf(q, d) \cup NodesAt(d, before \cup (met \ q.ids))
  BY <1>5 DEF Fetching
<1>7. id \in q.ids
  BY <1>6
<1> HIDE DEF id, met, before, ids
<1>8. NodeRow(id) = NodesAt(d, {id})
  BY DEF NodeRow, NodesAt
<1>9. q.nodes \subseteq d.nodes
  BY <1>6, AroundIs DEF NodesAt
<1>10. on.nodes = q.nodes \cup NodesAt(d, {id})
  BY <1>2, <1>8, <1>9 DEF NodesAt
<1>11. on.nodes = StartsOf(q, d) \cup NodesAt(d, before \cup (met \ on.ids))
  BY <1>2, <1>6, <1>7, <1>10 DEF NodesAt
<1>12. WalksFrom(on, d, walked, s)
  BY <1>2, <1>3, <1>6 DEF WalksFrom, ids
<1>13. CASE on.ids # {}
  <2>1. Fetching(on, d, walked, s)
    BY <1>2, <1>3, <1>6, <1>11, <1>12, <1>13 DEF Fetching, met, before
  <2> QED
    BY <1>1, <1>2, <1>3, <1>13, <2>1 DEF RelatedSoFar
<1>14. CASE on.ids = {}
  <2> DEFINE more == walked \cup {s}
  <2>1. Within(E, more, depth) = before \cup met
    <3>1. depth \in Nat
      BY DepthIs DEF AskedFor
    <3>2. \A A, B : Within(E, A \cup B, depth) = Within(E, A, depth) \cup Within(E, B, depth)
      BY <3>1, WithinParts
    <3>3. Within(E, more, depth) = Within(E, walked, depth) \cup Within(E, {s}, depth)
      BY <3>2
    <3> QED
      BY <3>3 DEF met, before, Reach
  <2>2. on.nodes = StartsOf(on, d) \cup NodesAt(d, Within(E, more, depth))
    BY <1>3, <1>11, <1>14, <2>1
  <2>3. /\ IsList(on.todo) /\ more \cup Range(on.todo) \in Walks(on, d) /\ on.edges = {} /\ on.starts = StartsOf(on, d)
        /\ more \in SUBSET StartIds(on, d)
    BY <1>3, <1>12 DEF WalksFrom
  <2>4. on.edgeIds = EdgeIds(Touching(E, Within(E, more, depth - 1)))
    BY <1>2, <1>6
  <2>5. on.question.depth \in Nat \ {0}
    BY <1>2 DEF AskedFor
  <2> HIDE DEF more
  <2>6. RelatedSoFar(NextWalk(on), d)
    BY <1>2, <1>3, <2>2, <2>3, <2>4, <2>5, NextWalkIs
  <2> QED
    BY <1>1, <1>14, <2>6
<1> QED
  BY <1>13, <1>14

\* The edges that are there with the ids of some of them.
LEMMA EdgeOf ==
    ASSUME NEW d, TablesFine(d), NEW edges \in SUBSET d.edges, NEW id \in EdgeIds(edges)
    PROVE  {e \in d.edges : EdgeId(e) = id} \subseteq edges
BY DEF TablesFine, EdgeIds

LEMMA EdgeIsRead ==
    ASSUME NEW r \in Readers, AskedFor(r), query[r].question.op # "path", RelatedSoFar(query[r], disk),
           ReadEdge(r) \/ ReadEvidence(r)
    PROVE  RelatedSoFar(query'[r], disk)
<1> DEFINE q == query[r]
           d == disk
           new == query'[r]
<1>0. q.step = "edges"
  BY DEF ReadEdge, ReadEvidence
<1>1. PICK all \in Walks(q, d) : ReadAround(q, d, all)
  BY <1>0 DEF RelatedSoFar
<1> DEFINE around == AroundOf(q, d, all)
<1>2. around.nodes \subseteq d.nodes /\ around.edges \subseteq d.edges
  BY DEF AroundOf, Around, Touching
<1>3. CASE ReadEdge(r)
  <2> DEFINE id == CHOOSE x \in q.edgeIds : TRUE
             these == {e \in d.edges : EdgeId(e) = id}
  <2>1. /\ new.question = q.question /\ new.step = "edges" /\ new.nodes = q.nodes
        /\ new.edgeIds = q.edgeIds \ {id} /\ new.edges = q.edges \cup these /\ new.starts = q.starts
    BY <1>0, <1>3, QueryFields DEF ReadEdge, Set, AskedFor
  <2>2. id \in q.edgeIds
    BY <1>3 DEF ReadEdge
  <2> HIDE DEF id, new, around
  <2>3. id \in EdgeIds(around.edges) /\ around.edges \in SUBSET d.edges
    BY <1>1, <1>2, <2>2 DEF EdgesLeft, ReadAround, around
  <2>4. these \subseteq around.edges
    BY <2>3, EdgeOf DEF AskedFor
  <2>5. EdgesLeft(new, around.edges)
    BY <1>1, <1>2, <2>1, <2>4 DEF EdgesLeft, ReadAround, around
  <2>6. AroundOf(new, d, all) = around /\ StartsOf(new, d) = StartsOf(q, d) /\ Walks(new, d) = Walks(q, d)
    BY <2>1, SameQuestion DEF around
  <2>7. ReadAround(new, d, all)
    BY <1>1, <2>1, <2>5, <2>6 DEF ReadAround, around
  <2>8. RelatedSoFar(new, d)
    BY <2>1, <2>6, <2>7 DEF RelatedSoFar
  <2> QED
    BY <2>8 DEF new
<1>4. CASE ReadEvidence(r)
  <2> DEFINE next(nodes, edges) ==
                 [q EXCEPT !.nodes = nodes, !.edges = edges,
                           !.evidence = (Cited(nodes) \cup Cited(edges)) \cap d.evidence, !.step = "done"]
  <2>0. PICK nodes \in NodesKept(q.nodes, {n.id : n \in q.starts}), edges \in FirstOf(q.edges, MaxRecords) :
            Set(r, next(nodes, edges))
    BY <1>4 DEF ReadEvidence
  <2>1. /\ new.question = q.question /\ new.step = "done" /\ new.nodes = nodes /\ new.edges = edges
        /\ new.evidence = (Cited(nodes) \cup Cited(edges)) \cap d.evidence
    BY <2>0, QueryFields DEF Set, AskedFor
  <2>2. q.edgeIds = {}
    BY <1>4 DEF ReadEvidence
  <2> HIDE DEF new, around, next
  <2>3. /\ q.edges = around.edges /\ q.nodes = StartsOf(q, d) \cup around.nodes
        /\ {n.id : n \in q.starts} = StartIds(q, d)
    BY <1>1, <2>2 DEF EdgesLeft, ReadAround, around, StartIds
  <2>4. nodes \subseteq d.nodes /\ edges \subseteq d.edges
    <3>1. nodes \subseteq q.nodes /\ edges \subseteq q.edges
      BY <2>0, FirstOfIs DEF NodesKept
    <3>2. StartsOf(q, d) \subseteq d.nodes
      BY AroundIs
    <3> QED
      BY <1>2, <2>3, <3>1, <3>2
  <2>5. Cited(nodes) \subseteq d.evidence /\ Cited(edges) \subseteq d.evidence
    BY <2>4 DEF AskedFor, TablesFine, Cited
  <2>6. /\ AroundOf(new, d, all) = around /\ StartsOf(new, d) = StartsOf(q, d) /\ StartIds(new, d) = StartIds(q, d)
        /\ Walks(new, d) = Walks(q, d)
    BY <2>1, SameQuestion DEF around
  <2>7. Exact(new, d)
    BY <2>0, <2>1, <2>3, <2>5, <2>6 DEF Exact
  <2>8. RelatedSoFar(new, d)
    BY <2>1, <2>7 DEF RelatedSoFar
  <2> QED
    BY <2>8 DEF new
<1> QED
  BY <1>3, <1>4


-----------------------------------------------------------------------------
(* The reads of a question for a path *)

EdgesDiffer(E) == \A e, f \in E : EdgeId(e) = EdgeId(f) => e = f

\* What lies beyond a way, by an edge to where nothing in its reach lies.
LEMMA LeadsOn ==
    ASSUME NEW E, EdgesDiffer(E), NEW s, NEW way, way.edges \in Seq(EdgeIds(E)), Leads(E, s, way),
           NEW e \in Touching(E, {way.id}), Other(e, way.id) \notin Reach(E, s, Len(way.edges)),
           way.id \in Reach(E, s, Len(way.edges)),
           NEW next, next.id = Other(e, way.id), next.edges = Append(way.edges, EdgeId(e))
    PROVE  Leads(E, s, next)
<1> DEFINE k == Len(way.edges)
           before == Trail(E, way)
           after == Trail(E, next)
<1>1. /\ k \in Nat /\ Len(next.edges) = k + 1 /\ Range(next.edges) = Range(way.edges) \cup {EdgeId(e)}
  <2>1. way.edges \in Seq(EdgeIds(E) \cup {EdgeId(e)}) /\ k \in Nat
    OBVIOUS
  <2>2. DOMAIN way.edges = 1 .. k
    BY <2>1
  <2>3. /\ Len(next.edges) = k + 1 /\ DOMAIN next.edges = 1 .. k + 1
        /\ \A i \in 1 .. k : next.edges[i] = way.edges[i]
        /\ next.edges[k + 1] = EdgeId(e)
    BY <2>1, AppendProperties
  <2>4. \A i \in 1 .. k + 1 : i \in 1 .. k \/ i = k + 1
    BY <2>1
  <2>5. k + 1 \in 1 .. k + 1 /\ \A i \in 1 .. k : i \in 1 .. k + 1
    BY <2>1
  <2> HIDE DEF k
  <2>6. ASSUME NEW x
        PROVE  x \in Range(next.edges) <=> x \in Range(way.edges) \cup {EdgeId(e)}
    BY <2>2, <2>3, <2>4, <2>5, Zenon DEF Range
  <2> QED
    BY <2>1, <2>3, <2>6
<1>2. /\ IsFiniteSet(before) /\ Cardinality(before) = k /\ EdgeIds(before) = Range(way.edges)
      /\ way.id \in Within(before, {s}, k)
      /\ \A x \in before : Ends(x) \subseteq Reach(E, s, k)
  BY DEF Leads
<1>3. e \in E /\ Ends(e) = {way.id, next.id}
  BY DEF Touching, Ends, Other
<1>4. e \notin before
  BY <1>2, <1>3
<1>5. after = before \cup {e}
  BY <1>1, <1>3 DEF Trail, EdgesDiffer
<1>6. before \subseteq after
  BY <1>5
<1> HIDE DEF before, after, k
<1>7. IsFiniteSet(after) /\ Cardinality(after) = k + 1
  BY <1>2, <1>4, <1>5, FS_AddElement
<1>8. EdgeIds(after) = Range(next.edges)
  BY <1>1, <1>2, <1>5 DEF EdgeIds
<1>9. next.id \in Within(after, {s}, k + 1)
  <2>1. way.id \in Reach(after, s, k)
    <3>1. Reach(before, s, k) \subseteq Reach(after, s, k)
      BY <1>1, <1>6, ReachOfMore
    <3> QED
      BY <1>2, <3>1 DEF Reach
  <2>2. next.id \in Neighbours(after, way.id)
    BY <1>5 DEF Neighbours, Touching
  <2>3. Reach(after, s, k + 1) = Step(after, Reach(after, s, k))
    <3>1. \A n \in Nat : Reach(after, s, n + 1) = Step(after, Reach(after, s, n))
      BY ReachGrows
    <3> QED
      BY <1>1, <3>1
  <2>4. next.id \in Reach(after, s, k + 1)
    BY <2>1, <2>2, <2>3, StepIs
  <2> QED
    BY <2>4 DEF Reach
<1>10. \A x \in after : Ends(x) \subseteq Reach(E, s, k + 1)
  <2>1. Reach(E, s, k + 1) = Step(E, Reach(E, s, k))
    BY <1>1, ReachGrows
  <2>2. next.id \in Neighbours(E, way.id)
    BY DEF Neighbours
  <2>3. next.id \in Reach(E, s, k + 1) /\ Reach(E, s, k) \subseteq Reach(E, s, k + 1)
    BY <2>1, <2>2, StepIs DEF k
  <2> QED
    BY <1>2, <1>3, <1>5, <2>3 DEF k
<1> QED
  BY <1>1, <1>7, <1>8, <1>9, <1>10 DEF Leads, after

\* The first of a queue and those that follow it.
LEMMA QueueIs ==
    ASSUME NEW S, NEW queue \in Seq(S), queue # <<>>
    PROVE  /\ Head(queue) \in S /\ Head(queue) = queue[1]
           /\ Tail(queue) \in Seq(S) /\ Len(Tail(queue)) = Len(queue) - 1
           /\ \A i \in 1 .. Len(queue) - 1 : Tail(queue)[i] = queue[i + 1]
<1>1. Len(queue) \in Nat \ {0}
  BY EmptySeq
<1> QED
  BY <1>1, HeadTailProperties

\* The first way of a queue, of its walk by rounds.
LEMMA FirstWay ==
    ASSUME NEW E, NEW s, NEW lim \in Nat \ {0}, NEW queue, NEW met, ByRounds(E, s, lim, queue, met), queue # <<>>,
           \A i \in DOMAIN queue : Leads(E, s, queue[i])
    PROVE  LET way == Head(queue)
               k == Len(way.edges)
           IN  /\ queue \in Seq(WaysIn(E, s)) /\ way \in WaysIn(E, s) /\ way.edges \in Seq(EdgeIds(E))
               /\ k \in Nat /\ k < lim
               /\ Level(E, s, k, way.id) /\ Reach(E, s, k) \subseteq met /\ Leads(E, s, way)
<1> DEFINE way == Head(queue)
           k == Len(way.edges)
<1>1. queue \in Seq(WaysIn(E, s))
  BY DEF ByRounds
<1>2. way \in WaysIn(E, s) /\ way = queue[1]
  BY <1>1, QueueIs
<1>3. 1 \in 1 .. Len(queue) /\ DOMAIN queue = 1 .. Len(queue)
  BY <1>1, EmptySeq
<1>4. way.edges \in Seq(EdgeIds(E))
  BY <1>2 DEF WaysIn, EdgeIds
<1>5. k \in Nat
  BY <1>4
<1>6. k < lim /\ Level(E, s, k, way.id) /\ Reach(E, s, k) \subseteq met
  BY <1>2, <1>3 DEF ByRounds
<1>7. Leads(E, s, way)
  BY <1>2, <1>3
<1> QED
  BY <1>1, <1>2, <1>4, <1>5, <1>6, <1>7

LEMMA JoinLeads ==
    ASSUME NEW E, NEW s, NEW S, NEW t \in Seq(S), NEW u \in Seq(S), NEW on, on = t \o u,
           \A j \in 1 .. Len(t) : Leads(E, s, t[j]), \A j \in 1 .. Len(u) : Leads(E, s, u[j])
    PROVE  \A i \in DOMAIN on : Leads(E, s, on[i])
<1>1. /\ Len(t \o u) = Len(t) + Len(u) /\ t \o u \in Seq(S)
      /\ \A i \in 1 .. Len(t) + Len(u) : (t \o u)[i] = IF i <= Len(t) THEN t[i] ELSE u[i - Len(t)]
  BY ConcatProperties
<1>2. DOMAIN (t \o u) = 1 .. Len(t) + Len(u) /\ Len(t) \in Nat /\ Len(u) \in Nat
  BY <1>1
<1>3. ASSUME NEW i \in 1 .. Len(t) + Len(u)
      PROVE  Leads(E, s, on[i])
  <2>1. CASE i <= Len(t)
    <3>1. i \in 1 .. Len(t) /\ on[i] = t[i]
      BY <1>1, <1>2, <2>1
    <3> QED
      BY <3>1
  <2>2. CASE ~(i <= Len(t))
    <3>1. i - Len(t) \in 1 .. Len(u) /\ on[i] = u[i - Len(t)]
      BY <1>1, <1>2, <2>2
    <3> QED
      BY <3>1
  <2> QED
    BY <2>1, <2>2
<1> QED
  BY <1>2, <1>3

\* The walk from s seeks a node it has not been through, by ways that lead there.
Seeks(E, s, lim, target, queue, met) ==
    /\ ByRounds(E, s, lim, queue, met)
    /\ target \notin Through(E, s, lim, queue, met)
    /\ \A i \in DOMAIN queue : Leads(E, s, queue[i])

\* The queue, and the nodes met, once its first way is walked.
QueueOn(E, lim, queue, met) ==
    LET way == Head(queue)
    IN  Tail(queue) \o (IF Len(way.edges) + 1 < lim THEN Beyond(way, Touching(E, {way.id}), met) ELSE <<>>)
MetOn(E, queue, met) == met \cup {Other(e, Head(queue).id) : e \in Touching(E, {Head(queue).id})}

\* A walk that has not found its target goes on, or has met everything in reach.
LEMMA SearchesOn ==
    ASSUME NEW E, IsFiniteSet(E), EdgesDiffer(E), NEW s, NEW target, NEW lim \in Nat \ {0}, NEW queue, NEW met,
           Seeks(E, s, lim, target, queue, met), queue # <<>>, Head(queue).id # target
    PROVE  /\ Seeks(E, s, lim, target, QueueOn(E, lim, queue, met), MetOn(E, queue, met))
           /\ QueueOn(E, lim, queue, met) = <<>> => target \notin Reach(E, s, lim - 1)
<1> DEFINE way == Head(queue)
           edges == Touching(E, {way.id})
           beyond == Beyond(way, edges, met)
           joined == IF Len(way.edges) + 1 < lim THEN beyond ELSE <<>>
           on == QueueOn(E, lim, queue, met)
           more == MetOn(E, queue, met)
<1>1. ByRounds(E, s, lim, queue, met) /\ target \notin Through(E, s, lim, queue, met) /\ \A i \in DOMAIN queue : Leads(E, s, queue[i])
  BY DEF Seeks
<1>2. /\ queue \in Seq(WaysIn(E, s)) /\ way \in WaysIn(E, s) /\ way.edges \in Seq(EdgeIds(E))
      /\ Level(E, s, Len(way.edges), way.id) /\ Reach(E, s, Len(way.edges)) \subseteq met /\ Leads(E, s, way)
  BY <1>1, FirstWay
<1>3. ByRounds(E, s, lim, on, more) /\ target \notin Through(E, s, lim, on, more)
  BY <1>1, WalkGoesOn DEF QueueOn, MetOn
<1>4. on = Tail(queue) \o joined
  BY DEF QueueOn
<1> HIDE DEF on, more
<1>5. ListsBeyond(E, s, way, met, beyond)
  BY <1>2, BeyondIs
<1> HIDE DEF way, beyond
<1>6. ASSUME NEW i \in 1 .. Len(beyond)
      PROVE  Leads(E, s, beyond[i])
  <2>1. /\ beyond[i].id \in Neighbours(E, way.id) \ met
        /\ \E e \in Touching(E, {way.id}) :
               /\ Other(e, way.id) = beyond[i].id
               /\ beyond[i].edges = Append(way.edges, EdgeId(e))
    BY <1>5 DEF ListsBeyond
  <2>2. PICK e \in Touching(E, {way.id}) :
            Other(e, way.id) = beyond[i].id /\ beyond[i].edges = Append(way.edges, EdgeId(e))
    BY <2>1
  <2>3. Other(e, way.id) \notin Reach(E, s, Len(way.edges)) /\ way.id \in Reach(E, s, Len(way.edges))
    BY <1>2, <2>1, <2>2 DEF Level
  <2> QED
    BY <1>2, <2>2, <2>3, LeadsOn
<1>7. /\ joined \in Seq(WaysIn(E, s)) /\ Tail(queue) \in Seq(WaysIn(E, s))
      /\ \A i \in 1 .. Len(joined) : Leads(E, s, joined[i])
  <2>1. Tail(queue) \in Seq(WaysIn(E, s))
    BY <1>2, QueueIs
  <2>2. beyond \in Seq(WaysIn(E, s))
    BY <1>5 DEF ListsBeyond
  <2>3. joined = beyond \/ joined = <<>>
    OBVIOUS
  <2> HIDE DEF joined
  <2>4. CASE joined = beyond
    BY <1>6, <2>1, <2>2, <2>4
  <2>5. CASE joined = <<>>
    BY <2>1, <2>5
  <2> QED
    BY <2>3, <2>4, <2>5
<1> HIDE DEF joined
<1>8. \A j \in 1 .. Len(Tail(queue)) : Leads(E, s, Tail(queue)[j])
  <2>1. Len(Tail(queue)) = Len(queue) - 1 /\ \A j \in 1 .. Len(queue) - 1 : Tail(queue)[j] = queue[j + 1]
    BY <1>2, QueueIs
  <2>2. DOMAIN queue = 1 .. Len(queue) /\ Len(queue) \in Nat
    BY <1>2
  <2>3. \A j \in 1 .. Len(queue) - 1 : j + 1 \in DOMAIN queue
    BY <2>2
  <2> QED
    BY <1>1, <2>1, <2>3
<1>9. \A i \in DOMAIN on : Leads(E, s, on[i])
  <2> DEFINE tail == Tail(queue)
  <2>1. /\ tail \in Seq(WaysIn(E, s)) /\ joined \in Seq(WaysIn(E, s)) /\ on = tail \o joined
        /\ \A j \in 1 .. Len(tail) : Leads(E, s, tail[j])
        /\ \A j \in 1 .. Len(joined) : Leads(E, s, joined[j])
    BY <1>4, <1>7, <1>8
  <2> HIDE DEF tail
  <2> QED
    BY <2>1, JoinLeads
<1>10. ASSUME on = <<>>
      PROVE  target \notin Reach(E, s, lim - 1)
  <2>1. ByRounds(E, s, lim, <<>>, more) /\ target \notin Through(E, s, lim, <<>>, more)
    BY <1>3, <1>10
  <2>2. Through(E, s, lim, <<>>, more) = Reach(E, s, lim - 1)
    BY <2>1, WalkEnds
  <2> QED
    BY <2>1, <2>2
<1> QED
  BY <1>3, <1>9, <1>10 DEF Seeks, on, more

LEMMA SearchIsRead ==
    ASSUME NEW r \in Readers, AskedFor(r), PathSoFar(query[r], disk), Search(r)
    PROVE  PathSoFar(query'[r], disk)
<1> DEFINE q == query[r]
           d == disk
           E == d.edges
           s == q.question.source
           target == q.question.target
           lim == q.question.depth + 1
           way == Head(q.queue)
           edges == Touching(E, {way.id})
           beyond == Beyond(way, edges, q.met)
           on == Tail(q.queue) \o (IF Compares(q, Len(way.edges) + 1) THEN beyond ELSE <<>>)
           met == q.met \cup {Other(e, way.id) : e \in edges}
           new == query'[r]
<1>1. q.step = "walk" /\ Searching(q, d)
  BY DEF Search, PathSoFar
<1>2. q.nodes = {} /\ q.edges = {} /\ q.edgeIds = {} /\ q.todo = <<>>
  BY <1>1 DEF Searching
<1>3. /\ ByRounds(E, s, lim, q.queue, q.met) /\ q.queue # <<>>
      /\ target \notin Through(E, s, lim, q.queue, q.met)
      /\ \A i \in DOMAIN q.queue : Leads(E, s, q.queue[i])
  BY <1>1 DEF Searching
<1>4. q.question.depth \in Nat /\ lim \in Nat \ {0} /\ IsFiniteSet(E) /\ EdgesDiffer(E)
      /\ lim = q.question.depth + 1 /\ lim - 1 = q.question.depth
  BY DEF AskedFor, TablesFine, EdgesDiffer
<1> HIDE DEF lim
<1> DEFINE k == Len(way.edges)
<1>5. k \in Nat /\ k < lim /\ Level(E, s, k, way.id) /\ Leads(E, s, way)
  BY <1>3, <1>4, FirstWay
<1>6. CASE way.id = target
  <2>1. /\ new.question = q.question /\ new.step = "nodes" /\ new.edges = {} /\ new.todo = <<>>
        /\ new.edgeIds = Range(way.edges)
    <3>1. new = [q EXCEPT !.ids = Range(way.nodes), !.edgeIds = Range(way.edges), !.step = "nodes"]
      BY <1>6 DEF Search, Set, AskedFor
    <3> QED
      BY <1>2, <3>1, QueryFields DEF AskedFor
  <2> DEFINE found == Trail(E, way)
             left == new.edges \cup {e \in E : EdgeId(e) \in new.edgeIds}
  <2>2. left = found /\ found \subseteq E
    BY <2>1 DEF Trail
  <2>3. IsFiniteSet(found) /\ Cardinality(found) = k /\ EdgeIds(found) = Range(way.edges) /\ target \in Within(found, {s}, k)
    BY <1>5, <1>6 DEF Leads
  <2> HIDE DEF new, found, left, k
  <2>4. k <= q.question.depth
    BY <1>4, <1>5
  <2>5. Shortest(new, d, left)
    BY <1>5, <1>6, <2>1, <2>2, <2>3, <2>4 DEF Shortest
  <2>6. EdgesLeft(new, left)
    BY <2>1, <2>2, <2>3 DEF EdgesLeft, EdgeIds
  <2>7. PathSoFar(new, d)
    BY <2>1, <2>5, <2>6 DEF PathSoFar, left
  <2> QED
    BY <2>7 DEF new
<1>7. CASE way.id # target
  <2>1. /\ new.question = q.question /\ new.nodes = {} /\ new.edges = {} /\ new.edgeIds = {} /\ new.todo = <<>>
        /\ new.met = met /\ new.queue = on
        /\ new.step = IF on = <<>> THEN "done" ELSE "walk"
    <3>1. new = [q EXCEPT !.met = met, !.queue = on, !.step = IF on = <<>> THEN "done" ELSE "walk"]
      BY <1>7 DEF Search, Set, AskedFor
    <3> HIDE DEF met, on
    <3> QED
      BY <1>2, <3>1, QueryFields DEF AskedFor
  <2>2. Compares(q, k + 1) <=> k + 1 < lim
    <3> HIDE DEF k
    <3> QED
      BY <1>4, <1>5 DEF Compares
  <2>3. /\ ByRounds(E, s, lim, on, met) /\ target \notin Through(E, s, lim, on, met)
        /\ \A i \in DOMAIN on : Leads(E, s, on[i])
        /\ on = <<>> => target \notin Reach(E, s, lim - 1)
    <3> DEFINE on2 == Tail(q.queue) \o (IF k + 1 < lim THEN beyond ELSE <<>>)
    <3> DEFINE queue == q.queue
               seen == q.met
    <3>1. on = QueueOn(E, lim, queue, seen)
      BY <2>2 DEF QueueOn
    <3>2. met = MetOn(E, queue, seen)
      BY DEF MetOn
    <3>3. Seeks(E, s, lim, target, queue, seen) /\ queue # <<>> /\ Head(queue).id # target
      BY <1>3, <1>7 DEF Seeks
    <3> HIDE DEF on, met, E, s, target, queue, seen
    <3>4. Seeks(E, s, lim, target, on, met) /\ (on = <<>> => target \notin Reach(E, s, lim - 1))
      BY <1>4, <3>1, <3>2, <3>3, SearchesOn
    <3> QED
      BY <3>4 DEF Seeks
  <2> HIDE DEF new, met, on
  <2>4. CASE on # <<>>
    <3>1. Searching(new, d)
      BY <2>1, <2>3, <2>4 DEF Searching, lim
    <3>2. PathSoFar(new, d)
      BY <2>1, <2>4, <3>1 DEF PathSoFar
    <3> QED
      BY <3>2 DEF new
  <2>5. CASE on = <<>>
    <3>1. target \notin Reach(E, s, q.question.depth)
      BY <1>4, <2>3, <2>5
    <3>2. PathSoFar(new, d)
      BY <2>1, <2>5, <3>1 DEF PathSoFar
    <3> QED
      BY <3>2 DEF new
  <2> QED
    BY <2>4, <2>5
<1> QED
  BY <1>6, <1>7

LEMMA PathIsRead ==
    ASSUME NEW r \in Readers, AskedFor(r), query[r].question.op = "path", PathSoFar(query[r], disk),
           ReadNode(r) \/ ReadEdge(r) \/ ReadEvidence(r)
    PROVE  PathSoFar(query'[r], disk)
<1> DEFINE q == query[r]
           E == disk.edges
           new == query'[r]
           left(p) == p.edges \cup {e \in E : EdgeId(e) \in p.edgeIds}
<1>1. /\ q.step \in {"nodes", "edges"} /\ q.todo = <<>>
      /\ Shortest(q, disk, left(q)) /\ EdgesLeft(q, left(q))
  BY DEF PathSoFar, ReadNode, ReadEdge, ReadEvidence
<1>2. CASE ReadNode(r)
  <2>1. /\ new.question = q.question /\ new.step \in {"nodes", "edges"} /\ new.todo = <<>>
        /\ new.edges = q.edges /\ new.edgeIds = q.edgeIds
    BY <1>1, <1>2, QueryFields DEF ReadNode, NextWalk, Set, AskedFor
  <2> HIDE DEF new
  <2>2. PathSoFar(new, disk)
    BY <1>1, <2>1 DEF PathSoFar, Shortest, EdgesLeft
  <2> QED
    BY <2>2 DEF new
<1>3. CASE ReadEdge(r)
  <2> DEFINE id == CHOOSE x \in q.edgeIds : TRUE
             these == {e \in E : EdgeId(e) = id}
  <2>1. /\ new.question = q.question /\ new.step = "edges" /\ new.todo = <<>>
        /\ new.edgeIds = q.edgeIds \ {id} /\ new.edges = q.edges \cup these
    BY <1>1, <1>3, QueryFields DEF ReadEdge, Set, AskedFor
  <2>2. id \in q.edgeIds
    BY <1>3 DEF ReadEdge
  <2> HIDE DEF id, new
  <2>3. left(new) = left(q)
    BY <2>1, <2>2
  <2> DEFINE all == left(q)
  <2>4. EdgesLeft(q, all) /\ Shortest(q, disk, all) /\ left(new) = all /\ these \subseteq all
    BY <1>1, <2>2, <2>3
  <2> HIDE DEF all
  <2>5. EdgesLeft(new, all) /\ Shortest(new, disk, all)
    BY <2>1, <2>4 DEF EdgesLeft, Shortest
  <2>6. PathSoFar(new, disk)
    BY <2>1, <2>4, <2>5 DEF PathSoFar
  <2> QED
    BY <2>6 DEF new
<1>4. CASE ReadEvidence(r)
  <2>1. new.question = q.question /\ new.step = "done" /\ new.edges = q.edges
    BY <1>1, <1>4, QueryFields DEF ReadEvidence, Set, AskedFor
  <2>2. left(q) = q.edges
    BY <1>4 DEF ReadEvidence
  <2> HIDE DEF new
  <2>3. PathSoFar(new, disk)
    BY <1>1, <2>1, <2>2 DEF PathSoFar, Shortest
  <2> QED
    BY <2>3 DEF new
<1> QED
  BY <1>2, <1>3, <1>4


-----------------------------------------------------------------------------
(* Questions in whose time one graph was committed *)

LEMMA ReachOfNone == ASSUME NEW s PROVE \A n \in Nat : Reach({}, s, n) = {s}
<1> DEFINE S == {n \in Nat : Reach({}, s, n) = {s}}
<1>1. 0 \in S
  BY ReachGrows
<1>2. ASSUME NEW n \in Nat, n \in S
      PROVE  n + 1 \in S
  <2>1. Reach({}, s, n + 1) = Step({}, {s})
    <3>1. \A m \in Nat : Reach({}, s, m + 1) = Step({}, Reach({}, s, m))
      BY ReachGrows
    <3> QED
      BY <1>2, <3>1
  <2> QED
    BY <2>1 DEF Step, Touching
<1> HIDE DEF S
<1>3. \A n \in Nat : n \in S
  BY <1>1, <1>2, SetInduction
<1> QED
  BY <1>3 DEF S

\* An answer with nothing in it, of tables with nothing in them.
LEMMA NothingIsRead ==
    ASSUME NEW q, NEW d, d.nodes = {}, d.edges = {}, q.question.depth \in Nat,
           q.step = "done", q.nodes = {}, q.edges = {}, q.evidence = {}
    PROVE  RelatedSoFar(q, d) /\ PathSoFar(q, d)
<1>1. AroundOf(q, d, {}).nodes = {} /\ AroundOf(q, d, {}).edges = {} /\ Cited({}) = {}
  BY DEF AroundOf, Around, Touching, Cited
<1>2. RelatedSoFar(q, d)
  <2>1. StartsOf(q, d) = {} /\ StartIds(q, d) = {}
    BY DEF StartsOf, StartIds, Among
  <2>2. {} \in Walks(q, d) /\ {} \in FirstOf({}, MaxRecords) /\ {} \in NodesKept({}, {})
    BY <2>1, NothingKept, StartLimitIs, LimitsAssumption DEF Walks
  <2>3. Exact(q, d)
    BY <1>1, <2>1, <2>2 DEF Exact
  <2> QED
    BY <2>3 DEF RelatedSoFar
<1> DEFINE s == q.question.source
           target == q.question.target
<1>3. Reach(d.edges, s, q.question.depth) = {s} /\ Reach({}, s, 0) = {s} /\ Within({}, {s}, 0) = {s}
  BY ReachOfNone DEF Reach
<1>4. IsFiniteSet({}) /\ Cardinality({}) = 0
  BY FS_EmptySet
<1>5. ASSUME target = s
      PROVE  Shortest(q, d, {})
  BY <1>3, <1>4, <1>5 DEF Shortest, Level
<1>6. ASSUME target # s
      PROVE  target \notin Reach(d.edges, s, q.question.depth)
  BY <1>3, <1>6
<1>7. PathSoFar(q, d)
  BY <1>5, <1>6 DEF PathSoFar
<1> QED
  BY <1>2, <1>7

LEMMA QuietRead ==
    ASSUME AnswerInv, EmptyInv, TablesFine(disk), NEW r \in Readers, Reading(r), SoFar(query[r], disk)
    PROVE  SoFar(query'[r], disk)
<1> DEFINE q == query[r]
           new == query'[r]
<1>1. new.question = q.question /\ q.question \in Questions
  BY ReadingReads DEF AnswerInv, ReadsOn, SoFar
<1>2. CASE q.question.op \notin {"related", "explain", "path"}
  BY <1>1, <1>2 DEF SoFar
<1>3. ASSUME q.question.op \in {"related", "explain", "path"}
      PROVE  AskedFor(r)
  BY <1>1, <1>3, QuestionsAssumption DEF AskedFor, AnswerInv
<1>4. CASE q.question.op \in {"related", "explain"}
  <2>1. RelatedSoFar(q, disk) /\ q.step \notin {"latest", "build"} /\ q.question.op # "path" /\ AskedFor(r)
    BY <1>3, <1>4 DEF SoFar, RelatedSoFar
  <2>2. RelatedSoFar(new, disk)
    <3>1. CASE Unmade(r)
      <4>1. new.step = "done" /\ new.nodes = {} /\ new.edges = {} /\ new.evidence = {} /\ new.question = q.question
        BY <3>1, QueryFields DEF Unmade, Set, AnswerInv, NoQuery
      <4>2. disk.nodes = {} /\ disk.edges = {}
        BY <3>1 DEF Unmade, EmptyInv
      <4> HIDE DEF new
      <4>3. RelatedSoFar(new, disk)
        BY <2>1, <4>1, <4>2, NothingIsRead DEF AskedFor
      <4> QED
        BY <4>3
    <3>2. CASE ReadKind(r)
      BY <2>1, <3>2, KindIsRead
    <3>3. CASE Expand(r)
      BY <2>1, <3>3, ExpandIsRead
    <3>4. CASE ReadNode(r)
      BY <2>1, <3>4, NodeIsRead
    <3>5. CASE ReadEdge(r) \/ ReadEvidence(r)
      BY <2>1, <3>5, EdgeIsRead
    <3>6. ~Search(r) /\ ~ReadLatest(r) /\ ~ReadBuild(r)
      BY <2>1 DEF Search, ReadLatest, ReadBuild
    <3> QED
      BY <3>1, <3>2, <3>3, <3>4, <3>5, <3>6 DEF Reading
  <2> QED
    BY <1>1, <1>4, <2>2 DEF SoFar
<1>5. CASE q.question.op = "path"
  <2>1. PathSoFar(q, disk) /\ q.step \notin {"latest", "build", "kinds"} /\ AskedFor(r)
    BY <1>3, <1>5 DEF SoFar, PathSoFar
  <2>2. PathSoFar(new, disk)
    <3>1. CASE Unmade(r)
      <4>1. new.step = "done" /\ new.nodes = {} /\ new.edges = {} /\ new.evidence = {} /\ new.question = q.question
        BY <3>1, QueryFields DEF Unmade, Set, AnswerInv, NoQuery
      <4>2. disk.nodes = {} /\ disk.edges = {}
        BY <3>1 DEF Unmade, EmptyInv
      <4> HIDE DEF new
      <4>3. PathSoFar(new, disk)
        BY <2>1, <4>1, <4>2, NothingIsRead DEF AskedFor
      <4> QED
        BY <4>3
    <3>2. CASE Search(r)
      BY <2>1, <3>2, SearchIsRead
    <3>3. CASE ReadNode(r) \/ ReadEdge(r) \/ ReadEvidence(r)
      BY <1>5, <2>1, <3>3, PathIsRead
    <3>4. ~ReadKind(r) /\ ~Expand(r) /\ ~ReadLatest(r) /\ ~ReadBuild(r)
      BY <1>5, <2>1 DEF ReadKind, Expand, ReadLatest, ReadBuild
    <3> QED
      BY <3>1, <3>2, <3>3, <3>4 DEF Reading
  <2> QED
    BY <1>1, <1>5, <2>2 DEF SoFar
<1> QED
  BY <1>2, <1>4, <1>5

LEMMA QuietAsk ==
    ASSUME AnswerInv, TablesFine(disk), NEW r \in Readers, NEW question \in Questions, Ask(r, question)
    PROVE  SoFar(query'[r], disk)
<1> DEFINE new == query'[r]
           d == disk
<1>1. CASE question.op = "status"
  <2>1. new.question = question
    BY <1>1 DEF Ask, AnswerInv, NoQuery
  <2> QED
    BY <1>1, <2>1 DEF SoFar
<1>2. CASE question.op \in {"related", "explain"}
  <2>1. /\ new.step = "kinds" /\ new.question = question /\ new.kinds = NodeKinds /\ new.starts = {}
        /\ new.nodes = {} /\ new.edges = {} /\ new.edgeIds = {} /\ new.evidence = {}
    BY <1>2 DEF Ask, AnswerInv, NoQuery
  <2>2. IsList(NodeKinds) /\ NodeKinds # <<>>
    BY QuestionsAssumption, OneIs
  <2>3. Among(d, question.target, {}) = {} /\ {} \in SUBSET Range(NodeKinds)
    BY DEF Among
  <2> HIDE DEF new
  <2>4. KindsAsked(new, d)
    BY <2>1, <2>2, <2>3 DEF KindsAsked
  <2>5. SoFar(new, d)
    BY <1>2, <2>1, <2>4 DEF SoFar, RelatedSoFar
  <2> QED
    BY <2>5 DEF new
<1>3. CASE question.op = "path"
  <2> DEFINE s == question.source
             lim == question.depth + 1
             E == d.edges
             way == WayFrom(s)
  <2>1. /\ new.step = "walk" /\ new.question = question /\ new.queue = <<way>> /\ new.met = {s}
        /\ new.nodes = {} /\ new.edges = {} /\ new.edgeIds = {} /\ new.todo = <<>>
    BY <1>3 DEF Ask, AnswerInv, NoQuery
  <2>2. lim \in Nat \ {0} /\ lim = question.depth + 1
    BY <1>3, QuestionsAssumption
  <2> HIDE DEF lim
  <2>3. ByRounds(E, s, lim, <<way>>, {s}) /\ Through(E, s, lim, <<way>>, {s}) = {}
    BY <2>2, WalkBegins
  <2>4. Leads(E, s, way)
    <3>1. way.id = s /\ way.edges = <<>> /\ Len(way.edges) = 0 /\ Range(way.edges) = {}
      BY OneIs DEF WayFrom, Way
    <3>2. Trail(E, way) = {} /\ EdgeIds({}) = {}
      BY <3>1 DEF Trail, EdgeIds
    <3>3. IsFiniteSet({}) /\ Cardinality({}) = 0 /\ Within({}, {s}, 0) = {s}
      BY FS_EmptySet, WithinNext
    <3> HIDE DEF way
    <3> QED
      BY <3>1, <3>2, <3>3 DEF Leads
  <2>5. <<way>> # <<>> /\ \A i \in DOMAIN <<way>> : <<way>>[i] = way
    OBVIOUS
  <2> HIDE DEF new, way
  <2>6. Searching(new, d)
    BY <2>1, <2>2, <2>3, <2>4, <2>5 DEF Searching
  <2>7. SoFar(new, d)
    BY <1>3, <2>1, <2>6 DEF SoFar, PathSoFar
  <2> QED
    BY <2>7 DEF new
<1> QED
  BY <1>1, <1>2, <1>3, QuestionsAssumption

LEMMA EmptyStep == AnswerInv /\ LatestInv /\ EmptyInv /\ [Next]_vars => EmptyInv'
<1> SUFFICES ASSUME AnswerInv, LatestInv, EmptyInv, [Next]_vars PROVE EmptyInv'
  OBVIOUS
<1>1. ASSUME UNCHANGED <<made, disk>>
      PROVE  EmptyInv'
  BY <1>1 DEF EmptyInv
<1>2. ASSUME NEW w \in Writers, Reads(w)
      PROVE  UNCHANGED <<made, disk>>
  BY <1>2 DEF Reads, StartBuild, StartClear, ReadContext, Ingest
<1>3. ASSUME NEW w \in Writers, Write(w)
      PROVE  EmptyInv'
  <2>1. CASE Ensure(w)
    BY <2>1 DEF Ensure, EmptyInv
  <2>2. CASE Begin(w) \/ DeleteRows(w) \/ (\E t \in DOMAIN InsertOrder : Insert(w, t)) \/ SetLatest(w)
    BY <1>1, <2>2 DEF Begin, DeleteRows, Insert, SetLatest
  <2>3. CASE Commit(w)
    BY <2>3 DEF Commit, At, LatestInv, Inserting, EmptyInv
  <2>4. CASE ClearStatement(w)
    <3>1. made /\ made' = made
      BY <2>4 DEF ClearStatement
    <3> QED
      BY <3>1 DEF EmptyInv
  <2>5. CASE Refused(w) \/ Failing(w)
    <3>1. UNCHANGED <<made, disk>>
      <4>1. Ended(w, "failed")
        BY <2>5 DEF Refused, Failing
      <4> QED
        BY <4>1 DEF Ended
    <3> QED
      BY <1>1, <3>1
  <2> QED
    BY <1>3, <2>1, <2>2, <2>3, <2>4, <2>5 DEF Write, StoreStep
<1>4. ASSUME NEW r \in Readers, Reading(r)
      PROVE  UNCHANGED storeVars
  BY <1>4, ReadingReads DEF ReadsOn, AnswerInv
<1>5. ASSUME NEW r \in Readers, NEW question \in Questions, Ask(r, question)
      PROVE  UNCHANGED storeVars
  BY <1>5 DEF Ask
<1>6. CASE Edit \/ Tick \/ UNCHANGED vars
  BY <1>1, <1>6 DEF Edit, Tick, vars, storeVars
<1> QED
  BY <1>1, <1>2, <1>3, <1>4, <1>5, <1>6 DEF Next, Reads, storeVars

LEMMA QuietStep == AnswerInv /\ EmptyInv /\ TablesFine(disk) /\ QuietInv /\ [Next]_vars => QuietInv'
<1> SUFFICES ASSUME AnswerInv, EmptyInv, TablesFine(disk), QuietInv, [Next]_vars PROVE QuietInv'
  OBVIOUS
<1> DEFINE Quiet(r, q, seen) == \A d \in seen : seen = {d} /\ q.step # "idle" => TablesFine(d) /\ SoFar(q, d)
<1>1. (\A r \in Readers : Quiet(r, query[r], during[r])) /\ (QuietInv' <=> \A r \in Readers : Quiet(r, query'[r], during'[r]))
  BY DEF QuietInv
<1>2. ASSUME UNCHANGED <<query, during>>
      PROVE  QuietInv'
  BY <1>1, <1>2
<1>3. ASSUME NEW w \in Writers, Reads(w)
      PROVE  UNCHANGED <<query, during>>
  BY <1>3 DEF Reads, StartBuild, StartClear, ReadContext, Ingest, graphVars
<1>4. ASSUME NEW w \in Writers, Write(w)
      PROVE  QuietInv'
  <2>1. ASSUME NEW r \in Readers
        PROVE  Quiet(r, query'[r], during'[r])
    <3>1. query'[r] = query[r]
      BY <1>4 DEF Write
    <3>2. CASE query[r].step \in {"idle", "done"}
      <4>1. during'[r] = during[r]
        BY <1>4, <3>2 DEF Write
      <4> QED
        BY <1>1, <3>1, <4>1
    <3>3. CASE query[r].step \notin {"idle", "done"}
      <4>1. during'[r] = during[r] \cup {disk'} /\ disk \in during[r]
        BY <1>4, <3>3 DEF Write, AnswerInv, Asking
      <4>2. ASSUME NEW d \in during'[r], during'[r] = {d}
            PROVE  d \in during[r] /\ during[r] = {d}
        BY <4>1, <4>2
      <4> QED
        BY <1>1, <3>1, <4>2
    <3> QED
      BY <3>2, <3>3
  <2> QED
    BY <1>1, <2>1
<1>5. ASSUME NEW r \in Readers, Reading(r)
      PROVE  QuietInv'
  <2>1. /\ during' = during /\ disk \in during[r] /\ query[r].step # "idle"
        /\ \A x \in Readers \ {r} : query'[x] = query[x]
    BY <1>5, ReadingReads DEF ReadsOn, AnswerInv, Asking
  <2>2. ASSUME NEW d \in during[r], during[r] = {d}
        PROVE  TablesFine(d) /\ SoFar(query'[r], d)
    <3>1. d = disk /\ SoFar(query[r], disk)
      BY <1>1, <2>1, <2>2
    <3> QED
      BY <1>5, <3>1, QuietRead
  <2>3. Quiet(r, query'[r], during'[r])
    BY <2>1, <2>2
  <2>4. \A x \in Readers \ {r} : Quiet(x, query'[x], during'[x])
    BY <1>1, <2>1
  <2> QED
    BY <1>1, <2>3, <2>4
<1>6. ASSUME NEW r \in Readers, NEW question \in Questions, Ask(r, question)
      PROVE  QuietInv'
  <2>1. /\ during'[r] = {disk}
        /\ \A x \in Readers \ {r} : query'[x] = query[x] /\ during'[x] = during[x]
    BY <1>6 DEF Ask, AnswerInv
  <2>2. SoFar(query'[r], disk)
    BY <1>6, QuietAsk
  <2>3. Quiet(r, query'[r], during'[r])
    BY <2>1, <2>2
  <2>4. \A x \in Readers \ {r} : Quiet(x, query'[x], during'[x])
    BY <1>1, <2>1
  <2> QED
    BY <1>1, <2>3, <2>4
<1>7. CASE Edit \/ Tick \/ UNCHANGED vars
  BY <1>2, <1>7 DEF Edit, Tick, vars, graphVars
<1> QED
  BY <1>2, <1>3, <1>4, <1>5, <1>6, <1>7 DEF Next, Reads


-----------------------------------------------------------------------------
(* Variables hold what the code can put there *)

Builds == {None} \cup 1 .. MaxClock
QuerySteps == {"idle", "kinds", "walk", "nodes", "edges", "latest", "build", "done"}

TypeInv ==
    /\ made \in BOOLEAN /\ latest \in Builds /\ \A w \in Writers : txLatest[w] \in Builds
    /\ lock \in {None} \cup Writers /\ failures \in 0 .. MaxFailures
    /\ \A r \in Readers : query[r].step \in QuerySteps

LEMMA StatementType ==
    ASSUME IInv, LatestInv, TypeInv, NEW w \in Writers, StoreStep(w), query' = query
    PROVE  TypeInv'
<1> USE DEF Go, At
<1>0. DOMAIN txLatest = Writers
  BY DEF LatestInv
<1>1. CASE Ensure(w) \/ Begin(w) \/ \E t \in DOMAIN InsertOrder : Insert(w, t)
  BY <1>1 DEF Ensure, Begin, Insert, TypeInv
<1>2. CASE DeleteRows(w)
  BY <1>0, <1>2 DEF DeleteRows, TypeInv
<1>3. CASE SetLatest(w)
  <2>1. snapshot[w].id \in Builds
    BY <1>3, StepFacts DEF SetLatest, IInv, WriterInv, Inserting, Builds
  <2> QED
    BY <1>0, <1>3, <2>1 DEF SetLatest, TypeInv
<1>4. CASE Commit(w)
  BY <1>4 DEF Commit, TypeInv
<1>5. CASE ClearStatement(w)
  BY <1>5 DEF ClearStatement, TypeInv, Builds
<1>6. CASE Refused(w) \/ Failing(w)
  <2>1. failures' \in 0 .. MaxFailures
    BY <1>6, GraphAssumption DEF Refused, Failing, TypeInv
  <2> QED
    BY <1>6, <2>1 DEF Refused, Failing, Ended, TypeInv
<1> QED
  BY <1>1, <1>2, <1>3, <1>4, <1>5, <1>6 DEF StoreStep

LEMMA TypeStep == IInv /\ LatestInv /\ AnswerInv /\ TypeInv /\ [Next]_vars => TypeInv'
<1> SUFFICES ASSUME IInv, LatestInv, AnswerInv, TypeInv, [Next]_vars PROVE TypeInv'
  OBVIOUS
<1> DEFINE stored == <<made, latest, txLatest, lock, failures>>
<1>1. ASSUME UNCHANGED stored, UNCHANGED query
      PROVE  TypeInv'
  BY <1>1 DEF TypeInv
<1>2. ASSUME NEW w \in Writers, Reads(w)
      PROVE  UNCHANGED stored /\ UNCHANGED query
  BY <1>2 DEF Reads, StartBuild, StartClear, ReadContext, Ingest, graphVars
<1>3. ASSUME NEW w \in Writers, Write(w)
      PROVE  TypeInv'
  BY <1>3, StatementType DEF Write
<1>4. ASSUME NEW r \in Readers, UNCHANGED stored, query' = [query EXCEPT ![r] = query'[r]], query'[r].step \in QuerySteps
      PROVE  TypeInv'
  BY <1>4 DEF TypeInv, AnswerInv
<1>5. ASSUME NEW r \in Readers, Reading(r)
      PROVE  TypeInv'
  <2>1. UNCHANGED stored /\ query' = [query EXCEPT ![r] = query'[r]]
    BY <1>5, ReadingReads DEF ReadsOn, AnswerInv, storeVars
  <2> DEFINE q == query[r]
  <2>2. DOMAIN q = DOMAIN NoQuery /\ DOMAIN query = Readers
    BY DEF AnswerInv
  <2>3. ASSUME NEW new, Set(r, new), new.step \in QuerySteps
        PROVE  TypeInv'
    BY <1>4, <2>1, <2>2, <2>3 DEF Set
  <2>4. CASE Unmade(r)
    <3>1. [NoQuery EXCEPT !.step = "done", !.question = q.question].step = "done"
      BY DEF NoQuery
    <3> QED
      BY <2>3, <2>4, <3>1 DEF Unmade, QuerySteps
  <2>5. CASE ReadKind(r)
    <3> DEFINE starts == q.starts \cup {n \in disk.nodes : n.id[1] = Head(q.kinds) /\ Named(n, q.question.target)}
               on == [q EXCEPT !.starts = starts, !.kinds = Tail(q.kinds)]
               none == [on EXCEPT !.step = "done"]
    <3>0. PICK walked : /\ q.step = "kinds"
                        /\ Set(r, IF on.kinds # <<>> THEN on
                                  ELSE IF starts = {} THEN none
                                  ELSE NextWalk([on EXCEPT !.todo = Listed(walked), !.nodes = starts]))
      BY <2>5 DEF ReadKind
    <3> DEFINE all == [on EXCEPT !.todo = Listed(walked), !.nodes = starts]
    <3>1. Set(r, IF on.kinds # <<>> THEN on ELSE IF starts = {} THEN none ELSE NextWalk(all)) /\ q.step = "kinds"
      BY <3>0
    <3>2. on.step = "kinds" /\ none.step = "done" /\ DOMAIN all = DOMAIN NoQuery
      BY <2>2, <3>1, QueryFields
    <3>3. NextWalk(all).step \in {"walk", "edges"}
      BY <3>2, NextWalkKeeps
    <3> HIDE DEF starts, on, all, none
    <3> QED
      BY <2>3, <3>1, <3>2, <3>3 DEF QuerySteps
  <2>6. CASE ReadNode(r)
    <3> DEFINE id == CHOOSE x \in q.ids : TRUE
               kept == IF NodeRow(id) = {} THEN q.nodes ELSE {n \in q.nodes : n.id # id}
               on == [q EXCEPT !.ids = @ \ {id}, !.nodes = kept \cup NodeRow(id)]
    <3>1. Set(r, IF on.ids # {} THEN on ELSE NextWalk(on)) /\ q.step = "nodes"
      BY <2>6 DEF ReadNode
    <3>2. on.step = "nodes" /\ DOMAIN on = DOMAIN NoQuery
      BY <2>2, <3>1, QueryFields
    <3>3. NextWalk(on).step \in {"walk", "edges"}
      BY <3>2, NextWalkKeeps
    <3> HIDE DEF on
    <3> QED
      BY <2>3, <3>1, <3>2, <3>3 DEF QuerySteps
  <2>7. CASE Expand(r) \/ Search(r) \/ ReadEdge(r) \/ ReadEvidence(r) \/ ReadLatest(r) \/ ReadBuild(r)
    <3>1. query'[r].step \in {"walk", "nodes", "edges", "done", "build"}
      <4>1. CASE Expand(r)
        <5> DEFINE way == Head(q.queue)
                   edges == Touching(disk.edges, {way.id})
                   on == Tail(q.queue) \o (IF Expands(q, Len(way.edges) + 1) THEN Beyond(way, edges, q.met) ELSE <<>>)
                   met == q.met \cup {Other(e, way.id) : e \in edges}
                   edgeIds == q.edgeIds \cup {EdgeId(e) : e \in edges}
                   ids == IF on = <<>> THEN met ELSE {}
                   new == [q EXCEPT !.met = met, !.queue = on, !.edgeIds = edgeIds,
                                    !.ids = ids, !.step = IF on = <<>> THEN "nodes" ELSE "walk"]
        <5>1. query'[r] = new
          BY <2>2, <4>1 DEF Expand, Set
        <5> HIDE DEF on, met, edgeIds, ids
        <5>2. new.step \in {"walk", "nodes"}
          BY <2>2, QueryFields
        <5> QED
          BY <5>1, <5>2
      <4>2. CASE Search(r)
        <5> DEFINE way == Head(q.queue)
                   edges == Touching(disk.edges, {way.id})
                   on == Tail(q.queue) \o (IF Compares(q, Len(way.edges) + 1) THEN Beyond(way, edges, q.met) ELSE <<>>)
                   met == q.met \cup {Other(e, way.id) : e \in edges}
                   there == [q EXCEPT !.ids = Range(way.nodes), !.edgeIds = Range(way.edges), !.step = "nodes"]
                   new == [q EXCEPT !.met = met, !.queue = on, !.step = IF on = <<>> THEN "done" ELSE "walk"]
        <5>1. query'[r] = there \/ query'[r] = new
          BY <2>2, <4>2 DEF Search, Set
        <5> HIDE DEF way, on, met
        <5>2. there.step = "nodes" /\ new.step \in {"walk", "done"}
          BY <2>2, QueryFields
        <5> QED
          BY <5>1, <5>2
      <4>3. CASE ReadEdge(r)
        BY <2>2, <4>3, QueryFields DEF ReadEdge, Set
      <4>4. CASE ReadEvidence(r)
        <5>1. PICK nodes, edges, evidence :
                  Set(r, [q EXCEPT !.nodes = nodes, !.edges = edges, !.evidence = evidence, !.step = "done"])
          BY <4>4, Zenon DEF ReadEvidence
        <5> QED
          BY <2>2, <5>1, QueryFields DEF Set
      <4>5. CASE ReadLatest(r)
        BY <2>2, <4>5, QueryFields DEF ReadLatest, Set
      <4>6. CASE ReadBuild(r)
        BY <2>2, <4>6, QueryFields DEF ReadBuild, Set
      <4> QED
        BY <2>7, <4>1, <4>2, <4>3, <4>4, <4>5, <4>6
    <3> QED
      BY <1>4, <2>1, <3>1 DEF QuerySteps
  <2> QED
    BY <1>5, <2>4, <2>5, <2>6, <2>7 DEF Reading
<1>6. ASSUME NEW r \in Readers, NEW question \in Questions, Ask(r, question)
      PROVE  TypeInv'
  <2>1. UNCHANGED stored /\ query' = [query EXCEPT ![r] = query'[r]] /\ query'[r].step \in QuerySteps
    BY <1>6 DEF Ask, AnswerInv, storeVars, NoQuery, QuerySteps
  <2> QED
    BY <1>4, <2>1
<1>7. CASE Edit \/ Tick \/ UNCHANGED vars
  BY <1>1, <1>7 DEF Edit, Tick, vars, storeVars, graphVars
<1> QED
  BY <1>1, <1>2, <1>3, <1>5, <1>6, <1>7 DEF Next, Reads

LEMMA TypeIs == IInv /\ LatestInv /\ TypeInv /\ TablesFine(disk) => TypeOK
<1> SUFFICES ASSUME IInv, LatestInv, TypeInv, TablesFine(disk) PROVE TypeOK
  OBVIOUS
<1>1. disk.builds \subseteq 1 .. MaxClock
  BY DEF LatestInv, TypeInv, Builds
<1>2. \A n \in disk.nodes : DOMAIN n = {"id", "path", "meta", "evidence"}
  BY DEF TablesFine, NodeFine
<1> QED
  BY <1>1, <1>2 DEF TypeOK, TypeInv, IInv, TablesFine, Builds, QuerySteps

-----------------------------------------------------------------------------
(* The answers, of the one graph that was committed *)

LEMMA OneIsAll ==
    ASSUME NEW S, IsFiniteSet(S), Cardinality(S) = 1
    PROVE  \E d \in S : S = {d} /\ d = CHOOSE x \in S : TRUE
<1>1. S # {}
  BY FS_EmptySet
<1>2. PICK a \in S : TRUE
  BY <1>1
<1>3. \A b \in S : b = a
  BY TwoAtLeast
<1> QED
  BY <1>3

LEMMA QuietIsExact == StatusInv /\ QuietInv => QuietAnswersAreExact
<1> SUFFICES ASSUME StatusInv, QuietInv, NEW r \in Readers, Answered(r), Cardinality(during[r]) = 1
             PROVE  LET q == query[r]
                        graph == CHOOSE d \in during[r] : TRUE
                        starts == {n \in graph.nodes : n.id[1] \in Range(NodeKinds) /\ Named(n, q.question.target)}
                        asked == {n.id : n \in starts}
                    IN  /\ \E walked \in FirstOf(asked, StartLimit(q.question)) :
                            LET around == Around(graph, walked, DepthOf(q.question))
                            IN  /\ q.nodes \in NodesKept(starts \cup around.nodes, asked)
                                /\ q.edges \in FirstOf(around.edges, MaxRecords)
                        /\ q.evidence = Cited(q.nodes) \cup Cited(q.edges)
  BY DEF QuietAnswersAreExact
<1> DEFINE q == query[r]
           graph == CHOOSE d \in during[r] : TRUE
<1>1. graph \in during[r] /\ during[r] = {graph}
  BY OneIsAll DEF StatusInv
<1> HIDE DEF graph
<1>2. SoFar(q, graph)
  BY <1>1 DEF QuietInv, Answered
<1>3. Exact(q, graph)
  BY <1>2 DEF SoFar, RelatedSoFar, Answered
<1>4. StartsOf(q, graph) = {n \in graph.nodes : n.id[1] \in Range(NodeKinds) /\ Named(n, q.question.target)}
  BY DEF StartsOf, Among
<1>5. \A all : AroundOf(q, graph, all) = Around(graph, all, DepthOf(q.question))
  BY DEF AroundOf
<1> QED
  BY <1>3, <1>4, <1>5 DEF Exact, Walks, StartIds, graph

LEMMA QuietIsShortest == StatusInv /\ QuietInv => PathsAreShortest
<1> SUFFICES ASSUME StatusInv, QuietInv, NEW r \in Readers, query[r].step = "done", query[r].question.op = "path",
                    Cardinality(during[r]) = 1
             PROVE  LET q == query[r]
                        edges == (CHOOSE d \in during[r] : TRUE).edges
                        reach(k) == q.question.target \in Within(edges, {q.question.source}, k)
                    IN  /\ q.edges # {} <=> q.question.source # q.question.target /\ reach(q.question.depth)
                        /\ q.edges # {} => /\ reach(Cardinality(q.edges)) /\ ~reach(Cardinality(q.edges) - 1)
                                           /\ q.question.target \in Within(q.edges, {q.question.source}, Cardinality(q.edges))
  BY DEF PathsAreShortest
<1> DEFINE q == query[r]
           graph == CHOOSE d \in during[r] : TRUE
           E == graph.edges
           s == q.question.source
           target == q.question.target
           depth == q.question.depth
           k == Cardinality(q.edges)
<1>1. graph \in during[r] /\ during[r] = {graph}
  BY OneIsAll DEF StatusInv
<1> HIDE DEF graph
<1>2. SoFar(q, graph)
  BY <1>1 DEF QuietInv
<1>3. depth \in Nat
  BY <1>2, QuestionsAssumption DEF SoFar
<1>4. Shortest(q, graph, q.edges) \/ (q.edges = {} /\ target \notin Reach(E, s, depth))
  BY <1>2 DEF SoFar, PathSoFar
<1>5. \A n \in Nat : s \in Reach(E, s, n)
  BY ReachGrows
<1>6. Reach(E, s, 0) = {s} /\ \A m \in Nat : \A n \in Nat : m <= n => Reach(E, s, m) \subseteq Reach(E, s, n)
  BY ReachGrows
<1>7. CASE q.edges = {} /\ target \notin Reach(E, s, depth)
  BY <1>7 DEF Reach, graph
<1>8. CASE Shortest(q, graph, q.edges)
  <2>1. /\ IsFiniteSet(q.edges) /\ k <= depth /\ target \in Within(q.edges, {s}, k)
        /\ target \in Reach(E, s, k) /\ (k > 0 => target \notin Reach(E, s, k - 1))
    BY <1>8 DEF Shortest, Level
  <2>2. k \in Nat /\ (k = 0 <=> q.edges = {})
    BY <2>1, FS_EmptySet, FS_CardinalityType
  <2>3. CASE q.edges = {}
    <3>1. target = s
      BY <1>6, <2>1, <2>2, <2>3
    <3> QED
      BY <2>3, <3>1
  <2>4. CASE q.edges # {}
    <3>1. k > 0 /\ k - 1 \in Nat
      BY <2>2, <2>4
    <3>2. target # s
      BY <1>5, <2>1, <3>1
    <3>3. target \in Reach(E, s, depth)
      BY <1>3, <1>6, <2>1, <2>2
    <3> QED
      BY <2>1, <2>4, <3>1, <3>2, <3>3 DEF Reach, graph
  <2> QED
    BY <2>3, <2>4
<1> QED
  BY <1>4, <1>7, <1>8

\* Of which fewer are left than could be, nothing was left out.
LEMMA AllOfFew ==
    ASSUME NEW S, IsFiniteSet(S), NEW limit \in Nat, NEW K \in FirstOf(S, limit), Cardinality(K) < limit
    PROVE  K = S /\ Cardinality(S) < limit
BY DEF FirstOf

LEMMA QuietIsUse == StatusInv /\ QuietInv => UseIsSeen
<1> SUFFICES ASSUME StatusInv, QuietInv, NEW r \in Readers, Answered(r), Cardinality(during[r]) = 1,
                    query[r].question.op = "explain",
                    Explanation(query[r], query[r].question.target).outcome = "candidate"
             PROVE  LET graph == CHOOSE d \in during[r] : TRUE
                        explained == Explanation(query[r], query[r].question.target)
                        used == \E about, use \in graph.edges :
                                    /\ about.kind = "candidate_for" /\ about.source = explained.node
                                    /\ use.kind \in UsageKinds /\ use.target = about.target
                    IN  /\ explained.active => used
                        /\ used /\ Cardinality(query[r].nodes) < MaxRecords /\ Cardinality(query[r].edges) < MaxRecords
                           => explained.active
  BY DEF UseIsSeen
<1> DEFINE q == query[r]
           graph == CHOOSE d \in during[r] : TRUE
           E == graph.edges
           depth == DepthOf(q.question)
           found == {n \in q.nodes : Named(n, q.question.target)}
           node == CHOOSE n \in found : TRUE
           explained == Explanation(q, q.question.target)
<1>1. graph \in during[r] /\ during[r] = {graph}
  BY OneIsAll DEF StatusInv
<1> HIDE DEF graph
<1>2. SoFar(q, graph) /\ TablesFine(graph)
  BY <1>1 DEF QuietInv, Answered
<1>3. depth \in Nat /\ depth >= 2
  BY <1>2, QuestionsAssumption, LimitsAssumption DEF SoFar, DepthOf
<1> DEFINE starts == StartsOf(q, graph)
           ids == StartIds(q, graph)
<1>4. PICK all \in Walks(q, graph) :
          /\ q.nodes \in NodesKept(starts \cup AroundOf(q, graph, all).nodes, ids)
          /\ q.edges \in FirstOf(AroundOf(q, graph, all).edges, MaxRecords)
  BY <1>2 DEF SoFar, RelatedSoFar, Answered, Exact
<1> DEFINE near == Within(E, ids, depth - 1)
           nodes == starts \cup AroundOf(q, graph, all).nodes
           edges == AroundOf(q, graph, all).edges
<1>5. nodes \subseteq graph.nodes /\ edges \subseteq E /\ q.nodes \subseteq graph.nodes /\ q.edges \subseteq E
  <2>1. nodes \subseteq graph.nodes /\ edges \subseteq E
    <3>1. starts \subseteq graph.nodes
      BY AroundIs
    <3>2. AroundOf(q, graph, all).nodes \subseteq graph.nodes /\ AroundOf(q, graph, all).edges \subseteq E
      <4> HIDE DEF q
      <4> QED
        BY DEF AroundOf, Around, Touching
    <3> QED
      BY <3>1, <3>2
  <2>2. q.nodes \subseteq nodes /\ q.edges \subseteq edges
    BY <1>4, FirstOfIs DEF NodesKept
  <2> QED
    BY <2>1, <2>2
<1>6. ASSUME Cardinality(q.nodes) < MaxRecords, Cardinality(q.edges) < MaxRecords
       PROVE  q.edges = Touching(E, near)
  <2>1. IsFiniteSet(graph.nodes) /\ IsFiniteSet(E) /\ MaxRecords \in Nat
    BY <1>2, LimitsAssumption DEF TablesFine
  <2>2. IsFiniteSet(nodes) /\ IsFiniteSet(edges)
    BY <1>5, <2>1, FS_Subset
  <2>3. q.nodes = nodes /\ Cardinality(nodes) < MaxRecords /\ q.edges = edges
    <3>1. q.nodes \in FirstOf(nodes, MaxRecords) /\ q.edges \in FirstOf(edges, MaxRecords)
      BY <1>4 DEF NodesKept
    <3> HIDE DEF nodes, edges
    <3> QED
      BY <1>6, <2>1, <2>2, <3>1, AllOfFew
  <2>4. IsFiniteSet(starts) /\ Cardinality(starts) <= Cardinality(nodes)
    <3>1. starts \in SUBSET nodes
      OBVIOUS
    <3> HIDE DEF starts, nodes
    <3> QED
      BY <2>2, <3>1, FS_Subset
  <2> DEFINE f == [n \in starts |-> n.id]
  <2>5. f \in Surjection(starts, ids)
    BY DEF Surjection, StartIds
  <2> HIDE DEF f
  <2>6. IsFiniteSet(ids) /\ Cardinality(ids) <= Cardinality(starts)
    BY <2>4, <2>5, FS_Surjection
  <2>7. Cardinality(ids) <= MaxRecords
    <3>1. Cardinality(ids) \in Nat /\ Cardinality(starts) \in Nat /\ Cardinality(nodes) \in Nat
      BY <2>2, <2>4, <2>6, FS_CardinalityType
    <3> HIDE DEF ids, starts, nodes
    <3> QED
      BY <2>1, <2>3, <2>4, <2>6, <3>1
  <2>8. all = ids
    <3>1. all \in FirstOf(ids, MaxRecords)
      BY <1>4 DEF Walks, StartLimit
    <3> HIDE DEF ids
    <3> QED
      BY <2>7, <3>1 DEF FirstOf
  <2> QED
    BY <2>3, <2>8, AroundIs
<1> HIDE DEF nodes, edges, starts
<1>7. /\ found # {} /\ node.id[1] = "legacy_candidate"
      /\ explained.node = node.id /\ explained.active = (CounterEvidence(q, node.id) # {})
  BY DEF Explanation
<1>8. node \in graph.nodes /\ Named(node, q.question.target)
  BY <1>5, <1>7
<1> HIDE DEF node, found
<1>9. node.id \in ids
  BY <1>7, <1>8, QuestionsAssumption DEF StartIds, StartsOf, Among
<1>10. ids \subseteq near /\ \A n \in ids : \A x \in Neighbours(E, n) : x \in near
  <2>1. depth - 1 \in Nat /\ depth - 2 \in Nat /\ depth - 1 = (depth - 2) + 1
    BY <1>3
  <2>2. \A n \in Nat : Within(E, ids, n + 1) = Step(E, Within(E, ids, n))
    BY WithinNext
  <2>3. near = Step(E, Within(E, ids, depth - 2))
    BY <2>1, <2>2
  <2>4. \A n \in Nat : \A A : A \subseteq Within(E, A, n)
    BY WithinParts
  <2>5. ids \subseteq Within(E, ids, depth - 2) /\ ids \subseteq near
    BY <2>1, <2>4
  <2> HIDE DEF near, ids
  <2>6. ASSUME NEW n \in ids, NEW x \in Neighbours(E, n)
        PROVE  x \in near
    BY <2>3, <2>5, StepIs
  <2> QED
    BY <2>5, <2>6
<1> HIDE DEF ids, near
<1>11. ASSUME q.edges = Touching(E, near), NEW about \in E, about.source = node.id
       PROVE  about \in q.edges /\ about.target \in near
  <2>1. about \in Touching(E, {node.id}) /\ (about.target = node.id \/ about.target = Other(about, node.id))
    BY <1>11 DEF Touching, Ends, Other
  <2>2. about.target \in near
    BY <1>9, <1>10, <1>11, <2>1 DEF Neighbours, Other
  <2> QED
    BY <1>9, <1>10, <1>11, <2>2 DEF Touching, Ends
<1>12. ASSUME q.edges = Touching(E, near), NEW use \in E, use.target \in near
       PROVE  use \in q.edges
  BY <1>12 DEF Touching, Ends
<1>13. CounterEvidence(q, node.id) # {}
       <=> \E about, use \in q.edges :
               /\ about.kind = "candidate_for" /\ about.source = node.id
               /\ use.kind \in UsageKinds /\ use.target = about.target
  BY DEF CounterEvidence
<1> DEFINE Used(about, use) ==
               /\ about.kind = "candidate_for" /\ about.source = node.id
               /\ use.kind \in UsageKinds /\ use.target = about.target
           used == \E about, use \in E : Used(about, use)
           active == CounterEvidence(q, node.id) # {}
<1>14. active => used
  BY <1>5, <1>13
<1>15. ASSUME Cardinality(q.nodes) < MaxRecords, Cardinality(q.edges) < MaxRecords, used
       PROVE  active
  <2>1. PICK about \in E, use \in E : Used(about, use)
    BY <1>15
  <2>2. q.edges = Touching(E, near)
    BY <1>15, <1>6
  <2>3. about \in q.edges /\ use.target \in near
    BY <1>11, <2>1, <2>2
  <2>4. use \in q.edges
    BY <1>12, <2>2, <2>3
  <2> QED
    BY <1>13, <2>1, <2>3, <2>4
<1>16. used <=> \E about, use \in E : /\ about.kind = "candidate_for" /\ about.source = explained.node
                                        /\ use.kind \in UsageKinds /\ use.target = about.target
  <2> HIDE DEF explained, E
  <2> QED
    BY <1>7
<1>17. explained.active = active
  BY <1>7
<1> HIDE DEF explained, E, used, active
<1> QED
  BY <1>14, <1>15, <1>16, <1>17 DEF graph, E, explained

\* Whatever is built, cleared, edited or interrupted while others ask: an answer has only what was
\* committed in its time, and if that was one graph, it has everything around the nodes asked for
\* and nothing else up to the limits of an answer, the shortest path or none, the builds there are,
\* and each use of a candidate if it was not cut (queries.ts, explanations.ts and sqlite-store.ts,
\* which read statement by statement).
THEOREM AnswersAlwaysTrue == AloneSpec => []AnswersAreTrue
<1>1. Init => LatestInv /\ AnswerInv /\ StatusInv /\ EmptyInv /\ QuietInv /\ TypeInv
  <2> SUFFICES ASSUME Init PROVE LatestInv /\ AnswerInv /\ StatusInv /\ EmptyInv /\ QuietInv /\ TypeInv
    OBVIOUS
  <2>1. LatestInv
    BY DEF Init, StoreInit, LatestInv, Empty, Tables, Inserting
  <2>2. AnswerInv
    BY QueryFields DEF Init, AnswerInv, Asking, NoQuery
  <2>3. StatusInv
    BY FS_EmptySet DEF Init, StatusInv, NoQuery
  <2>4. EmptyInv /\ QuietInv
    BY DEF Init, StoreInit, Empty, Tables, EmptyInv, QuietInv
  <2>5. TypeInv
    <3>1. made = FALSE /\ latest = None /\ lock = None /\ failures = 0 /\ \A w \in Writers : txLatest[w] = None
      BY DEF Init, StoreInit
    <3>2. \A r \in Readers : query[r].step = "idle"
      BY DEF Init, NoQuery
    <3>3. 0 \in 0 .. MaxFailures
      BY GraphAssumption
    <3> QED
      BY <3>1, <3>2, <3>3 DEF TypeInv, Builds, QuerySteps
  <2> QED
    BY <2>1, <2>2, <2>3, <2>4, <2>5
<1>2. [Next /\ ClearsAlone']_vars => [Next]_vars
  OBVIOUS
<1>3. GraphInv => TablesFine(disk)
  BY DEF GraphInv
<1>4. IInv /\ GraphInv /\ LatestInv /\ AnswerInv /\ StatusInv /\ EmptyInv /\ QuietInv /\ TypeInv => AnswersAreTrue
  BY <1>3, TypeIs, QuietIsExact, QuietIsShortest, QuietIsUse
     DEF AnswersAreTrue, AnswerInv, AnswersWereCommitted, StatusInv, StatusIsHonest, Honest
<1>5. LatestInv /\ AnswerInv /\ StatusInv /\ EmptyInv /\ QuietInv /\ TypeInv /\ IInv /\ GraphInv /\ [Next /\ ClearsAlone']_vars
      => (LatestInv /\ AnswerInv /\ StatusInv /\ EmptyInv /\ QuietInv /\ TypeInv)'
  BY <1>2, <1>3, LatestStep, AnswerStep, StatusStep, EmptyStep, QuietStep, TypeStep
<1> QED
  BY <1>1, <1>4, <1>5, IInvHolds, GraphInvHolds, PTL DEF AloneSpec

==============================================================================
