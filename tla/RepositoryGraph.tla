---------------------------- MODULE RepositoryGraph ----------------------------
(***************************************************************************)
(* The graph commands over one repository: builds that read it while it is *)
(* edited and write their graph with GraphStore, and queries that read     *)
(* that store statement by statement (sqlite-store.ts, queries.ts), each   *)
(* command a process of its own.                                           *)
(*                                                                         *)
(* A world is a state of the repository and of the board's own state:      *)
(*   files       <<[path, dirs, lang, test, named, text]>>  see GraphParts *)
(*   facts       what a scan finds                                         *)
(*   contract    its sections, and whether it validates                    *)
(*   problems, candidates   the records of the doctor                      *)
(***************************************************************************)
EXTENDS GraphQueries, GraphStore

CONSTANTS
    Worlds,      \* the states of the repository, in the order in which edits make them
    NoContract,  \* a contract without any section
    Readers,     \* processes that ask
    Questions,   \* [op, target, source, depth, kinds] that are asked
    NodeKinds,   \* the kinds of nodes, in the order in which they are listed
    MaxStarts,   \* 25: the nodes asked for that related records are looked up of
    MaxRecords,  \* 100: the nodes, and the edges, of an answer
    MaxDepth,    \* 6: the edges that related records are away
    MaxClock     \* milliseconds that pass

ASSUME GraphAssumption == MaxClock \in Nat \ {0} /\ None \notin 1 .. MaxClock /\ MaxFailures \in Nat

\* What the inventory, the scan, the contract and the doctor are made of are lists, a file has a
\* path, and only a contract has applications.
TextListed(t) ==
    IsList(t.exports) /\ IsList(t.imports) /\ IsList(t.calls) /\ IsList(t.accesses) /\ IsList(t.mentions)
ContractListed(k) ==
    /\ IsList(k.apps) /\ \A a \in Range(k.apps) : IsList(a.commands)
    /\ IsList(k.generated) /\ \A g \in Range(k.generated) : IsList(g.sources)
    /\ IsList(k.checks) /\ \A x \in Range(k.checks) : IsList(x.paths) /\ IsList(x.components)
    /\ IsList(k.services) /\ IsList(k.unsafe) /\ IsList(k.setup)
    /\ ~k.present => k.apps = <<>>
WorldListed(w) ==
    /\ IsList(w.files) /\ \A f \in Range(w.files) : f.path # "" /\ IsList(f.dirs) /\ TextListed(f.text)
    /\ IsList(w.facts)
    /\ \A f \in Range(w.facts) :
           IsList(f.mentions) /\ IsList(f.jobs) /\ \A j \in Range(f.jobs) : IsList(j.commands)
    /\ w.contract.valid => ContractListed(w.contract)
    /\ IsList(w.problems) /\ \A p \in Range(w.problems) : IsList(p.targets)
    /\ IsList(w.candidates)

ASSUME ListsAssumption ==
    /\ IsList(Worlds) /\ Worlds # <<>> /\ \A w \in Range(Worlds) : WorldListed(w)
    /\ ContractListed(NoContract)

\* An explanation looks two edges far (explainGraphTarget).
ASSUME LimitsAssumption ==
    MaxStarts \in Nat \ {0} /\ MaxRecords \in Nat \ {0} /\ MaxDepth \in Nat /\ MaxDepth >= 2

\* A question looks at least one edge far, an explanation two, and goes through a list of kinds,
\* legacy candidates among them (queryGraphRelationships, findPathSqlite, explainGraphTarget).
ASSUME QuestionsAssumption ==
    /\ \A question \in Questions :
           /\ question.op \in {"status", "related", "explain", "path"}
           /\ question.op # "status" => question.depth \in Nat \ {0}
           /\ question.op = "explain" => question.depth >= 2
    /\ IsList(NodeKinds) /\ "legacy_candidate" \in Range(NodeKinds)

VARIABLES
    world,   \* the index of the present one
    clock,
    read,    \* by writer: the worlds in which it has read what
    query,   \* by reader: where it is, what it has read
    during   \* by reader: the committed tables since it asked

graphVars == <<world, clock, read, query, during>>
vars == <<storeVars, graphVars>>

---------------------------------------------------------------------------
(* The context of a build, from up to five states of the repository. *)

ContractOf(w) == IF w.contract.valid THEN w.contract ELSE NoContract
FileAt(w, path) == CHOOSE f \in Range(w.files) : f.path = path
PathsOf(w) == {f.path : f \in Range(w.files)}

\* A file that is gone is fingerprinted by its path.
PrintsAt(paths, w) == [p \in paths |-> IF p \in PathsOf(w) THEN FileAt(w, p).text.print ELSE p]

Context(at, now) ==
    LET paths == PathsOf(Worlds[at.inventory])
    IN  [files      |-> Worlds[at.inventory].files,
         contract   |-> ContractOf(Worlds[at.contract]),
         facts      |-> Worlds[at.scan].facts,
         prints     |-> PrintsAt(paths, Worlds[at.state]),
         problems   |-> Worlds[at.state].problems,
         candidates |-> Worlds[at.state].candidates,
         texts      |-> [p \in paths \cap PathsOf(Worlds[now]) |-> FileAt(Worlds[now], p).text]]

NothingRead == [inventory |-> 1, contract |-> 1, scan |-> 1, state |-> 1]
ReadOrder == [inventory |-> "contract", contract |-> "scan", scan |-> "state", state |-> "ingest"]

StartBuild(w) ==
    /\ At(w, "idle")
    /\ Go(w, "inventory")
    /\ UNCHANGED <<made, disk, latest, tx, txLatest, lock, snapshot, failures, graphVars>>

ReadContext(w, part) ==
    /\ At(w, part)
    /\ read' = [read EXCEPT ![w][part] = world]
    /\ Go(w, ReadOrder[part])
    /\ UNCHANGED <<made, disk, latest, tx, txLatest, lock, snapshot, failures, world, clock, query, during>>

\* The parts read the files again, one after another; the id is the time before they do.
Ingest(w) ==
    /\ At(w, "ingest")
    /\ LET graph == Graph(Context(read[w], world))
       IN  snapshot' = [snapshot EXCEPT ![w] = [id |-> clock, nodes |-> graph.nodes, edges |-> graph.edges,
                                                evidence |-> graph.evidence]]
    /\ read' = [read EXCEPT ![w] = NothingRead]
    /\ Go(w, "ensure")
    /\ UNCHANGED <<made, disk, latest, tx, txLatest, lock, failures, world, clock, query, during>>

StartClear(w) ==
    /\ At(w, "idle")
    /\ Go(w, "clear-builds")
    /\ UNCHANGED <<made, disk, latest, tx, txLatest, lock, snapshot, failures, graphVars>>

\* A statement of a writer, and what those who ask can see from then on.
Write(w) ==
    /\ StoreStep(w)
    /\ during' = [r \in Readers |-> IF query[r].step \in {"idle", "done"} THEN during[r] ELSE during[r] \cup {disk'}]
    /\ UNCHANGED <<world, clock, read, query>>

Edit ==
    /\ world < Len(Worlds)
    /\ world' = world + 1
    /\ UNCHANGED <<storeVars, clock, read, query, during>>

Tick ==
    /\ clock < MaxClock
    /\ clock' = clock + 1
    /\ UNCHANGED <<storeVars, world, read, query, during>>

---------------------------------------------------------------------------
(* Queries.  An entry of a walk's queue is a node and the edges and nodes on the way to it. *)

Way(id, edges, nodes) == [id |-> id, edges |-> edges, nodes |-> nodes]
WayFrom(id) == Way(id, <<>>, <<id>>)

NoQuery ==
    [step |-> "idle", question |-> [op |-> "none"], kinds |-> <<>>, starts |-> {}, todo |-> <<>>, queue |-> <<>>,
     met |-> {}, ids |-> {}, edgeIds |-> {}, nodes |-> {}, edges |-> {}, evidence |-> {}, build |-> None]

Set(r, q) == query' = [query EXCEPT ![r] = q] /\ UNCHANGED <<storeVars, world, clock, read, during>>

Ask(r, question) ==
    /\ query[r].step = "idle"
    /\ during' = [during EXCEPT ![r] = {disk}]
    /\ query' = [query EXCEPT ![r] =
           CASE question.op = "status" -> [NoQuery EXCEPT !.step = "latest", !.question = question]
             [] question.op = "path" ->
                    [NoQuery EXCEPT !.step = "walk", !.question = question,
                                    !.queue = <<WayFrom(question.source)>>, !.met = {question.source}]
             [] OTHER -> [NoQuery EXCEPT !.step = "kinds", !.question = question, !.kinds = NodeKinds]]
    /\ UNCHANGED <<storeVars, world, clock, read>>

\* A read of a database without tables is an error.
Unmade(r) ==
    /\ query[r].step \in {"kinds", "walk", "latest"} /\ ~made
    /\ Set(r, [NoQuery EXCEPT !.step = "done", !.question = query[r].question])

\* What is left of some records if at most `limit` of them are taken: the first ones in the code, in
\* the order of their ids or of the walks, here any.
FirstOf(S, limit) == IF Cardinality(S) <= limit THEN {S} ELSE {K \in SUBSET S : Cardinality(K) = limit}

\* The nodes that were asked for come before the others.
NodesKept(nodes, asked) ==
    {K \in FirstOf(nodes, MaxRecords) :
         \/ \A n \in nodes : n.id \in asked => n \in K
         \/ \A n \in K : n.id \in asked}

\* An explanation names a limit of its own, the same for everything.
StartLimit(question) == IF question.op = "explain" THEN MaxRecords ELSE MaxStarts
DepthOf(question) == IF question.depth <= MaxDepth THEN question.depth ELSE MaxDepth

\* Of the walks of the nodes asked for, one after another.
NextWalk(q) ==
    IF q.todo = <<>> THEN [q EXCEPT !.step = "edges"]
    ELSE [q EXCEPT !.step = "walk", !.queue = <<WayFrom(Head(q.todo))>>, !.met = {Head(q.todo)},
                   !.todo = Tail(q.todo)]

ReadKind(r) ==
    LET q == query[r]
        starts == q.starts \cup {n \in disk.nodes : n.id[1] = Head(q.kinds) /\ Named(n, q.question.target)}
        on == [q EXCEPT !.starts = starts, !.kinds = Tail(q.kinds)]
    IN  /\ q.step = "kinds" /\ made
        /\ \E walked \in FirstOf({n.id : n \in starts}, StartLimit(q.question)) :
           Set(r, IF on.kinds # <<>> THEN on
                  ELSE IF starts = {} THEN [on EXCEPT !.step = "done"]
                  ELSE NextWalk([on EXCEPT !.todo = Listed(walked), !.nodes = starts]))

Other(e, id) == IF e.source = id THEN e.target ELSE e.source

\* What is beyond a node and not yet met, with one of the edges that lead there.
Beyond(way, edges, met) ==
    LET ids == Listed({Other(e, way.id) : e \in edges} \ met)
        by(id) == CHOOSE e \in edges : Other(e, way.id) = id
    IN  [i \in DOMAIN ids |-> Way(ids[i], Append(way.edges, EdgeId(by(ids[i]))), Append(way.nodes, ids[i]))]

\* Bug: the walk ends one edge short.
ExpandsShort(q, depth) == depth + 1 < DepthOf(q.question)

Expands(q, depth) == depth < DepthOf(q.question)

\* traverse: a node at the full depth is met and not expanded.
Expand(r) ==
    LET q == query[r]
        way == Head(q.queue)
        edges == Touching(disk.edges, {way.id})
        on == Tail(q.queue) \o (IF Expands(q, Len(way.edges) + 1) THEN Beyond(way, edges, q.met) ELSE <<>>)
        met == q.met \cup {Other(e, way.id) : e \in edges}
    IN  /\ q.step = "walk" /\ q.question.op # "path" /\ made
        /\ Set(r, [q EXCEPT !.met = met, !.queue = on, !.edgeIds = @ \cup {EdgeId(e) : e \in edges},
                            !.ids = IF on = <<>> THEN met ELSE {}, !.step = IF on = <<>> THEN "nodes" ELSE "walk"])

Compares(q, depth) == depth <= q.question.depth

\* findPath: a node at the full depth is still compared with the target.
Search(r) ==
    LET q == query[r]
        way == Head(q.queue)
        edges == Touching(disk.edges, {way.id})
        on == Tail(q.queue) \o (IF Compares(q, Len(way.edges) + 1) THEN Beyond(way, edges, q.met) ELSE <<>>)
    IN  /\ q.step = "walk" /\ q.question.op = "path" /\ made
        /\ IF way.id = q.question.target
           THEN Set(r, [q EXCEPT !.ids = Range(way.nodes), !.edgeIds = Range(way.edges), !.step = "nodes"])
           ELSE Set(r, [q EXCEPT !.met = @ \cup {Other(e, way.id) : e \in edges}, !.queue = on,
                                 !.step = IF on = <<>> THEN "done" ELSE "walk"])

\* A node that is not there (any more) is left out of the answer, an edge too.
ReadNode(r) ==
    LET q == query[r]
        id == CHOOSE x \in q.ids : TRUE
        kept == IF NodeRow(id) = {} THEN q.nodes ELSE {n \in q.nodes : n.id # id}
        on == [q EXCEPT !.ids = @ \ {id}, !.nodes = kept \cup NodeRow(id)]
    IN  /\ q.step = "nodes"
        /\ Set(r, IF on.ids # {} THEN on ELSE NextWalk(on))

ReadEdge(r) ==
    LET q == query[r]
        id == CHOOSE x \in q.edgeIds : TRUE
    IN  /\ q.step = "edges" /\ q.edgeIds # {}
        /\ Set(r, [q EXCEPT !.edgeIds = @ \ {id}, !.edges = @ \cup {e \in disk.edges : EdgeId(e) = id}])

Cited(records) == UNION {x.evidence : x \in records}

\* A path is answered as it is.
ReadEvidence(r) ==
    LET q == query[r]
        path == q.question.op = "path"
    IN  /\ q.step = "edges" /\ q.edgeIds = {}
        /\ \E nodes \in IF path THEN {q.nodes} ELSE NodesKept(q.nodes, {n.id : n \in q.starts}) :
           \E edges \in IF path THEN {q.edges} ELSE FirstOf(q.edges, MaxRecords) :
               Set(r, [q EXCEPT !.nodes = nodes, !.edges = edges,
                                !.evidence = (Cited(nodes) \cup Cited(edges)) \cap disk.evidence, !.step = "done"])

\* The latest build's id, and its row by a second statement.
ReadLatest(r) ==
    LET q == query[r]
    IN  /\ q.step = "latest" /\ made
        /\ Set(r, [q EXCEPT !.build = latest, !.step = IF latest = None THEN "done" ELSE "build"])

ReadBuild(r) ==
    LET q == query[r]
    IN  /\ q.step = "build"
        /\ Set(r, [q EXCEPT !.build = BuildRow(q.build), !.step = "done"])

Reading(r) ==
    \/ Unmade(r) \/ ReadKind(r) \/ Expand(r) \/ Search(r) \/ ReadNode(r) \/ ReadEdge(r) \/ ReadEvidence(r)
    \/ ReadLatest(r) \/ ReadBuild(r)

---------------------------------------------------------------------------
Init ==
    /\ StoreInit
    /\ world = 1 /\ clock = 1
    /\ read = [w \in Writers |-> NothingRead]
    /\ query = [r \in Readers |-> NoQuery]
    /\ during = [r \in Readers |-> {}]

Next ==
    \/ \E w \in Writers :
           \/ StartBuild(w) \/ StartClear(w) \/ Ingest(w) \/ Write(w)
           \/ \E part \in DOMAIN ReadOrder : ReadContext(w, part)
    \/ \E r \in Readers : Reading(r) \/ \E question \in Questions : Ask(r, question)
    \/ Edit \/ Tick

Spec == Init /\ [][Next]_vars

---------------------------------------------------------------------------
(* Properties *)

Answered(r) == query[r].step = "done" /\ query[r].question.op \in {"related", "explain"}

\* Variables hold what the code can put there.
TypeOK ==
    /\ made \in BOOLEAN /\ disk.builds \subseteq 1 .. MaxClock /\ latest \in {None} \cup 1 .. MaxClock
    /\ DOMAIN disk = Tables /\ \A w \in Writers : DOMAIN tx[w] = Tables
    /\ \A n \in disk.nodes : DOMAIN n = {"id", "path", "meta", "evidence"}
    /\ \A e \in disk.edges : DOMAIN e = {"source", "target", "kind", "extractor", "evidence"}
    /\ lock \in {None} \cup Writers /\ failures \in 0 .. MaxFailures
    /\ \A r \in Readers : query[r].step \in
           {"idle", "kinds", "walk", "nodes", "edges", "latest", "build", "done"}

TablesOf(s) == [t \in Tables |-> RowsOf(s, t)]

\* A clear is not overlapped by another writer: it has no transaction, and a build that committed
\* between two of its statements would be left without its nodes.
ClearsAlone ==
    \A w \in Writers : step[w] \in DOMAIN ClearOrder =>
        \A v \in Writers \ {w} : step[v] \in {"idle", "done", "failed"}

Graphs == INSTANCE GraphSnapshots WITH
    NoGraph  <- None,
    graph    <- IF disk.builds = {} THEN None ELSE disk,
    offered  <- {TablesOf(snapshot[w]) : w \in {x \in Writers : snapshot[x] # NoSnapshot}},
    clearing <- \E w \in Writers : step[w] \in DOMAIN ClearOrder

\* As long as clears run alone: whatever fails, dies or is refused, the committed tables are those
\* of one build as a whole, or have no build.  A rebuild replaces them at once, and a clear removes the build first
\* (replaceGraph, clear).
Implements == Graphs!Spec

\* A query in whose time nothing was committed answers with the nodes asked for and the records
\* around them, all of them and no others, but for the limits: what is around the first of many
\* nodes, no more than MaxDepth edges away; of many nodes the first MaxRecords, those asked for
\* before the others; of many edges as many.  It has every piece of evidence that is cited by what
\* it is left with (queryGraphRelationships and traverseSqlite, a walk of single statements).
QuietAnswersAreExact ==
    \A r \in Readers : Answered(r) /\ Cardinality(during[r]) = 1 /\ made =>
        LET q == query[r]
            graph == CHOOSE d \in during[r] : TRUE
            starts == {n \in graph.nodes : n.id[1] \in Range(NodeKinds) /\ Named(n, q.question.target)}
            asked == {n.id : n \in starts}
        IN  /\ \E walked \in FirstOf(asked, StartLimit(q.question)) :
                LET around == Around(graph, walked, DepthOf(q.question))
                IN  /\ q.nodes \in NodesKept(starts \cup around.nodes, asked)
                    /\ q.edges \in FirstOf(around.edges, MaxRecords)
            /\ q.evidence = Cited(q.nodes) \cup Cited(q.edges)

\* Nothing of an answer is of a transaction that was not committed: each record was committed
\* at some time since the question, even if the graph was replaced or cleared meanwhile.
AnswersWereCommitted ==
    \A r \in Readers : Answered(r) =>
        /\ \A n \in query[r].nodes : \E d \in during[r] : n \in d.nodes
        /\ \A e \in query[r].edges : \E d \in during[r] : e \in d.edges

\* With nothing committed meanwhile, a path is found just when there is one of at most the
\* asked length, it leads from the source to the target, and none is shorter (findPathSqlite).
PathsAreShortest ==
    \A r \in Readers :
        query[r].step = "done" /\ query[r].question.op = "path" /\ Cardinality(during[r]) = 1 /\ made =>
        LET q == query[r]
            edges == (CHOOSE d \in during[r] : TRUE).edges
            reach(k) == q.question.target \in Within(edges, {q.question.source}, k)
        IN  /\ q.edges # {} <=> q.question.source # q.question.target /\ reach(q.question.depth)
            /\ q.edges # {} => /\ reach(Cardinality(q.edges)) /\ ~reach(Cardinality(q.edges) - 1)
                               /\ q.question.target \in Within(q.edges, {q.question.source}, Cardinality(q.edges))

\* A status names a build that was there while it was asked for, and says that there is none only
\* if there was none at some time, or another came in between (getLatestBuild, two statements).
StatusIsHonest ==
    \A r \in Readers : query[r].step = "done" /\ query[r].question.op = "status" =>
        IF query[r].build # None THEN \E d \in during[r] : query[r].build \in d.builds
        ELSE Cardinality(during[r]) > 1 \/ \E d \in during[r] : d.builds = {}

---------------------------------------------------------------------------
(* Graphs that were built of the repository as it is now. *)

\* The graph of each state of the repository, if nothing changes while it is read.
GraphsOfWorlds ==
    [i \in DOMAIN Worlds |-> Graph(Context([inventory |-> i, contract |-> i, scan |-> i, state |-> i], i))]
Prints == PrintsAt(PathsOf(Worlds[world]), Worlds[world])
Committed == disk.builds # {}

\* Whatever graph is stored, its plan leaves nothing out that a changed, deleted or renamed file
\* stands behind: the file's node, and each edge that ends there; only if the files are the
\* same ones with the same fingerprints is there nothing to do (planGraphInvalidation).
InvalidationCovers ==
    Committed => \A changedOnly \in BOOLEAN :
        LET prints == Prints
            plan == Plan(disk, prints, changedOnly)
            paths == {n.path : n \in Files(disk)}
            stale == {n.id : n \in {f \in Files(disk) : f.path \notin DOMAIN prints \/ prints[f.path] # f.meta}}
        IN  plan.mode # "full" =>
                /\ stale = plan.nodes
                /\ {EdgeId(e) : e \in Touching(disk.edges, stale)} = plan.edges
                /\ (plan.mode = "none") <=> (stale = {} /\ DOMAIN prints = paths)
                /\ \A m \in plan.renamed : m[1] \notin DOMAIN prints /\ m[2] \notin paths

\* An edge of a graph that is going to be committed, and was built from one state of the
\* repository, ends at nodes that the graph has, but for a check's component that is no
\* application, the place of an application or worker that is no file, and a route handler that
\* the symbol index does not know (the parts refer to each other's nodes by their ids).
EdgesEndAtNodes ==
    \A w \in Writers : At(w, "commit") /\ tx[w].nodes = GraphsOfWorlds[world].nodes =>
        LET ids == {n.id : n \in tx[w].nodes} IN
        \A e \in tx[w].edges : \A id \in Ends(e) \ ids :
            \/ e.extractor = "reference-index" /\ id[1] = "component"
            \/ e.extractor = "runtime-nodes" /\ id[1] = "file" /\ id[2] \notin PathsOf(Worlds[world])
            \/ e.extractor = "route-index" /\ id[1] = "symbol"

\* A legacy candidate for a file is explained as in use only when some edge of the graph uses the
\* file, and whenever one does unless the answer was cut: the question looks two edges far, and an
\* answer with fewer records than it may have has them all (explainGraphTarget, aggregateUsageEvidence).
UseIsSeen ==
    \A r \in Readers : Answered(r) /\ Cardinality(during[r]) = 1 /\ query[r].question.op = "explain" =>
        LET q == query[r]
            graph == CHOOSE d \in during[r] : TRUE
            explained == Explanation(q, q.question.target)
            used == \E about, use \in graph.edges :
                        /\ about.kind = "candidate_for" /\ about.source = explained.node
                        /\ use.kind \in UsageKinds /\ use.target = about.target
        IN  explained.outcome = "candidate" =>
                /\ explained.active => used
                /\ used /\ Cardinality(q.nodes) < MaxRecords /\ Cardinality(q.edges) < MaxRecords => explained.active

\* Answers are true of what was committed in the time of the question, and exact up to the limits
\* if that was one graph: none of the four kinds of questions reads in a transaction (sqlite-store.ts).
AnswersAreTrue ==
    /\ TypeOK
    /\ AnswersWereCommitted
    /\ QuietAnswersAreExact
    /\ PathsAreShortest
    /\ StatusIsHonest
    /\ UseIsSeen

\* The graph knows the fingerprint of each file whose content a build could read.
FingerprintsSurvive ==
    Committed /\ disk.nodes = GraphsOfWorlds[world].nodes =>
        \A p \in DOMAIN Prints : \E n \in Files(disk) : n.path = p /\ n.meta = Prints[p]

=============================================================================
