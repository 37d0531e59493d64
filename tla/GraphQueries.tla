----------------------------- MODULE GraphQueries -----------------------------
(***************************************************************************)
(* What is asked of a graph: what a change of the files invalidates in it  *)
(* (invalidation.ts), and how a node is explained from the records that a  *)
(* query has read (usage-evidence.ts, legacy-explanations.ts).  Within is  *)
(* the reference that the walks of the store are compared with.            *)
(***************************************************************************)
EXTENDS GraphParts, FiniteSets

Files(graph) == {n \in graph.nodes : n.id[1] = "file" /\ n.path # ""}
Ends(e) == {e.source, e.target}
Touching(edges, ids) == {e \in edges : Ends(e) \cap ids # {}}

\* The members of a set, one after the other.
Listed(S) ==
    LET left[k \in 0 .. Cardinality(S)] ==
            IF k = 0 THEN S ELSE left[k - 1] \ {CHOOSE x \in left[k - 1] : TRUE}
    IN  [i \in 1 .. Cardinality(S) |-> CHOOSE x \in left[i - 1] : TRUE]

---------------------------------------------------------------------------
(* The plan of an invalidation.  Of several files that a deleted one can have become the code  *)
(* takes the first by name, here one that is always the same.                                  *)

\* Bug: a file that is still where it was is taken for the new name.
RenamedToAny(graph, prints) ==
    {<<n.path, CHOOSE p \in DOMAIN prints : prints[p] = n.meta>> :
         n \in {m \in Files(graph) : m.path \notin DOMAIN prints /\ m.meta \in Range(prints)}}

Renames(graph, prints) ==
    LET before == {n.path : n \in Files(graph)}
        becomes(n) == {p \in DOMAIN prints \ before : n.meta # "" /\ prints[p] = n.meta}
    IN  {<<n.path, CHOOSE p \in becomes(n) : TRUE>> :
             n \in {m \in Files(graph) : m.path \notin DOMAIN prints /\ becomes(m) # {}}}

FullPlan(added) ==
    [mode |-> "full", added |-> added, changed |-> {}, deleted |-> {}, renamed |-> {},
     nodes |-> {}, edges |-> {}]

Plan(graph, prints, changedOnly) ==
    LET files == Files(graph)
        before == {n.path : n \in files}
        added == DOMAIN prints \ before
        deleted == before \ DOMAIN prints
        changed == {n.path : n \in {m \in files : m.path \in DOMAIN prints /\ m.meta # prints[m.path]}}
        renamed == Renames(graph, prints)
        direct == changed \cup deleted \cup {r[1] : r \in renamed} \cup {r[2] : r \in renamed}
        nodes == {n.id : n \in {m \in files : m.path \in direct}}
    IN  IF changedOnly /\ \E n \in files : n.meta = "" THEN FullPlan({})
        ELSE [mode    |-> IF direct \cup added = {} THEN "none" ELSE "incremental",
              added   |-> added \ {r[2] : r \in renamed},
              changed |-> changed,
              deleted |-> deleted \ {r[1] : r \in renamed},
              renamed |-> renamed,
              nodes   |-> nodes,
              edges   |-> {EdgeId(e) : e \in Touching(graph.edges, nodes)}]

---------------------------------------------------------------------------
(* Reference: the ids at most `depth` edges away, and the records around them. *)

Within(edges, starts, depth) ==
    LET reach[k \in 0 .. depth] ==
            IF k = 0 THEN starts
            ELSE reach[k - 1] \cup UNION {Ends(e) : e \in Touching(edges, reach[k - 1])}
    IN  reach[depth]

Around(graph, starts, depth) ==
    [nodes |-> {n \in graph.nodes : n.id \in Within(graph.edges, starts, depth)},
     edges |-> Touching(graph.edges, Within(graph.edges, starts, depth - 1))]

---------------------------------------------------------------------------
(* What is made of the records that were read. *)

Named(n, target) == n.path = target \/ (Len(n.id) = 2 /\ n.id[2] = target)

UsageKinds == {"imports", "exports", "handles_route", "tests", "runs", "verifies", "references", "documents"}

\* The edges that speak against a candidate, each from an edge that uses what it is about.
CounterEvidence(answer, candidate) ==
    LET about == {e.target : e \in {x \in answer.edges : x.kind = "candidate_for" /\ x.source = candidate}}
    IN  {u \in answer.edges : u.kind \in UsageKinds /\ u.target \in about}

ExplainedKinds == {"file", "symbol", "route", "component", "command", "legacy_candidate"}

Explanation(answer, target) ==
    LET found == {n \in answer.nodes : Named(n, target)}
        \* The code takes the first in the order of the ids.
        node == CHOOSE n \in found : TRUE
    IN  IF found = {} THEN [outcome |-> "not_found"]
        ELSE IF node.id[1] \notin ExplainedKinds THEN [outcome |-> "unsupported_target"]
        ELSE IF node.id[1] = "legacy_candidate"
        THEN [outcome |-> "candidate", node |-> node.id, active |-> CounterEvidence(answer, node.id) # {}]
        ELSE [outcome |-> "explained", node |-> node.id,
              relationships |-> Touching(answer.edges, {node.id})]

=============================================================================
