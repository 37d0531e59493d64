---------------------------- MODULE GraphSnapshots ----------------------------
(***************************************************************************)
(* What the graph store promises: there is one graph or none, builds offer *)
(* graphs of their own, and the graph only ever becomes one of those that  *)
(* are offered, whole and in one step, or none while a clear is under way. *)
(***************************************************************************)
CONSTANT NoGraph

VARIABLES
    graph,    \* the graph that can be asked
    offered,  \* the graphs that builds under way would have it replaced by
    clearing  \* is a clear under way

vars == <<graph, offered, clearing>>

Init == graph = NoGraph /\ offered = {} /\ clearing = FALSE

\* A build arrives with its graph, or goes without having replaced the one that is there.
Offer ==
    /\ graph' = graph
    /\ \E g \in offered \cup offered' : offered' \in {offered \cup {g}, offered \ {g}}
    /\ clearing' = clearing

Replace ==
    /\ graph' \in offered
    /\ offered' \in {offered, offered \ {graph'}}
    /\ clearing' = clearing

Clear ==
    /\ clearing
    /\ graph' = NoGraph
    /\ UNCHANGED <<offered, clearing>>

Begin == clearing' # clearing /\ UNCHANGED <<graph, offered>>

Next == Offer \/ Replace \/ Clear \/ Begin

Spec == Init /\ [][Next]_vars
=============================================================================
