------------------------------ MODULE CfgGraph ------------------------------
(***************************************************************************)
(* The control-flow graphs of the P4 frontend (EdgeHolder, cfg_algos.h): a *)
(* map from nodes to vectors of labelled edges, which keep their positions *)
(* when some of them are removed.  A node without successors may be        *)
(* missing from the map.                                                   *)
(***************************************************************************)
EXTENDS Naturals, Sequences

neighbors_or_empty(graph, n) == IF n \in DOMAIN graph THEN graph[n] ELSE <<>>

Edges(graph, n) == DOMAIN neighbors_or_empty(graph, n)

Succs(graph, n) == {graph[n][i].to : i \in Edges(graph, n)}

NodesOf(graph) == DOMAIN graph \cup UNION {Succs(graph, n) : n \in DOMAIN graph}

(***************************************************************************)
(* What reverse(graph) holds for a node: the edges that lead to it, each   *)
(* its source and its position.                                            *)
(***************************************************************************)
reverse(graph, n) ==
    UNION {{<<m, i>> : i \in {j \in DOMAIN graph[m] : graph[m][j].to = n}} : m \in DOMAIN graph}

OneAtMost(edges) == \A e, f \in edges : e = f

(***************************************************************************)
(* subgraph: the nodes that pass the filter and the edges between them.    *)
(***************************************************************************)
subgraph(graph, keep) ==
    [n \in DOMAIN graph \cap keep |->
        [i \in {j \in DOMAIN graph[n] : graph[n][j].to \in keep} |-> graph[n][i]]]

(***************************************************************************)
(* The loop over a vector: j is the edge after position i.                 *)
(***************************************************************************)
Follows(graph, n, i, j) ==
    j > i /\ \A k \in Edges(graph, n) : k > i => k >= j

-----------------------------------------------------------------------------
(***************************************************************************)
(* The reference: n can be reached from start when it lies in every set    *)
(* that contains start and is closed under successors.                     *)
(***************************************************************************)
Closed(graph, C) == \A n \in C : Succs(graph, n) \subseteq C

Reachable(graph, start) ==
    {n \in NodesOf(graph) \cup {start} :
        \A C \in SUBSET (NodesOf(graph) \cup {start}) :
            start \in C /\ Closed(graph, C) => n \in C}
=============================================================================
