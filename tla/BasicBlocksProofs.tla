-------------------------- MODULE BasicBlocksProofs --------------------------
(***************************************************************************)
(* Two facts about bf4's passage from control-flow graphs to basic blocks, *)
(* for every program, loops included: the traversal of removeDeadNodes     *)
(* keeps exactly the nodes that can be reached, and basic_blocks meets no  *)
(* node twice.                                                             *)
(***************************************************************************)
EXTENDS BasicBlocks, SequenceTheorems, TLAPS

(***************************************************************************)
(* What IsProgram says of a graph, in a form that subgraph preserves.      *)
(***************************************************************************)
Good(g, k) ==
    /\ Start \in DOMAIN g
    /\ DOMAIN g \subseteq Nat \X {0}
    /\ \A n \in DOMAIN g :
          /\ k[n] \in {"if", "select", "other"}
          /\ \A i \in DOMAIN g[n] :
                /\ i \in Nat \ {0}
                /\ g[n][i].to \in Nat \X {0}
                /\ g[n][i].to # Start
          /\ k[n] = "other" => \A i, j \in DOMAIN g[n] : i = j
          /\ k[n] = "if" => \A i, j \in DOMAIN g[n] :
                (g[n][i].label = 0) = (g[n][j].label = 0) => i = j

\* The programs of the analysis are Good.
LEMMA ProgramsAreGood ==
    ASSUME NEW p \in Programs
    PROVE  Good(p.graph, p.kind)
<1>1. IsProgram(p)
  BY ProgramsAssumption
<1>2. ASSUME NEW n \in DOMAIN p.graph
      PROVE  /\ p.kind[n] \in {"if", "select", "other"}
             /\ \A i \in DOMAIN p.graph[n] :
                   /\ i \in Nat \ {0}
                   /\ p.graph[n][i].to \in Nat \X {0}
                   /\ p.graph[n][i].to # Start
             /\ p.kind[n] = "other" => \A i, j \in DOMAIN p.graph[n] : i = j
             /\ p.kind[n] = "if" => \A i, j \in DOMAIN p.graph[n] :
                   (p.graph[n][i].label = 0) = (p.graph[n][j].label = 0) => i = j
  <2> DEFINE T == [to : DOMAIN p.kind \ {Start}, label : Nat]
             v == p.graph[n]
  <2>1. /\ v \in Seq(T)
        /\ p.kind[n] \in {"if", "select", "other"}
        /\ p.kind[n] = "other" => Len(v) <= 1
        /\ DOMAIN p.kind \subseteq Nat \X {0}
    BY <1>1 DEF IsProgram
  <2>2. DOMAIN v = 1..Len(v) /\ Len(v) \in Nat /\ \A i \in 1..Len(v) : v[i] \in T
    <3> HIDE DEF v, T
    <3> QED  BY <2>1
  <2>3. \A t \in T : t.to \in Nat \X {0} /\ t.to # Start
    BY <2>1
  <2>4. p.kind[n] = "if" => \A i, j \in DOMAIN p.graph[n] :
                   (p.graph[n][i].label = 0) = (p.graph[n][j].label = 0) => i = j
    BY <1>1 DEF IsProgram
  <2>5. \A i \in DOMAIN v : i \in Nat \ {0} /\ v[i].to \in Nat \X {0} /\ v[i].to # Start
    <3> HIDE DEF v, T
    <3> QED  BY <2>2, <2>3
  <2>6. p.kind[n] = "other" => \A i, j \in DOMAIN v : i = j
    <3> HIDE DEF v, T
    <3> QED  BY <2>1, <2>2
  <2> QED  BY <2>1, <2>4, <2>5, <2>6
<1> QED  BY <1>1, <1>2 DEF IsProgram, Good

\* subgraph keeps a graph Good when it keeps the start.
LEMMA SubgraphIsGood ==
    ASSUME NEW g, NEW k, NEW V, Good(g, k), Start \in V
    PROVE  Good(subgraph(g, V), k)
<1> DEFINE h == subgraph(g, V)
<1>1. DOMAIN h = DOMAIN g \cap V
  BY DEF subgraph
<1>2. \A n \in DOMAIN h : DOMAIN h[n] \subseteq DOMAIN g[n]
  BY DEF subgraph
<1>3. \A n \in DOMAIN h : \A i \in DOMAIN h[n] : h[n][i] = g[n][i]
  BY DEF subgraph
<1> HIDE DEF h
<1>4. Good(h, k)
  BY <1>1, <1>2, <1>3 DEF Good
<1> QED  BY <1>4 DEF h

-----------------------------------------------------------------------------
(***************************************************************************)
(* The stack.                                                              *)
(***************************************************************************)
On(x, s) == \E i \in 1..Len(s) : s[i] = x

\* What popping leaves.
LEMMA PoppedIsShorter ==
    ASSUME NEW S, stack \in Seq(S), stack # <<>>
    PROVE  /\ Len(stack) \in Nat \ {0}
           /\ Top \in S
           /\ Popped \in Seq(S)
           /\ Len(Popped) = Len(stack) - 1
           /\ \A i \in 1..(Len(stack) - 1) : Popped[i] = stack[i]
           /\ \A x : On(x, stack) <=> (x = Top \/ On(x, Popped))
<1>1. Len(stack) \in Nat \ {0} /\ \A i \in 1..Len(stack) : stack[i] \in S
  BY EmptySeq, ElementOfSeq
<1>2. \A i \in 1..(Len(stack) - 1) : stack[i] \in S
  BY <1>1
<1>3. /\ Popped \in Seq(S)
      /\ Len(Popped) = Len(stack) - 1
      /\ \A i \in 1..(Len(stack) - 1) : Popped[i] = stack[i]
  <2>1. 1 \in Int /\ Len(stack) - 1 \in Int
    BY <1>1
  <2>2. /\ Popped \in Seq(S)
        /\ Len(Popped) = IF 1 <= Len(stack) - 1 THEN Len(stack) - 1 - 1 + 1 ELSE 0
        /\ \A i \in 1..(Len(stack) - 1 - 1 + 1) : Popped[i] = stack[1 + i - 1]
    BY <1>2, <2>1, SubSeqProperties DEF Popped
  <2>3. Len(Popped) = Len(stack) - 1
    <3>1. \A l \in Nat \ {0} : (IF 1 <= l - 1 THEN l - 1 - 1 + 1 ELSE 0) = l - 1
      OBVIOUS
    <3> QED  BY <1>1, <2>2, <3>1
  <2>4. \A i \in 1..(Len(stack) - 1) : i \in 1..(Len(stack) - 1 - 1 + 1) /\ 1 + i - 1 = i
    BY <1>1
  <2> QED  BY <2>2, <2>3, <2>4
<1>4. ASSUME NEW x PROVE On(x, stack) <=> (x = Top \/ On(x, Popped))
  <2>1. On(x, Popped) <=> \E i \in 1..(Len(stack) - 1) : stack[i] = x
    BY <1>3 DEF On
  <2>2. 1..Len(stack) = 1..(Len(stack) - 1) \cup {Len(stack)}
    BY <1>1
  <2> QED  BY <2>1, <2>2 DEF On, Top
<1>5. Top \in S
  BY <1>1 DEF Top
<1> QED  BY <1>1, <1>3, <1>4, <1>5

\* What appending adds.
LEMMA AppendAdds ==
    ASSUME NEW S, NEW s \in Seq(S), NEW e \in S
    PROVE  /\ Append(s, e) \in Seq(S)
           /\ Append(s, e) # <<>>
           /\ Len(s) \in Nat
           /\ Len(Append(s, e)) = Len(s) + 1
           /\ \A i \in 1..Len(s) : Append(s, e)[i] = s[i]
           /\ Append(s, e)[Len(s) + 1] = e
           /\ \A x : On(x, Append(s, e)) <=> (x = e \/ On(x, s))
<1>1. /\ Append(s, e) \in Seq(S)
      /\ Append(s, e) # <<>>
      /\ Len(s) \in Nat
      /\ Len(Append(s, e)) = Len(s) + 1
      /\ \A i \in 1..Len(s) : Append(s, e)[i] = s[i]
      /\ Append(s, e)[Len(s) + 1] = e
  BY AppendProperties, LenProperties
<1>2. ASSUME NEW x PROVE On(x, Append(s, e)) <=> (x = e \/ On(x, s))
  <2>1. 1..(Len(s) + 1) = 1..Len(s) \cup {Len(s) + 1}
    BY <1>1
  <2> DEFINE t == Append(s, e)
  <2>2. On(x, t) <=> \E i \in 1..Len(s) \cup {Len(s) + 1} : t[i] = x
    BY <1>1, <2>1 DEF On
  <2> HIDE DEF t
  <2>3. (\E i \in 1..Len(s) \cup {Len(s) + 1} : t[i] = x) <=> (t[Len(s) + 1] = x \/ \E i \in 1..Len(s) : t[i] = x)
    OBVIOUS
  <2>4. (\E i \in 1..Len(s) : t[i] = x) <=> On(x, s)
    BY <1>1 DEF t, On
  <2> QED  BY <1>1, <2>2, <2>3, <2>4 DEF t
<1> QED  BY <1>1, <1>2

-----------------------------------------------------------------------------
(***************************************************************************)
(* The traversal.  The nodes visited and the nodes on the stack lie in     *)
(* every closed set that contains the start; an edge of a visited node     *)
(* leads to a visited node or one on the stack, except for the edges of    *)
(* the current node that are still to come.                                *)
(***************************************************************************)
Space == NodesOf(cfg) \cup {Start}

Known(x) == x \in visited \/ On(x, stack)

Traversal ==
    /\ stack \in Seq(Space)
    /\ visited \subseteq Space
    /\ crt = <<>> \/ \E n \in visited : crt = <<n>>
    /\ succ \in Nat
    /\ \A C \in SUBSET Space : (Start \in C /\ Closed(cfg, C)) =>
          visited \subseteq C /\ \A x : On(x, stack) => x \in C
    /\ Known(Start)
    /\ \A n \in visited : \A i \in Edges(cfg, n) :
          Known(cfg[n][i].to) \/ (crt = <<n>> /\ i > succ)

TInv ==
    /\ pc \in {"traverse", "push"} => Good(cfg, kind)
    /\ pc = "traverse" => Traversal
    /\ pc = "push" => NodesOf(cfg) = Reachable(cfg, Start)

\* The end of an edge is a node of the graph.
LEMMA EdgesStayInside ==
    ASSUME NEW n, NEW i \in Edges(cfg, n)
    PROVE  n \in DOMAIN cfg /\ i \in DOMAIN cfg[n] /\ cfg[n][i].to \in Space
<1>1. n \in DOMAIN cfg
  BY DEF Edges, neighbors_or_empty
<1>2. i \in DOMAIN cfg[n]
  BY <1>1 DEF Edges, neighbors_or_empty
<1> QED  BY <1>1, <1>2 DEF Space, NodesOf, Succs

\* What is visited when the stack is empty is what can be reached.
LEMMA VisitedIsReachable ==
    ASSUME Traversal, stack = <<>>, crt = <<>>
    PROVE  /\ visited = Reachable(cfg, Start)
           /\ Start \in visited
           /\ Closed(cfg, visited)
<1>1. \A x : ~On(x, stack)
  BY EmptySeq DEF On
<1>2. Start \in visited
  BY <1>1 DEF Traversal, Known
<1>3. \A n \in visited : crt # <<n>>
  OBVIOUS
<1>4. Closed(cfg, visited)
  BY <1>1, <1>3 DEF Traversal, Known, Closed, Succs
<1>5. visited \subseteq Reachable(cfg, Start)
  BY DEF Traversal, Reachable, Space
<1>6. Reachable(cfg, Start) \subseteq visited
  BY <1>2, <1>4 DEF Traversal, Reachable, Space
<1> QED  BY <1>2, <1>4, <1>5, <1>6
\* Visit keeps the invariant of the traversal.
LEMMA VisitKeepsTraversal ==
    ASSUME Traversal, Good(cfg, kind), Visit
    PROVE  Traversal'
<1> USE DEF Visit
<1>1. /\ Top \in Space
      /\ stack' \in Seq(Space)
      /\ \A x : On(x, stack) <=> (x = Top \/ On(x, stack'))
  BY PoppedIsShorter DEF Traversal
<1>2. Space' = Space /\ cfg' = cfg
  BY DEF Space
<1>3. \A x : Known(x) => Known(x)'
  BY <1>1 DEF Known
<1>4. visited' \subseteq visited \cup {Top} /\ visited \subseteq visited'
  OBVIOUS
<1>5. crt' = <<>> \/ \E n \in visited' : crt' = <<n>>
  OBVIOUS
<1>6. ASSUME NEW C \in SUBSET Space, Start \in C, Closed(cfg, C)
      PROVE  visited' \subseteq C /\ \A x : On(x, stack') => x \in C
  BY <1>1, <1>4, <1>6 DEF Traversal
<1>7. ASSUME NEW n \in visited', NEW i \in Edges(cfg, n)
      PROVE  Known(cfg[n][i].to)' \/ (crt' = <<n>> /\ i > succ')
  <2>1. CASE n \in visited
    BY <1>2, <1>3, <2>1 DEF Traversal
  <2>2. CASE n \notin visited
    <3>1. crt' = <<n>> /\ succ' = 0
      BY <1>4, <2>2
    <3>2. i > 0
      BY EdgesStayInside DEF Good
    <3> QED  BY <3>1, <3>2
  <2> QED  BY <2>1, <2>2
<1>8. visited' \subseteq Space
  BY <1>1, <1>4 DEF Traversal
<1>9. Known(Start)'
  BY <1>3 DEF Traversal
<1>10. succ' \in Nat
  BY DEF Traversal
<1> QED  BY <1>1, <1>2, <1>5, <1>6, <1>7, <1>8, <1>9, <1>10 DEF Traversal

\* PushNeighbor keeps it: the edge that it passes now leads to the stack.
LEMMA PushKeepsTraversal ==
    ASSUME Traversal, Good(cfg, kind), PushNeighbor
    PROVE  Traversal'
<1>1. PICK n \in visited : crt = <<n>>
  BY DEF Traversal, PushNeighbor
<1>2. Back = n
  BY <1>1 DEF Back
<1>3. PICK i \in Edges(cfg, n) :
        /\ Follows(cfg, n, succ, i)
        /\ stack' = Append(stack, cfg[n][i].to)
        /\ succ' = i
  BY <1>2 DEF PushNeighbor
<1> DEFINE t == cfg[n][i].to
<1>4. n \in DOMAIN cfg /\ i \in DOMAIN cfg[n] /\ t \in Space
  BY EdgesStayInside
<1>5. /\ stack' \in Seq(Space)
      /\ \A x : On(x, stack') <=> (x = t \/ On(x, stack))
  BY <1>3, <1>4, AppendAdds DEF Traversal
<1>6. Space' = Space /\ UNCHANGED <<cfg, visited, crt>>
  BY DEF Space, PushNeighbor
<1>7. \A x : Known(x) => Known(x)'
  BY <1>5, <1>6 DEF Known
<1>8. Known(t)'
  BY <1>5, <1>6 DEF Known
<1>9. ASSUME NEW C \in SUBSET Space, Start \in C, Closed(cfg, C)
      PROVE  visited' \subseteq C /\ \A x : On(x, stack') => x \in C
  <2>1. n \in C
    BY <1>9 DEF Traversal
  <2>2. t \in C
    BY <1>9, <2>1 DEF Closed, Succs
  <2> QED  BY <1>5, <1>6, <1>9, <2>2 DEF Traversal
<1>10. ASSUME NEW m \in visited, NEW j \in Edges(cfg, m)
       PROVE  Known(cfg[m][j].to)' \/ (crt' = <<m>> /\ j > succ')
  <2>1. CASE m # n
    <3>1. crt # <<m>>
      BY <1>1, <2>1
    <3> QED  BY <1>6, <1>7, <3>1 DEF Traversal
  <2>2. CASE m = n /\ j > succ
    <3>1. j \in Nat /\ i \in Nat /\ j >= i
      BY <1>3, <1>4, <2>2, EdgesStayInside DEF Follows, Good
    <3>2. CASE j = i
      BY <1>8, <2>2, <3>2
    <3>3. CASE j # i
      BY <1>1, <1>3, <1>6, <2>2, <3>1, <3>3
    <3> QED  BY <3>2, <3>3
  <2>3. CASE m = n /\ ~(j > succ)
    BY <1>6, <1>7, <2>3 DEF Traversal
  <2> QED  BY <2>1, <2>2, <2>3
<1>11. Known(Start)'
  BY <1>7 DEF Traversal
<1>12. succ' \in Nat
  BY <1>3, <1>4 DEF Good
<1> QED  BY <1>5, <1>6, <1>9, <1>10, <1>11, <1>12 DEF Traversal

\* Visited keeps it: no edge of the node is left.
LEMMA VisitedKeepsTraversal ==
    ASSUME Traversal, Good(cfg, kind), Visited
    PROVE  Traversal'
<1> USE DEF Visited
<1>1. Space' = Space /\ UNCHANGED <<cfg, visited, stack>> /\ crt' = <<>>
  BY DEF Space
<1>2. \A x : Known(x) <=> Known(x)'
  BY <1>1 DEF Known
<1>3. ASSUME NEW n \in visited, NEW i \in Edges(cfg, n)
      PROVE  Known(cfg[n][i].to)
  <2>1. CASE crt = <<n>> /\ i > succ
    <3>1. Back = n
      BY <2>1 DEF Back
    <3>2. i \in Nat
      BY EdgesStayInside DEF Good
    <3> QED  BY <2>1, <3>1, <3>2 DEF Traversal
  <2> QED  BY <2>1 DEF Traversal
<1> QED  BY <1>1, <1>2, <1>3 DEF Traversal
\* The nodes that subgraph leaves are the nodes that can be reached in it.
LEMMA SubgraphIsReachable ==
    ASSUME NEW g, NEW V, Start \in DOMAIN g, Start \in V, Closed(g, V),
           V \subseteq NodesOf(g) \cup {Start},
           \A C \in SUBSET (NodesOf(g) \cup {Start}) :
               (Start \in C /\ Closed(g, C)) => V \subseteq C
    PROVE  NodesOf(subgraph(g, V)) = Reachable(subgraph(g, V), Start)
<1> DEFINE h == subgraph(g, V)
<1>1. DOMAIN h = DOMAIN g \cap V
  BY DEF subgraph
<1>2. \A n \in DOMAIN h : DOMAIN h[n] = {j \in DOMAIN g[n] : g[n][j].to \in V}
  BY DEF subgraph
<1>3. \A n \in DOMAIN h : \A i \in DOMAIN h[n] : h[n][i] = g[n][i]
  BY DEF subgraph
<1> HIDE DEF h
<1>4. ASSUME NEW n \in V PROVE Succs(g, n) \subseteq Succs(h, n) /\ Succs(h, n) \subseteq V
  <2>1. CASE n \in DOMAIN g
    <3>1. n \in DOMAIN h
      BY <1>1, <2>1
    <3>2. Succs(g, n) = {g[n][i].to : i \in DOMAIN g[n]}
      BY <2>1 DEF Succs, Edges, neighbors_or_empty
    <3>3. Succs(h, n) = {h[n][i].to : i \in DOMAIN h[n]}
      BY <3>1 DEF Succs, Edges, neighbors_or_empty
    <3>4. Succs(g, n) \subseteq V
      BY DEF Closed
    <3>5. \A i \in DOMAIN g[n] : g[n][i].to \in V
      BY <3>2, <3>4
    <3>6. DOMAIN h[n] = DOMAIN g[n]
      BY <1>2, <3>1, <3>5
    <3>7. \A i \in DOMAIN g[n] : h[n][i].to = g[n][i].to
      BY <1>3, <3>1, <3>6
    <3>8. Succs(h, n) = Succs(g, n)
      BY <3>2, <3>3, <3>6, <3>7
    <3> QED  BY <3>4, <3>8
  <2>2. CASE n \notin DOMAIN g
    <3>1. Edges(g, n) = {} /\ Edges(h, n) = {}
      BY <1>1, <2>2 DEF Edges, neighbors_or_empty
    <3> QED  BY <3>1 DEF Succs
  <2> QED  BY <2>1, <2>2
<1>5. Start \in NodesOf(h) /\ NodesOf(h) \subseteq V
  BY <1>1, <1>4 DEF NodesOf
<1>6. ASSUME NEW C \in SUBSET (NodesOf(h) \cup {Start}), Start \in C, Closed(h, C)
      PROVE  V \subseteq C
  <2> DEFINE D == C \cap V
  <2>1. D \in SUBSET (NodesOf(g) \cup {Start}) /\ Start \in D
    BY <1>6
  <2>2. Closed(g, D)
    <3> SUFFICES ASSUME NEW n \in D PROVE Succs(g, n) \subseteq D
      BY DEF Closed
    <3> QED  BY <1>4, <1>6 DEF Closed
  <2>3. V \subseteq D
    <3> HIDE DEF D
    <3> QED  BY <2>1, <2>2
  <2> QED  BY <2>3
<1>7. NodesOf(h) = Reachable(h, Start)
  BY <1>5, <1>6 DEF Reachable
<1> QED  BY <1>7 DEF h

\* removeDeadNodes leaves what can be reached, and a Good graph.
LEMMA PruningStep ==
    ASSUME Traversal, Good(cfg, kind), removeDeadNodes
    PROVE  Good(cfg, kind)' /\ NodesOf(cfg') = Reachable(cfg', Start)
<1>1. stack = <<>> /\ crt = <<>> /\ cfg' = subgraph(cfg, visited) /\ kind' = kind
  BY DEF removeDeadNodes
<1>2. Start \in visited /\ Closed(cfg, visited)
  BY <1>1, VisitedIsReachable
<1>3. Good(cfg, kind)'
  BY <1>1, <1>2, SubgraphIsGood
<1>4. Start \in DOMAIN cfg
  BY DEF Good
<1>5. /\ visited \subseteq NodesOf(cfg) \cup {Start}
      /\ \A C \in SUBSET (NodesOf(cfg) \cup {Start}) :
            (Start \in C /\ Closed(cfg, C)) => visited \subseteq C
  BY DEF Traversal, Space
<1> QED  BY <1>1, <1>2, <1>3, <1>4, <1>5, SubgraphIsReachable

LEMMA TInvInit == BInit => TInv
<1> SUFFICES ASSUME BInit PROVE TInv
  OBVIOUS
<1>1. Good(cfg, kind)
  BY ProgramsAreGood DEF BInit
<1>2. stack \in Seq(Space) /\ Len(stack) = 1 /\ stack[1] = Start
  BY DEF BInit, Space
<1>3. \A x : On(x, stack) <=> x = Start
  BY <1>2 DEF On
<1>4. visited = {} /\ crt = <<>> /\ pc = "traverse" /\ succ = 0
  BY DEF BInit
<1>5. Traversal
  BY <1>2, <1>3, <1>4 DEF Traversal, Known
<1> QED  BY <1>1, <1>4, <1>5 DEF TInv

LEMMA TInvStep == TInv /\ [Build]_bvars => TInv'
<1> SUFFICES ASSUME TInv, [Build]_bvars PROVE TInv'
  OBVIOUS
<1>1. CASE Visit
  BY <1>1, VisitKeepsTraversal DEF TInv, Visit
<1>2. CASE PushNeighbor
  BY <1>2, PushKeepsTraversal DEF TInv, PushNeighbor
<1>3. CASE Visited
  BY <1>3, VisitedKeepsTraversal DEF TInv, Visited
<1>4. CASE removeDeadNodes
  BY <1>4, PruningStep DEF TInv, removeDeadNodes
<1>5. CASE push_ifs \/ PopHead \/ Meet \/ Extend \/ Split \/ PushSucc \/ EndBlock \/ LinkBlocks
  <2>1. pc' \notin {"traverse", "push"}
    BY <1>5 DEF push_ifs, PopHead, Meet, Extend, Split, PushSucc, EndBlock, LinkBlocks
  <2> QED  BY <2>1 DEF TInv
<1>6. CASE UNCHANGED bvars
  BY <1>6 DEF TInv, bvars, Traversal, Space, Known
<1> QED  BY <1>1, <1>2, <1>3, <1>4, <1>5, <1>6 DEF Build

\* removeDeadNodes keeps exactly the nodes that can be reached from the start, in
\* any graph, with or without loops, in any order of the edges.
THEOREM Pruning == BSpec => []PruningIsExact
<1>1. TInv => PruningIsExact
  BY VisitedIsReachable DEF TInv, PruningIsExact
<1> QED  BY <1>1, TInvInit, TInvStep, PTL DEF BSpec

-----------------------------------------------------------------------------
(***************************************************************************)
(* push_ifs leaves no edge from a node with several successors to a node   *)
(* with several predecessors.                                              *)
(***************************************************************************)
NoCritical(g) ==
    \A n \in DOMAIN g : \A i \in DOMAIN g[n] :
        /\ i \in Nat \ {0}
        /\ g[n][i].to # Start
        /\ DOMAIN g[n] = {i} \/ OneAtMost(reverse(g, g[n][i].to))

\* The edges that reverse gives a node are the edges that lead to it.
LEMMA ReverseHasEdges ==
    ASSUME NEW g, NEW x
    PROVE  /\ \A e \in reverse(g, x) :
                 e[1] \in DOMAIN g /\ e[2] \in DOMAIN g[e[1]] /\ g[e[1]][e[2]].to = x /\ e = <<e[1], e[2]>>
           /\ \A m \in DOMAIN g : \A j \in DOMAIN g[m] : g[m][j].to = x => <<m, j>> \in reverse(g, x)
  BY DEF reverse

\* The nodes that push_ifs puts on the edges differ from the old nodes and from
\* each other.
LEMMA ViaIsFresh ==
    ASSUME Good(cfg, kind), NEW m \in Branches, NEW i \in DOMAIN cfg[m]
    PROVE  /\ Via(m, i) \notin Nat \X {0}
           /\ Via(m, i)[1] = m[1] /\ m = <<m[1], 0>>
           /\ \A n \in Branches : \A j \in DOMAIN cfg[n] : Via(m, i) = Via(n, j) => m = n /\ i = j
<1>1. ASSUME NEW n \in Branches, NEW j \in DOMAIN cfg[n]
      PROVE  /\ n \in DOMAIN cfg /\ n = <<n[1], 0>> /\ j \in Nat \ {0}
             /\ kind[n] \in {"if", "select"}
  <2>1. n \in DOMAIN cfg /\ kind[n] \in {"if", "select"}
    BY DEF Branches
  <2> QED  BY <2>1 DEF Good
<1>2. ASSUME NEW n \in Branches, NEW j \in DOMAIN cfg[n]
      PROVE  Via(n, j)[1] = n[1] /\ Via(n, j)[2] # 0
  BY <1>1 DEF Via
<1>3. Via(m, i) \notin Nat \X {0}
  BY <1>2
<1>4. ASSUME NEW n \in Branches, NEW j \in DOMAIN cfg[n], Via(m, i) = Via(n, j)
      PROVE  m = n /\ i = j
  <2>1. m = n
    BY <1>1, <1>2, <1>4
  <2>2. CASE kind[m] = "select"
    BY <1>4, <2>1, <2>2 DEF Via
  <2>3. CASE kind[m] = "if"
    <3>1. (cfg[m][i].label = 0) = (cfg[m][j].label = 0)
      BY <1>4, <2>1, <2>3 DEF Via
    <3> QED  BY <1>1, <2>1, <2>3, <3>1 DEF Good
  <2> QED  BY <1>1, <2>1, <2>2, <2>3
<1> QED  BY <1>1, <1>2, <1>3, <1>4

LEMMA PushIfsRemovesCritical ==
    ASSUME Good(cfg, kind), push_ifs
    PROVE  NoCritical(cfg')
<1> DEFINE h == cfg'
           New == UNION {{Via(m, i) : i \in DOMAIN cfg[m]} : m \in Branches}
<1>1. h = [n \in DOMAIN cfg \cup New |->
             IF n \in Branches
             THEN [i \in DOMAIN cfg[n] |-> [to |-> Via(n, i), label |-> cfg[n][i].label]]
             ELSE IF n \in DOMAIN cfg THEN cfg[n]
             ELSE LET m == <<n[1], 0>>
                  IN  [i \in {j \in DOMAIN cfg[m] : Via(m, j) = n} |->
                         [to |-> cfg[m][i].to, label |-> 1]]]
  BY DEF push_ifs
<1>2. DOMAIN h = DOMAIN cfg \cup New /\ Branches \subseteq DOMAIN cfg
  BY <1>1 DEF Branches
<1>3. ASSUME NEW n \in Branches
      PROVE  /\ DOMAIN h[n] = DOMAIN cfg[n]
             /\ \A i \in DOMAIN cfg[n] : h[n][i].to = Via(n, i)
  BY <1>1, <1>2
<1>4. ASSUME NEW n \in DOMAIN cfg, n \notin Branches PROVE h[n] = cfg[n]
  BY <1>1, <1>4
<1>5. ASSUME NEW n \in DOMAIN h, n \notin DOMAIN cfg
      PROVE  \E m \in Branches : \E j \in DOMAIN cfg[m] :
                n = Via(m, j) /\ DOMAIN h[n] = {j} /\ h[n][j].to = cfg[m][j].to
  <2>0. PICK m \in Branches : n \in {Via(m, i) : i \in DOMAIN cfg[m]}
    BY <1>2, <1>5
  <2>1. PICK j \in DOMAIN cfg[m] : n = Via(m, j)
    BY <2>0
  <2>2. m = <<n[1], 0>>
    BY <2>1, ViaIsFresh
  <2>3. h[n] = [i \in {l \in DOMAIN cfg[m] : Via(m, l) = n} |-> [to |-> cfg[m][i].to, label |-> 1]]
    BY <1>1, <1>2, <1>5, <2>2
  <2>4. {l \in DOMAIN cfg[m] : Via(m, l) = n} = {j}
    BY <2>1, ViaIsFresh
  <2>5. DOMAIN h[n] = {j} /\ h[n][j].to = cfg[m][j].to
    BY <2>3, <2>4
  <2> QED  BY <2>1, <2>5
<1> HIDE DEF h, New
<1>6. ASSUME NEW n \in DOMAIN h, n \notin Branches, NEW i \in DOMAIN h[n]
      PROVE  DOMAIN h[n] = {i} /\ i \in Nat \ {0} /\ h[n][i].to \in Nat \X {0} /\ h[n][i].to # Start
  <2>1. CASE n \in DOMAIN cfg
    <3>1. h[n] = cfg[n] /\ i \in DOMAIN cfg[n]
      BY <1>4, <1>6, <2>1
    <3>2. kind[n] = "other"
      BY <1>6, <2>1 DEF Good, Branches
    <3>3. i \in Nat \ {0} /\ cfg[n][i].to \in Nat \X {0} /\ cfg[n][i].to # Start
      BY <2>1, <3>1 DEF Good
    <3>4. \A j \in DOMAIN cfg[n] : j = i
      BY <2>1, <3>1, <3>2 DEF Good
    <3> QED  BY <3>1, <3>3, <3>4
  <2>2. CASE n \notin DOMAIN cfg
    <3>0. PICK m \in Branches : \E j \in DOMAIN cfg[m] : DOMAIN h[n] = {j} /\ h[n][j].to = cfg[m][j].to
      BY <1>5, <2>2
    <3>1. PICK j \in DOMAIN cfg[m] : DOMAIN h[n] = {j} /\ h[n][j].to = cfg[m][j].to
      BY <3>0
    <3>2. m \in DOMAIN cfg /\ i = j
      BY <1>2, <1>6, <3>1
    <3> QED  BY <3>1, <3>2 DEF Good
  <2> QED  BY <2>1, <2>2
<1>7. ASSUME NEW n \in Branches, NEW i \in DOMAIN h[n]
      PROVE  i \in Nat \ {0} /\ h[n][i].to # Start /\ OneAtMost(reverse(h, h[n][i].to))
  <2>1. i \in DOMAIN cfg[n] /\ h[n][i].to = Via(n, i)
    BY <1>3
  <2>2. i \in Nat \ {0}
    BY <1>2, <2>1 DEF Good
  <2>3. h[n][i].to \notin Nat \X {0} /\ Start \in Nat \X {0}
    BY <2>1, ViaIsFresh DEF Start
  <2>4. ASSUME NEW e \in reverse(h, h[n][i].to) PROVE e = <<n, i>>
    <3>1. /\ e[1] \in DOMAIN h /\ e[2] \in DOMAIN h[e[1]]
          /\ h[e[1]][e[2]].to = h[n][i].to /\ e = <<e[1], e[2]>>
      BY ReverseHasEdges
    <3>2. e[1] \in Branches
      BY <1>6, <2>3, <3>1
    <3>3. e[2] \in DOMAIN cfg[e[1]] /\ Via(e[1], e[2]) = Via(n, i)
      BY <1>3, <2>1, <3>1, <3>2
    <3>4. e[1] = n /\ e[2] = i
      BY <2>1, <3>2, <3>3, ViaIsFresh
    <3> QED  BY <3>1, <3>4
  <2> QED  BY <2>2, <2>3, <2>4 DEF OneAtMost
<1>8. NoCritical(h)
  BY <1>6, <1>7 DEF NoCritical
<1> QED  BY <1>8 DEF h
-----------------------------------------------------------------------------
(***************************************************************************)
(* basic_blocks.  A node is found when it is resolved, on the stack or at  *)
(* the end of the block that grows; every node found but the start has an  *)
(* edge that was followed to it.  A node with one predecessor is therefore *)
(* new when its edge is followed, and a node with several is only ever the *)
(* top of the stack between two blocks.                                    *)
(***************************************************************************)
Found(x) ==
    x \in DOMAIN resolved \/ On(x, stack) \/ (pc = "extend" /\ x = Back)

Followed(m, i) ==
    /\ m \in DOMAIN resolved
    /\ pc = "grow" => m # Back
    /\ (pc = "succs" /\ m = Back) => i <= succ

Blocks ==
    /\ NoCritical(cfg)
    /\ stack \in Seq(Space)
    /\ pc # "pop" => crt \in Seq(Space) /\ crt # <<>>
    /\ \A i, j \in 1..Len(stack) : stack[i] = stack[j] => i = j
    /\ \A x : On(x, stack) => x \notin DOMAIN resolved
    /\ pc = "extend" => Back \notin DOMAIN resolved /\ ~On(Back, stack)
    /\ pc \in {"grow", "succs"} => Back \in DOMAIN resolved
    /\ pc # "pop" => \A x : On(x, stack) => Alone(x)
    /\ pc = "pop" => \A i \in 1..(Len(stack) - 1) : Alone(stack[i])
    /\ pc = "succs" => succ \in Nat /\ \A i \in Edges(cfg, Back) : Edges(cfg, Back) # {i}
    /\ \A x : (Found(x) /\ x # Start) => \E e \in reverse(cfg, x) : Followed(e[1], e[2])

NInv ==
    /\ pc # "bug"
    /\ pc \in {"traverse", "push"} => DOMAIN resolved = {}
    /\ pc \in {"pop", "extend", "grow", "succs"} => Blocks

\* A node with one predecessor is new when its edge is followed.
LEMMA TargetIsNew ==
    ASSUME Blocks, pc \in {"grow", "succs"}, NEW i \in Edges(cfg, Back),
           pc = "succs" => i > succ, Alone(cfg[Back][i].to)
    PROVE  ~Found(cfg[Back][i].to)
<1> DEFINE t == cfg[Back][i].to
<1>1. Back \in DOMAIN cfg /\ i \in DOMAIN cfg[Back]
  BY EdgesStayInside
<1>2. t # Start /\ i \in Nat
  BY <1>1 DEF Blocks, NoCritical
<1>3. <<Back, i>> \in reverse(cfg, t)
  BY <1>1, ReverseHasEdges
<1>4. \A e \in reverse(cfg, t) : e = <<Back, i>>
  BY <1>3 DEF Alone, OneAtMost
<1>5. ~Followed(Back, i)
  BY <1>2 DEF Followed, Blocks
<1> QED  BY <1>2, <1>4, <1>5 DEF Blocks

\* Following an edge leads to an entry of reverse.
LEMMA EdgeIsReversed ==
    ASSUME NEW n, NEW i \in Edges(cfg, n)
    PROVE  <<n, i>> \in reverse(cfg, cfg[n][i].to)
  BY EdgesStayInside, ReverseHasEdges

\* A new element keeps the stack free of repetitions.
LEMMA StackStaysDistinct ==
    ASSUME stack \in Seq(Space), \A i, j \in 1..Len(stack) : stack[i] = stack[j] => i = j,
           NEW n \in Space, ~On(n, stack), stack' = Append(stack, n)
    PROVE  \A i, j \in 1..Len(stack') : stack'[i] = stack'[j] => i = j
<1>1. /\ Len(stack) \in Nat /\ Len(stack') = Len(stack) + 1
      /\ \A i \in 1..Len(stack) : stack'[i] = stack[i] /\ stack[i] # n
      /\ stack'[Len(stack) + 1] = n
  BY AppendAdds DEF On
<1>2. \A i \in 1..Len(stack') : i \in 1..Len(stack) \/ i = Len(stack) + 1
  BY <1>1
<1> QED  BY <1>1, <1>2
\* push_ifs establishes the invariant of basic_blocks.
LEMMA PushIfsStep ==
    ASSUME Good(cfg, kind), DOMAIN resolved = {}, push_ifs
    PROVE  Blocks'
<1>1. NoCritical(cfg)'
  BY PushIfsRemovesCritical
<1>2. pc' = "pop" /\ stack' = <<Start>> /\ resolved' = resolved
  BY DEF push_ifs
<1>3. Start \in Space'
  BY DEF Space
<1>4. stack' \in Seq(Space') /\ Len(stack') = 1 /\ stack'[1] = Start
  BY <1>2, <1>3
<1>5. \A x : On(x, stack') <=> x = Start
  BY <1>4 DEF On
<1>6. \A x : Found(x)' => x = Start
  BY <1>2, <1>5 DEF Found
<1> QED  BY <1>1, <1>2, <1>4, <1>5, <1>6 DEF Blocks

\* PopHead: the head leaves the stack, where it was once.
LEMMA PopHeadStep ==
    ASSUME Blocks, PopHead
    PROVE  Blocks'
<1> USE DEF PopHead
<1>1. /\ Top \in Space /\ Len(stack) \in Nat \ {0}
      /\ stack' \in Seq(Space) /\ Len(stack') = Len(stack) - 1
      /\ \A i \in 1..(Len(stack) - 1) : stack'[i] = stack[i]
      /\ \A x : On(x, stack) <=> (x = Top \/ On(x, stack'))
  BY PoppedIsShorter DEF Blocks
<1>2. Space' = Space /\ UNCHANGED <<cfg, resolved>> /\ crt' = <<Top>> /\ pc' = "extend"
  BY DEF Space
<1>3. crt' \in Seq(Space) /\ crt' # <<>> /\ Back' = Top
  BY <1>1, <1>2 DEF Back
<1>4. \A i \in 1..Len(stack') : i \in 1..Len(stack) /\ i \in 1..(Len(stack) - 1) /\ i # Len(stack)
  BY <1>1
<1>5. \A i, j \in 1..Len(stack') : stack'[i] = stack'[j] => i = j
  BY <1>1, <1>4 DEF Blocks
<1>6. ~On(Top, stack')
  <2> SUFFICES ASSUME NEW i \in 1..Len(stack'), stack'[i] = Top PROVE FALSE
    BY DEF On
  <2>1. stack[i] = stack[Len(stack)] /\ Len(stack) \in 1..Len(stack)
    BY <1>1, <1>4 DEF Top
  <2> QED  BY <1>4, <2>1 DEF Blocks
<1>7. \A x : On(x, stack') => Alone(x)
  BY <1>1, <1>4 DEF On, Blocks
<1>8. \A x : Alone(x)' <=> Alone(x)
  BY <1>2 DEF Alone
<1>9. \A x : Found(x)' => Found(x)
  BY <1>1, <1>2, <1>3 DEF Found
<1>10. \A m, i : Followed(m, i) => Followed(m, i)'
  BY <1>2 DEF Followed
<1>11. Top \notin DOMAIN resolved
  BY <1>1 DEF Blocks
<1>12. \A x : (Found(x)' /\ x # Start) => \E e \in reverse(cfg, x) : Followed(e[1], e[2])'
  BY <1>9, <1>10 DEF Blocks
<1> QED  BY <1>1, <1>2, <1>3, <1>5, <1>6, <1>7, <1>8, <1>11, <1>12 DEF Blocks

\* Meet: the node was not resolved before.
LEMMA MeetStep ==
    ASSUME Blocks, Meet
    PROVE  Blocks' /\ pc' = "grow"
<1> USE DEF Meet
<1>1. Back \notin DOMAIN resolved /\ ~On(Back, stack)
  BY DEF Blocks
<1>2. Space' = Space /\ UNCHANGED <<cfg, stack, crt, succ>> /\ pc' = "grow" /\ Back' = Back
  BY <1>1 DEF Space, Back
<1>3. DOMAIN resolved' = DOMAIN resolved \cup {Back}
  BY <1>1
<1>4. \A x : Found(x)' <=> Found(x)
  BY <1>2, <1>3 DEF Found
<1>5. \A m, i : Followed(m, i) => Followed(m, i)'
  BY <1>1, <1>2, <1>3 DEF Followed
<1>6. \A x : Alone(x)' <=> Alone(x)
  BY <1>2 DEF Alone
<1>7. \A x : (Found(x)' /\ x # Start) => \E e \in reverse(cfg, x) : Followed(e[1], e[2])'
  BY <1>4, <1>5 DEF Blocks
<1> QED  BY <1>1, <1>2, <1>3, <1>6, <1>7 DEF Blocks

\* Split and EndBlock: the found nodes stay, more edges count as followed.
LEMMA SplitStep ==
    ASSUME Blocks, Split
    PROVE  Blocks'
<1> USE DEF Split
<1>1. /\ Space' = Space /\ UNCHANGED <<cfg, stack, crt, resolved>>
      /\ pc' = "succs" /\ succ' = 0 /\ Back' = Back
  BY DEF Space, Back
<1>2. \A x : Found(x)' => Found(x)
  BY <1>1 DEF Found
<1>3. \A m, i : Followed(m, i) => Followed(m, i)'
  BY <1>1 DEF Followed
<1>4. \A x : Alone(x)' <=> Alone(x)
  BY <1>1 DEF Alone
<1>5. \A x : (Found(x)' /\ x # Start) => \E e \in reverse(cfg, x) : Followed(e[1], e[2])'
  BY <1>2, <1>3 DEF Blocks
<1>6. /\ Back \in DOMAIN resolved
      /\ \A i \in Edges(cfg, Back) : Edges(cfg, Back) # {i}
      /\ \A x : On(x, stack) => Alone(x)
      /\ crt \in Seq(Space) /\ crt # <<>>
  BY DEF Blocks
<1>7. /\ (NoCritical(cfg) /\ stack \in Seq(Space))'
      /\ (\A i, j \in 1..Len(stack) : stack[i] = stack[j] => i = j)'
      /\ (\A x : On(x, stack) => x \notin DOMAIN resolved)'
  BY <1>1 DEF Blocks
<1>8. \A x : On(x, stack') => Alone(x)'
  BY <1>1, <1>4, <1>6
<1>9. (crt \in Seq(Space) /\ crt # <<>> /\ Back \in DOMAIN resolved)'
  BY <1>1, <1>6
<1>10. succ' \in Nat /\ \A i \in Edges(cfg', Back') : Edges(cfg', Back') # {i}
  BY <1>1, <1>6
<1> HIDE DEF Split
<1> QED  BY <1>1, <1>5, <1>7, <1>8, <1>9, <1>10 DEF Blocks

LEMMA EndBlockStep ==
    ASSUME Blocks, EndBlock
    PROVE  Blocks'
<1> USE DEF EndBlock
<1>1. Space' = Space /\ UNCHANGED <<cfg, stack, resolved>> /\ pc' = "pop"
  BY DEF Space
<1>2. \A x : Found(x)' => Found(x)
  BY <1>1 DEF Found
<1>3. \A m, i : Followed(m, i) => Followed(m, i)'
  BY <1>1 DEF Followed
<1>4. \A x : Alone(x)' <=> Alone(x)
  BY <1>1 DEF Alone
<1>5. \A x : (Found(x)' /\ x # Start) => \E e \in reverse(cfg, x) : Followed(e[1], e[2])'
  BY <1>2, <1>3 DEF Blocks
<1>6. \A i \in 1..(Len(stack) - 1) : Alone(stack[i])
  <2>1. Len(stack) \in Nat
    BY LenProperties DEF Blocks
  <2> QED  BY <2>1 DEF Blocks, On
<1> QED  BY <1>1, <1>4, <1>5, <1>6 DEF Blocks
\* Extend by a node with no other predecessor: the node is new.
LEMMA GrowStep ==
    ASSUME Blocks, pc = "grow", NEW i \in Edges(cfg, Back), NEW n, n = cfg[Back][i].to,
           Alone(n), crt' = Append(crt, n), pc' = "extend", UNCHANGED <<cfg, stack, resolved>>
    PROVE  Blocks'
<1>1. Space' = Space /\ n \in Space
  BY EdgesStayInside DEF Space
<1>2. crt \in Seq(Space)
  BY DEF Blocks
<1>3. crt' \in Seq(Space) /\ crt' # <<>> /\ Back' = n
  BY <1>1, <1>2, AppendAdds DEF Back
<1>4. ~Found(n)
  BY TargetIsNew
<1>5. \A m, j : Followed(m, j) => Followed(m, j)'
  BY DEF Followed
<1>0. PICK b : b = Back
  OBVIOUS
<1>6. Followed(b, i)' /\ <<b, i>> \in reverse(cfg, n)
  BY <1>0, EdgeIsReversed DEF Followed, Blocks
<1>7. \A x : Found(x)' => Found(x) \/ x = n
  BY <1>3 DEF Found
<1>8. \A x : Alone(x)' <=> Alone(x)
  BY DEF Alone
<1>9. \A x : (Found(x)' /\ x # Start) => \E e \in reverse(cfg, x) : Followed(e[1], e[2])'
  <2> SUFFICES ASSUME NEW x, Found(x)', x # Start
               PROVE  \E e \in reverse(cfg, x) : Followed(e[1], e[2])'
    OBVIOUS
  <2>1. CASE x = n
    BY <1>6, <2>1
  <2>2. CASE Found(x)
    BY <1>5, <2>2 DEF Blocks
  <2> QED  BY <1>7, <2>1, <2>2
<1> QED  BY <1>1, <1>3, <1>4, <1>8, <1>9 DEF Blocks, Found
\* Extend to a join: it is not on the stack, which holds no join.
LEMMA JoinStep ==
    ASSUME Blocks, pc = "grow", NEW i \in Edges(cfg, Back), NEW n, n = cfg[Back][i].to,
           ~Alone(n), stack' = IF n \in DOMAIN resolved THEN stack ELSE Append(stack, n),
           pc' = "pop", UNCHANGED <<cfg, resolved>>
    PROVE  Blocks'
<1>1. Space' = Space /\ n \in Space
  BY EdgesStayInside DEF Space
<1>2. PICK b : b = Back
  OBVIOUS
<1>3. Followed(b, i)' /\ <<b, i>> \in reverse(cfg, n)
  BY <1>2, EdgeIsReversed DEF Followed, Blocks
<1>4. \A m, j : Followed(m, j) => Followed(m, j)'
  BY DEF Followed
<1>5. \A x : Alone(x)' <=> Alone(x)
  BY DEF Alone
<1>6. /\ ~On(n, stack) /\ stack \in Seq(Space)
      /\ \A k \in 1..Len(stack) : Alone(stack[k])
      /\ \A k, j \in 1..Len(stack) : stack[k] = stack[j] => k = j
  BY DEF Blocks, On
<1>7. Len(stack) \in Nat
  BY <1>6, LenProperties
<1>8. /\ stack' \in Seq(Space)
      /\ \A x : On(x, stack') => On(x, stack) \/ (x = n /\ n \notin DOMAIN resolved)
      /\ \A k, j \in 1..Len(stack') : stack'[k] = stack'[j] => k = j
      /\ \A k \in 1..(Len(stack') - 1) : Alone(stack'[k])
  <2>1. CASE n \in DOMAIN resolved
    BY <1>6, <1>7, <2>1
  <2>2. CASE n \notin DOMAIN resolved
    <3>1. stack' = Append(stack, n)
      BY <2>2
    <3>2. /\ stack' \in Seq(Space) /\ Len(stack') = Len(stack) + 1
          /\ \A k \in 1..Len(stack) : stack'[k] = stack[k]
          /\ \A x : On(x, stack') <=> (x = n \/ On(x, stack))
      BY <1>1, <1>6, <3>1, AppendAdds
    <3>3. \A k, j \in 1..Len(stack') : stack'[k] = stack'[j] => k = j
      BY <1>1, <1>6, <3>1, StackStaysDistinct
    <3>4. \A k \in 1..(Len(stack') - 1) : k \in 1..Len(stack)
      BY <1>7, <3>2
    <3> QED  BY <1>6, <2>2, <3>2, <3>3, <3>4
  <2> QED  BY <2>1, <2>2
<1>9. \A x : Found(x)' => Found(x) \/ x = n
  BY <1>8 DEF Found
<1>10. \A x : (Found(x)' /\ x # Start) => \E e \in reverse(cfg, x) : Followed(e[1], e[2])'
  <2> SUFFICES ASSUME NEW x, Found(x)', x # Start
               PROVE  \E e \in reverse(cfg, x) : Followed(e[1], e[2])'
    OBVIOUS
  <2>1. CASE x = n
    BY <1>3, <2>1
  <2>2. CASE Found(x)
    BY <1>4, <2>2 DEF Blocks
  <2> QED  BY <1>9, <2>1, <2>2
<1>11. \A x : On(x, stack') => x \notin DOMAIN resolved'
  <2>1. resolved' = resolved /\ \A x : On(x, stack) => x \notin DOMAIN resolved
    BY DEF Blocks
  <2> QED  BY <1>8, <2>1
<1>12. NoCritical(cfg)' /\ stack' \in Seq(Space')
  BY <1>1, <1>8 DEF Blocks
<1>13. \A k \in 1..(Len(stack') - 1) : Alone(stack[k])'
  BY <1>5, <1>8
<1>14. \A k, j \in 1..Len(stack') : stack'[k] = stack'[j] => k = j
  BY <1>8
<1>15. \A x : (Found(x)' /\ x # Start) => \E e \in reverse(cfg', x) : Followed(e[1], e[2])'
  BY <1>10
<1> QED  BY <1>11, <1>12, <1>13, <1>14, <1>15 DEF Blocks

\* PushSucc: the successors of a node with several have one predecessor each.
LEMMA PushSuccStep ==
    ASSUME Blocks, PushSucc
    PROVE  Blocks'
<1>1. pc = "succs" /\ pc' = "succs" /\ UNCHANGED <<cfg, crt, resolved>> /\ succ \in Nat
  BY DEF PushSucc, Blocks
<1>2. PICK b : b = Back /\ b = Back'
  BY <1>1 DEF Back
<1>3. PICK i \in Edges(cfg, b) :
        /\ Follows(cfg, b, succ, i)
        /\ stack' = IF cfg[b][i].to \in DOMAIN resolved THEN stack ELSE Append(stack, cfg[b][i].to)
        /\ succ' = i
  BY <1>2 DEF PushSucc
<1>4. PICK n : n = cfg[b][i].to
  OBVIOUS
<1>5. b \in DOMAIN cfg /\ i \in DOMAIN cfg[b] /\ n \in Space /\ DOMAIN cfg[b] = Edges(cfg, b)
  BY <1>3, <1>4, EdgesStayInside DEF Edges, neighbors_or_empty
<1>6. i \in Nat /\ i > succ
  BY <1>3, <1>5 DEF Blocks, NoCritical, Follows
<1>7. Alone(n)
  BY <1>1, <1>2, <1>4, <1>5 DEF Blocks, NoCritical, Alone
<1>8. ~Found(n)
  BY <1>1, <1>2, <1>3, <1>4, <1>6, <1>7, TargetIsNew
<1>9. stack' = Append(stack, n) /\ ~On(n, stack) /\ n \notin DOMAIN resolved
  BY <1>3, <1>4, <1>8 DEF Found
<1>10. stack \in Seq(Space) /\ Space' = Space
  BY <1>1 DEF Blocks, Space
<1>11. stack' \in Seq(Space) /\ \A x : On(x, stack') <=> (x = n \/ On(x, stack))
  BY <1>5, <1>9, <1>10, AppendAdds
<1>12. \A k, j \in 1..Len(stack') : stack'[k] = stack'[j] => k = j
  BY <1>5, <1>9, <1>10, StackStaysDistinct DEF Blocks
<1>13. \A m : \A j \in Nat : Followed(m, j) => Followed(m, j)'
  BY <1>1, <1>2, <1>3, <1>6 DEF Followed
<1>14. Followed(b, i)' /\ <<b, i>> \in reverse(cfg, n)
  BY <1>1, <1>2, <1>3, <1>4, <1>6, EdgeIsReversed DEF Followed, Blocks
<1>15. \A x : Alone(x)' <=> Alone(x)
  BY <1>1 DEF Alone
<1>16. \A x : Found(x)' => Found(x) \/ x = n
  BY <1>1, <1>11 DEF Found
<1>17. \A x : (Found(x)' /\ x # Start) => \E e \in reverse(cfg, x) : Followed(e[1], e[2])'
  <2> SUFFICES ASSUME NEW x, Found(x)', x # Start
               PROVE  \E e \in reverse(cfg, x) : Followed(e[1], e[2])'
    OBVIOUS
  <2>1. CASE x = n
    BY <1>14, <2>1
  <2>2. CASE Found(x)
    <3>1. PICK e \in reverse(cfg, x) : Followed(e[1], e[2])
      BY <2>2 DEF Blocks
    <3>2. e[2] \in Nat
      <4>1. e[1] \in DOMAIN cfg /\ e[2] \in DOMAIN cfg[e[1]]
        BY ReverseHasEdges
      <4> QED  BY <4>1 DEF Blocks, NoCritical
    <3> QED  BY <1>13, <3>1, <3>2
  <2> QED  BY <1>16, <2>1, <2>2
<1>18. \A x : On(x, stack') => x \notin DOMAIN resolved /\ Alone(x)
  BY <1>1, <1>7, <1>9, <1>11 DEF Blocks
<1> QED  BY <1>1, <1>2, <1>3, <1>6, <1>10, <1>11, <1>12, <1>15, <1>17, <1>18 DEF Blocks

LEMMA NInvStep == TInv /\ NInv /\ [Build]_bvars => NInv'
<1> SUFFICES ASSUME TInv, NInv, [Build]_bvars PROVE NInv'
  OBVIOUS
<1>1. CASE Visit \/ PushNeighbor \/ Visited \/ removeDeadNodes
  BY <1>1 DEF NInv, Visit, PushNeighbor, Visited, removeDeadNodes
<1>2. CASE push_ifs
  BY <1>2, PushIfsStep DEF NInv, TInv, push_ifs
<1>3. CASE PopHead
  BY <1>3, PopHeadStep DEF NInv, PopHead
<1>4. CASE Meet
  BY <1>4, MeetStep DEF NInv, Meet
<1>5. CASE Extend
  <2>1. pc = "grow" /\ Blocks /\ UNCHANGED <<cfg, resolved>>
    BY <1>5 DEF Extend, NInv
  <2>2. PICK i \in Edges(cfg, Back) : LET n == cfg[Back][i].to IN
             \/ /\ Alone(n)
                /\ crt' = Append(crt, n)
                /\ pc' = "extend"
                /\ UNCHANGED <<stack, blocks>>
             \/ /\ ~Alone(n)
                /\ stack' = IF n \in DOMAIN resolved THEN stack ELSE Append(stack, n)
                /\ blocks' = Append(blocks, crt)
                /\ crt' = <<>>
                /\ pc' = "pop"
    BY <1>5 DEF Extend
  <2>3. PICK n : n = cfg[Back][i].to
    OBVIOUS
  <2>4. CASE Alone(n)
    <3>1. crt' = Append(crt, n) /\ pc' = "extend" /\ UNCHANGED <<cfg, stack, resolved>>
      BY <2>1, <2>2, <2>3, <2>4
    <3>2. Blocks'
      BY <2>1, <2>3, <2>4, <3>1, GrowStep
    <3> QED  BY <3>1, <3>2 DEF NInv
  <2>5. CASE ~Alone(n)
    <3>1. /\ stack' = IF n \in DOMAIN resolved THEN stack ELSE Append(stack, n)
          /\ pc' = "pop" /\ UNCHANGED <<cfg, resolved>>
      BY <2>1, <2>2, <2>3, <2>5
    <3>2. Blocks'
      BY <2>1, <2>3, <2>5, <3>1, JoinStep
    <3> QED  BY <3>1, <3>2 DEF NInv
  <2> QED  BY <2>4, <2>5
<1>6. CASE Split
  BY <1>6, SplitStep DEF NInv, Split
<1>7. CASE PushSucc
  BY <1>7, PushSuccStep DEF NInv, PushSucc
<1>8. CASE EndBlock
  BY <1>8, EndBlockStep DEF NInv, EndBlock
<1>9. CASE LinkBlocks
  BY <1>9 DEF NInv, LinkBlocks
<1>10. CASE UNCHANGED bvars
  <2>1. UNCHANGED <<cfg, pc, stack, crt, succ, resolved>>
    BY <1>10 DEF bvars
  <2>2. Blocks => Blocks'
    BY <2>1 DEF Blocks, Space, Back, Alone, Found, Followed
  <2> QED  BY <2>1, <2>2 DEF NInv
<1> QED
  BY <1>1, <1>2, <1>3, <1>4, <1>5, <1>6, <1>7, <1>8, <1>9, <1>10 DEF Build

\* basic_blocks meets no node twice, in any graph, with or without loops: its
\* BUG_CHECK cannot fire on what push_ifs produces.
THEOREM NodesMetOnce == BSpec => []NoNodeTwice
<1>1. BInit => NInv
  BY DEF BInit, NInv
<1>2. NInv => NoNodeTwice
  BY DEF NInv, NoNodeTwice
<1> QED  BY <1>1, <1>2, TInvInit, TInvStep, NInvStep, PTL DEF BSpec
=============================================================================
