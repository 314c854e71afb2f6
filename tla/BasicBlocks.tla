----------------------------- MODULE BasicBlocks -----------------------------
(***************************************************************************)
(* How bf4's analysis turns the control-flow graph of a P4 program into    *)
(* basic blocks: removeDeadNodes (a depth-first traversal), push_ifs (each *)
(* branch gets a node of its own that assumes its condition), and          *)
(* basic_blocks (chains of nodes, from a stack of block heads).            *)
(***************************************************************************)
EXTENDS CfgGraph

CONSTANT Programs      \* the graphs analysed, with the kinds of their nodes

Start == <<1, 0>>

Node == Nat \X Nat

(***************************************************************************)
(* What ComputeGraph, inlining and unrolling produce.  A node is <<n, 0>>; *)
(* an `if' has at most one edge per truth value, a `select' one per case,  *)
(* and any other node at most one edge.  Nothing leads back to the start.  *)
(***************************************************************************)
IsProgram(p) ==
    /\ Start \in DOMAIN p.graph
    /\ DOMAIN p.graph \subseteq DOMAIN p.kind
    /\ DOMAIN p.kind \subseteq Nat \X {0}
    /\ \A n \in DOMAIN p.graph :
          /\ p.kind[n] \in {"if", "select", "other"}
          /\ p.graph[n] \in Seq([to : DOMAIN p.kind \ {Start}, label : Nat])
          /\ p.kind[n] = "other" => Len(p.graph[n]) <= 1
          /\ p.kind[n] = "if" => \A i, j \in DOMAIN p.graph[n] :
                (p.graph[n][i].label = 0) = (p.graph[n][j].label = 0) => i = j

ASSUME ProgramsAssumption == \A p \in Programs : IsProgram(p)

VARIABLES
    kind,         \* the kind of each node
    cfg,          \* the graph, main->holder
    pc,           \* where the analysis stands
    stack,        \* the nodes to visit, then the heads of the blocks to build
    crt,          \* the node being visited, then the block under construction
    succ,         \* the last edge of crt's last node that was looked at
    visited,      \* the nodes visited by traverse_df
    resolved,     \* the nodes put in a block, with the block's number
    blocks,       \* the finished blocks
    bb, rbb       \* basicBlockGraph and rBasicBlockGraph, over block numbers

bvars == <<kind, cfg, pc, stack, crt, succ, visited, resolved, blocks, bb, rbb>>

Top == stack[Len(stack)]
Popped == SubSeq(stack, 1, Len(stack) - 1)
Back == crt[Len(crt)]

BInit ==
    /\ \E p \in Programs : cfg = p.graph /\ kind = p.kind
    /\ pc = "traverse"
    /\ stack = <<Start>>
    /\ crt = <<>>
    /\ succ = 0
    /\ visited = {}
    /\ resolved = [n \in {} |-> 0]
    /\ blocks = <<>>
    /\ bb = <<>> /\ rbb = <<>>

(***************************************************************************)
(* traverse_df: a node may be on the stack several times.                  *)
(***************************************************************************)
Visit ==
    /\ pc = "traverse" /\ crt = <<>> /\ stack # <<>>
    /\ stack' = Popped
    /\ IF Top \in visited
       THEN UNCHANGED <<visited, crt, succ>>
       ELSE visited' = visited \cup {Top} /\ crt' = <<Top>> /\ succ' = 0
    /\ UNCHANGED <<kind, cfg, pc, resolved, blocks, bb, rbb>>

PushNeighbor ==
    /\ pc = "traverse" /\ crt # <<>>
    /\ \E i \in Edges(cfg, Back) :
          /\ Follows(cfg, Back, succ, i)
          /\ stack' = Append(stack, cfg[Back][i].to)
          /\ succ' = i
    /\ UNCHANGED <<kind, cfg, pc, crt, visited, resolved, blocks, bb, rbb>>

\* Mutant of Visited: the last neighbour is left out.
VisitedEarly ==
    /\ pc = "traverse" /\ crt # <<>>
    /\ \E i \in Edges(cfg, Back) \cup {0} : \A j \in Edges(cfg, Back) : j <= i /\ succ + 1 >= i
    /\ crt' = <<>>
    /\ UNCHANGED <<kind, cfg, pc, stack, succ, visited, resolved, blocks, bb, rbb>>

Visited ==
    /\ pc = "traverse" /\ crt # <<>>
    /\ \A i \in Edges(cfg, Back) : i <= succ
    /\ crt' = <<>>
    /\ UNCHANGED <<kind, cfg, pc, stack, succ, visited, resolved, blocks, bb, rbb>>

removeDeadNodes ==
    /\ pc = "traverse" /\ crt = <<>> /\ stack = <<>>
    /\ cfg' = subgraph(cfg, visited)
    /\ pc' = "push"
    /\ UNCHANGED <<kind, stack, crt, succ, visited, resolved, blocks, bb, rbb>>

(***************************************************************************)
(* push_ifs.  The true edge of an `if' goes through one new node and the   *)
(* false edge through another; each edge of a `select' through its own.    *)
(***************************************************************************)
\* Mutant of Branches: the cases of a select are not split.
BranchesIfs == {n \in DOMAIN cfg : kind[n] = "if"}

Branches == {n \in DOMAIN cfg : kind[n] \in {"if", "select"}}

Via(n, i) ==
    <<n[1], IF kind[n] = "select" THEN i ELSE IF cfg[n][i].label # 0 THEN 1 ELSE 2>>

push_ifs ==
    /\ pc = "push"
    /\ cfg' = [n \in DOMAIN cfg \cup UNION {{Via(m, i) : i \in DOMAIN cfg[m]} : m \in Branches} |->
                IF n \in Branches
                THEN [i \in DOMAIN cfg[n] |-> [to |-> Via(n, i), label |-> cfg[n][i].label]]
                ELSE IF n \in DOMAIN cfg THEN cfg[n]
                ELSE LET m == <<n[1], 0>>
                     IN  [i \in {j \in DOMAIN cfg[m] : Via(m, j) = n} |->
                            [to |-> cfg[m][i].to, label |-> 1]]]
    /\ pc' = "pop"
    /\ stack' = <<Start>>
    /\ UNCHANGED <<kind, crt, succ, visited, resolved, blocks, bb, rbb>>

(***************************************************************************)
(* basic_blocks: a block grows while its last node has one successor that  *)
(* has no other predecessor.  BUG_CHECK stops the analysis at a node that  *)
(* is met a second time.                                                   *)
(***************************************************************************)
PopHead ==
    /\ pc = "pop" /\ stack # <<>>
    /\ crt' = <<Top>>
    /\ stack' = Popped
    /\ pc' = "extend"
    /\ UNCHANGED <<kind, cfg, succ, visited, resolved, blocks, bb, rbb>>

Meet ==
    /\ pc = "extend"
    /\ IF Back \in DOMAIN resolved
       THEN pc' = "bug" /\ UNCHANGED resolved
       ELSE /\ pc' = "grow"
            /\ resolved' = [n \in DOMAIN resolved \cup {Back} |->
                               IF n = Back THEN Len(blocks) + 1 ELSE resolved[n]]
    /\ UNCHANGED <<kind, cfg, stack, crt, succ, visited, blocks, bb, rbb>>

Alone(n) == OneAtMost(reverse(cfg, n))

Extend ==
    /\ pc = "grow"
    /\ \E i \in Edges(cfg, Back) :
          /\ Edges(cfg, Back) = {i}
          /\ LET n == cfg[Back][i].to IN
             \/ /\ Alone(n)
                /\ crt' = Append(crt, n)
                /\ pc' = "extend"
                /\ UNCHANGED <<stack, blocks>>
             \/ /\ ~Alone(n)
                /\ stack' = IF n \in DOMAIN resolved THEN stack ELSE Append(stack, n)
                /\ blocks' = Append(blocks, crt)
                /\ crt' = <<>>
                /\ pc' = "pop"
    /\ UNCHANGED <<kind, cfg, succ, visited, resolved, bb, rbb>>

Split ==
    /\ pc = "grow"
    /\ \A i \in Edges(cfg, Back) : Edges(cfg, Back) # {i}
    /\ pc' = "succs"
    /\ succ' = 0
    /\ UNCHANGED <<kind, cfg, stack, crt, visited, resolved, blocks, bb, rbb>>

PushSucc ==
    /\ pc = "succs"
    /\ \E i \in Edges(cfg, Back) :
          /\ Follows(cfg, Back, succ, i)
          /\ stack' = IF cfg[Back][i].to \in DOMAIN resolved THEN stack
                      ELSE Append(stack, cfg[Back][i].to)
          /\ succ' = i
    /\ UNCHANGED <<kind, cfg, pc, crt, visited, resolved, blocks, bb, rbb>>

\* Mutant of EndBlock: the finished block is copied and the current one kept.
EndBlockKeeps ==
    /\ pc = "succs"
    /\ \A i \in Edges(cfg, Back) : i <= succ
    /\ blocks' = Append(blocks, crt)
    /\ pc' = "pop"
    /\ UNCHANGED <<kind, cfg, stack, crt, succ, visited, resolved, bb, rbb>>

EndBlock ==
    /\ pc = "succs"
    /\ \A i \in Edges(cfg, Back) : i <= succ
    /\ blocks' = Append(blocks, crt)
    /\ crt' = <<>>
    /\ pc' = "pop"
    /\ UNCHANGED <<kind, cfg, stack, succ, visited, resolved, bb, rbb>>

(***************************************************************************)
(* The graphs of the blocks.  A block has an entry only if its last (its   *)
(* first) node has an edge.                                                *)
(***************************************************************************)
First(b) == blocks[b][1]

\* Mutant of Final: a block's edges are looked up at its first node.
FinalFirst(b) == blocks[b][1]

Final(b) == blocks[b][Len(blocks[b])]

LinkBlocks ==
    /\ pc = "pop" /\ stack = <<>>
    /\ bb' = [b \in {c \in DOMAIN blocks : Edges(cfg, Final(c)) # {}} |->
               [i \in Edges(cfg, Final(b)) |->
                   [to |-> resolved[cfg[Final(b)][i].to], label |-> cfg[Final(b)][i].label]]]
    /\ rbb' = [b \in {c \in DOMAIN blocks : reverse(cfg, First(c)) # {}} |->
                {<<resolved[e[1]], e[2]>> : e \in reverse(cfg, First(b))}]
    /\ pc' = "sort"
    /\ UNCHANGED <<kind, cfg, stack, crt, succ, visited, resolved, blocks>>

Build ==
    \/ Visit \/ PushNeighbor \/ Visited \/ removeDeadNodes \/ push_ifs
    \/ PopHead \/ Meet \/ Extend \/ Split \/ PushSucc \/ EndBlock \/ LinkBlocks

BSpec == BInit /\ [][Build]_bvars

-----------------------------------------------------------------------------
(***************************************************************************)
(* The properties.                                                         *)
(***************************************************************************)

\* The types of the variables of traverse_df and basic_blocks.
BTypeOK ==
    /\ DOMAIN cfg \subseteq Node /\ Start \in DOMAIN cfg
    /\ \A n \in DOMAIN cfg : \A i \in DOMAIN cfg[n] : i \in Nat \ {0} /\ cfg[n][i].to \in Node
    /\ stack \in Seq(Node)
    /\ crt \in Seq(Node)
    /\ succ \in Nat
    /\ visited \subseteq Node
    /\ DOMAIN resolved \subseteq Node
    /\ pc \in {"extend", "grow", "succs"} => crt # <<>>
    /\ pc = "pop" => crt = <<>>

\* traverse_df visits exactly the nodes that can be reached from the start, in
\* whatever order the edges are stored, and removeDeadNodes leaves no other
\* node, not even as the target of an edge.
PruningIsExact ==
    /\ (pc = "traverse" /\ stack = <<>> /\ crt = <<>>) => visited = Reachable(cfg, Start)
    /\ pc = "push" => NodesOf(cfg) = Reachable(cfg, Start)

\* The BUG_CHECK of basic_blocks, "processing twice the same node", never fires:
\* although the stack is not looked at before a node is pushed, push_ifs leaves
\* no edge from a node with several successors to one with several
\* predecessors, so a block head is on the stack once.
NoNodeTwice == pc # "bug"

\* Every node is in exactly one block, each edge of the program lies inside a
\* block or leads from the end of one to the head of another and is then an edge
\* of the block graph, and the two block graphs are the reverse of each other.
BlocksKeepTheEdges ==
    pc = "sort" =>
        /\ \A n \in NodesOf(cfg) :
              /\ n \in DOMAIN resolved
              /\ \E k \in DOMAIN blocks[resolved[n]] : blocks[resolved[n]][k] = n
              /\ \A b \in DOMAIN blocks, k, l \in 1..Len(blocks[resolved[n]]) :
                    /\ b # resolved[n] => \A m \in DOMAIN blocks[b] : blocks[b][m] # n
                    /\ (blocks[resolved[n]][k] = n /\ blocks[resolved[n]][l] = n) => k = l
        /\ \A n \in DOMAIN cfg : \A i \in DOMAIN cfg[n] :
              LET a == resolved[n]
                  b == resolved[cfg[n][i].to]
              IN  \/ \E k \in 1..(Len(blocks[a]) - 1) :
                         blocks[a][k] = n /\ blocks[a][k + 1] = cfg[n][i].to /\ DOMAIN cfg[n] = {i}
                  \/ Final(a) = n /\ First(b) = cfg[n][i].to /\ i \in Edges(bb, a) /\ bb[a][i].to = b
        /\ \A a, b \in DOMAIN blocks :
              b \in Succs(bb, a) <=> (b \in DOMAIN rbb /\ \E e \in rbb[b] : e[1] = a)
=============================================================================
