----------------------------- MODULE DomFrontier -----------------------------
(***************************************************************************)
(* dom_frontier on the graph of basic blocks: a topological sort, the      *)
(* immediate dominators by repeated passes over it, and the dominance      *)
(* frontiers that decide where make_ssa merges versions of a variable.     *)
(***************************************************************************)
EXTENDS BasicBlocks, SequencesExt

VARIABLES
    sorted,       \* the blocks in the order in which topo_sort leaves them
    ddoms,        \* the position of each position's immediate dominator
    changed,      \* did the last pass change ddoms
    domf,         \* the frontier of each block
    children      \* the blocks that each block immediately dominates

dvars == <<sorted, ddoms, changed, domf, children>>

DInit ==
    /\ sorted = <<>>
    /\ ddoms = <<>>
    /\ changed = TRUE
    /\ domf = <<>> /\ children = <<>>

(***************************************************************************)
(* topo_sort: a depth-first visit from each node of the map that is not    *)
(* visited yet.  The map is ordered by addresses, so any order may happen. *)
(* After a visit the nodes visited are the nodes sorted.                   *)
(***************************************************************************)
Targets(v) ==
    LET edges == SetToSortSeq(Edges(bb, v), <)
    IN  [i \in DOMAIN edges |-> bb[v][edges[i]].to]

\* Mutant of Placed: a node comes before the successors visited from it.
PlacedFirst(before, after, v) ==
    Append(before, v) \o SubSeq(after, Len(before) + 1, Len(after))

Placed(before, after, v) == Append(after, v)

topo_sort_util[at \in Seq(Nat) \X Nat] ==
    LET below == FoldLeft(LAMBDA acc, w : topo_sort_util[<<acc, w>>], at[1], Targets(at[2]))
    IN  IF at[2] \in ToSet(at[1]) THEN at[1] ELSE Placed(at[1], below, at[2])

topo_sort ==
    /\ pc = "sort"
    /\ \E v \in DOMAIN bb \ ToSet(sorted) : sorted' = topo_sort_util[<<sorted, v>>]
    /\ UNCHANGED <<bvars, ddoms, changed, domf, children>>

(***************************************************************************)
(* Positions count from 1; N + 1 stands for sorted.size(), "unknown".      *)
(* The vector's last element is read before anything else: of a program    *)
(* that is a single block nothing is sorted, and the read is undefined.    *)
(***************************************************************************)
N == Len(sorted)
Position(b) == CHOOSE i \in 1..N : sorted[i] = b

StartDominators ==
    /\ pc = "sort" /\ DOMAIN bb \subseteq ToSet(sorted)
    /\ pc' = IF sorted = <<>> THEN "undefined"
             ELSE IF sorted[N] # resolved[Start] THEN "unsorted" ELSE "dominators"
    /\ ddoms' = [i \in 1..N |-> IF i = N THEN N ELSE N + 1]
    /\ UNCHANGED <<kind, cfg, stack, crt, succ, visited, resolved, blocks, bb, rbb,
                   sorted, changed, domf, children>>

intersect(dd, p, q) ==
    LET fingers[f \in (1..N) \X (1..N)] ==
            IF f[1] = f[2] THEN f[1]
            ELSE IF f[1] < f[2] THEN fingers[<<dd[f[1]], f[2]>>]
            ELSE fingers[<<f[1], dd[f[2]]>>]
    IN  fingers[<<p, q>>]

PredEdges(b) == IF b \in DOMAIN rbb THEN rbb[b] ELSE {}
Preds(b) == {Position(e[1]) : e \in PredEdges(b)}

\* Mutant of NewIdom: the first predecessor is taken for the dominator.
NewIdomFirst(dd, b) == CHOOSE p \in Preds(b) : TRUE

(***************************************************************************)
(* The order of the predecessors does not matter to intersect.             *)
(***************************************************************************)
NewIdom(dd, b) ==
    LET first == CHOOSE p \in Preds(b) : TRUE
    IN  FoldSet(LAMBDA p, acc : IF dd[p] # N + 1 THEN intersect(dd, p, acc) ELSE acc,
                first, Preds(b) \ {first})

Doms == [1..N -> Nat]

Pass[at \in Doms \X (0..N)] ==
    LET dd == at[1]
        i == at[2]
    IN  IF i = 0 THEN dd
        ELSE IF Preds(sorted[i]) = {} THEN Pass[<<dd, i - 1>>]
        ELSE Pass[<<[dd EXCEPT ![i] = NewIdom(dd, sorted[i])], i - 1>>]

\* Mutant of Dominators: the loop goes on whatever the pass did.
DominatorsForever ==
    /\ pc = "dominators" /\ changed
    /\ ddoms' = Pass[<<ddoms, N - 1>>]
    /\ changed' = (sorted # <<>>)
    /\ UNCHANGED <<bvars, sorted, domf, children>>

Dominators ==
    /\ pc = "dominators" /\ changed
    /\ ddoms' = Pass[<<ddoms, N - 1>>]
    /\ changed' = (ddoms' # ddoms)
    /\ UNCHANGED <<bvars, sorted, domf, children>>

(***************************************************************************)
(* The frontiers: from each predecessor of a block with several, up the    *)
(* dominators to the block's own.                                          *)
(***************************************************************************)
Runners[at \in (1..N) \X (1..N)] ==
    IF at[1] = at[2] THEN {} ELSE {at[1]} \cup Runners[<<ddoms[at[1]], at[2]>>]

\* Mutant of InFrontier: the walk leaves out the predecessor itself.
InFrontierUp(i, j) ==
    /\ Cardinality(PredEdges(sorted[j])) > 1
    /\ \E p \in Preds(sorted[j]) : i \in Runners[<<p, ddoms[j]>>] \ {p}

InFrontier(i, j) ==
    /\ Cardinality(PredEdges(sorted[j])) > 1
    /\ \E p \in Preds(sorted[j]) : i \in Runners[<<p, ddoms[j]>>]

\* The positions that i immediately dominates, from the last to the first.
Dominated(i) == SelectSeq([k \in 1..(N - 1) |-> N - k], LAMBDA j : ddoms[j] = i)

Frontiers ==
    /\ pc = "dominators" /\ ~changed
    /\ domf' = [b \in ToSet(sorted) |->
                  {sorted[j] : j \in {k \in 1..N : InFrontier(Position(b), k)}}]
    /\ children' = [b \in ToSet(sorted) |->
                      [k \in DOMAIN Dominated(Position(b)) |-> sorted[Dominated(Position(b))[k]]]]
    /\ pc' = "done"
    /\ sorted' = <<>> /\ ddoms' = <<>> /\ changed' = TRUE
    /\ UNCHANGED <<kind, cfg, stack, crt, succ, visited, resolved, blocks, bb, rbb>>

Analyse == topo_sort \/ StartDominators \/ Dominators \/ Frontiers

-----------------------------------------------------------------------------
(***************************************************************************)
(* The reference.  Block a dominates b when b cannot be reached without a. *)
(***************************************************************************)
ReachedWithout(a) ==
    LET grow[found \in SUBSET DOMAIN blocks] ==
            LET more == (found \cup UNION {Succs(bb, b) : b \in found}) \ {a}
            IN  IF more = found THEN found ELSE grow[more]
    IN  grow[{resolved[Start]} \ {a}]

Dominates(a, b) == b \notin ReachedWithout(a)

Idom(a, b) ==
    /\ a # b /\ Dominates(a, b)
    /\ \A c \in DOMAIN blocks : c # b /\ Dominates(c, b) => Dominates(c, a)

(***************************************************************************)
(* The properties.                                                         *)
(***************************************************************************)

\* The sort has every block once and each block after its successors, the start
\* last (the BUG_CHECK "clean up graph from dead nodes"), whatever the order of
\* the map; nothing is sorted only when the program is a single block.
SortIsTopological ==
    /\ pc # "unsorted"
    /\ pc \in {"undefined", "dominators"} =>
        /\ sorted = <<>> => Len(blocks) = 1
        /\ sorted # <<>> => ToSet(sorted) = DOMAIN blocks /\ N = Len(blocks)
        /\ \A i \in 1..N : \A b \in Succs(bb, sorted[i]) : \E j \in 1..(i - 1) : sorted[j] = b

\* The passes end at the immediate dominators.
DominatorsAreExact ==
    (pc = "dominators" /\ ~changed) => \A i \in 1..(N - 1) : Idom(sorted[ddoms[i]], sorted[i])

\* A block is in the frontier of a when a dominates one of its predecessors and
\* not, strictly, the block itself: make_ssa merges where it has to and nowhere
\* else.
FrontierIsExact ==
    pc = "done" => \A a, b \in DOMAIN blocks :
        b \in domf[a] <=> /\ \E p \in DOMAIN bb : b \in Succs(bb, p) /\ Dominates(a, p)
                          /\ ~(a # b /\ Dominates(a, b))
=============================================================================
