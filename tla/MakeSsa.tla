------------------------------- MODULE MakeSsa -------------------------------
(***************************************************************************)
(* make_ssa: merges of versions (phi functions) at the dominance frontiers *)
(* of the blocks that write a variable, where it is live; a walk over the  *)
(* dominator tree that numbers the versions; and the copies into a merge,  *)
(* appended to the blocks before it.  Each variable is treated on its own, *)
(* so there is one.                                                        *)
(***************************************************************************)
EXTENDS DomFrontier

CONSTANT Codes       \* what the nodes do to the variable: "r", "w", "rw" or "-"

VARIABLES
    code,         \* what each node does
    work,         \* the blocks whose frontiers are still to be looked at (W)
    phi,          \* the blocks that merge versions (A_phi)
    counts,       \* the last version
    varStack,     \* the versions in force, the current one last
    calls,        \* the calls of rename: the block, what it pushed, its next child
    phin,         \* the version that each merge writes (phiGenerated)
    reps,         \* the copies to append (phiReplacements)
    out           \* the statements of each block, with versions

svars == <<code, work, phi, counts, varStack, calls, phin, reps, out>>
vars == <<bvars, dvars, svars>>

SInit ==
    /\ code = <<>>
    /\ work = {} /\ phi = {}
    /\ counts = 0 /\ varStack = <<0>>
    /\ calls = <<>>
    /\ phin = <<>> /\ reps = <<>> /\ out = <<>>

(***************************************************************************)
(* The read and write sets of a node.  The condition of a branch is read   *)
(* in the nodes that push_ifs put on its edges.                            *)
(***************************************************************************)
IsBranch(n) == kind[<<n[1], 0>>] \in {"if", "select"}
Reading(n) == code[n[1]] \in {"r", "rw"} /\ (IsBranch(n) => n[2] # 0)
Writing(n) == code[n[1]] \in {"w", "rw"} /\ ~IsBranch(n)

(***************************************************************************)
(* LiveVariables: the variable is read in b or below before it is written. *)
(***************************************************************************)
Defines(b) == \E k \in DOMAIN blocks[b] : Writing(blocks[b][k])

Uses(b) ==
    \E k \in DOMAIN blocks[b] :
        Reading(blocks[b][k]) /\ \A j \in 1..(k - 1) : ~Writing(blocks[b][j])

LiveIn[b \in DOMAIN blocks] ==
    Uses(b) \/ (~Defines(b) /\ \E c \in Succs(bb, b) : LiveIn[c])

\* Mutant of live: only the block itself is looked at.
liveHere(b) == Uses(b)

live(b) == LiveIn[b]

(***************************************************************************)
(* No earlier pass looks at what the nodes do: it is chosen here.          *)
(***************************************************************************)
ReadCode ==
    /\ pc = "done"
    /\ code' \in Codes
    /\ pc' = "sites"
    /\ UNCHANGED <<kind, cfg, stack, crt, succ, visited, resolved, blocks, bb, rbb, dvars,
                   work, phi, counts, varStack, calls, phin, reps, out>>

DefSites ==
    /\ pc = "sites"
    /\ work' = {b \in DOMAIN blocks : Defines(b)}
    /\ pc' = "phis"
    /\ UNCHANGED <<kind, cfg, stack, crt, succ, visited, resolved, blocks, bb, rbb, dvars,
                   code, phi, counts, varStack, calls, phin, reps, out>>

PlacePhis ==
    /\ pc = "phis"
    /\ \E n \in work :
          LET merges == {y \in domf[n] \ phi : live(y)}
          IN  /\ phi' = phi \cup merges
              /\ work' = (work \ {n}) \cup {y \in merges : ~Defines(y)}
    /\ UNCHANGED <<bvars, dvars, code, counts, varStack, calls, phin, reps, out>>

(***************************************************************************)
(* rename(b), up to its recursive calls.  Current is the version that is   *)
(* in force after the first k statements of b.                             *)
(***************************************************************************)
\* Mutant of Fresh: versions are numbered from the one in force.
FreshTop == Last(varStack)

Fresh == counts

Merged(b) == IF b \in phi THEN 1 ELSE 0
Written(b, k) == Cardinality({j \in 1..k : Writing(blocks[b][j])})
Numbered(b, k) == Fresh + Merged(b) + Written(b, k)
Current(b, k) ==
    IF b \in phi \/ Written(b, k) > 0 THEN Numbered(b, k) ELSE Last(varStack)

Renamed(b) ==
    [k \in DOMAIN blocks[b] |->
        [value |-> blocks[b][k],
         reads |-> IF Reading(blocks[b][k]) THEN {Current(b, k - 1)} ELSE {},
         writes |-> IF Writing(blocks[b][k]) THEN {Numbered(b, k)} ELSE {}]]

rename(b) ==
    LET size == Len(blocks[b])
        pushed == Merged(b) + Written(b, size)
    IN  /\ out' = [c \in DOMAIN out \cup {b} |-> IF c = b THEN Renamed(b) ELSE out[c]]
        /\ counts' = Fresh + pushed
        /\ varStack' = varStack \o [i \in 1..pushed |-> Fresh + i]
        /\ phin' = [c \in DOMAIN phin \cup ({b} \cap phi) |-> IF c = b THEN Fresh + 1 ELSE phin[c]]
        /\ reps' = reps \o [i \in 1..Cardinality(Succs(bb, b) \cap phi) |->
                               [at |-> b, to |-> SetToSeq(Succs(bb, b) \cap phi)[i],
                                from |-> Current(b, size)]]
        /\ UNCHANGED <<kind, cfg, stack, crt, succ, visited, resolved, blocks, bb, rbb, dvars,
                       code, work, phi>>

Frame(b) == [block |-> b, pushed |-> Merged(b) + Written(b, Len(blocks[b])), next |-> 1]

RenameStart ==
    /\ pc = "phis" /\ work = {}
    /\ rename(resolved[Start])
    /\ calls' = <<Frame(resolved[Start])>>
    /\ pc' = "rename"

RenameChild ==
    /\ pc = "rename" /\ calls # <<>>
    /\ LET top == Last(calls) IN
       /\ top.next <= Len(children[top.block])
       /\ rename(children[top.block][top.next])
       /\ calls' = Append([calls EXCEPT ![Len(calls)].next = @ + 1],
                          Frame(children[top.block][top.next]))
    /\ pc' = pc

Return ==
    /\ pc = "rename" /\ calls # <<>>
    /\ Last(calls).next > Len(children[Last(calls).block])
    /\ varStack' = SubSeq(varStack, 1, Len(varStack) - Last(calls).pushed)
    /\ calls' = Front(calls)
    /\ UNCHANGED <<bvars, dvars, code, work, phi, counts, phin, reps, out>>

(***************************************************************************)
(* The merges become copies at the end of the blocks before them.          *)
(***************************************************************************)
Nothing == <<>>      \* in place of a node: the statement is a copy

Copies(b) ==
    LET mine == SelectSeq(reps, LAMBDA r : r.at = b)
    IN  [i \in DOMAIN mine |->
            [value |-> Nothing, reads |-> {mine[i].from}, writes |-> {phin[mine[i].to]}]]

PushPhis ==
    /\ pc = "rename" /\ calls = <<>>
    /\ out' = [b \in DOMAIN out |-> out[b] \o Copies(b)]
    /\ pc' = "ssa"
    /\ UNCHANGED <<kind, cfg, stack, crt, succ, visited, resolved, blocks, bb, rbb, dvars,
                   code, work, phi, counts, varStack, calls, phin, reps>>

Number ==
    \/ ReadCode \/ DefSites \/ PlacePhis
    \/ RenameStart \/ RenameChild \/ Return \/ PushPhis

Init == BInit /\ DInit /\ SInit

Next ==
    \/ Build /\ UNCHANGED <<dvars, svars>>
    \/ Analyse /\ UNCHANGED svars
    \/ Number

(***************************************************************************)
(* The analysis is one thread that always goes on.                         *)
(***************************************************************************)
Spec == Init /\ [][Next]_vars /\ WF_vars(Next)

-----------------------------------------------------------------------------
(***************************************************************************)
(* The reference: the blocks' statements run along every path.  orig is    *)
(* the node that wrote the variable last in the program as it was, env the *)
(* node whose value each version holds.  A fault is a read of a version    *)
(* that holds another value, or a second write to a version.               *)
(***************************************************************************)
AtStart == <<0, 0>>      \* in place of a node: the value before any write

Versions ==
    {0} \cup UNION {UNION {out[b][k].reads \cup out[b][k].writes : k \in DOMAIN out[b]} : b \in DOMAIN out}

After(s, orig) == IF s.value # Nothing /\ s.writes # {} THEN s.value ELSE orig

Assigned(s, env) ==
    [v \in DOMAIN env |->
        IF v \notin s.writes THEN env[v]
        ELSE IF s.value = Nothing THEN env[CHOOSE r \in s.reads : TRUE] ELSE s.value]

FaultsOf(s, orig, env) ==
    {"read" : r \in {v \in s.reads : s.value # Nothing /\ env[v] # orig}}
        \cup {"twice" : w \in {v \in s.writes : env[v] # Nothing}}

Faults ==
    LET Run[at \in [block : DOMAIN blocks, next : Nat,
                    orig : Node,
                    env : [Versions -> Node \cup {Nothing}]]] ==
            IF at.next <= Len(out[at.block])
            THEN LET s == out[at.block][at.next]
                 IN  FaultsOf(s, at.orig, at.env)
                        \cup Run[[block |-> at.block, next |-> at.next + 1,
                                  orig |-> After(s, at.orig), env |-> Assigned(s, at.env)]]
            ELSE UNION {Run[[at EXCEPT !.block = c, !.next = 1]] : c \in Succs(bb, at.block)}
    IN  Run[[block |-> resolved[Start], next |-> 1, orig |-> AtStart,
             env |-> [v \in Versions |-> IF v = 0 THEN AtStart ELSE Nothing]]]

(***************************************************************************)
(* The properties.                                                         *)
(***************************************************************************)

\* Along every path of the program a read with a version gets what the last write
\* on that path wrote, although merges are pruned where the variable is dead and
\* the copies stand at the end of the blocks before a merge.
ReadsKeepTheirValues == pc = "ssa" => "read" \notin Faults

\* No path writes a version twice.
VersionsAreWrittenOnce == pc = "ssa" => "twice" \notin Faults

\* From every program the analysis reaches an end.
AnalysisEnds == <>(pc \in {"ssa", "undefined"})
=============================================================================
