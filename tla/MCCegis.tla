------------------------------- MODULE MCCegis -------------------------------
(***************************************************************************)
(* Instances of the main loop.                                             *)
(***************************************************************************)
EXTENDS CegisLoop, FiniteSetsExt, TLC

CONSTANTS a, b, c, d, p1, p2, p3, p4

SumOf(use) ==
    [S \in SUBSET Component |-> MapThenSumSet(LAMBDA x : use[x], S)]

(***************************************************************************)
(* Components a and c grow, b and d shrink; the headroom of 12 excludes    *)
(* many of the orders.  Four packets share the violations: no plan of one  *)
(* state is correct, some of two and three states are, and they differ in  *)
(* their spike.                                                            *)
(***************************************************************************)
MCOldUsage == SumOf(a :> 1 @@ b :> 5 @@ c :> 3 @@ d :> 6)
MCNewUsage == SumOf(a :> 6 @@ b :> 3 @@ c :> 6 @@ d :> 3)

MCViolates ==
    {p1} \X {{b, c}, {b, d}, {a, c, d}} \cup {p2} \X {{d}, {c, d}}
        \cup {p3} \X {{a}, {a, b}, {a, d}} \cup {p4} \X {{b, c, d}}

(***************************************************************************)
(* Three components: only {a, c} is correct, and each packet is needed to  *)
(* find that out.                                                          *)
(***************************************************************************)
MCOldThree == SumOf(a :> 2 @@ b :> 0 @@ c :> 3)
MCNewThree == SumOf(a :> 4 @@ b :> 2 @@ c :> 1)

MCThree ==
    {p1} \X {{c}, {a, b, c}} \cup {p2} \X {{a}, {a, b}} \cup {p3} \X {{b}, {b, c}}

(***************************************************************************)
(* The correct states are {a} and the chain {b}, {b, c}, {b, c, d}.  With  *)
(* one intermediate state {a} has the lowest spike, 10; two states of the  *)
(* chain are worse, all three are better, 9.                               *)
(***************************************************************************)
MCOldPlateau == SumOf(a :> 9 @@ b :> 5 @@ c :> 3 @@ d :> 2)
MCNewPlateau == SumOf(a :> 3 @@ b :> 6 @@ c :> 5 @@ d :> 5)

Plateau == (SUBSET {a, b, c, d}) \ {{}, {a, b, c, d}, {a}, {b}, {b, c}, {b, c, d}}

MCPlateau == {p1} \X Plateau

=============================================================================
