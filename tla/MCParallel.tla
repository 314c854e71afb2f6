----------------------------- MODULE MCParallel -----------------------------
(***************************************************************************)
(* An instance of the parallel verification: chains of up to three mixed   *)
(* states of four components, with violated, correct and undecided ones.   *)
(***************************************************************************)
EXTENDS ParallelVerify, FiniteSetsExt, TLC

CONSTANTS a, b, c, d, p1, p2

OldUse == a :> 2 @@ b :> 0 @@ c :> 3 @@ d :> 1
NewUse == a :> 3 @@ b :> 2 @@ c :> 0 @@ d :> 1

SumOf(use) == [S \in SUBSET Component |-> MapThenSumSet(LAMBDA x : use[x], S)]

MCOldUsage == SumOf(OldUse)
MCNewUsage == SumOf(NewUse)

MCViolates == {<<p1, {a}>>, <<p1, {a, c}>>, <<p2, {b}>>, <<p2, {c}>>, <<p2, {a, b, d}>>}

MCLeftover == {<<"absent", "none">>, <<"empty", "unsat">>}

MCMortal == {{b}, {a, b}, {a, c}, {a, b, c}}
=============================================================================
