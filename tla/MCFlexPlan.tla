----------------------------- MODULE MCFlexPlan -----------------------------
(***************************************************************************)
(* Instances of the whole run.                                             *)
(***************************************************************************)
EXTENDS FlexPlan, FiniteSetsExt, TLC

CONSTANTS a, b, c, p1, p2

OldUse == a :> 2 @@ b :> 0 @@ c :> 3
NewUse == a :> 4 @@ b :> 2 @@ c :> 1

SumOf(use) ==
    [S \in SUBSET Component |-> MapThenSumSet(LAMBDA x : use[x], S)]

MCOldUsage == SumOf(OldUse)
MCNewUsage == SumOf(NewUse)

(***************************************************************************)
(* p1 needs b before a; p2 fails while only c is new, and in the new       *)
(* program, so that there is no correct plan of length 2.                  *)
(***************************************************************************)
MCViolates == {p1} \X {{a}, {a, c}} \cup {p2} \X {{c}, {a, b, c}}

(***************************************************************************)
(* Two components: b has to be changed first.                              *)
(***************************************************************************)
MCPair == {<<p1, {a}>>}
=============================================================================
