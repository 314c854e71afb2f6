------------------------------ MODULE MCLearner ------------------------------
(***************************************************************************)
(* An instance of the unsat core learner.                                  *)
(***************************************************************************)
EXTENDS UnsatCoreLearner, TLC

CONSTANTS a, b, c, p1, p2

MCUsage == [S \in SUBSET Component |-> Cardinality(S)]

(***************************************************************************)
(* The new program fails for p2, as every state does once p1 has ruled out *)
(* {a} and {b}: no bit is needed for a core then.  The learner gets there  *)
(* along cores that are big, small, or excluded one state at a time.       *)
(***************************************************************************)
MCViolates ==
    {p1} \X {{a}, {b}} \cup {p2} \X {{c}, {a, c}, {b, c}, {a, b}, {a, b, c}}
=============================================================================
