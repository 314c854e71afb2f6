---------------------------- MODULE Verification ----------------------------
(***************************************************************************)
(* What the verification phase promises: for each mixed state of a         *)
(* candidate, the answer that the main loop will read in that state's log. *)
(***************************************************************************)
EXTENDS UpdatePlan

CONSTANT Undecided     \* the states whose formula z3 ends without an answer

ASSUME UndecidedAssumption == Undecided \subseteq States

Counterexamples(S) == {q \in Packet : <<q, S>> \in Violates}

(***************************************************************************)
(* What z3 answers on the verification formula of a state.                 *)
(***************************************************************************)
Answer(S) ==
    IF S \in Undecided THEN "error"
    ELSE IF Counterexamples(S) = {} THEN "unsat" ELSE "sat"

(***************************************************************************)
(* What parallel-smt-analysis.py leaves behind.  The verifiers of all the  *)
(* states run in parallel; the first "sat" stops the others, whose logs    *)
(* stay empty, or absent when they were stopped before they opened it.     *)
(***************************************************************************)
VerifyOutcomes(targets) ==
    {log \in [targets -> {"sat", "unsat", "error", "empty", "absent"}] :
        /\ \A S \in targets : log[S] \in {Answer(S), "empty", "absent"}
        /\ (\E S \in targets : log[S] \in {"empty", "absent"})
               => \E S \in targets : log[S] = "sat"}
=============================================================================
