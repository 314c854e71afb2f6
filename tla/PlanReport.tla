----------------------------- MODULE PlanReport -----------------------------
(***************************************************************************)
(* From a solver's model to the instructions for the operator.             *)
(* interpret.py writes the intermediate states of a plan to output-plan;   *)
(* final_result.py prints, for each transition, the components to change.  *)
(***************************************************************************)
EXTENDS Integers, FiniteSets

CONSTANTS Component

(***************************************************************************)
(* The program copies of a formula of length n are numbered from 0.  The   *)
(* last two are the old and the new program.                               *)
(***************************************************************************)
Copy(n, plan, i) ==
    IF i < n THEN plan[i + 1] ELSE IF i = n THEN {} ELSE Component

\* Mutant of output_plan: one of the two fixed programs is kept.
output_plan_drops_one(n, plan) ==
    [i \in {k \in 0..n+1 : \E m \in 0..n+1 : k < m} |-> Copy(n, plan, i)]

(***************************************************************************)
(* output-plan: the copies without the two that have the highest numbers.  *)
(***************************************************************************)
output_plan(n, plan) ==
    [i \in {k \in 0..n+1 : \E l, m \in 0..n+1 : k < l /\ l < m} |-> Copy(n, plan, i)]

(***************************************************************************)
(* What final_result.py prints for each transition.  It sees only the      *)
(* states of output-plan, an empty transition is not printed.              *)
(***************************************************************************)
transition(states, i) ==
    LET n == Cardinality(DOMAIN states)
    IN  IF i = 1 THEN states[0]
        ELSE IF i = n + 1 THEN Component \ states[n - 1]
        ELSE states[i - 1] \ states[i - 2]

Printed(states) ==
    {<<i, transition(states, i)>> : i \in 1..Cardinality(DOMAIN states)+1}
        \ {<<i, {}>> : i \in 1..Cardinality(DOMAIN states)+1}

(***************************************************************************)
(* Reference: the state of an operator who has followed the instructions   *)
(* up to the one numbered i.                                               *)
(***************************************************************************)
Followed(instructions, i) ==
    UNION {ins[2] : ins \in {jns \in instructions : jns[1] <= i}}
=============================================================================
