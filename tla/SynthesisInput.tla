--------------------------- MODULE SynthesisInput ---------------------------
(***************************************************************************)
(* The translations of FlexPlan that have no state of their own, against   *)
(* reference definitions: the arithmetic of the synthesis formula and the  *)
(* report of its plans, over every update of a small set, and the          *)
(* violation conditions, over every spec of a small set.  Each behaviour   *)
(* picks an input and stays there.                                         *)
(***************************************************************************)
EXTENDS SpecLang, PlanReport, FiniteSetsExt

CONSTANTS Usages, Headrooms, MaxLen, Word, Byte, DiffInit, Packet, SpecFiles

ASSUME MaxLenAssumption == MaxLen \in Nat

ASSUME SpecFilesAssumption ==
    \A s \in SpecFiles : Len(s.defs) \in 1..2 /\ DOMAIN s.defs = 1..Len(s.defs)

VARIABLES
    input         \* an update: the <<old, new>> usage of each component and a
                  \* headroom; or a spec

Updates == [kind : {"update"}, use : [Component -> Usages], headroom : Headrooms]

Specs == {[kind |-> "spec", spec |-> s] : s \in SpecFiles}

SumOf(k) == [S \in SUBSET Component |-> MapThenSumSet(LAMBDA c : input.use[c][k], S)]

P == INSTANCE UpdatePlan WITH
        OldUsage <- SumOf(1), NewUsage <- SumOf(2), Headroom <- input.headroom,
        Violates <- {}

Init == input \in Updates \cup Specs

Next == UNCHANGED input

Spec == Init /\ [][Next]_input

-----------------------------------------------------------------------------
(***************************************************************************)
(* The properties of the arithmetic and of the report.                     *)
(***************************************************************************)

\* Every plan the formula admits stays within the headroom in each transition,
\* whatever wraps around in the counters on the way.
WellFormedIsFeasible ==
    input.kind = "update" =>
        \A n \in 1..MaxLen : \A plan \in P!WellFormed(n) : P!StaysWithinHeadroom(n, plan)

(***************************************************************************)
(* The plans of length n the formula would admit without its diagnosis     *)
(* condition.                                                              *)
(***************************************************************************)
Unpruned(n) ==
    {plan \in P!Plans(n) :
        /\ P!Monotone(n, plan)
        /\ P!Feasible(n, plan)
        /\ P!DIFF(n, plan) > 0
        /\ P!Progressing(n, plan)}

Visits(n, plan) == {plan[i] : i \in 1..n} \cup {Component}

\* With a headroom that takes the whole new program at once (INF), the diagnosis
\* condition of synthesizer_spec.py drops a plan only when the formula of the same
\* length keeps one that visits no other state and needs no larger spike: the
\* pruning loses no optimum, for any spec.
DiagnosisKeepsOptimum ==
    (input.kind = "update" /\ input.headroom > SumOf(2)[Component]) =>
        \A n \in 2..MaxLen : \A plan \in Unpruned(n) :
            \E q \in P!WellFormed(n) :
                /\ Visits(n, q) \subseteq Visits(n, plan)
                /\ P!DIFF(n, q) >= P!DIFF(n, plan)

\* An operator who follows the printed instructions of final_result.py one after
\* the other brings the switch through exactly the states of the plan that was
\* found, changes no component twice, and ends with the new program.
ReportReplaysPlan ==
    input.kind = "update" =>
        \A n \in 1..MaxLen : \A plan \in P!WellFormed(n) :
            LET printed == Printed(output_plan(n, plan))
            IN  /\ \A i \in 0..n+1 : Followed(printed, i) = P!StateAt(n, plan, i)
                /\ \A ins, jns \in printed : ins # jns => ins[2] \cap jns[2] = {}

-----------------------------------------------------------------------------
(***************************************************************************)
(* The properties of the specification language.                           *)
(***************************************************************************)

\* For a definition of which the translation loses nothing, the condition that
\* parser.py and spec_interpret.py write holds of exactly the packets that violate
\* the definition as it reads: all assumptions hold and the assertion fails.  This is
\* the condition of a file of one definition, and for two definitions joined by || it
\* is the one that distill_spec.py writes into a formula of each definition's own.
TranslationIsExact ==
    input.kind = "spec" =>
        \A k \in DOMAIN input.spec.defs :
            (Translatable(input.spec.defs[k]) /\ Agrees(input.spec, k)) =>
                \A env \in Environment :
                    violation_cond(input.spec, k, env) <=> ViolatedDef(input.spec.defs[k], env)

\* Whatever spec_interpret.py loses of the definitions of a file (an assumption line
\* that a later one overwrites, the parentheses of a disjunction, metadata literals
\* and "packet" literals of a conjunction), no violation is missed: a packet that
\* violates the spec as it reads satisfies the condition in the formula, and one that
\* violates a definition satisfies that definition's.
NoViolationIsMissed ==
    (/\ input.kind = "spec"
     /\ \A k \in DOMAIN input.spec.defs : Covered(input.spec.defs[k]) /\ Agrees(input.spec, k)) =>
        \A env \in Environment :
            /\ Violated(input.spec, env) => SUBVIOLATION(input.spec, env)
            /\ \A k \in DOMAIN input.spec.defs :
                 ViolatedDef(input.spec.defs[k], env) => violation_cond(input.spec, k, env)

\* For a spec of two definitions joined by || the synthesis formula counts a packet
\* as a violation only when it violates both of them.
DisjunctionIsHonoured ==
    (/\ input.kind = "spec" /\ Len(input.spec.defs) = 2
     /\ \A k \in 1..2 : Translatable(input.spec.defs[k]) /\ Agrees(input.spec, k)) =>
        \A env \in Environment : SUBVIOLATION(input.spec, env) => Violated(input.spec, env)
=============================================================================
