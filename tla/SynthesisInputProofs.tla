------------------------ MODULE SynthesisInputProofs ------------------------
(***************************************************************************)
(* The translation of a spec is exact, or errs on the safe side, for every *)
(* spec and every set of atoms; and the report replays the plan.           *)
(***************************************************************************)
EXTENDS SynthesisInput, FiniteSetTheorems, NaturalsInduction, WellFoundedInduction, TLAPS

LEMMA LeastOf ==
    ASSUME NEW D \in SUBSET Nat, D # {}
    PROVE  \E d \in D : \A e \in D : d <= e
<1>1. PICK d \in D : \A e \in D : <<e, d>> \notin OpToRel(<, Nat)
  BY WFMin, NatLessThanWellFounded
<1>2. ASSUME NEW e \in D PROVE d <= e
  <2>1. <<e, d>> \notin OpToRel(<, Nat)
    BY <1>1
  <2> QED BY <2>1 DEF OpToRel
<1> QED BY <1>2

(***************************************************************************)
(* The last of some positions of a sequence.                               *)
(***************************************************************************)
LEMMA LastOf ==
    ASSUME NEW n \in Nat, NEW K \in SUBSET (1..n), K # {}
    PROVE  Last(K) \in K
<1> DEFINE D == {d \in Nat : \A m \in K : m <= d}
<1>1. PICK d \in D : \A e \in D : d <= e
  <2>1. n \in D
    OBVIOUS
  <2> QED BY <2>1, LeastOf
<1>2. PICK k \in K : k \in Nat /\ k # 0
  <2>1. \A m \in K : m \in Nat /\ m # 0
    OBVIOUS
  <2> QED BY <2>1
<1>3. d \in Nat /\ d - 1 \in Nat /\ ~(d <= d - 1)
  BY <1>2
<1>4. d \in K
  <2> SUFFICES ASSUME d \notin K PROVE FALSE
    OBVIOUS
  <2>1. ASSUME NEW m \in K PROVE m <= d - 1
    <3>1. m \in Nat /\ m <= d /\ m # d
      OBVIOUS
    <3> QED BY <1>3, <3>1
  <2> QED BY <1>1, <1>3, <2>1
<1>5. \A m \in K : m <= d
  OBVIOUS
<1> HIDE DEF D
<1> QED BY <1>4, <1>5 DEF Last

(***************************************************************************)
(* A parsed assertion line is true of exactly the packets for which the    *)
(* line as written is false.                                               *)
(***************************************************************************)
LEMMA Reversed ==
    ASSUME NEW line, IsLine(line), NEW env
    PROVE  LET c == parse_assertion(line)
           IN  /\ DOMAIN c.lits = DOMAIN line.lits
               /\ DOMAIN c.lits = 1..Len(c.lits)
               /\ 1 \in DOMAIN c.lits
               /\ ~LineTrue(line, env) <=>
                    IF c.op = "or"
                    THEN \E i \in DOMAIN c.lits : Holds(c.lits[i], env)
                    ELSE \A i \in DOMAIN c.lits : Holds(c.lits[i], env)
<1> DEFINE c == parse_assertion(line)
           D == DOMAIN line.lits
<1>1. /\ line.lits \in Seq(Literal) /\ line.lits # << >> /\ line.op \in {"unary", "and", "or"}
      /\ line.negated \in BOOLEAN
  BY DEF IsLine, Line
<1>2. D = 1..Len(line.lits) /\ Len(line.lits) \in Nat /\ Len(line.lits) # 0
      /\ \A i \in D : line.lits[i] \in Literal
  BY <1>1
<1>3. line.op = "unary" => D = {1}
  BY <1>2 DEF IsLine
<1>4. /\ DOMAIN reverse_op(line.lits) = D
      /\ Len(reverse_op(line.lits)) = Len(line.lits)
      /\ \A i \in D : Holds(reverse_op(line.lits)[i], env) <=> ~Holds(line.lits[i], env)
  BY <1>2 DEF reverse_op, Holds, Literal
<1>5. CASE line.negated
  <2>1. c.lits = line.lits /\ c.op = line.op
    BY <1>5 DEF parse_assertion
  <2> QED BY <1>2, <1>5, <2>1 DEF LineTrue
<1>6. CASE ~line.negated
  <2>1. c.lits = reverse_op(line.lits) /\ c.op = Dual(line.op)
    BY <1>6 DEF parse_assertion
  <2>2. CASE line.op = "unary"
    BY <1>1, <1>2, <1>3, <1>4, <1>6, <2>1, <2>2 DEF LineTrue, Dual
  <2>3. CASE line.op # "unary"
    BY <1>1, <1>2, <1>4, <1>6, <2>1, <2>3 DEF LineTrue, Dual
  <2> QED BY <2>2, <2>3
<1> QED BY <1>1, <1>5, <1>6

(***************************************************************************)
(* With at most one kept line, assume_string says what the assumption      *)
(* lines say together.                                                     *)
(***************************************************************************)
LEMMA AssumptionKept ==
    ASSUME NEW def, Translatable(def), NEW env \in Environment
    PROVE  assume_string(def, env) <=> Assumed(def, env)
<1> DEFINE K == KeptLines(def)
<1>1. ASSUME NEW j \in DOMAIN def.assume
      PROVE  LET line == def.assume[j] IN
             /\ line.negated = FALSE
             /\ KeptAssume(line) \subseteq DOMAIN line.lits
             /\ \A i \in DOMAIN line.lits \ KeptAssume(line) : Holds(line.lits[i], env)
             /\ line.op = "or" => KeptAssume(line) \in {{}, DOMAIN line.lits}
             /\ KeptAssume(line) = {} => \E i \in DOMAIN line.lits : i \notin KeptAssume(line)
  <2> DEFINE line == def.assume[j]
  <2>1. /\ IsLine(line)
        /\ ~line.negated
        /\ line.op = "or" => KeptAssume(line) \in {{}, DOMAIN line.lits}
        /\ \A i \in DOMAIN line.lits \ KeptAssume(line) :
             line.lits[i].atom \in SamePacket /\ line.lits[i].rel = "=="
    BY DEF Translatable, IsDefinition
  <2> HIDE DEF line
  <2>2. line.negated = FALSE
    BY <2>1 DEF IsLine, Line
  <2>4. \A i \in DOMAIN line.lits \ KeptAssume(line) : Holds(line.lits[i], env)
    BY <2>1 DEF Holds, Environment
  <2>5. 1 \in DOMAIN line.lits
    <3>1. line.lits \in Seq(Literal) /\ line.lits # << >>
      BY <2>1 DEF IsLine, Line
    <3> QED BY <3>1
  <2> QED BY <2>1, <2>2, <2>4, <2>5 DEF KeptAssume, line
<1>2. \A j \in DOMAIN def.assume \ K : LineTrue(def.assume[j], env)
  BY <1>1 DEF LineTrue, KeptLines
<1>3. CASE K = {}
  BY <1>2, <1>3 DEF assume_string, Assumed
<1>4. CASE K # {}
  <2>1. PICK j \in DOMAIN def.assume : K = {j}
    <3>1. PICK j \in K : TRUE
      BY <1>4
    <3>2. \A i \in K : i = j
      <4>1. \A i, k \in K : i = k
        BY DEF Translatable
      <4> HIDE DEF K
      <4> QED BY <3>1, <4>1
    <3>3. j \in DOMAIN def.assume
      BY <3>1 DEF KeptLines
    <3> HIDE DEF K
    <3> QED BY <3>1, <3>2, <3>3
  <2>2. Last(K) = j
    <3>1. \E k \in K : \A m \in K : m <= k
      BY <2>1, DOMAIN def.assume \subseteq Nat DEF Translatable, IsDefinition
    <3> QED BY <2>1, <3>1 DEF Last
  <2>3. Assumed(def, env) <=> LineTrue(def.assume[j], env)
    BY <1>2, <2>1 DEF Assumed
  <2> DEFINE line == def.assume[j]
  <2>4. KeptAssume(line) # {}
    BY <2>1 DEF KeptLines
  <2>5. LineTrue(line, env) <=>
          IF line.op = "or"
          THEN \E i \in KeptAssume(line) : Holds(line.lits[i], env)
          ELSE \A i \in KeptAssume(line) : Holds(line.lits[i], env)
    BY <1>1, <2>4 DEF LineTrue
  <2> QED BY <1>4, <2>2, <2>3, <2>5 DEF assume_string
<1> QED BY <1>3, <1>4

(***************************************************************************)
(* The condition of one assertion line.                                    *)
(***************************************************************************)
LEMMA LineCondition ==
    ASSUME NEW def, Translatable(def), NEW env \in Environment, NEW j \in DOMAIN def.assert
    PROVE  condition(def, def.assert[j], env)
               <=> Assumed(def, env) /\ ~LineTrue(def.assert[j], env)
<1> DEFINE line == def.assert[j]
           c == parse_assertion(line)
           kept == KeptAssert(line)
<1>1. IsLine(line) /\ Unplaceds(line) = {} /\ (KeptLines(def) = {} \/ c.op # "or")
  BY DEF Translatable, IsDefinition
<1>2. /\ DOMAIN c.lits = kept
      /\ ~LineTrue(line, env) <=>
           IF c.op = "or"
           THEN \E i \in DOMAIN c.lits : Holds(c.lits[i], env)
           ELSE \A i \in DOMAIN c.lits : Holds(c.lits[i], env)
  <2>1. kept = DOMAIN line.lits
    BY <1>1 DEF KeptAssert, Unplaceds
  <2> QED BY <1>1, <2>1, Reversed
<1>3. assume_string(def, env) <=> Assumed(def, env)
  BY AssumptionKept
<1>4. KeptLines(def) = {} => assume_string(def, env)
  BY DEF assume_string
<1>5. /\ (c.op = "or" /\ assume_string(def, env)) =>
           (condition(def, line, env) <=> \E i \in kept : Holds(c.lits[i], env))
      /\ c.op # "or" =>
           (condition(def, line, env) <=>
              assume_string(def, env) /\ \A i \in kept : Holds(c.lits[i], env))
  BY Zenon DEF condition
<1> HIDE DEF line, c, kept
<1>6. condition(def, line, env) <=> Assumed(def, env) /\ ~LineTrue(line, env)
  BY <1>1, <1>2, <1>3, <1>4, <1>5
<1> QED BY <1>6 DEF line

(***************************************************************************)
(* The joined conditions of one definition.                                *)
(***************************************************************************)
LEMMA DefinitionCondition ==
    ASSUME NEW spec, NEW k, Translatable(spec.defs[k]), Agrees(spec, k),
           NEW env \in Environment
    PROVE  Joined(spec, {k}, env) <=> ViolatedDef(spec.defs[k], env)
<1> DEFINE def == spec.defs[k]
           D == DOMAIN def.assert
<1>1. \A j \in D : condition(def, def.assert[j], env)
                      <=> Assumed(def, env) /\ ~LineTrue(def.assert[j], env)
  BY LineCondition
<1>2. 1 \in D /\ (Len(def.assert) = 1 => D = {1})
  <2>1. def.assert \in Seq(Line) /\ def.assert # << >>
    BY DEF Translatable, IsDefinition
  <2> QED BY <2>1
<1>3. Joined(spec, {k}, env) <=>
        IF concatenator(spec) = "or"
        THEN \E j \in D : condition(def, def.assert[j], env)
        ELSE \A j \in D : condition(def, def.assert[j], env)
  BY DEF Joined
<1>4. Len(def.assert) = 1 \/ (concatenator(spec) = "or" <=> def.concat # "or")
  BY DEF Agrees
<1> HIDE DEF def, D
<1>5. ViolatedDef(def, env) <=>
        /\ Assumed(def, env)
        /\ ~(IF def.concat = "or"
             THEN \E j \in D : LineTrue(def.assert[j], env)
             ELSE \A j \in D : LineTrue(def.assert[j], env))
  BY DEF ViolatedDef, Asserted, D
<1>6. Joined(spec, {k}, env) <=> ViolatedDef(def, env)
  BY <1>1, <1>2, <1>3, <1>4, <1>5
<1> QED BY <1>6 DEF def

(***************************************************************************)
(* A file of one definition has that definition's connective.              *)
(***************************************************************************)
LEMMA OneDefinitionAgrees ==
    ASSUME NEW spec, DOMAIN spec.defs = {1}, spec.defs[1].concat \in {"none", "and", "or"}
    PROVE  Agrees(spec, 1)
<1>1. Last({1}) = 1
  <2>1. \E k \in {1} : \A m \in {1} : m <= k
    OBVIOUS
  <2> QED BY <2>1 DEF Last
<1>2. CASE spec.defs[1].concat = "none"
  <2>1. {k \in DOMAIN spec.defs : spec.defs[k].concat # "none"} = {}
    BY <1>2
  <2> QED BY <1>2, <2>1 DEF Agrees, concatenator
<1>3. CASE spec.defs[1].concat # "none"
  <2>1. {k \in DOMAIN spec.defs : spec.defs[k].concat # "none"} = {1}
    BY <1>3
  <2> QED BY <1>1, <1>3, <2>1 DEF Agrees, concatenator, Dual
<1> QED BY <1>2, <1>3

(***************************************************************************)
(* An input that is a spec comes from SpecFiles.                           *)
(***************************************************************************)
InputInv == input \in Updates \cup Specs

LEMMA InputStays == Spec => []InputInv
<1>1. Init => InputInv
  BY DEF Init, InputInv
<1>2. InputInv /\ [Next]_input => InputInv'
  BY DEF InputInv, Next, Updates, Specs
<1> QED BY <1>1, <1>2, PTL DEF Spec

LEMMA SpecInputs ==
    ASSUME InputInv, input.kind = "spec"
    PROVE  Len(input.spec.defs) \in 1..2 /\ DOMAIN input.spec.defs = 1..Len(input.spec.defs)
<1>1. input \notin Updates
  BY DEF Updates
<1>2. PICK s \in SpecFiles : input = [kind |-> "spec", spec |-> s]
  BY <1>1 DEF InputInv, Specs
<1> QED BY <1>2, SpecFilesAssumption

\* For every definition of which nothing is lost, over any set of atoms and in any
\* file whose connective agrees, the condition written for it is its violation.
THEOREM Translation == Spec => []TranslationIsExact
<1>1. TranslationIsExact
  BY DefinitionCondition DEF TranslationIsExact, violation_cond
<1> QED BY <1>1, PTL

\* In particular the synthesis formula of a file of one such definition counts as
\* violations exactly the packets that violate the spec as it reads.
THEOREM OneDefinition ==
    ASSUME NEW spec, NEW env \in Environment, DOMAIN spec.defs = {1}, Translatable(spec.defs[1])
    PROVE  SUBVIOLATION(spec, env) <=> Violated(spec, env)
<1>1. Agrees(spec, 1)
  BY OneDefinitionAgrees DEF Translatable, IsDefinition
<1>2. Joined(spec, {1}, env) <=> ViolatedDef(spec.defs[1], env)
  BY <1>1, DefinitionCondition
<1> QED BY <1>2 DEF SUBVIOLATION, Violated

(***************************************************************************)
(* What spec_interpret.py loses of a definition makes its condition weaker.*)
(***************************************************************************)
LEMMA AssumptionWeakened ==
    ASSUME NEW def, Covered(def), NEW env, Assumed(def, env)
    PROVE  assume_string(def, env)
<1> DEFINE K == KeptLines(def)
           j == Last(K)
           line == def.assume[j]
<1> SUFFICES ASSUME K # {} PROVE assume_string(def, env)
  BY DEF assume_string
<1>1. j \in K
  <2>1. def.assume \in Seq(Line)
    BY DEF Covered, IsDefinition
  <2>2. Len(def.assume) \in Nat /\ K \subseteq 1..Len(def.assume)
    BY <2>1 DEF KeptLines
  <2> HIDE DEF K
  <2> QED BY <2>2, LastOf
<1>2. j \in DOMAIN def.assume /\ KeptAssume(line) # {}
  BY <1>1 DEF KeptLines
<1>3. /\ line.negated = FALSE /\ LineTrue(line, env)
      /\ line.op = "or" => KeptAssume(line) \in {{}, DOMAIN line.lits}
  BY <1>2 DEF Covered, IsDefinition, IsLine, Line, Assumed
<1>4. assume_string(def, env) <=>
        IF line.op = "or"
        THEN \E i \in KeptAssume(line) : Holds(line.lits[i], env)
        ELSE \A i \in KeptAssume(line) : Holds(line.lits[i], env)
  BY DEF assume_string
<1>5. KeptAssume(line) \subseteq DOMAIN line.lits
  BY DEF KeptAssume
<1> HIDE DEF line
<1> QED BY <1>2, <1>3, <1>4, <1>5 DEF LineTrue

LEMMA LineCovered ==
    ASSUME NEW def, Covered(def), NEW env, NEW j \in DOMAIN def.assert,
           Assumed(def, env), ~LineTrue(def.assert[j], env)
    PROVE  condition(def, def.assert[j], env)
<1> DEFINE line == def.assert[j]
           c == parse_assertion(line)
           kept == KeptAssert(line)
<1>1. IsLine(line) /\ (c.op = "or" => Unplaceds(line) = {})
  BY DEF Covered, IsDefinition
<1>2. /\ DOMAIN c.lits = DOMAIN line.lits
      /\ IF c.op = "or"
         THEN \E i \in DOMAIN c.lits : Holds(c.lits[i], env)
         ELSE \A i \in DOMAIN c.lits : Holds(c.lits[i], env)
  BY <1>1, Reversed
<1>3. kept \subseteq DOMAIN line.lits /\ (c.op = "or" => kept = DOMAIN line.lits)
  BY <1>1 DEF KeptAssert, Unplaceds
<1>4. assume_string(def, env)
  BY AssumptionWeakened
<1>5. /\ (c.op = "or" /\ assume_string(def, env)) =>
           (condition(def, line, env) <=> \E i \in kept : Holds(c.lits[i], env))
      /\ c.op # "or" =>
           (condition(def, line, env) <=>
              assume_string(def, env) /\ \A i \in kept : Holds(c.lits[i], env))
  BY Zenon DEF condition
<1> HIDE DEF line, c, kept
<1>6. condition(def, line, env)
  BY Zenon, <1>2, <1>3, <1>4, <1>5
<1> QED BY <1>6 DEF line

LEMMA DefinitionCovered ==
    ASSUME NEW spec, NEW k, Covered(spec.defs[k]), Agrees(spec, k), NEW env,
           ViolatedDef(spec.defs[k], env)
    PROVE  Joined(spec, {k}, env)
<1> DEFINE def == spec.defs[k]
           D == DOMAIN def.assert
<1>1. Assumed(def, env) /\ ~Asserted(def, env)
  BY DEF ViolatedDef
<1>2. \A j \in D : ~LineTrue(def.assert[j], env) => condition(def, def.assert[j], env)
  BY <1>1, LineCovered
<1>3. 1 \in D /\ (Len(def.assert) = 1 => D = {1})
  <2>1. def.assert \in Seq(Line) /\ def.assert # << >>
    BY DEF Covered, IsDefinition
  <2> QED BY <2>1
<1>4. Joined(spec, {k}, env) <=>
        IF concatenator(spec) = "or"
        THEN \E j \in D : condition(def, def.assert[j], env)
        ELSE \A j \in D : condition(def, def.assert[j], env)
  BY DEF Joined
<1>5. Len(def.assert) = 1 \/ (concatenator(spec) = "or" <=> def.concat # "or")
  BY DEF Agrees
<1>6. IF def.concat = "or"
      THEN \A j \in D : ~LineTrue(def.assert[j], env)
      ELSE \E j \in D : ~LineTrue(def.assert[j], env)
  BY <1>1 DEF Asserted
<1> HIDE DEF def, D
<1> QED BY <1>2, <1>3, <1>4, <1>5, <1>6

\* However many assumption lines, literals and parentheses are lost on the way, as
\* long as it is no alternative of a disjunction: every packet that violates the spec
\* as it reads is a violation in the formulas of the synthesis and of the learner.
THEOREM NoneMissed == Spec => []NoViolationIsMissed
<1>1. InputInv => NoViolationIsMissed
  <2> SUFFICES ASSUME InputInv, input.kind = "spec", NEW env \in Environment,
                      \A k \in DOMAIN input.spec.defs :
                         Covered(input.spec.defs[k]) /\ Agrees(input.spec, k)
               PROVE  /\ Violated(input.spec, env) => SUBVIOLATION(input.spec, env)
                      /\ \A k \in DOMAIN input.spec.defs :
                           ViolatedDef(input.spec.defs[k], env) => violation_cond(input.spec, k, env)
    BY DEF NoViolationIsMissed
  <2> DEFINE spec == input.spec
             K == DOMAIN spec.defs
  <2>1. \A k \in K : ViolatedDef(spec.defs[k], env) => Joined(spec, {k}, env)
    BY DefinitionCovered
  <2>2. 1 \in K
    BY SpecInputs
  <2>3. (\A k \in K : Joined(spec, {k}, env)) => SUBVIOLATION(spec, env)
    BY <2>2 DEF SUBVIOLATION, Joined
  <2> QED BY <2>1, <2>3 DEF Violated, violation_cond
<1> QED BY <1>1, InputStays, PTL

\* What the synthesis formula really says of a file of two definitions: a packet is
\* a violation as soon as it violates one of them.  This is assert d1 && d2, whatever
\* connective the assert line has.
THEOREM DisjunctionIsConjunction ==
    ASSUME NEW spec, NEW env \in Environment, concatenator(spec) = "or",
           \A k \in DOMAIN spec.defs : Translatable(spec.defs[k]) /\ Agrees(spec, k)
    PROVE  SUBVIOLATION(spec, env)
               <=> \E k \in DOMAIN spec.defs : ViolatedDef(spec.defs[k], env)
<1>1. \A k \in DOMAIN spec.defs : Joined(spec, {k}, env) <=> ViolatedDef(spec.defs[k], env)
  BY DefinitionCondition
<1>2. SUBVIOLATION(spec, env) <=> \E k \in DOMAIN spec.defs : Joined(spec, {k}, env)
  BY DEF SUBVIOLATION, Joined
<1> QED BY <1>1, <1>2

-----------------------------------------------------------------------------
(***************************************************************************)
(* The report.                                                             *)
(***************************************************************************)

(***************************************************************************)
(* A sequence of states that grows from each to the next grows throughout. *)
(***************************************************************************)
LEMMA GrowingChain ==
    ASSUME NEW m \in Nat, NEW F, \A i \in 1..m : F[i - 1] \subseteq F[i],
           NEW i \in 0..m, NEW j \in 0..m, i <= j
    PROVE  F[i] \subseteq F[j]
<1> DEFINE D == {k \in i..m : ~(F[i] \subseteq F[k])}
<1> SUFFICES ASSUME D # {} PROVE FALSE
  BY j \in i..m
<1>1. PICK d \in D : \A e \in D : d <= e
  BY LeastOf, D \subseteq Nat
<1>2. d \in i..m /\ d # i /\ ~(F[i] \subseteq F[d])
  OBVIOUS
<1>3. d - 1 \in i..m /\ d \in 1..m /\ ~(d <= d - 1)
  BY <1>2
<1>4. F[i] \subseteq F[d - 1]
  BY <1>1, <1>3
<1> QED BY <1>2, <1>3, <1>4

(***************************************************************************)
(* What is in a growing sequence's state i but not in state 0 has come in  *)
(* at some step up to i.                                                   *)
(***************************************************************************)
LEMMA EntersChain ==
    ASSUME NEW m \in Nat, NEW F, F[0] = {}, NEW i \in 0..m, NEW x \in F[i]
    PROVE  \E j \in 1..m : j <= i /\ x \in F[j] \ F[j - 1]
<1> DEFINE D == {k \in 0..i : x \in F[k]}
<1>1. PICK d \in D : \A e \in D : d <= e
  BY LeastOf, D \subseteq Nat, i \in D
<1>2. d \in 1..m /\ d <= i /\ x \in F[d]
  OBVIOUS
<1>3. d - 1 \in 0..i /\ ~(d <= d - 1)
  BY <1>2
<1> QED BY <1>1, <1>2, <1>3

(***************************************************************************)
(* output-plan holds the n intermediate states, and final_result.py takes  *)
(* the differences of neighbours, the old and the new program included.    *)
(***************************************************************************)
LEMMA Transitions ==
    ASSUME NEW n \in Nat \ {0}, NEW plan
    PROVE  LET states == output_plan(n, plan)
           IN  /\ Cardinality(DOMAIN states) = n
               /\ \A i \in 1..n+1 :
                    transition(states, i) = P!StateAt(n, plan, i) \ P!StateAt(n, plan, i - 1)
<1> DEFINE states == output_plan(n, plan)
<1>1. DOMAIN states = 0..n-1
  <2>1. ASSUME NEW k \in 0..n+1
        PROVE  (\E l, m \in 0..n+1 : k < l /\ l < m) <=> k \in 0..n-1
    <3>1. ASSUME k \in 0..n-1 PROVE \E l, m \in 0..n+1 : k < l /\ l < m
      BY <3>1, n \in 0..n+1, n + 1 \in 0..n+1, k < n, n < n + 1
    <3> QED BY <3>1
  <2>2. DOMAIN states = {k \in 0..n+1 : \E l, m \in 0..n+1 : k < l /\ l < m}
    BY DEF output_plan
  <2> QED BY <2>1, <2>2
<1>2. \A i \in 0..n-1 : states[i] = plan[i + 1]
  BY <1>1 DEF output_plan, Copy
<1>3. Cardinality(DOMAIN states) = n
  BY <1>1, FS_Interval
<1> HIDE DEF states
<1>4. ASSUME NEW i \in 1..n+1
      PROVE  transition(states, i) = P!StateAt(n, plan, i) \ P!StateAt(n, plan, i - 1)
  <2>1. CASE i = 1
    <3>1. P!StateAt(n, plan, 1) = plan[1] /\ P!StateAt(n, plan, 1 - 1) = {}
      BY DEF P!StateAt
    <3>2. transition(states, 1) = plan[1]
      BY <1>2 DEF transition
    <3> QED BY <2>1, <3>1, <3>2
  <2>2. CASE i = n + 1
    <3>1. P!StateAt(n, plan, n + 1) = Component /\ P!StateAt(n, plan, n + 1 - 1) = plan[n]
      BY DEF P!StateAt
    <3>2. states[n - 1] = plan[n]
      BY <1>2, n - 1 \in 0..n-1, n - 1 + 1 = n
    <3>3. transition(states, n + 1) = Component \ plan[n]
      BY <1>3, <3>2 DEF transition
    <3> QED BY <2>2, <3>1, <3>3
  <2>3. CASE i \in 2..n
    BY <1>2, <1>3, <2>3 DEF transition, P!StateAt
  <2> QED BY <2>1, <2>2, <2>3
<1> QED BY <1>3, <1>4 DEF states

\* Whatever the components, their usage and the headroom: the printed instructions
\* lead through the states of the plan, and name every component exactly once.
THEOREM Report == Spec => []ReportReplaysPlan
<1>1. ReportReplaysPlan
  <2> SUFFICES ASSUME NEW n \in 1..MaxLen, NEW plan \in P!WellFormed(n)
               PROVE  LET printed == Printed(output_plan(n, plan))
                      IN  /\ \A i \in 0..n+1 : Followed(printed, i) = P!StateAt(n, plan, i)
                          /\ \A ins, jns \in printed : ins # jns => ins[2] \cap jns[2] = {}
    BY DEF ReportReplaysPlan
  <2> DEFINE states == output_plan(n, plan)
             printed == Printed(states)
             F == [i \in 0..n+1 |-> P!StateAt(n, plan, i)]
  <2>1. n \in Nat \ {0} /\ n + 1 \in Nat
    BY MaxLenAssumption
  <2>2. /\ Cardinality(DOMAIN states) = n
        /\ \A i \in 1..n+1 : transition(states, i) = F[i] \ F[i - 1]
    BY <2>1, Transitions
  <2>3. F[0] = {} /\ \A i \in 1..n+1 : F[i - 1] \subseteq F[i]
    BY <2>1 DEF P!WellFormed, P!Monotone, P!StateAt
  <2>4. printed = {<<i, F[i] \ F[i - 1]>> : i \in 1..n+1} \ {<<i, {}>> : i \in 1..n+1}
    BY <2>2 DEF Printed
  <2> HIDE DEF printed, states, F
  <2>5. ASSUME NEW i \in 0..n+1 PROVE Followed(printed, i) = F[i]
    <3>1. ASSUME NEW x \in Followed(printed, i) PROVE x \in F[i]
      <4>1. PICK j \in 1..n+1 : j <= i /\ x \in F[j]
        BY <2>4 DEF Followed
      <4> QED BY <2>1, <2>3, <4>1, GrowingChain
    <3>2. ASSUME NEW x \in F[i] PROVE x \in Followed(printed, i)
      <4>1. PICK j \in 1..n+1 : j <= i /\ x \in F[j] \ F[j - 1]
        BY <2>1, <2>3, EntersChain
      <4>2. <<j, F[j] \ F[j - 1]>> \in printed
        BY <2>4, <4>1
      <4> QED BY <4>1, <4>2 DEF Followed
    <3> QED BY <3>1, <3>2
  <2>6. ASSUME NEW i \in 1..n+1, NEW j \in 1..n+1, i < j
        PROVE  (F[i] \ F[i - 1]) \cap (F[j] \ F[j - 1]) = {}
    <3>1. i \in 0..n+1 /\ j - 1 \in 0..n+1 /\ i <= j - 1
      BY <2>1, <2>6
    <3>2. F[i] \subseteq F[j - 1]
      BY <2>1, <2>3, <3>1, GrowingChain
    <3> QED BY <3>2
  <2>7. ASSUME NEW ins \in printed, NEW jns \in printed, ins # jns
        PROVE  ins[2] \cap jns[2] = {}
    <3>1. PICK i \in 1..n+1 : ins = <<i, F[i] \ F[i - 1]>>
      BY <2>4
    <3>2. PICK j \in 1..n+1 : jns = <<j, F[j] \ F[j - 1]>>
      BY <2>4
    <3>3. i < j \/ j < i
      BY <2>1, <2>7, <3>1, <3>2
    <3> QED BY <2>6, <3>1, <3>2, <3>3
  <2>8. \A i \in 0..n+1 : F[i] = P!StateAt(n, plan, i)
    BY DEF F
  <2> QED BY <2>5, <2>7, <2>8 DEF printed, states
<1> QED BY <1>1, PTL
=============================================================================
