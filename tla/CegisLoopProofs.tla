-------------------------- MODULE CegisLoopProofs --------------------------
(***************************************************************************)
(* Proofs about the main loop, for every update, spec, headroom, length    *)
(* and number of rounds.                                                   *)
(***************************************************************************)
EXTENDS CegisLoop, UpdatePlanProofs

(***************************************************************************)
(* The inductive invariant.  It says nothing about the files other         *)
(* processes write, so that it also holds next to the unsat core learner.  *)
(***************************************************************************)
FormulaInv == pc # "length" => formula = WellFormed(len)

PlanInv ==
    pc \in {"prepare", "checkFin", "scan"} =>
        \A q \in ces : Passes(LenOf(plan), plan, q)

ScanInv ==
    /\ pc = "checkFin" => todo = Mixed(LenOf(plan), plan)
    /\ pc \in {"scan", "decide"} => todo \subseteq Mixed(LenOf(plan), plan)
    /\ pc = "scan" => \A S \in todo : logs[S] \in {Answer(S), "empty", "absent"}
    /\ pc \in {"scan", "decide"} =>
           \A S \in Mixed(LenOf(plan), plan) \ todo : Counterexamples(S) = {}

MainInv ==
    /\ TypeOK
    /\ FormulaInv
    /\ PlanInv
    /\ ScanInv
    /\ OutputStaysWithinHeadroom

(***************************************************************************)
(* The operators the actions use.                                          *)
(***************************************************************************)

\* There is a first length and a first round.
LEMMA Limits ==
    /\ MaxLen \in Nat /\ 1 \in 1..MaxLen /\ 0 \in 0..MaxLen
    /\ MaxRounds \in Nat /\ 0 \in 0..MaxRounds /\ 1 \in 0..MaxRounds
  BY LoopAssumption

\* z3 reports a violation only when there is one, and none only when there is none.
LEMMA AnswerIsRight ==
    ASSUME NEW S
    PROVE  /\ Answer(S) = "unsat" => Counterexamples(S) = {}
           /\ Answer(S) = "sat" => Counterexamples(S) # {}
  BY DEF Answer

\* A state that the main loop verifies is an intermediate state of the plan.
LEMMA MixedStates ==
    ASSUME NEW n \in Nat, NEW p \in Plans(n), NEW S \in Mixed(n, p)
    PROVE  S \in States /\ \E i \in 1..n : p[i] = S
  BY DEF Mixed, Plans

\* A packet that violates a verified state is one the plan fails.
LEMMA CounterexampleRefutes ==
    ASSUME NEW n \in Nat, NEW p \in Plans(n), NEW S \in Mixed(n, p),
           NEW q \in Counterexamples(S)
    PROVE  ~Passes(n, p, q)
  BY MixedStates DEF Counterexamples, Passes

\* A plan of the formula with no violation in its mixed states is safe: the old
\* program is not one of its states.
LEMMA VerifiedIsSafe ==
    ASSUME NEW n \in Nat, NEW p \in WellFormed(n),
           \A S \in Mixed(n, p) : Counterexamples(S) = {}
    PROVE  SafePlan(n, p)
  <1> SUFFICES ASSUME NEW i \in 1..n, p[i] # Component, NEW q \in Packet
               PROVE  <<q, p[i]>> \notin Violates
    BY DEF SafePlan
  <1>1. p[i] # {} BY PlansLeaveOldProgram
  <1>2. p[i] \in Mixed(n, p) BY <1>1 DEF Mixed
  <1> QED BY <1>2 DEF Counterexamples

\* A chosen candidate is a plan of the formula that passes every counterexample.
LEMMA PreferredIsCandidate ==
    ASSUME NEW p \in Preferred(len, Candidates)
    PROVE  p \in formula /\ \A q \in ces : Passes(len, p, q)
  BY DEF Preferred, Candidates, Copies

\* A plan of the formula has the length being tried, an empty plan has length 0.
LEMMA PlanLength ==
    ASSUME TypeOK
    PROVE  /\ NoPlan \in Plans(0) /\ NoPlan \in AllPlans /\ LenOf(NoPlan) = 0
           /\ pc # "length" => \A p \in formula : LenOf(p) = len /\ p \in Plans(len)
           /\ pc \in {"prepare", "checkFin", "scan", "decide"} =>
                  LenOf(plan) \in 0..MaxLen /\ plan \in Plans(LenOf(plan))
  <1>1. NoPlan \in Plans(0) /\ NoPlan \in AllPlans /\ LenOf(NoPlan) = 0
    BY LoopAssumption DEF NoPlan, Plans, AllPlans, LenOf
  <1>2. ASSUME pc # "length", NEW p \in formula PROVE LenOf(p) = len /\ p \in Plans(len)
    <2>1. p \in [1..len -> States] /\ len \in Nat \ {0} BY <1>2, Limits DEF TypeOK, Plans
    <2>2. p # NoPlan
      <3>1. DOMAIN p = 1..len /\ DOMAIN NoPlan = 1..0 BY <2>1 DEF NoPlan
      <3>2. 1 \in 1..len /\ 1 \notin 1..0 BY <2>1
      <3> QED BY <3>1, <3>2
    <2> QED BY <2>1, <2>2 DEF LenOf, Plans
  <1> QED BY <1>1, <1>2, Limits DEF TypeOK

(***************************************************************************)
(* The initial states.                                                     *)
(***************************************************************************)

\* The loop starts in the invariant.
LEMMA InitInv == Init => MainInv
  <1> SUFFICES ASSUME Init PROVE MainInv
    OBVIOUS
  <1>1. NoPlan \in Plans(0) /\ NoPlan \in AllPlans
    BY LoopAssumption DEF NoPlan, Plans, AllPlans
  <1>2. WorkDirTypeOK
    BY DEF Init, WorkDirInit, WorkDirTypeOK
  <1>3. outputPlan.len = 0 /\ outputPlan.plan \in Plans(outputPlan.len)
    BY <1>1 DEF Init
  <1>4. TypeOK
    BY <1>1, <1>2, <1>3, Limits DEF Init, TypeOK
  <1>5. OutputStaysWithinHeadroom
    BY <1>3 DEF OutputStaysWithinHeadroom
  <1> QED BY <1>4, <1>5 DEF Init, MainInv, FormulaInv, PlanInv, ScanInv

(***************************************************************************)
(* The types, one step per action.                                         *)
(***************************************************************************)

\* Every step of the main loop keeps the types.
LEMMA MainStepType ==
    ASSUME TypeOK, MainNext
    PROVE  TypeOK'
  <1> USE LoopAssumption DEF WorkDirTypeOK, workDir
  <1>1. CASE StartLength
    <2>1. formula' \subseteq Plans(len) BY <1>1 DEF StartLength, extract_prev, WellFormed
    <2>2. ces' \subseteq Packet BY <1>1 DEF StartLength, extract_prev, TypeOK
    <2>3. formula' \subseteq Plans(len') BY <1>1, <2>1 DEF StartLength, extract_prev
    <2>4. UNCHANGED <<len, plan, todo, termination, outputPlan, result, handle, outputFin,
                      unsatLists>> /\ round' = 1 /\ crashed' = FALSE /\ pc' = "propose"
      BY <1>1 DEF StartLength, extract_prev
    <2> QED BY <2>2, <2>3, <2>4, Limits DEF TypeOK
  <1>2. CASE Propose
    <2>1. plan' \in formula /\ plan' \in AllPlans
      BY <1>2, PreferredIsCandidate DEF Propose, extract_plan, TypeOK, AllPlans
    <2> QED BY <1>2, <2>1 DEF Propose, extract_plan, TypeOK
  <1>17. CASE ProposeFails
    BY <1>17, PlanLength DEF ProposeFails, TypeOK
  <1>3. CASE NoCandidate
    BY <1>3 DEF NoCandidate, Verdict, TypeOK
  <1>4. CASE Prepare
    <2>1. Mixed(LenOf(plan), plan) \subseteq States
      BY <1>4, PlanLength, MixedStates DEF Prepare
    <2> QED BY <1>4, <2>1 DEF Prepare, TypeOK, Unlink
  <1>5. CASE SkipVerification
    BY <1>5 DEF SkipVerification, TypeOK
  <1>6. CASE Verify
    BY <1>6 DEF Verify, TypeOK
  <1>7. CASE ScanVerified
    BY <1>7 DEF ScanVerified, TypeOK
  <1>8. CASE ScanViolation
    BY <1>8 DEF ScanViolation, extract_packet, TypeOK, Counterexamples
  <1>9. CASE ScanNoAnswer
    BY <1>9 DEF ScanNoAnswer, TypeOK
  <1>10. CASE ScanEnd
    BY <1>10 DEF ScanEnd, TypeOK
  <1>11. CASE ScanCrash
    BY <1>11 DEF ScanCrash, TypeOK
  <1>12. CASE Accept
    <2>1. LenOf(plan) \in 0..MaxLen /\ plan \in Plans(LenOf(plan))
      BY <1>12, PlanLength DEF Accept
    <2>2. outputPlan'.len = LenOf(plan) /\ outputPlan'.plan = plan
      BY <1>12 DEF Accept
    <2>3. termination' \in {"empty", "DEAD", "ENDED", "EXIT"}
      BY <1>12 DEF Accept, Introspection, Verdict
    <2> HIDE DEF LenOf
    <2> QED BY <1>12, <2>1, <2>2, <2>3 DEF Accept, TypeOK
  <1>13. CASE NextRound
    BY <1>13 DEF NextRound, TypeOK
  <1>14. CASE RoundsExhausted
    BY <1>14 DEF RoundsExhausted, TypeOK
  <1>15. CASE NextLength
    <2>1. NoPlan \in AllPlans BY DEF NoPlan, Plans, AllPlans
    <2> QED BY <1>15, <2>1 DEF NextLength, TypeOK
  <1>16. CASE Report
    BY <1>16 DEF Report, TypeOK
  <1> QED BY <1>1, <1>2, <1>3, <1>4, <1>5, <1>6, <1>7, <1>8, <1>9, <1>10, <1>11,
             <1>12, <1>13, <1>14, <1>15, <1>16, <1>17 DEF MainNext, SoloNext
(***************************************************************************)
(* The other conjuncts, each with the actions that can disturb it.         *)
(***************************************************************************)

\* The formula is only replaced at the start of a length.
LEMMA MainStepFormula ==
    ASSUME TypeOK, FormulaInv, MainNext
    PROVE  FormulaInv'
  <1>1. CASE StartLength
    BY <1>1 DEF StartLength, extract_prev, FormulaInv
  <1>2. CASE NextLength
    BY <1>2 DEF NextLength, FormulaInv
  <1>3. CASE ~StartLength /\ ~NextLength
    <2>1. UNCHANGED <<formula, len>> /\ pc # "length"
      BY <1>3 DEF MainNext, SoloNext,
          StartLength, extract_prev, Propose, extract_plan, ProposeFails, NoCandidate, Prepare,
          SkipVerification, Verify,
          ScanVerified, ScanViolation, extract_packet, ScanNoAnswer, ScanEnd,
          ScanCrash, Accept,
          NextRound, RoundsExhausted, NextLength, Report
    <2> QED BY <2>1 DEF FormulaInv
  <1> QED BY <1>1, <1>2, <1>3

\* Until a counterexample is added the candidate passes all of them.
LEMMA MainStepPlan ==
    ASSUME TypeOK, PlanInv, MainNext
    PROVE  PlanInv'
  <1>1. CASE Propose
    <2>1. plan' \in formula /\ \A q \in ces : Passes(len, plan', q)
      BY <1>1, PreferredIsCandidate DEF Propose, extract_plan
    <2>2. UNCHANGED <<len, formula, ces>> /\ LenOf(plan)' = len
      BY <1>1, <2>1, PlanLength DEF Propose, LenOf
    <2> QED BY <2>1, <2>2 DEF PlanInv
  <1>4. CASE ProposeFails
    <2>1. LenOf(plan)' = 0
      BY <1>4 DEF ProposeFails, LenOf
    <2> QED BY <2>1 DEF PlanInv, Passes
  <1>2. CASE Prepare \/ Verify \/ ScanVerified
    <2>1. UNCHANGED <<len, plan, ces>> /\ pc \in {"prepare", "checkFin", "scan"}
      BY <1>2 DEF Prepare, Verify, ScanVerified
    <2> QED BY <2>1 DEF PlanInv, LenOf
  <1>3. CASE ~Propose /\ ~ProposeFails /\ ~(Prepare \/ Verify \/ ScanVerified)
    <2>1. pc' \notin {"prepare", "checkFin", "scan"}
      BY <1>3 DEF MainNext, SoloNext,
          StartLength, extract_prev, Propose, extract_plan, ProposeFails, NoCandidate, Prepare,
          SkipVerification, Verify,
          ScanVerified, ScanViolation, extract_packet, ScanNoAnswer, ScanEnd,
          ScanCrash, Accept,
          NextRound, RoundsExhausted, NextLength, Report
    <2> QED BY <2>1 DEF PlanInv, LenOf
  <1> QED BY <1>1, <1>2, <1>3, <1>4

\* The scan only drops states that z3 found correct.
LEMMA MainStepScan ==
    ASSUME TypeOK, ScanInv, MainNext
    PROVE  ScanInv'
  <1>1. CASE Prepare
    BY <1>1 DEF Prepare, ScanInv, LenOf
  <1>2. CASE Verify
    <2>1. todo = Mixed(LenOf(plan), plan)
      BY <1>2 DEF Verify, ScanInv
    <2>2. \A S \in todo : logs'[S] \in {Answer(S), "empty", "absent"}
      BY <1>2 DEF Verify, VerifyOutcomes
    <2>3. UNCHANGED <<len, plan, todo>> /\ pc' = "scan"
      BY <1>2 DEF Verify
    <2> QED BY <2>1, <2>2, <2>3 DEF ScanInv, LenOf
  <1>3. CASE ScanVerified
    <2>1. PICK S \in todo : logs[S] = "unsat" /\ todo' = todo \ {S}
      BY <1>3 DEF ScanVerified
    <2>2. pc = "scan" /\ pc' = "scan" /\ UNCHANGED <<len, plan, logs>>
      BY <1>3 DEF ScanVerified
    <2>3. Answer(S) = "unsat"
      BY <2>1, <2>2 DEF ScanInv, LenOf
    <2>4. Counterexamples(S) = {}
      BY <2>3, AnswerIsRight
    <2> QED BY <2>1, <2>2, <2>4 DEF ScanInv, LenOf
  <1>4. CASE ScanViolation \/ ScanNoAnswer \/ ScanEnd
    <2>1. pc = "scan" /\ pc' = "decide" /\ UNCHANGED <<len, plan, todo>>
      BY <1>4 DEF ScanViolation, extract_packet, ScanNoAnswer, ScanEnd
    <2> QED BY <2>1 DEF ScanInv, LenOf
  <1>5. CASE SkipVerification
    <2>1. pc = "checkFin" /\ pc' = "decide" /\ UNCHANGED <<len, plan, todo>>
      BY <1>5 DEF SkipVerification
    <2> QED BY <2>1 DEF ScanInv, LenOf
  <1>6. CASE ~Prepare /\ ~Verify /\ ~ScanVerified /\ ~SkipVerification
             /\ ~(ScanViolation \/ ScanNoAnswer \/ ScanEnd)
    <2>1. pc' \notin {"checkFin", "scan", "decide"}
      BY <1>6 DEF MainNext, SoloNext,
          StartLength, extract_prev, Propose, extract_plan, ProposeFails, NoCandidate, Prepare,
          SkipVerification, Verify,
          ScanVerified, ScanViolation, extract_packet, ScanNoAnswer, ScanEnd,
          ScanCrash, Accept,
          NextRound, RoundsExhausted, NextLength, Report
    <2> QED BY <2>1 DEF ScanInv, LenOf
  <1> QED BY <1>1, <1>2, <1>3, <1>4, <1>5, <1>6

\* output-plan is only replaced by a plan of the current formula.
LEMMA MainStepOutput ==
    ASSUME TypeOK, FormulaInv, OutputStaysWithinHeadroom, MainNext
    PROVE  OutputStaysWithinHeadroom'
  <1>1. CASE Accept
    <2>1. outputPlan'.len = LenOf(plan) /\ outputPlan'.plan = plan
      BY <1>1 DEF Accept
    <2>2. CASE plan = NoPlan
      BY <2>1, <2>2, PlanLength DEF OutputStaysWithinHeadroom
    <2>3. CASE plan # NoPlan
      <3>1. plan \in WellFormed(len) /\ len \in Nat /\ LenOf(plan) = len
        BY <1>1, <2>3, Limits DEF Accept, TypeOK, FormulaInv, LenOf
      <3>2. StaysWithinHeadroom(len, plan)
        BY <3>1, WellFormedPlansStayWithinHeadroom
      <3> QED BY <2>1, <3>1, <3>2 DEF OutputStaysWithinHeadroom
    <2> QED BY <2>2, <2>3
  <1>2. CASE ~Accept
    <2>1. UNCHANGED outputPlan
      BY <1>2 DEF MainNext, SoloNext,
          StartLength, extract_prev, Propose, extract_plan, ProposeFails, NoCandidate, Prepare,
          SkipVerification, Verify,
          ScanVerified, ScanViolation, extract_packet, ScanNoAnswer, ScanEnd,
          ScanCrash, Accept,
          NextRound, RoundsExhausted, NextLength, Report
    <2> QED BY <2>1 DEF OutputStaysWithinHeadroom
  <1> QED BY <1>1, <1>2

\* Every step of the main loop keeps the invariant.
LEMMA MainStepInv ==
    ASSUME MainInv, MainNext
    PROVE  MainInv'
  BY MainStepType, MainStepFormula, MainStepPlan, MainStepScan, MainStepOutput DEF MainInv

\* So does any step that leaves the main process alone and types its files.
LEMMA MainIdleInv ==
    ASSUME MainInv, UNCHANGED main, WorkDirTypeOK'
    PROVE  MainInv'
  <1>1. UNCHANGED <<pc, len, formula, round, ces, plan, logs, todo, termination,
                    outputPlan, crashed>>
    BY DEF main
  <1>2. TypeOK' BY <1>1 DEF MainInv, TypeOK
  <1>3. FormulaInv' /\ PlanInv' /\ ScanInv' /\ OutputStaysWithinHeadroom'
    BY <1>1 DEF MainInv, FormulaInv, PlanInv, ScanInv, OutputStaysWithinHeadroom, LenOf
  <1> QED BY <1>2, <1>3 DEF MainInv
(***************************************************************************)
(* What the invariant says about one step or state.                        *)
(***************************************************************************)

\* After a complete scan the candidate is safe.
LEMMA InvCompleteScan == MainInv => CompleteScanIsSafe
  <1> SUFFICES ASSUME MainInv, pc = "decide", todo = {} PROVE SafePlan(LenOf(plan), plan)
    BY DEF CompleteScanIsSafe
  <1>1. CASE plan = NoPlan
    BY <1>1, PlanLength DEF MainInv, SafePlan
  <1>2. CASE plan # NoPlan
    <2>1. plan \in WellFormed(len) /\ len \in Nat /\ LenOf(plan) = len
      BY <1>2, Limits DEF MainInv, TypeOK, FormulaInv, LenOf
    <2>2. \A S \in Mixed(len, plan) : Counterexamples(S) = {}
      BY <2>1 DEF MainInv, ScanInv
    <2> QED BY <2>1, <2>2, VerifiedIsSafe
  <1> QED BY <1>1, <1>2

\* A correct plan of the formula is a candidate, as long as no core excludes it.
LEMMA CorrectIsCandidate ==
    ASSUME TypeOK, NEW p \in formula, \A q \in Packet : Passes(len, p, q),
           AvoidsCores(len, p, unsatLists)
    PROVE  p \in Candidates
  <1>1. \E q \in Packet : Passes(len, p, q) BY ViolatesAssumption
  <1> QED BY <1>1 DEF Candidates, Copies, TypeOK

(***************************************************************************)
(* The loop on its own.                                                    *)
(***************************************************************************)

\* z3 gave up on the length of an empty plan, and SAT in file "result" stands for
\* a packet that the candidate fails.
DecideInv ==
    /\ pc \in {"prepare", "checkFin", "scan", "decide"} /\ plan = NoPlan
           => len \in SolverFails
    /\ pc = "decide" /\ result = "SAT"
           => plan \in formula /\ \E q \in ces : ~Passes(len, plan, q)

\* Without the learner no core and no FIN appears, and only the scan writes the
\* outcome of a verification.
SoloInv ==
    /\ MainInv
    /\ unsatLists = {}
    /\ pc = "scan" => result \in {"absent", "UNSAT"}
    /\ pc = "checkFin" => result = "absent"
    /\ DecideInv

\* The violation that ends a scan is one of the candidate.
LEMMA ViolationRefutes ==
    ASSUME MainInv, ScanViolation
    PROVE  plan \in formula /\ \E q \in ces' \ ces : ~Passes(len, plan, q)
  <1>1. PICK S \in todo : \E q \in Counterexamples(S) : ces' = ces \cup {q}
    BY DEF ScanViolation, extract_packet
  <1>2. PICK q \in Counterexamples(S) : ces' = ces \cup {q}
    BY <1>1
  <1>3. S \in Mixed(LenOf(plan), plan) /\ pc = "scan"
    BY DEF MainInv, ScanInv, ScanViolation
  <1>4. plan # NoPlan
    BY <1>3, PlanLength DEF Mixed, MainInv
  <1>5. plan \in formula /\ len \in Nat /\ plan \in Plans(len) /\ LenOf(plan) = len
    BY <1>3, <1>4, Limits, PlanLength DEF MainInv, TypeOK
  <1>6. ~Passes(len, plan, q)
    BY <1>3, <1>5, CounterexampleRefutes
  <1>7. q \notin ces
    BY <1>3, <1>5, <1>6 DEF MainInv, PlanInv
  <1> QED BY <1>2, <1>5, <1>6, <1>7

\* The scan writes SAT only for a violation of the candidate.
LEMMA MainStepDecide ==
    ASSUME SoloInv, MainNext
    PROVE  DecideInv'
  <1> USE DEF DecideInv
  <1>1. CASE Propose
    <2>1. plan' \in formula BY <1>1, PreferredIsCandidate DEF Propose, extract_plan
    <2>2. plan' # NoPlan
      BY <1>1, <2>1, Limits, PlanLength DEF Propose, SoloInv, MainInv, TypeOK
    <2> QED BY <1>1, <2>2 DEF Propose, extract_plan
  <1>2. CASE ProposeFails
    BY <1>2 DEF ProposeFails
  <1>3. CASE ScanViolation
    <2>1. /\ plan \in formula /\ \E q \in ces' : ~Passes(len, plan, q)
          /\ UNCHANGED <<len, plan, formula>> /\ pc = "scan"
      BY <1>3, ViolationRefutes DEF ScanViolation, extract_packet, SoloInv
    <2> QED BY <2>1 DEF SoloInv
  <1>4. CASE Prepare \/ SkipVerification \/ Verify \/ ScanVerified \/ ScanNoAnswer \/ ScanEnd
    <2>1. /\ UNCHANGED <<len, plan, formula>>
          /\ pc \in {"prepare", "checkFin", "scan"}
          /\ pc' = "decide" => result' # "SAT"
      BY <1>4 DEF SoloInv, workDir, Prepare, SkipVerification, Verify, ScanVerified,
          ScanNoAnswer, ScanEnd
    <2> QED BY <2>1 DEF SoloInv
  <1>5. CASE ~Propose /\ ~ProposeFails /\ ~ScanViolation
             /\ ~(Prepare \/ SkipVerification \/ Verify \/ ScanVerified \/ ScanNoAnswer \/ ScanEnd)
    <2>1. pc' \notin {"prepare", "checkFin", "scan", "decide"}
      BY <1>5 DEF MainNext, SoloNext, StartLength, extract_prev, NoCandidate, ScanCrash,
          Accept, NextRound, RoundsExhausted, NextLength, Report
    <2> QED BY <2>1
  <1> QED BY <1>1, <1>2, <1>3, <1>4, <1>5

\* The strengthened invariant is inductive for the loop on its own.
LEMMA SoloInductive ==
    /\ Init => SoloInv
    /\ SoloInv /\ [Next]_vars => SoloInv'
  <1>1. Init => SoloInv
    BY InitInv DEF Init, WorkDirInit, SoloInv, DecideInv
  <1>2. ASSUME SoloInv, MainNext PROVE SoloInv'
    <2>1. MainInv' BY <1>2, MainStepInv DEF SoloInv
    <2>2. unsatLists' = {} BY <1>2 DEF SoloInv, MainNext, SoloNext, workDir,
        StartLength, extract_prev, Propose, extract_plan, ProposeFails, NoCandidate, Prepare,
        SkipVerification, Verify,
        ScanVerified, ScanViolation, extract_packet, ScanNoAnswer, ScanEnd,
        ScanCrash, Accept,
        NextRound, RoundsExhausted, NextLength, Report
    <2>3. pc' = "scan" => result' \in {"absent", "UNSAT"}
      BY <1>2 DEF SoloInv, MainNext, SoloNext, workDir,
          StartLength, extract_prev, Propose, extract_plan, ProposeFails, NoCandidate, Prepare,
          SkipVerification, Verify,
          ScanVerified, ScanViolation, extract_packet, ScanNoAnswer, ScanEnd,
          ScanCrash, Accept,
          NextRound, RoundsExhausted, NextLength, Report
    <2>4. pc' = "checkFin" => result' = "absent"
      BY <1>2 DEF SoloInv, MainNext, SoloNext, workDir,
          StartLength, extract_prev, Propose, extract_plan, ProposeFails, NoCandidate, Prepare,
          SkipVerification, Verify,
          ScanVerified, ScanViolation, extract_packet, ScanNoAnswer, ScanEnd,
          ScanCrash, Accept,
          NextRound, RoundsExhausted, NextLength, Report
    <2>5. DecideInv' BY <1>2, MainStepDecide
    <2> QED BY <2>1, <2>2, <2>3, <2>4, <2>5 DEF SoloInv
  <1>3. ASSUME SoloInv, UNCHANGED vars PROVE SoloInv'
    <2>1. UNCHANGED <<main, result, handle, outputFin, unsatLists>>
      BY <1>3 DEF vars, workDir
    <2>2. WorkDirTypeOK' BY <1>3, <2>1 DEF SoloInv, MainInv, TypeOK, WorkDirTypeOK
    <2>3. MainInv' BY <1>3, <2>1, <2>2, MainIdleInv DEF SoloInv
    <2> QED BY <1>3, <2>1, <2>3 DEF SoloInv, DecideInv, main
  <1> QED BY <1>1, <1>2, <1>3 DEF Next, MainNext, Terminated

\* Every behaviour of the loop keeps the strengthened invariant.
THEOREM SoloInvariant == Spec => []SoloInv
  BY SoloInductive, PTL DEF Spec

\* Every variable of the main loop always has its type, for every update.
THEOREM TypeCorrect == Spec => []TypeOK
  <1>1. SoloInv => TypeOK BY DEF SoloInv, MainInv
  <1> QED BY SoloInvariant, <1>1, PTL

\* The plan in output-plan always stays within the headroom: the whole chain from
\* the counters of synthesizer_spec.py to cegis_loop.py's "cp plan.pickle
\* state.pickle" keeps it, in every round and for every length.
THEOREM OutputFeasible == Spec => []OutputStaysWithinHeadroom
  <1>1. SoloInv => OutputStaysWithinHeadroom BY DEF SoloInv, MainInv
  <1> QED BY SoloInvariant, <1>1, PTL

\* A candidate whose mixed states were all scanned as "unsat" is correct.
THEOREM CompleteScanSafe == Spec => []CompleteScanIsSafe
  <1>1. SoloInv => CompleteScanIsSafe BY InvCompleteScan DEF SoloInv
  <1> QED BY SoloInvariant, <1>1, PTL

\* "Could not find a update plan of this size" is only said when every plan the
\* formula admits fails for some packet.
THEOREM DeadSound == Spec => DeadIsSound
  <1> DEFINE A == pc = "propose" /\ pc' = "endLength"
                     => \A p \in formula : \E q \in Packet : ~Passes(len, p, q)
  <1>1. ASSUME SoloInv, MainNext PROVE A
    <2> SUFFICES ASSUME pc = "propose", pc' = "endLength", NEW p \in formula,
                        \A q \in Packet : Passes(len, p, q)
                 PROVE  FALSE
      OBVIOUS
    <2>1. Candidates = {}
      BY <1>1 DEF MainNext, SoloNext,
          StartLength, extract_prev, Propose, extract_plan, ProposeFails, NoCandidate, Prepare,
          SkipVerification, Verify,
          ScanVerified, ScanViolation, extract_packet, ScanNoAnswer, ScanEnd,
          ScanCrash, Accept,
          NextRound, RoundsExhausted, NextLength, Report
    <2>2. AvoidsCores(len, p, unsatLists)
      BY <1>1 DEF SoloInv, AvoidsCores
    <2> QED BY <1>1, <2>1, <2>2, CorrectIsCandidate DEF SoloInv, MainInv
  <1>2. SoloInv /\ [Next]_vars => [A]_vars
    BY <1>1 DEF Next, MainNext, Terminated
  <1> QED BY SoloInvariant, <1>2, PTL DEF Spec, DeadIsSound

\* A round that finds a counterexample finds a new one, which refutes the
\* candidate of the round.
THEOREM RoundsProgress == Spec => RoundsMakeProgress
  <1> DEFINE A == pc = "scan" /\ pc' = "decide" /\ result' = "SAT"
                     => \E q \in ces' \ ces : ~Passes(len, plan, q)
  <1>1. ASSUME SoloInv, MainNext PROVE A
    <2> SUFFICES ASSUME pc = "scan", pc' = "decide", result' = "SAT"
                 PROVE  \E q \in ces' \ ces : ~Passes(len, plan, q)
      OBVIOUS
    <2>1. ScanViolation
      BY <1>1 DEF SoloInv, MainNext, SoloNext, workDir,
          StartLength, extract_prev, Propose, extract_plan, ProposeFails, NoCandidate, Prepare,
          SkipVerification, Verify,
          ScanVerified, ScanViolation, extract_packet, ScanNoAnswer, ScanEnd,
          ScanCrash, Accept,
          NextRound, RoundsExhausted, NextLength, Report
    <2> QED BY <1>1, <2>1, ViolationRefutes DEF SoloInv
  <1>2. SoloInv /\ [Next]_vars => [A]_vars
    BY <1>1 DEF Next, MainNext, Terminated
  <1> QED BY SoloInvariant, <1>2, PTL DEF Spec, RoundsMakeProgress

\* Every length ends for one of the reasons cegis_loop.py has, and the reason is
\* true: DEAD, an accepted plan of the formula, the last round's counterexample,
\* a solver that gave up, or a crash.
THEOREM LengthDecided == Spec => LengthIsDecided
  <1> DEFINE A == pc # "endLength" /\ pc' = "endLength" /\ ~crashed' =>
         \/ /\ termination' = "DEAD"
            /\ \A p \in formula : \E q \in Packet : ~Passes(len, p, q)
         \/ plan \in formula /\ outputPlan' = [len |-> len, plan |-> plan]
         \/ len \in SolverFails /\ plan = NoPlan
         \/ round = MaxRounds /\ \E q \in ces : ~Passes(len, plan, q)
  <1>1. ASSUME SoloInv, MainNext, pc # "endLength", pc' = "endLength", ~crashed' PROVE A
    <2>1. NoCandidate \/ Accept \/ RoundsExhausted
      BY <1>1 DEF MainNext, SoloNext,
          StartLength, extract_prev, Propose, extract_plan, ProposeFails, Prepare,
          SkipVerification, Verify,
          ScanVerified, ScanViolation, extract_packet, ScanNoAnswer, ScanEnd,
          ScanCrash, NextRound, NextLength, Report
    <2>2. CASE NoCandidate
      <3>1. termination' = "DEAD"
        BY <2>2 DEF NoCandidate, Verdict
      <3>2. ASSUME NEW p \in formula, \A q \in Packet : Passes(len, p, q) PROVE FALSE
        BY <1>1, <2>2, <3>2, CorrectIsCandidate
           DEF NoCandidate, SoloInv, MainInv, AvoidsCores
      <3> QED BY <3>1, <3>2
    <2>3. CASE Accept
      <3>1. pc = "decide" /\ outputPlan' = [len |-> LenOf(plan), plan |-> plan]
        BY <2>3 DEF Accept
      <3>2. CASE plan = NoPlan
        BY <1>1, <3>1, <3>2 DEF SoloInv, DecideInv
      <3>3. CASE plan # NoPlan
        <4>1. plan \in formula
          BY <1>1, <3>1, <3>3 DEF SoloInv, MainInv, TypeOK
        <4>2. LenOf(plan) = len
          BY <3>3 DEF LenOf
        <4> QED BY <3>1, <4>1, <4>2
      <3> QED BY <3>2, <3>3
    <2>4. CASE RoundsExhausted
      BY <1>1, <2>4 DEF RoundsExhausted, SoloInv, DecideInv
    <2> QED BY <2>1, <2>2, <2>3, <2>4
  <1>2. SoloInv /\ [Next]_vars => [A]_vars
    BY <1>1 DEF Next, MainNext, Terminated
  <1> QED BY SoloInvariant, <1>2, PTL DEF Spec, LengthIsDecided

(***************************************************************************)
(* Longer plans under an objective.                                        *)
(***************************************************************************)

\* output-plan holds a plan of a formula, of a length tried before this one until
\* this length is left.
OutputInv ==
    outputPlan.len > 0 =>
        /\ outputPlan.plan \in WellFormed(outputPlan.len)
        /\ outputPlan.len <= len
        /\ pc \notin {"endLength", "done"} => outputPlan.len < len

Maximizing == Objective \in {"maximize", "minimize"} /\ NewProgramIsSafe

OutputSafe == outputPlan.len > 0 /\ SafePlan(outputPlan.len, outputPlan.plan)

\* The candidate leaves no less slack than a correct plan found before.
BestInv ==
    Maximizing /\ OutputSafe /\ pc \in {"prepare", "checkFin", "scan", "decide"}
        /\ plan \in formula
        => DIFF(len, plan) >= DIFF(outputPlan.len, outputPlan.plan)

\* A correct plan of an earlier length, extended, is a candidate.
LEMMA ExtendedIsCandidate ==
    ASSUME SoloInv, OutputInv, OutputSafe, NewProgramIsSafe, pc = "propose"
    PROVE  Extend(outputPlan.len, outputPlan.plan, len) \in Candidates
  <1> DEFINE m == outputPlan.len
             p == outputPlan.plan
             e == Extend(m, p, len)
  <1>1. m \in Nat \ {0} /\ len \in Nat /\ m <= len /\ p \in WellFormed(m) /\ p \in Plans(m)
    BY Limits DEF OutputInv, OutputSafe, SoloInv, MainInv, TypeOK
  <1>2. e \in formula
    BY <1>1, PlansExtend DEF SoloInv, MainInv, FormulaInv
  <1>3. ASSUME NEW q \in Packet, NEW i \in 1..len PROVE <<q, e[i]>> \notin Violates
    <2>1. e[i] = Component \/ (i \in 1..m /\ e[i] = p[i])
      BY <1>1 DEF Extend
    <2>2. e[i] # Component => <<q, e[i]>> \notin Violates
      BY <2>1 DEF OutputSafe, SafePlan
    <2> QED BY <2>2 DEF NewProgramIsSafe
  <1>4. \A q \in Packet : Passes(len, e, q)
    BY <1>3 DEF Passes
  <1>5. AvoidsCores(len, e, unsatLists)
    BY DEF SoloInv, AvoidsCores
  <1> QED BY <1>2, <1>4, <1>5, CorrectIsCandidate DEF SoloInv, MainInv

\* What z3 prefers under an objective has the largest least slack.
LEMMA PreferredIsBest ==
    ASSUME Objective \in {"maximize", "minimize"}, NEW n \in Nat, NEW C \in SUBSET Plans(n),
           NEW p \in Preferred(n, C), NEW q \in C
    PROVE  DIFF(n, p) >= DIFF(n, q)
  <1>1. PICK order \in Orders(n) : ~Better(n, q, p, order)
    BY DEF Preferred
  <1>2. ~(DIFF(n, q) > DIFF(n, p))
    BY <1>1 DEF Better
  <1>3. DIFF(n, q) \in Nat /\ DIFF(n, p) \in Nat
    BY DIFFIsLeast DEF Preferred
  <1> QED BY <1>2, <1>3

\* Every step keeps what is known of output-plan.
LEMMA StepOutput ==
    ASSUME SoloInv, OutputInv, MainNext
    PROVE  OutputInv'
  <1>1. len \in Nat /\ outputPlan.len \in Nat
    BY Limits DEF SoloInv, MainInv, TypeOK
  <1>2. CASE Accept
    <2>1. outputPlan'.len = LenOf(plan) /\ outputPlan'.plan = plan /\ len' = len
          /\ pc' = "endLength" /\ pc = "decide"
      BY <1>2 DEF Accept
    <2>2. CASE plan = NoPlan
      BY <2>1, <2>2, PlanLength DEF OutputInv, SoloInv, MainInv
    <2>3. CASE plan # NoPlan
      <3>1. LenOf(plan) = len /\ plan \in WellFormed(len)
        BY <2>1, <2>3 DEF LenOf, SoloInv, MainInv, TypeOK, FormulaInv
      <3> QED BY <1>1, <2>1, <3>1 DEF OutputInv
    <2> QED BY <2>2, <2>3
  <1>3. CASE NextLength
    BY <1>1, <1>3 DEF NextLength, OutputInv
  <1>4. CASE ~Accept /\ ~NextLength
    <2>1. /\ UNCHANGED <<outputPlan, len>>
          /\ pc \in {"endLength", "done"} => pc' \in {"endLength", "done"}
      BY <1>4 DEF MainNext, SoloNext,
          StartLength, extract_prev, Propose, extract_plan, ProposeFails, NoCandidate, Prepare,
          SkipVerification, Verify,
          ScanVerified, ScanViolation, extract_packet, ScanNoAnswer, ScanEnd,
          ScanCrash, NextRound, RoundsExhausted, Report
    <2> QED BY <2>1 DEF OutputInv
  <1> QED BY <1>2, <1>3, <1>4

\* Every step keeps the candidate at least as good as the plan found before.
LEMMA StepBest ==
    ASSUME SoloInv, OutputInv, BestInv, MainNext
    PROVE  BestInv'
  <1>1. CASE Propose
    <2> SUFFICES ASSUME Maximizing, OutputSafe
                 PROVE  DIFF(len, plan') >= DIFF(outputPlan.len, outputPlan.plan)
      BY <1>1 DEF Propose, extract_plan, BestInv, OutputSafe, Maximizing
    <2>1. pc = "propose" /\ plan' \in Preferred(len, Candidates)
      BY <1>1 DEF Propose, extract_plan
    <2>2. Extend(outputPlan.len, outputPlan.plan, len) \in Candidates
      BY <2>1, ExtendedIsCandidate DEF Maximizing
    <2>3. Candidates \in SUBSET Plans(len) /\ len \in Nat
      <3>1. TypeOK
        BY DEF SoloInv, MainInv
      <3>2. formula \subseteq Plans(len)
        BY <2>1, <3>1, PlanLength
      <3>3. len \in Nat
        BY <3>1, Limits DEF TypeOK
      <3> QED BY <3>2, <3>3 DEF Candidates
    <2>4. DIFF(len, plan') >= DIFF(len, Extend(outputPlan.len, outputPlan.plan, len))
      BY <2>1, <2>2, <2>3, PreferredIsBest DEF Maximizing
    <2>5. outputPlan.len \in Nat \ {0} /\ outputPlan.len <= len
          /\ outputPlan.plan \in WellFormed(outputPlan.len)
      BY Limits DEF OutputSafe, OutputInv, SoloInv, MainInv, TypeOK
    <2> QED BY <2>3, <2>4, <2>5, PlansExtend
  <1>2. CASE ProposeFails
    <2>1. plan' = NoPlan /\ UNCHANGED <<formula, len>> /\ pc = "propose"
      BY <1>2 DEF ProposeFails
    <2>2. NoPlan \notin formula
      BY <2>1, Limits, PlanLength DEF SoloInv, MainInv, TypeOK
    <2> QED BY <2>1, <2>2 DEF BestInv
  <1>3. CASE Prepare \/ SkipVerification \/ Verify \/ ScanVerified \/ ScanViolation
             \/ ScanNoAnswer \/ ScanEnd
    <2>1. /\ UNCHANGED <<len, plan, formula, outputPlan>>
          /\ pc \in {"prepare", "checkFin", "scan"}
      BY <1>3 DEF Prepare, SkipVerification, Verify, ScanVerified, ScanViolation,
          extract_packet, ScanNoAnswer, ScanEnd
    <2> QED BY <2>1 DEF BestInv, OutputSafe, Maximizing
  <1>4. CASE ~Propose /\ ~ProposeFails
             /\ ~(Prepare \/ SkipVerification \/ Verify \/ ScanVerified \/ ScanViolation
                  \/ ScanNoAnswer \/ ScanEnd)
    <2>1. pc' \notin {"prepare", "checkFin", "scan", "decide"}
      BY <1>4 DEF MainNext, SoloNext, StartLength, extract_prev, NoCandidate, ScanCrash,
          Accept, NextRound, RoundsExhausted, NextLength, Report
    <2> QED BY <2>1 DEF BestInv
  <1> QED BY <1>1, <1>2, <1>3, <1>4

\* Trying longer sequences never loses slack: a plan that replaces a correct one
\* in output-plan leaves at least as much, for every update whose new program is
\* correct and either objective.  The shorter plan, extended, is always among the
\* candidates z3 chooses from.
THEOREM LongerPlans == Spec => LongerPlansAreNoWorse
  <1> DEFINE A == (/\ Objective \in {"maximize", "minimize"} /\ NewProgramIsSafe
                   /\ outputPlan.len > 0 /\ SafePlan(outputPlan.len, outputPlan.plan)
                   /\ outputPlan'.len > 0)
           => DIFF(outputPlan'.len, outputPlan'.plan) >= DIFF(outputPlan.len, outputPlan.plan)
             Inv == SoloInv /\ OutputInv /\ BestInv
  <1>1. Init => OutputInv /\ BestInv
    BY DEF Init, OutputInv, BestInv
  <1>2. ASSUME Inv, UNCHANGED vars PROVE OutputInv' /\ BestInv' /\ A
    <2>1. UNCHANGED <<pc, len, plan, formula, outputPlan>>
      BY <1>2 DEF vars, main
    <2>2. outputPlan.len \in Nat /\ outputPlan.plan \in Plans(outputPlan.len)
      <3>1. outputPlan.len \in 0..MaxLen /\ outputPlan.plan \in Plans(outputPlan.len)
        BY <1>2 DEF SoloInv, MainInv, TypeOK
      <3> QED BY <3>1, Limits
    <2>3. DIFF(outputPlan.len, outputPlan.plan) \in Nat
      BY <2>2, DIFFIsLeast
    <2> QED BY <1>2, <2>1, <2>3 DEF OutputInv, BestInv, OutputSafe, Maximizing
  <1>3. ASSUME Inv, MainNext PROVE A
    <2>1. CASE Accept
      <3> SUFFICES ASSUME Maximizing, OutputSafe, outputPlan'.len > 0
                   PROVE  DIFF(outputPlan'.len, outputPlan'.plan)
                            >= DIFF(outputPlan.len, outputPlan.plan)
        BY DEF Maximizing, OutputSafe
      <3>1. outputPlan'.len = LenOf(plan) /\ outputPlan'.plan = plan /\ pc = "decide"
        BY <2>1 DEF Accept
      <3>2. plan # NoPlan
        BY <1>3, <3>1, PlanLength DEF SoloInv, MainInv
      <3>3. plan \in formula /\ LenOf(plan) = len
        BY <1>3, <3>1, <3>2 DEF LenOf, SoloInv, MainInv, TypeOK
      <3> QED BY <1>3, <3>1, <3>3 DEF BestInv
    <2>2. CASE ~Accept
      <3>1. UNCHANGED outputPlan
        BY <1>3, <2>2 DEF MainNext, SoloNext,
            StartLength, extract_prev, Propose, extract_plan, ProposeFails, NoCandidate,
            Prepare, SkipVerification, Verify,
            ScanVerified, ScanViolation, extract_packet, ScanNoAnswer, ScanEnd,
            ScanCrash, NextRound, RoundsExhausted, NextLength, Report
      <3>2. outputPlan.len \in Nat /\ outputPlan.plan \in Plans(outputPlan.len)
        BY <1>3, Limits DEF SoloInv, MainInv, TypeOK
      <3>3. DIFF(outputPlan.len, outputPlan.plan) \in Nat
        BY <3>2, DIFFIsLeast
      <3> QED BY <3>1, <3>3
    <2> QED BY <2>1, <2>2
  <1>4. Inv /\ [Next]_vars => Inv'
    BY <1>2, SoloInductive, StepOutput, StepBest DEF Next, MainNext, Terminated
  <1>5. Inv /\ [Next]_vars => [A]_vars
    BY <1>2, <1>3 DEF Next, MainNext, Terminated
  <1>6. Init => Inv BY <1>1, SoloInductive
  <1> QED BY <1>4, <1>5, <1>6, PTL DEF Spec, LongerPlansAreNoWorse
=============================================================================
