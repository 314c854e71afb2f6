--------------------------- MODULE FlexPlanProofs ---------------------------
(***************************************************************************)
(* Proofs about the whole run: what each process guarantees on its own     *)
(* survives the interleaving, except for the outcome in file "result".     *)
(***************************************************************************)
EXTENDS FlexPlan, CegisLoopProofs, UnsatCoreLearnerProofs

SysInv == MainInv /\ LearnInv

\* The main loop never writes what the learner relies on.
LEMMA MainKeepsCores ==
    ASSUME MainNext
    PROVE  UNCHANGED <<outputFin, unsatLists>>
  BY DEF MainNext, SoloNext, workDir, StartLength, extract_prev, Propose, extract_plan,
      ProposeFails, NoCandidate, Prepare, SkipVerification,
         Verify, ScanVerified, ScanViolation, extract_packet, ScanNoAnswer, ScanEnd,
         ScanCrash, Accept,
         NextRound, RoundsExhausted, NextLength, Report

\* Both processes keep both invariants.
THEOREM SysInvariant == SysSpec => []SysInv
  <1>1. SysInit => SysInv
    BY InitInv, LearnerInitInv DEF SysInit, SysInv, Init
  <1>2. ASSUME SysInv, MainStep PROVE SysInv'
    <2>1. MainInv'
      BY <1>2, MainStepInv DEF SysInv, MainStep
    <2>2. WorkDirTypeOK'
      BY <2>1 DEF MainInv, TypeOK
    <2>3. UNCHANGED <<learner, outputFin, unsatLists>>
      BY <1>2, MainKeepsCores DEF MainStep
    <2>4. LearnInv'
      BY <1>2, <2>2, <2>3, LearnerIdleInv DEF SysInv
    <2> QED BY <2>1, <2>4 DEF SysInv
  <1>3. ASSUME SysInv, LearnerStep PROVE SysInv'
    <2>1. LearnInv'
      BY <1>3, LearnerStepInv DEF SysInv, LearnerStep
    <2>2. WorkDirTypeOK'
      BY <2>1 DEF LearnInv, LearnerTypeOK
    <2>3. MainInv'
      BY <1>3, <2>2, MainIdleInv DEF SysInv, LearnerStep
    <2> QED BY <2>1, <2>3 DEF SysInv
  <1>4. ASSUME SysInv, UNCHANGED sysVars PROVE SysInv'
    <2>1. UNCHANGED <<main, learner, result, handle, outputFin, unsatLists>>
      BY <1>4 DEF sysVars, workDir
    <2>2. WorkDirTypeOK'
      BY <1>4, <2>1 DEF SysInv, MainInv, TypeOK, WorkDirTypeOK
    <2> QED BY <1>4, <2>1, <2>2, MainIdleInv, LearnerIdleInv DEF SysInv
  <1>5. SysInv /\ [SysNext]_sysVars => SysInv'
    BY <1>2, <1>3, <1>4 DEF SysNext, RunOver
  <1> QED BY <1>1, <1>5, PTL DEF SysSpec

\* Types, feasibility of the output, safety after a complete scan and soundness
\* of the cores hold in the whole run as they do for each process.
THEOREM SysSafety ==
    SysSpec => [](SysTypeOK /\ OutputStaysWithinHeadroom /\ CompleteScanIsSafe
                  /\ CoresAreSound /\ FinIsComplete)
  <1>1. SysInv => SysTypeOK /\ OutputStaysWithinHeadroom /\ FinIsComplete
    BY DEF SysInv, MainInv, LearnInv, SysTypeOK
  <1>2. SysInv => CompleteScanIsSafe
    BY InvCompleteScan DEF SysInv
  <1>3. SysInv => CoresAreSound
    BY DEF SysInv, LearnInv, SoundInv, Sound, CoresAreSound
  <1> QED BY SysInvariant, <1>1, <1>2, <1>3, PTL

\* The cores that the background learner hands over, read in whatever state the
\* file is, never exclude a correct plan from the formula of any length.
THEOREM SysDeadSound == SysSpec => DeadIsSound
  <1> DEFINE A == pc = "propose" /\ pc' = "endLength"
                     => \A p \in formula : \E q \in Packet : ~Passes(len, p, q)
  <1>1. ASSUME SysInv, SysNext PROVE A
    <2> SUFFICES ASSUME pc = "propose", pc' = "endLength", NEW p \in formula,
                        \A q \in Packet : Passes(len, p, q)
                 PROVE  FALSE
      OBVIOUS
    <2>1. MainNext
      <3>1. pc' # pc OBVIOUS
      <3> QED BY <1>1, <3>1 DEF SysNext, MainStep, LearnerStep, RunOver, main, sysVars
    <2>2. Candidates = {}
      BY <2>1 DEF MainNext, SoloNext, StartLength, extract_prev, Propose, extract_plan,
          ProposeFails, NoCandidate, Prepare, SkipVerification,
         Verify, ScanVerified, ScanViolation, extract_packet, ScanNoAnswer, ScanEnd,
         ScanCrash, Accept,
         NextRound, RoundsExhausted, NextLength, Report
    <2>3. len \in Nat /\ p \in WellFormed(len) /\ p \in Plans(len)
      BY <1>1 DEF SysInv, MainInv, TypeOK, FormulaInv
    <2>4. AvoidsCores(len, p, unsatLists)
      <3> SUFFICES ASSUME NEW i \in 1..len, NEW c \in unsatLists, Matches(c, p[i])
                   PROVE  FALSE
        BY DEF AvoidsCores
      <3>1. p[i] \in States \ {{}}
        BY <2>3, PlansLeaveOldProgram DEF Plans
      <3>2. Unsafe(p[i])
        BY <1>1, <3>1 DEF SysInv, LearnInv, SoundInv, Sound
      <3> QED BY <3>2 DEF Unsafe, Passes
    <2> QED BY <1>1, <2>2, <2>4, CorrectIsCandidate DEF SysInv, MainInv
  <1>2. SysInv /\ [SysNext]_sysVars => [A]_vars
    BY <1>1 DEF vars, sysVars
  <1> QED BY SysInvariant, <1>2, PTL DEF SysSpec, DeadIsSound
=============================================================================
