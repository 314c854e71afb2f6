------------------------ MODULE ParallelVerifyProofs ------------------------
(***************************************************************************)
(* The parallel verification implements the step the main loop relies on,  *)
(* for every set of states, answers, leftovers and deaths of workers.      *)
(***************************************************************************)
EXTENDS ParallelVerify, FiniteSetTheorems, TLAPS

LogsInv ==
    /\ LogsAreOfThisRound
    /\ parent # "cleaning" => linked = {}
    /\ parent = "cleaning" => \A S \in states : worker[S] = "new" /\ solver[S] = "none"

(***************************************************************************)
(* Only a worker that waits or is past it has a z3; one that has reported  *)
(* has a z3 that ended, and the z3s that ended have written their answer.  *)
(***************************************************************************)
SolverInv ==
    \A S \in states :
        /\ worker[S] \in {"new", "ready", "opened"} => solver[S] = "none"
        /\ worker[S] = "reported" => solver[S] = "done"
        /\ solver[S] = "done" => log[S] = Answer(S)

(***************************************************************************)
(* The parent waits for the workers that have not reported and for the     *)
(* reports still in the queue.                                             *)
(***************************************************************************)
Awaited == {S \in states : worker[S] # "reported" \/ S \in queue}

CountInv ==
    parent # "returned" =>
        /\ \A S \in queue : worker[S] = "reported"
        /\ count = Cardinality(Awaited)

(***************************************************************************)
(* The parent returns when one answer is "sat" or when all are there.      *)
(***************************************************************************)
Answered(S) == solver[S] = "done" /\ (S \in DOMAIN seen => seen[S] = Answer(S))

ReturnInv ==
    parent = "returned" =>
        /\ \A S \in states : worker[S] \in {"reported", "terminated"}
        /\ \/ \E S \in states : Answer(S) = "sat" /\ Answered(S)
           \/ \A S \in states : Answered(S)

SeenInv ==
    /\ seen = [S \in DOMAIN seen |-> seen[S]]
    /\ parent # "returned" => DOMAIN seen = {}
    /\ \A S \in DOMAIN seen : seen[S] \in {Answer(S), "empty", "absent"}

PInv == PTypeOK /\ LogsInv /\ SolverInv /\ CountInv /\ ReturnInv /\ SeenInv

-----------------------------------------------------------------------------
LEMMA AnswerType == \A S : Answer(S) \in {"sat", "unsat", "error"}
BY DEF Answer

LEMMA StatesFinite ==
    ASSUME PTypeOK
    PROVE  /\ IsFiniteSet(states) /\ Cardinality(states) \in Nat
           /\ IsFiniteSet(Awaited) /\ Cardinality(Awaited) \in Nat
           /\ Cardinality(Awaited) <= Cardinality(states)
<1>1. IsFiniteSet(States)
  BY ComponentAssumption, FS_SUBSET DEF States
<1>2. states \subseteq States /\ Awaited \subseteq states
  BY DEF PTypeOK, Awaited
<1> QED
  BY <1>1, <1>2, FS_Subset, FS_CardinalityType

LEMMA PInvInit == PInit => PInv
<1> SUFFICES ASSUME PInit PROVE PInv
  OBVIOUS
<1>1. PICK left \in [states -> Leftover] :
        /\ log = [S \in states |-> left[S][1]]
        /\ orphan = [S \in states |-> left[S][2]]
  BY DEF PInit
<1>2. IsFiniteSet(states) /\ Cardinality(states) \in Nat
  <2>1. IsFiniteSet(States)
    BY ComponentAssumption, FS_SUBSET DEF States
  <2> QED
    BY <2>1, FS_Subset, FS_CardinalityType DEF PInit
<1>3. PTypeOK
  <2>1. log \in [states -> Contents] /\ orphan \in [states -> {"sat", "unsat", "error", "none"}]
    BY <1>1, ParallelAssumption
  <2> QED
    BY <1>2, <2>1 DEF PInit, PTypeOK
<1>4. Awaited = states
  BY DEF PInit, Awaited
<1> QED
  BY <1>3, <1>4 DEF PInit, PInv, LogsInv, LogsAreOfThisRound, SolverInv, CountInv, ReturnInv, SeenInv

-----------------------------------------------------------------------------
LEMMA RemoveLogsStep == PInv /\ RemoveLogs => PInv'
<1> SUFFICES ASSUME PInv, RemoveLogs PROVE PInv'
  OBVIOUS
<1> USE DEF PInv, RemoveLogs
<1>1. PTypeOK'
  BY DEF PTypeOK, Contents
<1>2. LogsInv' /\ SolverInv'
  BY DEF PTypeOK, LogsInv, LogsAreOfThisRound, SolverInv
<1>3. Awaited' = Awaited
  BY DEF Awaited
<1>4. CountInv' /\ ReturnInv' /\ SeenInv'
  BY <1>3 DEF CountInv, ReturnInv, SeenInv
<1> QED
  BY <1>1, <1>2, <1>4

LEMMA OrphanStep == ASSUME NEW S \in states, PInv, OrphanEnds(S) PROVE PInv'
<1> USE DEF PInv, OrphanEnds
<1>1. PTypeOK'
  BY DEF PTypeOK, Contents
<1>2. LogsInv' /\ SolverInv'
  BY DEF PTypeOK, LogsInv, LogsAreOfThisRound, SolverInv
<1>3. Awaited' = Awaited
  BY DEF Awaited
<1>4. CountInv' /\ ReturnInv' /\ SeenInv'
  BY <1>3 DEF CountInv, ReturnInv, SeenInv, Answered
<1> QED
  BY <1>1, <1>2, <1>4

LEMMA WorkerStepInv == ASSUME NEW S \in states, PInv, WorkerStep(S) \/ WorkerDies(S) PROVE PInv'
<1> USE AnswerType DEF PInv
<1>1. CASE OpenLog(S)
  <2> USE <1>1 DEF OpenLog, Round
  <2>1. PTypeOK'
    BY DEF PTypeOK, Contents
  <2>2. LogsInv' /\ SolverInv'
    BY DEF PTypeOK, LogsInv, LogsAreOfThisRound, SolverInv
  <2>3. Awaited' = Awaited
    BY DEF Awaited, PTypeOK
  <2>4. CountInv' /\ ReturnInv' /\ SeenInv'
    BY <2>3 DEF CountInv, ReturnInv, SeenInv, Answered, PTypeOK
  <2> QED
    BY <2>1, <2>2, <2>4
<1>2. CASE LaunchSolver(S)
  <2> USE <1>2 DEF LaunchSolver, Round
  <2>1. PTypeOK'
    BY DEF PTypeOK
  <2>2. LogsInv' /\ SolverInv'
    BY DEF PTypeOK, LogsInv, LogsAreOfThisRound, SolverInv
  <2>3. Awaited' = Awaited
    BY DEF Awaited, PTypeOK
  <2>4. CountInv' /\ ReturnInv' /\ SeenInv'
    BY <2>3 DEF CountInv, ReturnInv, SeenInv, Answered, PTypeOK
  <2> QED
    BY <2>1, <2>2, <2>4
<1>3. CASE SolverEnds(S)
  <2> USE <1>3 DEF SolverEnds, Round
  <2>1. PTypeOK'
    BY DEF PTypeOK, Contents
  <2>2. LogsInv' /\ SolverInv'
    BY DEF PTypeOK, LogsInv, LogsAreOfThisRound, SolverInv
  <2>3. Awaited' = Awaited
    BY DEF Awaited, PTypeOK
  <2>4. CountInv' /\ ReturnInv' /\ SeenInv'
    BY <2>3 DEF CountInv, ReturnInv, SeenInv, Answered, PTypeOK
  <2> QED
    BY <2>1, <2>2, <2>4
<1>4. CASE ReportAnswer(S)
  <2> USE <1>4 DEF ReportAnswer, Round
  <2>1. PTypeOK'
    BY DEF PTypeOK
  <2>2. LogsInv' /\ SolverInv'
    BY DEF PTypeOK, LogsInv, LogsAreOfThisRound, SolverInv
  <2>3. Awaited' = Awaited
    BY DEF Awaited, PTypeOK
  <2>4. CountInv' /\ ReturnInv' /\ SeenInv'
    BY <2>3 DEF CountInv, ReturnInv, SeenInv, Answered, PTypeOK
  <2> QED
    BY <2>1, <2>2, <2>4
<1>5. CASE WorkerDies(S)
  <2> USE <1>5 DEF WorkerDies, Round
  <2>1. PTypeOK'
    BY DEF PTypeOK
  <2>2. LogsInv' /\ SolverInv'
    BY DEF PTypeOK, LogsInv, LogsAreOfThisRound, SolverInv
  <2>3. Awaited' = Awaited
    BY DEF Awaited, PTypeOK
  <2>4. CountInv' /\ ReturnInv' /\ SeenInv'
    BY <2>3 DEF CountInv, ReturnInv, SeenInv, Answered, PTypeOK
  <2> QED
    BY <2>1, <2>2, <2>4
<1> QED
  BY <1>1, <1>2, <1>3, <1>4, <1>5 DEF WorkerStep

LEMMA StartStep == ASSUME NEW S \in states, PInv, StartWorker(S) PROVE PInv'
<1> USE DEF PInv, StartWorker, Round
<1>1. PTypeOK'
  BY DEF PTypeOK
<1>2. LogsInv' /\ SolverInv'
  BY DEF PTypeOK, LogsInv, LogsAreOfThisRound, SolverInv
<1>3. Awaited' = Awaited
  BY DEF Awaited, PTypeOK
<1>4. CountInv' /\ ReturnInv' /\ SeenInv'
  BY <1>3 DEF CountInv, ReturnInv, SeenInv, PTypeOK
<1> QED
  BY <1>1, <1>2, <1>4

LEMMA AllStartedStep == PInv /\ AllStarted => PInv'
<1> SUFFICES ASSUME PInv, AllStarted PROVE PInv'
  OBVIOUS
<1> USE DEF PInv, AllStarted, Round
<1>1. PTypeOK' /\ LogsInv' /\ SolverInv' /\ SeenInv'
  BY DEF PTypeOK, LogsInv, LogsAreOfThisRound, SolverInv, SeenInv
<1>2. Awaited' = Awaited
  BY DEF Awaited
<1>3. CountInv'
  BY <1>2 DEF CountInv
<1>4. ReturnInv'
  <2>1. CASE count > 0
    BY <2>1 DEF ReturnInv
  <2>2. CASE ~(count > 0)
    <3>1. Awaited = {}
      BY <2>2, StatesFinite, FS_EmptySet DEF CountInv
    <3>2. \A S \in states : worker[S] = "reported"
      BY <3>1 DEF Awaited
    <3> QED
      BY <3>2 DEF ReturnInv, Answered, SolverInv, SeenInv
  <2> QED
    BY <2>1, <2>2
<1> QED
  BY <1>1, <1>3, <1>4

LEMMA GetAnswerStep == ASSUME NEW S \in states, PInv, GetAnswer(S) PROVE PInv'
<1> USE DEF PInv, GetAnswer, Round
<1>1. /\ S \in Awaited /\ worker[S] = "reported"
      /\ count = Cardinality(Awaited)
      /\ Cardinality(Awaited \ {S}) = count - 1
      /\ IsFiniteSet(Awaited \ {S})
  BY StatesFinite, FS_RemoveElement DEF CountInv, Awaited
<1>2. count - 1 \in 0..Cardinality(states)
  BY <1>1, StatesFinite, FS_CardinalityType
<1>3. PTypeOK'
  BY <1>2 DEF PTypeOK
<1>4. LogsInv' /\ SolverInv' /\ SeenInv'
  BY DEF PTypeOK, LogsInv, LogsAreOfThisRound, SolverInv, SeenInv
<1>5. CASE Answer(S) = "sat"
  <2>1. Answered(S)'
    BY <1>1 DEF Answered, SolverInv, SeenInv
  <2> QED
    BY <1>3, <1>4, <1>5, <2>1 DEF CountInv, ReturnInv
<1>6. CASE Answer(S) # "sat" /\ count - 1 = 0
  <2>1. Awaited \ {S} = {}
    BY <1>1, <1>6, FS_EmptySet
  <2>2. \A T \in states : worker[T] = "reported"
    BY <1>1, <2>1 DEF Awaited
  <2>3. \A T \in states : Answered(T)'
    BY <2>2 DEF Answered, SolverInv, SeenInv
  <2> QED
    BY <1>3, <1>4, <1>6, <2>3 DEF CountInv, ReturnInv
<1>7. CASE Answer(S) # "sat" /\ count - 1 # 0
  <2>1. Awaited' = Awaited \ {S}
    BY <1>1, <1>7 DEF Awaited
  <2> QED
    BY <1>1, <1>3, <1>4, <1>7, <2>1 DEF CountInv, ReturnInv
<1> QED
  BY <1>5, <1>6, <1>7

LEMMA ReadStep == ASSUME NEW S \in states, PInv, ReadLog(S) PROVE PInv'
<1> USE DEF PInv, ReadLog, Round
<1>1. PTypeOK' /\ LogsInv' /\ SolverInv' /\ CountInv'
  BY DEF PTypeOK, LogsInv, LogsAreOfThisRound, SolverInv, CountInv
<1>2. SeenInv'
  BY DEF SeenInv, LogsInv, LogsAreOfThisRound
<1>3. \A T \in states : Answered(T) => Answered(T)'
  BY DEF Answered, SolverInv
<1>4. ReturnInv'
  BY <1>3 DEF ReturnInv
<1> QED
  BY <1>1, <1>2, <1>4

LEMMA PInvStep == PInv /\ [PNext]_pvars => PInv'
<1> SUFFICES ASSUME PInv, [PNext]_pvars PROVE PInv'
  OBVIOUS
<1>1. CASE UNCHANGED pvars
  BY <1>1 DEF pvars, PInv, PTypeOK, LogsInv, LogsAreOfThisRound, SolverInv, CountInv, Awaited,
     ReturnInv, Answered, SeenInv
<1>2. CASE PNext
  BY <1>1, <1>2, RemoveLogsStep, OrphanStep, WorkerStepInv, StartStep, AllStartedStep,
     GetAnswerStep, ReadStep DEF PNext, ParentStep, Over
<1> QED
  BY <1>1, <1>2

\* What the variables of parallel-smt-analysis.py may hold, whatever the
\* candidate, the leftovers and the deaths of workers.
THEOREM PTypeCorrect == PSpec => []PTypeOK
<1>1. PInv => PTypeOK
  BY DEF PInv
<1> QED
  BY <1>1, PInvInit, PInvStep, PTL DEF PSpec

\* No z3 of an earlier round writes to a log that the main loop of this round
\* reads, for any number of states and any leftovers.
THEOREM LogsOfThisRound == PSpec => []LogsAreOfThisRound
<1>1. PInv => LogsAreOfThisRound
  BY DEF PInv, LogsInv
<1> QED
  BY <1>1, PInvInit, PInvStep, PTL DEF PSpec

-----------------------------------------------------------------------------
LEMMA OutcomeIsPromised == ASSUME PInv, AllRead PROVE seen \in VerifyOutcomes(states)
<1> USE DEF PInv, AllRead
<1>1. seen \in [states -> {"sat", "unsat", "error", "empty", "absent"}]
  BY AnswerType DEF SeenInv
<1>2. \A S \in states : seen[S] \in {Answer(S), "empty", "absent"}
  BY DEF SeenInv
<1>3. (\E S \in states : seen[S] \in {"empty", "absent"}) => \E S \in states : seen[S] = "sat"
  BY AnswerType DEF ReturnInv, Answered
<1> QED
  BY <1>1, <1>2, <1>3 DEF VerifyOutcomes

LEMMA PhaseStep == PInv /\ PInv' /\ [PNext]_pvars => [Phase!VerifyAll]_(Phase!phaseVars)
<1> SUFFICES ASSUME PInv, PInv', [PNext]_pvars
             PROVE  Phase!VerifyAll \/ UNCHANGED Phase!phaseVars
  OBVIOUS
<1>1. UNCHANGED states
  BY DEF PNext, pvars, RemoveLogs, AllStarted, WorkerStep, OpenLog, LaunchSolver, SolverEnds,
     ReportAnswer, ParentStep, StartWorker, GetAnswer, ReadLog, WorkerDies, OrphanEnds, Over, Round
<1>2. CASE AllRead
  <2>1. AllRead' /\ UNCHANGED seen
    BY <1>2 DEF AllRead, PNext, pvars, RemoveLogs, AllStarted, WorkerStep, OpenLog, LaunchSolver,
       SolverEnds, ReportAnswer, ParentStep, StartWorker, GetAnswer, ReadLog, WorkerDies,
       OrphanEnds, Over, Round
  <2> QED
    BY <1>1, <1>2, <2>1 DEF Phase!phaseVars
<1>3. CASE ~AllRead /\ ~AllRead'
  BY <1>1, <1>3 DEF Phase!phaseVars
<1>4. CASE ~AllRead /\ AllRead'
  <2>1. seen' \in VerifyOutcomes(states)
    <3>1. (seen \in VerifyOutcomes(states))'
      BY <1>4, OutcomeIsPromised, PTL
    <3> QED
      BY <1>1, <3>1 DEF VerifyOutcomes, Answer, Counterexamples
  <2>2. seen' \in Phase!VerifyOutcomes(states)
    BY <2>1 DEF VerifyOutcomes, Phase!VerifyOutcomes, Answer, Phase!Answer, Counterexamples,
       Phase!Counterexamples
  <2> QED
    BY <1>1, <1>4, <2>2 DEF Phase!VerifyAll, Phase!Pending
<1> QED
  BY <1>2, <1>3, <1>4

LEMMA PhaseStart == PInit => Phase!PhaseInit
BY DEF PInit, Phase!PhaseInit, Phase!Pending, Phase!States, States, AllRead

\* The parallel verification, with its bounded queue, its dying workers and the
\* z3s that outlive them, gives the main loop an outcome that CegisLoop's step
\* Verify allows, for every program, plan and specification.
THEOREM ParallelImplementsPhase == PSpec => ImplementsVerifyPhase
<1>1. PInv /\ PInv' /\ [PNext]_pvars => [Phase!VerifyAll]_(Phase!phaseVars)
  BY PhaseStep
<1> QED
  BY <1>1, PInvInit, PInvStep, PhaseStart, PTL DEF PSpec, ImplementsVerifyPhase, Phase!PhaseSpec
=============================================================================
