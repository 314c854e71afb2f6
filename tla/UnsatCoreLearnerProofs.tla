----------------------- MODULE UnsatCoreLearnerProofs -----------------------
(***************************************************************************)
(* Proofs about the unsat core learner, for every update and spec.         *)
(***************************************************************************)
EXTENDS UnsatCoreLearner, TLAPS

(***************************************************************************)
(* The inductive invariant: every core, wherever it is kept, is sound; so  *)
(* are the states excluded one by one and the example being distilled.     *)
(***************************************************************************)
Sound(c) == \A S \in States \ {{}} : Matches(c, S) => Unsafe(S)

ExampleInv ==
    lpc \in {"openResult", "writeResult", "distill"} =>
        <<example.packet, example.state>> \in Violates /\ flagSat < MaxFlag

SoundInv ==
    /\ \A c \in lists : Sound(c)
    /\ \A c \in results : Sound(c)
    /\ \A c \in saved : Sound(c)
    /\ \A c \in known : Sound(c)
    /\ \A c \in unsatLists : Sound(c)
    /\ \A S \in blocked : Unsafe(S)

(***************************************************************************)
(* The cores asserted in the formula are in the list, also across the two  *)
(* runs; one state at most is excluded from the formula, and none when the *)
(* new program is safe (the old one is no state of the formula).           *)
(***************************************************************************)
ListInv ==
    /\ results \subseteq lists
    /\ known \subseteq lists \/ lpc = "load"
    /\ pass = 1 /\ lpc # "stopped" => saved = {}
    /\ lpc \in {"load", "stopped"} => lists \subseteq unsatLists
    /\ lpc = "load" \/ (lpc = "stopped" /\ pass = 1) => saved \subseteq unsatLists
    /\ \E T \in States : blocked \subseteq {T} /\ (NewProgramIsSafe => T = {})

LearnInv ==
    /\ LearnerTypeOK
    /\ ExampleInv
    /\ SoundInv
    /\ ListInv
    /\ FinIsComplete

(***************************************************************************)
(* The operators the actions use.                                          *)
(***************************************************************************)

\* The new program is a state other than the old one.
LEMMA NewIsState == Component \in States \ {{}}
  BY ComponentAssumption DEF States

\* What the formula finds is a violation in a state it admits.
LEMMA ViolationsAre ==
    ASSUME NEW e \in Violations
    PROVE  /\ e \in [packet : Packet, state : States]
           /\ <<e.packet, e.state>> \in Violates
  BY DEF Violations, Open

\* A distilled core is sound although the formula it comes from excludes the
\* states of the cores learned before: those are unsafe anyway.
LEMMA DistilledIsSound ==
    ASSUME SoundInv, LearnerTypeOK, NEW c \in MinimalCores(example)
    PROVE  c \in Cores /\ Sound(c)
  <1>1. c \in CoresOf(example)
    BY DEF MinimalCores
  <1>2. c \in Cores
    BY <1>1 DEF CoresOf, Cores, States, LearnerTypeOK
  <1>3. ASSUME NEW S \in States \ {{}}, Matches(c, S) PROVE Unsafe(S)
    <2>1. CASE S \in Open
      <3>1. <<example.packet, S>> \in Violates
        BY <1>1, <1>3, <2>1 DEF CoresOf
      <3> QED BY <3>1 DEF Unsafe, LearnerTypeOK
    <2>2. CASE S \notin Open
      <3>1. S \in blocked \/ \E d \in known : Matches(d, S)
        BY <2>2 DEF Open
      <3> QED BY <1>3, <3>1 DEF SoundInv, Sound
    <2> QED BY <2>1, <2>2
  <1> QED BY <1>2, <1>3 DEF Sound

\* With a safe new program some bit is always needed: the formula still admits
\* the new program, which the packet of the example does not violate.
LEMMA NoEmptyCore ==
    ASSUME SoundInv, LearnerTypeOK, NewProgramIsSafe
    PROVE  EmptyCore \notin MinimalCores(example)
  <1>1. ~Unsafe(Component)
    BY DEF NewProgramIsSafe, Unsafe
  <1>2. Component \in Open
    BY <1>1, NewIsState DEF SoundInv, Sound, Open
  <1>3. <<example.packet, Component>> \notin Violates
    BY DEF NewProgramIsSafe, LearnerTypeOK
  <1>4. Matches(EmptyCore, Component)
    BY DEF Matches, EmptyCore
  <1> QED BY <1>2, <1>3, <1>4 DEF MinimalCores, CoresOf
(***************************************************************************)
(* The steps, for each conjunct of the invariant.                          *)
(***************************************************************************)

\* Every step of the learner keeps the types.
LEMMA LearnerStepType ==
    ASSUME LearnInv, LearnerNext
    PROVE  LearnerTypeOK'
  <1> USE LearnerAssumption DEF WorkDirTypeOK, workDir, LearnInv
  <1>1. CASE Load
    BY <1>1 DEF Load, LearnerTypeOK
  <1>2. CASE GiveUp
    BY <1>2 DEF GiveUp, LearnerTypeOK
  <1>3. CASE FindExample
    <2>1. example' \in [packet : Packet, state : States]
      BY <1>3, ViolationsAre DEF FindExample
    <2> QED BY <1>3, <2>1 DEF FindExample, LearnerTypeOK
  <1>4. CASE EndOfDistillation
    BY <1>4 DEF EndOfDistillation, LearnerTypeOK
  <1>5. CASE OpenResult
    BY <1>5 DEF OpenResult, LearnerTypeOK
  <1>6. CASE WriteResult
    BY <1>6 DEF WriteResult, LearnerTypeOK
  <1>7. CASE BlockExample
    <2>1. flagSat' \in 0..MaxFlag+1
      BY <1>7 DEF BlockExample, LearnerTypeOK, ExampleInv
    <2>2. blocked' \in SUBSET States
      BY <1>7 DEF BlockExample, LearnerTypeOK
    <2> QED BY <1>7, <2>1, <2>2 DEF BlockExample, LearnerTypeOK
  <1>8. CASE LearnCore
    <2>1. PICK c \in MinimalCores(example) :
              /\ lists' = lists \cup {c}
              /\ results' = results \cup {c}
              /\ flagSat' = IF Size(c) >= BigCore THEN flagSat + 2 ELSE flagSat
      BY <1>8 DEF LearnCore
    <2>2. c \in Cores
      BY DistilledIsSound
    <2>3. flagSat' \in 0..MaxFlag+1
      BY <1>8, <2>1 DEF LearnCore, LearnerTypeOK, ExampleInv
    <2> QED BY <1>8, <2>1, <2>2, <2>3 DEF LearnCore, LearnerTypeOK
  <1>9. CASE Dump
    BY <1>9 DEF Dump, LearnerTypeOK
  <1>10. CASE NothingToSave
    BY <1>10 DEF NothingToSave, LearnerTypeOK
  <1>11. CASE SaveLists
    BY <1>11 DEF SaveLists, LearnerTypeOK
  <1>12. CASE SaveResults
    BY <1>12 DEF SaveResults, LearnerTypeOK
  <1>13. CASE StartBackground
    BY <1>13 DEF StartBackground, LearnerTypeOK
  <1> QED BY <1>1, <1>2, <1>3, <1>4, <1>5, <1>6, <1>7, <1>8,
             <1>9, <1>10, <1>11, <1>12, <1>13 DEF LearnerNext

\* The example is a violation until it is distilled, and learning has not stopped.
LEMMA LearnerStepExample ==
    ASSUME LearnInv, LearnerNext
    PROVE  ExampleInv'
  <1> USE DEF LearnInv
  <1>1. CASE Load
    BY <1>1 DEF Load, ExampleInv
  <1>2. CASE GiveUp
    BY <1>2 DEF GiveUp, ExampleInv
  <1>3. CASE FindExample
    BY <1>3, ViolationsAre DEF FindExample, ExampleInv
  <1>4. CASE EndOfDistillation
    BY <1>4 DEF EndOfDistillation, ExampleInv
  <1>5. CASE OpenResult
    BY <1>5 DEF OpenResult, ExampleInv
  <1>6. CASE WriteResult
    BY <1>6 DEF WriteResult, ExampleInv
  <1>7. CASE BlockExample
    BY <1>7 DEF BlockExample, ExampleInv
  <1>8. CASE LearnCore
    BY <1>8 DEF LearnCore, ExampleInv
  <1>9. CASE Dump
    BY <1>9 DEF Dump, ExampleInv
  <1>10. CASE NothingToSave
    BY <1>10 DEF NothingToSave, ExampleInv
  <1>11. CASE SaveLists
    BY <1>11 DEF SaveLists, ExampleInv
  <1>12. CASE SaveResults
    BY <1>12 DEF SaveResults, ExampleInv
  <1>13. CASE StartBackground
    BY <1>13 DEF StartBackground, ExampleInv
  <1> QED BY <1>1, <1>2, <1>3, <1>4, <1>5, <1>6, <1>7, <1>8,
             <1>9, <1>10, <1>11, <1>12, <1>13 DEF LearnerNext

\* Whatever is learned, saved, loaded or handed over is sound.
LEMMA LearnerStepSound ==
    ASSUME LearnInv, LearnerNext
    PROVE  SoundInv'
  <1> USE DEF LearnInv, workDir
  <1>1. CASE Load
    BY <1>1 DEF Load, SoundInv
  <1>2. CASE GiveUp
    BY <1>2 DEF GiveUp, SoundInv
  <1>3. CASE FindExample
    BY <1>3 DEF FindExample, SoundInv
  <1>4. CASE EndOfDistillation
    BY <1>4 DEF EndOfDistillation, SoundInv
  <1>5. CASE OpenResult
    BY <1>5 DEF OpenResult, SoundInv
  <1>6. CASE WriteResult
    BY <1>6 DEF WriteResult, SoundInv
  <1>7. CASE BlockExample
    <2>1. Unsafe(example.state)
      BY <1>7 DEF BlockExample, ExampleInv, LearnerTypeOK, Unsafe
    <2> QED BY <1>7, <2>1 DEF BlockExample, SoundInv
  <1>8. CASE LearnCore
    <2>1. PICK c \in MinimalCores(example) :
              lists' = lists \cup {c} /\ results' = results \cup {c}
      BY <1>8 DEF LearnCore
    <2>2. Sound(c)
      BY DistilledIsSound
    <2> QED BY <1>8, <2>1, <2>2 DEF LearnCore, SoundInv
  <1>9. CASE Dump
    BY <1>9 DEF Dump, SoundInv
  <1>10. CASE NothingToSave
    BY <1>10 DEF NothingToSave, SoundInv
  <1>11. CASE SaveLists
    BY <1>11 DEF SaveLists, SoundInv
  <1>12. CASE SaveResults
    BY <1>12 DEF SaveResults, SoundInv
  <1>13. CASE StartBackground
    BY <1>13 DEF StartBackground, SoundInv
  <1> QED BY <1>1, <1>2, <1>3, <1>4, <1>5, <1>6, <1>7, <1>8,
             <1>9, <1>10, <1>11, <1>12, <1>13 DEF LearnerNext

\* The list keeps up with the formula.
LEMMA LearnerStepList ==
    ASSUME LearnInv, LearnerNext
    PROVE  ListInv'
  <1> USE DEF LearnInv, workDir
  <1>1. CASE Load
    BY <1>1 DEF Load, ListInv
  <1>2. CASE GiveUp
    BY <1>2 DEF GiveUp, ListInv
  <1>3. CASE FindExample
    BY <1>3 DEF FindExample, ListInv
  <1>4. CASE EndOfDistillation
    BY <1>4 DEF EndOfDistillation, ListInv
  <1>5. CASE OpenResult
    BY <1>5 DEF OpenResult, ListInv
  <1>6. CASE WriteResult
    BY <1>6 DEF WriteResult, ListInv
  <1>7. CASE BlockExample
    <2>1. ~NewProgramIsSafe
      BY <1>7, NoEmptyCore DEF BlockExample
    <2>2. blocked' \subseteq {example.state} /\ example.state \in States
      BY <1>7 DEF BlockExample, LearnerTypeOK
    <2>3. \E T \in States : blocked' \subseteq {T} /\ (NewProgramIsSafe => T = {})
      BY <2>1, <2>2
    <2> QED BY <1>7, <2>3 DEF BlockExample, ListInv
  <1>8. CASE LearnCore
    BY <1>8 DEF LearnCore, ListInv
  <1>9. CASE Dump
    BY <1>9 DEF Dump, ListInv
  <1>10. CASE NothingToSave
    BY <1>10 DEF NothingToSave, ListInv
  <1>11. CASE SaveLists
    BY <1>11 DEF SaveLists, ListInv
  <1>12. CASE SaveResults
    BY <1>12 DEF SaveResults, ListInv
  <1>13. CASE StartBackground
    BY <1>13 DEF StartBackground, ListInv
  <1> QED BY <1>1, <1>2, <1>3, <1>4, <1>5, <1>6, <1>7, <1>8,
             <1>9, <1>10, <1>11, <1>12, <1>13 DEF LearnerNext

\* FIN is written when the list is complete, and the list never shrinks after.
LEMMA LearnerStepFin ==
    ASSUME LearnInv, LearnerNext
    PROVE  FinIsComplete'
  <1> USE DEF LearnInv, workDir
  <1>1. CASE Load
    <2>1. lists \subseteq lists' /\ UNCHANGED outputFin
      BY <1>1 DEF Load, ListInv
    <2> QED BY <2>1 DEF FinIsComplete, Covered
  <1>2. CASE GiveUp
    BY <1>2 DEF GiveUp, FinIsComplete, Covered
  <1>3. CASE FindExample
    BY <1>3 DEF FindExample, FinIsComplete, Covered
  <1>4. CASE EndOfDistillation
    <2>1. PICK T \in States : blocked \subseteq {T} /\ (NewProgramIsSafe => T = {})
      BY DEF ListInv
    <2> SUFFICES ASSUME NEW S \in States \ {{}, T}, Unsafe(S)
                 PROVE  Covered(S)
      BY <1>4, <2>1 DEF EndOfDistillation, FinIsComplete, Covered
    <2>2. S \notin Open
      <3> SUFFICES ASSUME S \in Open PROVE FALSE
        OBVIOUS
      <3>1. PICK p \in Packet : <<p, S>> \in Violates BY DEF Unsafe
      <3>2. [packet |-> p, state |-> S] \in Violations BY <3>1 DEF Violations
      <3> QED BY <1>4, <3>2 DEF EndOfDistillation
    <2>3. \E c \in known : Matches(c, S)
      BY <2>1, <2>2 DEF Open
    <2> QED BY <1>4, <2>3 DEF EndOfDistillation, ListInv, Covered
  <1>5. CASE OpenResult
    BY <1>5 DEF OpenResult, FinIsComplete, Covered
  <1>6. CASE WriteResult
    BY <1>6 DEF WriteResult, FinIsComplete, Covered
  <1>7. CASE BlockExample
    BY <1>7 DEF BlockExample, FinIsComplete, Covered
  <1>8. CASE LearnCore
    BY <1>8 DEF LearnCore, FinIsComplete, Covered
  <1>9. CASE Dump
    BY <1>9 DEF Dump, FinIsComplete, Covered
  <1>10. CASE NothingToSave
    BY <1>10 DEF NothingToSave, FinIsComplete, Covered
  <1>11. CASE SaveLists
    BY <1>11 DEF SaveLists, FinIsComplete, Covered
  <1>12. CASE SaveResults
    BY <1>12 DEF SaveResults, FinIsComplete, Covered
  <1>13. CASE StartBackground
    BY <1>13 DEF StartBackground, FinIsComplete, Covered
  <1> QED BY <1>1, <1>2, <1>3, <1>4, <1>5, <1>6, <1>7, <1>8,
             <1>9, <1>10, <1>11, <1>12, <1>13 DEF LearnerNext

\* Every step of the learner keeps the invariant.
LEMMA LearnerStepInv ==
    ASSUME LearnInv, LearnerNext
    PROVE  LearnInv'
  BY LearnerStepType, LearnerStepExample, LearnerStepSound, LearnerStepList,
     LearnerStepFin DEF LearnInv
\* The learner starts in the invariant.
LEMMA LearnerInitInv == LearnerInit /\ WorkDirInit => LearnInv
  <1> SUFFICES ASSUME LearnerInit, WorkDirInit PROVE LearnInv
    OBVIOUS
  <1>1. NoExample \in [packet : Packet, state : States]
    BY ViolatesAssumption DEF NoExample, States
  <1>2. LearnerTypeOK
    <2>1. 0 \in 0..MaxFlag+1 BY LearnerAssumption
    <2>2. {} \in SUBSET Cores /\ {} \in SUBSET States OBVIOUS
    <2>3. WorkDirTypeOK BY <2>2 DEF WorkDirInit, WorkDirTypeOK
    <2> QED BY <1>1, <2>1, <2>2, <2>3 DEF LearnerInit, LearnerTypeOK
  <1>3. \E T \in States : blocked \subseteq {T} /\ (NewProgramIsSafe => T = {})
    BY DEF LearnerInit, States
  <1>4. ExampleInv /\ SoundInv /\ ListInv /\ FinIsComplete
    BY <1>3 DEF LearnerInit, WorkDirInit, ExampleInv, SoundInv, ListInv, FinIsComplete
  <1> QED BY <1>2, <1>4 DEF LearnInv

\* A step that leaves the learner, its FIN and its cores alone keeps the invariant.
LEMMA LearnerIdleInv ==
    ASSUME LearnInv, UNCHANGED <<learner, outputFin, unsatLists>>, WorkDirTypeOK'
    PROVE  LearnInv'
  <1>1. UNCHANGED <<lpc, pass, lists, results, saved, known, blocked, example, flagSat>>
    BY DEF learner
  <1>2. LearnerTypeOK'
    BY <1>1 DEF LearnInv, LearnerTypeOK
  <1>3. ExampleInv' /\ SoundInv' /\ ListInv' /\ FinIsComplete'
    BY <1>1 DEF LearnInv, ExampleInv, SoundInv, ListInv, FinIsComplete, Covered
  <1> QED BY <1>2, <1>3 DEF LearnInv

(***************************************************************************)
(* The learner on its own.                                                 *)
(***************************************************************************)

\* Both runs of the learner keep the invariant.
THEOREM LearnerInvariant == LearnerSpec => []LearnInv
  <1>1. LearnInv /\ [LearnerNext \/ (LearnerStopped /\ UNCHANGED lvars)]_lvars => LearnInv'
    <2>1. ASSUME LearnInv, UNCHANGED lvars PROVE LearnInv'
      <3>1. UNCHANGED <<learner, result, handle, outputFin, unsatLists>>
        BY <2>1 DEF lvars, workDir
      <3>2. WorkDirTypeOK'
        BY <2>1, <3>1 DEF LearnInv, LearnerTypeOK, WorkDirTypeOK
      <3> QED BY <2>1, <3>1, <3>2, LearnerIdleInv
    <2> QED BY <2>1, LearnerStepInv
  <1> QED BY LearnerInitInv, <1>1, PTL DEF LearnerSpec, LearnerAlone

\* Every variable of the learner always has its type.
THEOREM LearnerTypeCorrect == LearnerSpec => []LearnerTypeOK
  <1>1. LearnInv => LearnerTypeOK BY DEF LearnInv
  <1> QED BY LearnerInvariant, <1>1, PTL

\* The cores in unsat_lists.pickle never exclude a correct state, for every update
\* and spec, although each comes from a formula that the earlier ones restrict.
THEOREM CoresSound == LearnerSpec => []CoresAreSound
  <1>1. LearnInv => CoresAreSound BY DEF LearnInv, SoundInv, Sound, CoresAreSound
  <1> QED BY LearnerInvariant, <1>1, PTL

\* After FIN the list of cores covers every incorrect state, for every update to a
\* correct new program.
THEOREM FinComplete == LearnerSpec => []FinIsComplete
  <1>1. LearnInv => FinIsComplete BY DEF LearnInv
  <1> QED BY LearnerInvariant, <1>1, PTL
=============================================================================
