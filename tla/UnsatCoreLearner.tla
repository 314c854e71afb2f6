-------------------------- MODULE UnsatCoreLearner --------------------------
(***************************************************************************)
(* distill_uc.py with distill_example.py: learning unsat cores, sets of    *)
(* version bits that no correct program state can have.  cegis.sh runs it  *)
(* twice, first on its own and then in the background of the main loop.    *)
(* Specs without definition concatenation: one distillation formula.       *)
(***************************************************************************)
EXTENDS WorkDir

CONSTANTS
    MaxFlag,      \* flag_sat at which learning stops           (20 in the code)
    BigCore       \* the size from which a core counts as big    (5 in the code)

ASSUME LearnerAssumption == MaxFlag \in Nat /\ BigCore \in Nat

VARIABLES
    lpc,          \* where the learner stands
    pass,         \* 1: run by cegis.sh before the loop, 2: in the background
    lists,        \* unsat_lists: the cores to hand over
    results,      \* unsat_results: the cores learned, as SMT assertions
    saved,        \* file unsat_results.pickle
    known,        \* the cores asserted in solve-distill.smt
    blocked,      \* the states excluded by result_ce in solve-distill.smt
    example,      \* the violation z3 found: a packet and a state
    flagSat       \* flag_sat

learner == <<lpc, pass, lists, results, saved, known, blocked, example, flagSat>>

lvars == <<learner, workDir>>

NoExample == [packet |-> CHOOSE p \in Packet : TRUE, state |-> {}]

-----------------------------------------------------------------------------
Unsafe(S) == \E p \in Packet : <<p, S>> \in Violates

(***************************************************************************)
(* The states solve-distill.smt admits: not the old program (CURR > 0),    *)
(* and neither matched by an asserted core nor excluded one by one.        *)
(***************************************************************************)
Open == {S \in States \ {{}} : S \notin blocked /\ \A c \in known : ~Matches(c, S)}

Violations ==
    {e \in [packet : Packet, state : Open] : <<e.packet, e.state>> \in Violates}

(***************************************************************************)
(* distill.smt fixes the packet, asks for no violation, and names one      *)
(* assertion per version bit of the state: a core keeps some of the bits,  *)
(* such that every admitted state with them is violated by the packet.     *)
(* z3 minimises it (smt.core.minimize).                                    *)
(***************************************************************************)
CoresOf(e) ==
    LET others == {S \in Open : <<e.packet, S>> \notin Violates}
    IN  {c \in [one : SUBSET e.state, zero : SUBSET (Component \ e.state)] :
            \A S \in others : ~Matches(c, S)}

MinimalCores(e) ==
    LET cores == CoresOf(e)
    IN  {c \in cores :
            \A d \in cores : d.one \subseteq c.one /\ d.zero \subseteq c.zero => d = c}

EmptyCore == [one |-> {}, zero |-> {}]

Size(c) == Cardinality(c.one) + Cardinality(c.zero)

-----------------------------------------------------------------------------
LearnerInit ==
    /\ lpc = "load"
    /\ pass = 1
    /\ lists = {}
    /\ results = {}
    /\ saved = {}
    /\ known = {}
    /\ blocked = {}
    /\ example = NoExample
    /\ flagSat = 0

(***************************************************************************)
(* find_unsat_cores starts.  The first solve-distill.smt is written before *)
(* the cores of an earlier run are read back, so it asserts none of them.  *)
(***************************************************************************)
\* Mutant of Load: the list of the earlier run is not read back.
LoadResultsOnly ==
    /\ lpc = "load"
    /\ lists' = {}
    /\ results' = saved
    /\ known' = {}
    /\ blocked' = {}
    /\ flagSat' = 0
    /\ lpc' = "solve"
    /\ UNCHANGED <<pass, saved, example, workDir>>

Load ==
    /\ lpc = "load"
    /\ lists' = unsatLists
    /\ results' = saved
    /\ known' = {}
    /\ blocked' = {}
    /\ flagSat' = 0
    /\ lpc' = "solve"
    /\ UNCHANGED <<pass, saved, example, workDir>>

(***************************************************************************)
(* The period is over, or z3 takes longer than its timeout.                *)
(***************************************************************************)
GiveUp ==
    /\ lpc = "solve"
    /\ lpc' = "save"
    /\ UNCHANGED <<pass, lists, results, saved, known, blocked, example, flagSat, workDir>>

\* Mutant of FindExample: flag_sat is not tested.
FindExampleAlways ==
    /\ lpc = "solve"
    /\ example' \in Violations
    /\ lpc' = "openResult"
    /\ UNCHANGED <<pass, lists, results, saved, known, blocked, flagSat, workDir>>

FindExample ==
    /\ lpc = "solve"
    /\ flagSat < MaxFlag
    /\ example' \in Violations
    /\ lpc' = "openResult"
    /\ UNCHANGED <<pass, lists, results, saved, known, blocked, flagSat, workDir>>

EndOfDistillation ==
    /\ lpc = "solve"
    /\ flagSat < MaxFlag
    /\ Violations = {}
    /\ outputFin' = TRUE
    /\ lpc' = "save"
    /\ UNCHANGED <<pass, lists, results, saved, known, blocked, example, flagSat,
                   result, handle, unsatLists>>

(***************************************************************************)
(* distill_example.py opens "result" for writing, and writes z3's answer   *)
(* to it when it has parsed the model.                                     *)
(***************************************************************************)
OpenResult ==
    /\ lpc = "openResult"
    /\ result' = "empty"
    /\ handle' = "linked"
    /\ lpc' = "writeResult"
    /\ UNCHANGED <<pass, lists, results, saved, known, blocked, example, flagSat,
                   outputFin, unsatLists>>

WriteResult ==
    /\ lpc = "writeResult"
    /\ result' = IF handle = "linked" THEN "SAT" ELSE result
    /\ handle' = "closed"
    /\ lpc' = "distill"
    /\ UNCHANGED <<pass, lists, results, saved, known, blocked, example, flagSat,
                   outputFin, unsatLists>>

(***************************************************************************)
(* No bit is needed: exclude this one state from the next formula.         *)
(***************************************************************************)
\* Mutant of BlockExample: flag_sat is not increased.
BlockExampleUncounted ==
    /\ lpc = "distill"
    /\ EmptyCore \in MinimalCores(example)
    /\ known' = results
    /\ blocked' = {example.state}
    /\ lpc' = "solve"
    /\ UNCHANGED <<pass, lists, results, saved, example, flagSat, workDir>>

BlockExample ==
    /\ lpc = "distill"
    /\ EmptyCore \in MinimalCores(example)
    /\ known' = results
    /\ blocked' = {example.state}
    /\ flagSat' = flagSat + 1
    /\ lpc' = "solve"
    /\ UNCHANGED <<pass, lists, results, saved, example, workDir>>

(***************************************************************************)
(* A core is recorded; opening unsat_lists.pickle for the dump empties it. *)
(***************************************************************************)
\* Mutants of LearnCore: only the bits that are 1 are kept; the core is not added
\* to the formula.
LearnOnes ==
    /\ lpc = "distill"
    /\ \E m \in MinimalCores(example) \ {EmptyCore} :
        /\ lists' = lists \cup {[m EXCEPT !.zero = {}]}
        /\ results' = results \cup {[m EXCEPT !.zero = {}]}
        /\ flagSat' = IF Size(m) >= BigCore THEN flagSat + 2 ELSE flagSat
    /\ known' = results'
    /\ blocked' = {}
    /\ unsatLists' = {}
    /\ lpc' = "dump"
    /\ UNCHANGED <<pass, saved, example, result, handle, outputFin>>

LearnCore ==
    /\ lpc = "distill"
    /\ \E c \in MinimalCores(example) \ {EmptyCore} :
        /\ lists' = lists \cup {c}
        /\ results' = results \cup {c}
        /\ flagSat' = IF Size(c) >= BigCore THEN flagSat + 2 ELSE flagSat
    /\ known' = results'
    /\ blocked' = {}
    /\ unsatLists' = {}
    /\ lpc' = "dump"
    /\ UNCHANGED <<pass, saved, example, result, handle, outputFin>>

Dump ==
    /\ lpc = "dump"
    /\ unsatLists' = lists
    /\ lpc' = "solve"
    /\ UNCHANGED <<pass, lists, results, saved, known, blocked, example, flagSat,
                   result, handle, outputFin>>

(***************************************************************************)
(* The end of main(): the lists are dumped once more, then the results.    *)
(***************************************************************************)
NothingToSave ==
    /\ lpc = "save"
    /\ lists = {}
    /\ lpc' = "stopped"
    /\ UNCHANGED <<pass, lists, results, saved, known, blocked, example, flagSat, workDir>>

SaveLists ==
    /\ lpc = "save"
    /\ lists # {}
    /\ unsatLists' = {}
    /\ lpc' = "saving"
    /\ UNCHANGED <<pass, lists, results, saved, known, blocked, example, flagSat,
                   result, handle, outputFin>>

SaveResults ==
    /\ lpc = "saving"
    /\ unsatLists' = lists
    /\ saved' = results
    /\ lpc' = "stopped"
    /\ UNCHANGED <<pass, lists, results, known, blocked, example, flagSat,
                   result, handle, outputFin>>

(***************************************************************************)
(* cegis.sh starts the background run once the first one is over.          *)
(***************************************************************************)
StartBackground ==
    /\ lpc = "stopped"
    /\ pass = 1
    /\ pass' = 2
    /\ lpc' = "load"
    /\ UNCHANGED <<lists, results, saved, known, blocked, example, flagSat, workDir>>

LearnerNext ==
    \/ Load \/ GiveUp \/ FindExample \/ EndOfDistillation \/ OpenResult \/ WriteResult
    \/ BlockExample \/ LearnCore \/ Dump \/ NothingToSave \/ SaveLists \/ SaveResults
    \/ StartBackground

LearnerStopped == lpc = "stopped" /\ pass = 2

LearnerAlone == LearnerInit /\ WorkDirInit

LearnerSpec ==
    /\ LearnerAlone
    /\ [][LearnerNext \/ (LearnerStopped /\ UNCHANGED lvars)]_lvars
    /\ WF_lvars(LearnerNext)

-----------------------------------------------------------------------------
(***************************************************************************)
(* The properties.                                                         *)
(***************************************************************************)

\* Every variable has its type.
LearnerTypeOK ==
    /\ lpc \in {"load", "solve", "openResult", "writeResult", "distill", "dump",
                "save", "saving", "stopped"}
    /\ pass \in {1, 2}
    /\ {lists, results, saved, known} \subseteq SUBSET Cores
    /\ blocked \in SUBSET States
    /\ example \in [packet : Packet, state : States]
    /\ flagSat \in 0..MaxFlag+1
    /\ WorkDirTypeOK

\* A core that the main loop can read (unsat_lists.pickle) only matches states
\* that fail for some packet, or the old program, although z3 distilled it from
\* a formula that already excluded the states of the earlier cores.
CoresAreSound ==
    \A c \in unsatLists, S \in States \ {{}} : Matches(c, S) => Unsafe(S)

Covered(S) == \E c \in lists : Matches(c, S)

\* Once distill_uc.py has written FIN, its list of cores covers every state that
\* fails for some packet but at most one, the one a formula without a core left
\* out, and there is no exception if the new program fails for no packet.
FinIsComplete ==
    outputFin =>
        \E T \in States :
            /\ NewProgramIsSafe => T = {}
            /\ \A S \in States \ {{}, T} : Unsafe(S) => Covered(S)

\* Both runs of distill_uc.py come to an end, even when no period or timeout
\* stops them.
LearnerTermination == <>LearnerStopped
=============================================================================
