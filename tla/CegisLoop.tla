------------------------------ MODULE CegisLoop ------------------------------
(***************************************************************************)
(* The main process: the loop over plan lengths of cegis.sh and, for each  *)
(* length, the counterexample-guided loop of cegis_loop.py with the        *)
(* programs it calls.  Specs without definition concatenation (output-or   *)
(* says NOP), free variable analysis off.                                  *)
(***************************************************************************)
EXTENDS WorkDir, Verification

CONSTANTS
    MaxLen,       \* --max_seq_len
    MaxRounds,    \* --rounds (100 in cegis.sh)
    Objective,    \* --objective
    Unlimited,    \* --headroom INF, passed on as constraint 100000
    SolverFails   \* the lengths whose formula z3 may give up on

ASSUME LoopAssumption ==
    /\ MaxLen \in Nat \ {0}
    /\ MaxRounds \in Nat \ {0}
    /\ Objective \in {"maximize", "minimize", "nomin", "off"}
    /\ Unlimited \in BOOLEAN
    /\ SolverFails \subseteq Nat

VARIABLES
    pc,           \* where the main process stands
    len,          \* the length being tried
    formula,      \* the plans that synthesis-init.smt admits
    round,        \* the round of cegis_loop.py
    ces,          \* counterexample packets (assignments.pickle)
    plan,         \* the candidate (plan.pickle)
    logs,         \* the verifiers' logs (output-verify-simple*), by state
    todo,         \* the states whose log is still to be scanned
    termination,  \* file "termination"
    outputPlan,   \* file "output-plan", with the length it was found at
    crashed       \* cegis_loop.py left with exit(1) for the last length

main == <<pc, len, formula, round, ces, plan, logs, todo, termination, outputPlan, crashed>>

vars == <<main, workDir>>

NoPlan == [i \in 1..0 |-> {}]

LenOf(p) == IF p = NoPlan THEN 0 ELSE len

NoLogs == [S \in {} |-> "absent"]

-----------------------------------------------------------------------------
(***************************************************************************)
(* The proposal phase.                                                     *)
(***************************************************************************)

(***************************************************************************)
(* concat_smt.py: one copy of the formula per counterexample, its packet   *)
(* fixed, and one more whose packet is free; every intermediate state      *)
(* avoids every learned core.                                              *)
(***************************************************************************)
Copies(n, p) ==
    /\ \A q \in ces : Passes(n, p, q)
    /\ \E q \in Packet : Passes(n, p, q)

\* Mutant of AvoidsCores: the bits a core fixes to 0 are dropped.
AvoidsOnes(n, p, cores) ==
    \A i \in 1..n, c \in cores : ~(c.one \subseteq p[i])

AvoidsCores(n, p, cores) ==
    \A i \in 1..n, c \in cores : ~Matches(c, p[i])

\* Mutant of Candidates: the counterexamples are not fixed.
CandidatesUnfixed ==
    {p \in formula :
        /\ \E q \in Packet : Passes(len, p, q)
        /\ AvoidsCores(len, p, unsatLists)}

Candidates ==
    {p \in formula :
        /\ Copies(len, p)
        /\ AvoidsCores(len, p, unsatLists)}

(***************************************************************************)
(* z3 optimises the objectives lexicographically: DIFF first, then the     *)
(* CURR of each state in the order in which a Python dict lists them.      *)
(***************************************************************************)
Orders(n) == {f \in [1..n -> 1..n] : \A i, j \in 1..n : f[i] = f[j] => i = j}

FirstLower(n, p, q, order) ==
    \E k \in 1..n :
        /\ CURR(p[order[k]]) < CURR(q[order[k]])
        /\ \A j \in 1..k-1 : CURR(p[order[j]]) = CURR(q[order[j]])

Complete(n, p) == {i \in 1..n : CURR(p[i]) >= total_changes}

\* Mutant of Better: DIFF is minimised.
BetterLowest(n, p, q, order) ==
    LET dp == DIFF(n, p)
        dq == DIFF(n, q)
    IN  CASE Objective = "maximize" -> dp < dq \/ (dp = dq /\ FirstLower(n, p, q, order))
          [] Objective = "minimize" -> dp < dq \/ (dp = dq /\ FirstLower(n, q, p, order))
          [] OTHER                  -> FALSE

Better(n, p, q, order) ==
    LET dp == DIFF(n, p)
        dq == DIFF(n, q)
        cp == Cardinality(Complete(n, p))
        cq == Cardinality(Complete(n, q))
    IN  CASE Objective = "maximize" -> dp > dq \/ (dp = dq /\ FirstLower(n, p, q, order))
          [] Objective = "minimize" -> dp > dq \/ (dp = dq /\ FirstLower(n, q, p, order))
          [] Objective = "nomin"    -> cp < cq \/ (cp = cq /\ dp < dq)
          [] Objective = "off"      -> FALSE

Preferred(n, candidates) ==
    {p \in candidates :
        \E order \in Orders(n) : \A q \in candidates : ~Better(n, q, p, order)}

(***************************************************************************)
(* What termination.py --cond leaves in the file "termination".            *)
(***************************************************************************)
Verdict(cond) == CASE cond = "fail" -> "DEAD" [] cond = "complete" -> "ENDED"

(***************************************************************************)
(* The states of a plan that get verified.                                 *)
(***************************************************************************)
\* Mutant of Mixed: the last state is left out.
MixedButLast(n, p) == {p[i] : i \in 1..n-1} \ {{}, Component}

Mixed(n, p) == {p[i] : i \in 1..n} \ {{}, Component}

-----------------------------------------------------------------------------
(***************************************************************************)
(* The actions.                                                            *)
(***************************************************************************)

Init ==
    /\ pc = "length"
    /\ len = 1
    /\ formula = {}
    /\ round = 0
    /\ ces = {}
    /\ plan = NoPlan
    /\ logs = NoLogs
    /\ todo = {}
    /\ termination = "empty"
    /\ outputPlan = [len |-> 0, plan |-> NoPlan]
    /\ crashed = FALSE
    /\ WorkDirInit

(***************************************************************************)
(* extract_prev.py renames the counterexamples for the formula of a new    *)
(* length.  It reads the names from solve_prev.smt, which a crash leaves   *)
(* behind at an older length, so that any of them may get lost.            *)
(***************************************************************************)
extract_prev == ces' \in IF crashed THEN SUBSET ces ELSE {ces}

StartLength ==
    /\ pc = "length"
    /\ extract_prev
    /\ formula' = WellFormed(len)
    /\ round' = 1
    /\ crashed' = FALSE
    /\ pc' = "propose"
    /\ UNCHANGED <<len, plan, logs, todo, termination, outputPlan, workDir>>

(***************************************************************************)
(* concat_smt.py reads the counterexamples and the cores, z3 solves, and   *)
(* extract_plan.py stores the plan it finds, and z3's answer.              *)
(***************************************************************************)
extract_plan(p) == plan' = p /\ result' = "SAT"

Propose ==
    /\ pc = "propose"
    /\ \E p \in Preferred(len, Candidates) : extract_plan(p)
    /\ pc' = "prepare"
    /\ UNCHANGED <<len, formula, round, ces, logs, todo, termination, outputPlan, crashed,
                   handle, outputFin, unsatLists>>

(***************************************************************************)
(* z3 runs out of memory, or gets killed: what it printed has no "unsat"   *)
(* and no model, and an empty plan is stored.                              *)
(***************************************************************************)
ProposeFails ==
    /\ pc = "propose"
    /\ len \in SolverFails
    /\ plan' = NoPlan
    /\ result' = "empty"
    /\ pc' = "prepare"
    /\ UNCHANGED <<len, formula, round, ces, logs, todo, termination, outputPlan, crashed,
                   handle, outputFin, unsatLists>>

\* Mutant of NoCandidate: any output of z3 counts as "unsat".
NoCandidateAnyOutput ==
    /\ pc = "propose"
    /\ termination' = "DEAD"
    /\ pc' = "endLength"
    /\ UNCHANGED <<len, formula, round, ces, plan, logs, todo, outputPlan, crashed, workDir>>

NoCandidate ==
    /\ pc = "propose"
    /\ Candidates = {}
    /\ termination' = Verdict("fail")
    /\ pc' = "endLength"
    /\ UNCHANGED <<len, formula, round, ces, plan, logs, todo, outputPlan, crashed, workDir>>

(***************************************************************************)
(* incremental_verify.py writes one formula per mixed state; the results   *)
(* of the last round are removed.                                          *)
(***************************************************************************)
Prepare ==
    /\ pc = "prepare"
    /\ result' = "absent"
    /\ handle' = Unlink(handle)
    /\ logs' = NoLogs
    /\ todo' = Mixed(LenOf(plan), plan)
    /\ pc' = "checkFin"
    /\ UNCHANGED <<len, formula, round, ces, plan, termination, outputPlan, crashed,
                   outputFin, unsatLists>>

SkipVerification ==
    /\ pc = "checkFin"
    /\ outputFin
    /\ result' = "UNSAT"
    /\ pc' = "decide"
    /\ UNCHANGED <<len, formula, round, ces, plan, logs, todo, termination, outputPlan, crashed,
                   handle, outputFin, unsatLists>>

Verify ==
    /\ pc = "checkFin"
    /\ ~outputFin
    /\ logs' \in VerifyOutcomes(todo)
    /\ pc' = "scan"
    /\ UNCHANGED <<len, formula, round, ces, plan, todo, termination, outputPlan, crashed, workDir>>

(***************************************************************************)
(* The scan of the logs, in the order of the states in the plan.           *)
(***************************************************************************)
IsNext(S) == S \in todo /\ \A T \in todo : S \subseteq T

ScanVerified ==
    /\ pc = "scan"
    /\ \E S \in todo :
        /\ IsNext(S) /\ logs[S] = "unsat"
        /\ todo' = todo \ {S}
    /\ result' = "UNSAT"
    /\ UNCHANGED <<pc, len, formula, round, ces, plan, logs, termination, outputPlan, crashed,
                   handle, outputFin, unsatLists>>

(***************************************************************************)
(* extract_packet.py and extract_simple.py add the packet of z3's model.   *)
(***************************************************************************)
extract_packet(S) == \E q \in Counterexamples(S) : ces' = ces \cup {q}

ScanViolation ==
    /\ pc = "scan"
    /\ \E S \in todo :
        /\ IsNext(S) /\ logs[S] = "sat"
        /\ extract_packet(S)
    /\ result' = "SAT"
    /\ pc' = "decide"
    /\ UNCHANGED <<len, formula, round, plan, logs, todo, termination, outputPlan, crashed,
                   handle, outputFin, unsatLists>>

ScanNoAnswer ==
    /\ pc = "scan"
    /\ \E S \in todo : IsNext(S) /\ logs[S] \in {"error", "empty"}
    /\ pc' = "decide"
    /\ UNCHANGED <<len, formula, round, ces, plan, logs, todo, termination, outputPlan,
                   crashed, workDir>>

ScanEnd ==
    /\ pc = "scan"
    /\ todo = {}
    /\ pc' = "decide"
    /\ UNCHANGED <<len, formula, round, ces, plan, logs, todo, termination, outputPlan,
                   crashed, workDir>>

(***************************************************************************)
(* "cp output-verify-simple{k} output1" fails: execute_cmd exits.          *)
(***************************************************************************)
ScanCrash ==
    /\ pc = "scan"
    /\ \E S \in todo : IsNext(S) /\ logs[S] = "absent"
    /\ crashed' = TRUE
    /\ pc' = "endLength"
    /\ UNCHANGED <<len, formula, round, ces, plan, logs, todo, termination, outputPlan, workDir>>

(***************************************************************************)
(* The decision on the candidate.  interpret.py writes output-plan, and    *)
(* EXIT over ENDED when the last state is already the new program.         *)
(***************************************************************************)
Introspection(n, p) ==
    IF Unlimited /\ n > 0 /\ p[n] = Component THEN "EXIT" ELSE Verdict("complete")

Accept ==
    /\ pc = "decide"
    /\ result # "SAT"
    /\ result' = IF result = "absent" THEN "empty" ELSE result
    /\ outputPlan' = [len |-> LenOf(plan), plan |-> plan]
    /\ termination' = Introspection(LenOf(plan), plan)
    /\ pc' = "endLength"
    /\ UNCHANGED <<len, formula, round, ces, plan, logs, todo, crashed, handle, outputFin,
                   unsatLists>>

\* Mutant of NextRound: no limit on the rounds.
NextRoundUnlimited ==
    /\ pc = "decide"
    /\ result = "SAT"
    /\ round' = round + 1
    /\ pc' = "propose"
    /\ UNCHANGED <<len, formula, ces, plan, logs, todo, termination, outputPlan, crashed, workDir>>

NextRound ==
    /\ pc = "decide"
    /\ result = "SAT"
    /\ round < MaxRounds
    /\ round' = round + 1
    /\ pc' = "propose"
    /\ UNCHANGED <<len, formula, ces, plan, logs, todo, termination, outputPlan, crashed, workDir>>

\* Mutant of RoundsExhausted: the last round is not used.
RoundsExhaustedEarly ==
    /\ pc = "decide"
    /\ result = "SAT"
    /\ round >= MaxRounds - 1
    /\ pc' = "endLength"
    /\ UNCHANGED <<len, formula, round, ces, plan, logs, todo, termination, outputPlan,
                   crashed, workDir>>

RoundsExhausted ==
    /\ pc = "decide"
    /\ result = "SAT"
    /\ round = MaxRounds
    /\ pc' = "endLength"
    /\ UNCHANGED <<len, formula, round, ces, plan, logs, todo, termination, outputPlan,
                   crashed, workDir>>

(***************************************************************************)
(* The loop of cegis.sh: the next length, or the report (final_result.py). *)
(***************************************************************************)
\* Mutants of NextLength: one length too many; the length is not increased.
NextLengthOneMore ==
    /\ pc = "endLength"
    /\ termination # "EXIT"
    /\ len <= MaxLen
    /\ len' = len + 1
    /\ plan' = IF crashed THEN plan ELSE NoPlan
    /\ pc' = "length"
    /\ UNCHANGED <<formula, round, ces, logs, todo, termination, outputPlan, crashed, workDir>>

NextLengthSame ==
    /\ pc = "endLength"
    /\ termination # "EXIT"
    /\ len < MaxLen
    /\ plan' = IF crashed THEN plan ELSE NoPlan
    /\ pc' = "length"
    /\ UNCHANGED <<len, formula, round, ces, logs, todo, termination, outputPlan, crashed, workDir>>

NextLength ==
    /\ pc = "endLength"
    /\ termination # "EXIT"
    /\ len < MaxLen
    /\ len' = len + 1
    /\ plan' = IF crashed THEN plan ELSE NoPlan
    /\ pc' = "length"
    /\ UNCHANGED <<formula, round, ces, logs, todo, termination, outputPlan, crashed, workDir>>

Report ==
    /\ pc = "endLength"
    /\ termination = "EXIT" \/ len = MaxLen
    /\ pc' = "done"
    /\ UNCHANGED <<len, formula, round, ces, plan, logs, todo, termination, outputPlan,
                   crashed, workDir>>

Terminated == pc = "done" /\ UNCHANGED vars

(***************************************************************************)
(* The loop on its own: the unsat core learner contributed neither cores   *)
(* nor FIN, so that no verification is skipped.                            *)
(***************************************************************************)
SoloNext ==
    \/ StartLength \/ Propose \/ ProposeFails \/ NoCandidate \/ Prepare \/ Verify
    \/ ScanVerified \/ ScanViolation \/ ScanNoAnswer \/ ScanEnd \/ ScanCrash
    \/ Accept \/ NextRound \/ RoundsExhausted \/ NextLength \/ Report

Next == SoloNext \/ Terminated

Spec == Init /\ [][Next]_vars

FairSpec == Spec /\ WF_vars(SoloNext)

(***************************************************************************)
(* The loop next to a learner (module FlexPlan).                           *)
(***************************************************************************)
MainNext == SoloNext \/ SkipVerification

-----------------------------------------------------------------------------
(***************************************************************************)
(* The properties.                                                         *)
(***************************************************************************)

AllPlans == UNION {Plans(n) : n \in 0..MaxLen}

\* Every variable has its type.
TypeOK ==
    /\ pc \in {"length", "propose", "prepare", "checkFin", "scan", "decide",
               "endLength", "done"}
    /\ len \in 1..MaxLen
    /\ formula \subseteq Plans(len) \/ pc = "length"
    /\ round \in 0..MaxRounds
    /\ ces \subseteq Packet
    /\ plan \in AllPlans
    /\ pc \in {"prepare", "checkFin", "scan", "decide"} => plan \in formula \cup {NoPlan}
    /\ todo \subseteq States
    /\ termination \in {"empty", "DEAD", "ENDED", "EXIT"}
    /\ outputPlan.len \in 0..MaxLen
    /\ outputPlan.plan \in Plans(outputPlan.len)
    /\ crashed \in BOOLEAN
    /\ WorkDirTypeOK

\* The plan in output-plan never needs more resource in any of its transitions
\* than the old program's use plus the headroom, in exact arithmetic, whatever
\* the 32-bit counters of the instrumented program (synthesizer_spec.py) do.
OutputStaysWithinHeadroom ==
    outputPlan.len > 0 => StaysWithinHeadroom(outputPlan.len, outputPlan.plan)

\* When z3 finds no candidate (cegis_loop.py, "Could not find a update plan of
\* this size") every plan its formula admits fails for some packet: the
\* counterexamples and cores collected so far never exclude a correct plan.
DeadIsSound ==
    [][pc = "propose" /\ pc' = "endLength"
           => \A p \in formula : \E q \in Packet : ~Passes(len, p, q)]_vars

\* A candidate that is accepted after every one of its mixed states was found
\* "unsat" violates the spec for no packet: the final decision on file "result"
\* (cegis_loop.py) is right when the scan was complete.
CompleteScanIsSafe ==
    pc = "decide" /\ result # "SAT" /\ todo = {} => SafePlan(LenOf(plan), plan)

\* A round that ends with "Counter examples have been found" adds a packet that
\* was not known and that the candidate fails, so that no candidate of a length
\* is proposed twice.
RoundsMakeProgress ==
    [][pc = "scan" /\ pc' = "decide" /\ result' = "SAT"
           => \E q \in ces' \ ces : ~Passes(len, plan, q)]_vars

\* A plan of a longer length that replaces a correct one in output-plan never
\* has a larger resource spike, if the new program is correct: trying longer
\* sequences (cegis.sh) under an objective that maximises DIFF loses nothing.
LongerPlansAreNoWorse ==
    [][(/\ Objective \in {"maximize", "minimize"} /\ NewProgramIsSafe
        /\ outputPlan.len > 0 /\ SafePlan(outputPlan.len, outputPlan.plan)
        /\ outputPlan'.len > 0)
           => DIFF(outputPlan'.len, outputPlan'.plan) >= DIFF(outputPlan.len, outputPlan.plan)]_vars

\* The plan in output-plan violates the spec for no packet.
OutputIsSafe ==
    outputPlan.len > 0 => SafePlan(outputPlan.len, outputPlan.plan)

\* cegis_loop.py leaves a length only for a reason that is true: every plan its
\* formula admits fails for some packet and termination says DEAD, the candidate
\* is in output-plan, the last round refuted the candidate with a packet it fails,
\* z3 gave up, or the scan crashed.
LengthIsDecided ==
    [][pc # "endLength" /\ pc' = "endLength" /\ ~crashed' =>
         \/ /\ termination' = "DEAD"
            /\ \A p \in formula : \E q \in Packet : ~Passes(len, p, q)
         \/ plan \in formula /\ outputPlan' = [len |-> len, plan |-> plan]
         \/ len \in SolverFails /\ plan = NoPlan
         \/ round = MaxRounds /\ \E q \in ces : ~Passes(len, plan, q)]_vars

\* After EXIT ("no need to try longer sequence") no longer plan would have been
\* both safe and better in its resource spike.
ExitIsOptimal ==
    termination = "EXIT" =>
        \A n \in outputPlan.len+1..MaxLen : \A p \in WellFormed(n) :
            SafePlan(n, p) => DIFF(n, p) <= DIFF(outputPlan.len, outputPlan.plan)

\* cegis.sh ends.
Termination == <>(pc = "done")
=============================================================================
