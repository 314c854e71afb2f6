--------------------------- MODULE ParallelVerify ---------------------------
(***************************************************************************)
(* parallel-smt-analysis.py, and the main loop's reading of the logs it    *)
(* leaves.  One worker process per mixed state runs z3 on the state's      *)
(* formula and reports the answer; the first "sat" ends the wait for the   *)
(* others.  Terminating a worker does not terminate its z3, so the z3s of  *)
(* an earlier round may still run, and still write to the logs they hold   *)
(* open, when the next round verifies.                                     *)
(***************************************************************************)
EXTENDS Verification

CONSTANTS
    Leftover,     \* what an earlier round left of a log, <<content, orphan>>
    QueueSize,    \* the capacity of the queue
    Mortal        \* the states whose worker may die before it reports

Contents == {"sat", "unsat", "error", "empty", "absent"}

ASSUME ParallelAssumption ==
    /\ Leftover \subseteq Contents \X {"sat", "unsat", "error", "none"}
    /\ QueueSize \in Nat \ {0}
    /\ Mortal \subseteq States

VARIABLES
    states,       \* the mixed states of the candidate, one worker each
    worker,       \* where each worker stands
    solver,       \* each worker's z3 process
    log,          \* each worker's log, output-verify-simple{k}
    orphan,       \* what an earlier round's z3 has yet to write, "none" if nothing
    linked,       \* the states whose log is the file their orphan holds open
    queue,        \* the workers whose answer is in the queue
    count,        \* answers the parent still waits for
    parent,       \* where the main loop and parallel-smt-analysis.py stand
    seen          \* what the main loop read in the logs

pvars == <<states, worker, solver, log, orphan, linked, queue, count, parent, seen>>

Round == <<states, orphan, linked>>

(***************************************************************************)
(* The states of a plan form a chain; what is left of their logs is that   *)
(* of the states with the same numbers in an earlier round.                *)
(***************************************************************************)
\* Mutant of PInit: one answer too many is expected.
PInitOneMore ==
    /\ states \in {C \in SUBSET (States \ {{}, Component}) :
                     \A S, T \in C : S \subseteq T \/ T \subseteq S}
    /\ \E left \in [states -> Leftover] :
          /\ log = [S \in states |-> left[S][1]]
          /\ orphan = [S \in states |-> left[S][2]]
    /\ linked = states
    /\ worker = [S \in states |-> "new"]
    /\ solver = [S \in states |-> "none"]
    /\ queue = {}
    /\ count = Cardinality(states) + 1
    /\ parent = "cleaning"
    /\ seen = [S \in {} |-> "absent"]

PInit ==
    /\ states \in {C \in SUBSET (States \ {{}, Component}) :
                     \A S, T \in C : S \subseteq T \/ T \subseteq S}
    /\ \E left \in [states -> Leftover] :
          /\ log = [S \in states |-> left[S][1]]
          /\ orphan = [S \in states |-> left[S][2]]
    /\ linked = states
    /\ worker = [S \in states |-> "new"]
    /\ solver = [S \in states |-> "none"]
    /\ queue = {}
    /\ count = Cardinality(states)
    /\ parent = "cleaning"
    /\ seen = [S \in {} |-> "absent"]

(***************************************************************************)
(* rm -rf output-verify-simple*: the names are gone, and an orphan goes on *)
(* writing to a file that nobody will open.                                *)
(***************************************************************************)
\* Mutant of RemoveLogs: the logs are emptied and keep their files.
TruncateLogs ==
    /\ parent = "cleaning"
    /\ parent' = "starting"
    /\ log' = [S \in states |-> "empty"]
    /\ UNCHANGED <<states, worker, solver, orphan, linked, queue, count, seen>>

RemoveLogs ==
    /\ parent = "cleaning"
    /\ parent' = "starting"
    /\ log' = [S \in states |-> "absent"]
    /\ linked' = {}
    /\ UNCHANGED <<states, worker, solver, orphan, queue, count, seen>>

OrphanEnds(S) ==
    /\ orphan[S] # "none"
    /\ log' = IF S \in linked THEN [log EXCEPT ![S] = orphan[S]] ELSE log
    /\ orphan' = [orphan EXCEPT ![S] = "none"]
    /\ UNCHANGED <<states, worker, solver, linked, queue, count, parent, seen>>

StartWorker(S) ==
    /\ parent = "starting"
    /\ worker[S] = "new"
    /\ worker' = [worker EXCEPT ![S] = "ready"]
    /\ UNCHANGED <<Round, solver, log, queue, count, parent, seen>>

(***************************************************************************)
(* With no formula to verify the parent does not wait at all.              *)
(***************************************************************************)
AllStarted ==
    /\ parent = "starting"
    /\ \A S \in states : worker[S] # "new"
    /\ parent' = IF count > 0 THEN "waiting" ELSE "returned"
    /\ UNCHANGED <<Round, worker, solver, log, queue, count, seen>>

OpenLog(S) ==
    /\ worker[S] = "ready"
    /\ log' = [log EXCEPT ![S] = "empty"]
    /\ worker' = [worker EXCEPT ![S] = "opened"]
    /\ UNCHANGED <<Round, solver, queue, count, parent, seen>>

LaunchSolver(S) ==
    /\ worker[S] = "opened"
    /\ solver' = [solver EXCEPT ![S] = "running"]
    /\ worker' = [worker EXCEPT ![S] = "waiting"]
    /\ UNCHANGED <<Round, log, queue, count, parent, seen>>

(***************************************************************************)
(* z3 writes its answer to the log, whether or not its worker still lives. *)
(***************************************************************************)
SolverEnds(S) ==
    /\ solver[S] = "running"
    /\ solver' = [solver EXCEPT ![S] = "done"]
    /\ log' = [log EXCEPT ![S] = Answer(S)]
    /\ UNCHANGED <<Round, worker, queue, count, parent, seen>>

ReportAnswer(S) ==
    /\ worker[S] = "waiting"
    /\ solver[S] = "done"
    /\ Cardinality(queue) < QueueSize
    /\ queue' = queue \cup {S}
    /\ worker' = [worker EXCEPT ![S] = "reported"]
    /\ UNCHANGED <<Round, solver, log, count, parent, seen>>

(***************************************************************************)
(* A worker dies without a report: its log cannot be opened, z3 cannot be  *)
(* started, or it is killed.  Nobody tells the parent.                     *)
(***************************************************************************)
WorkerDies(S) ==
    /\ S \in Mortal
    /\ worker[S] \in {"ready", "opened", "waiting"}
    /\ worker' = [worker EXCEPT ![S] = "dead"]
    /\ UNCHANGED <<Round, solver, log, queue, count, parent, seen>>

(***************************************************************************)
(* The parent takes an answer.  A "sat", or the last answer, terminates    *)
(* the workers and ends the program.                                       *)
(***************************************************************************)
\* Mutants of GetAnswer: "unsat" counts as "sat"; only "sat" ends the wait.
GetAnswerAny(S) ==
    /\ parent = "waiting"
    /\ S \in queue
    /\ queue' = queue \ {S}
    /\ count' = count - 1
    /\ IF Answer(S) \in {"sat", "unsat"} \/ count' = 0
       THEN /\ parent' = "returned"
            /\ worker' = [T \in states |-> "terminated"]
       ELSE UNCHANGED <<parent, worker>>
    /\ UNCHANGED <<Round, solver, log, seen>>

GetAnswerUncounted(S) ==
    /\ parent = "waiting"
    /\ S \in queue
    /\ queue' = queue \ {S}
    /\ count' = count - 1
    /\ IF Answer(S) = "sat"
       THEN /\ parent' = "returned"
            /\ worker' = [T \in states |-> "terminated"]
       ELSE UNCHANGED <<parent, worker>>
    /\ UNCHANGED <<Round, solver, log, seen>>

GetAnswer(S) ==
    /\ parent = "waiting"
    /\ S \in queue
    /\ queue' = queue \ {S}
    /\ count' = count - 1
    /\ IF Answer(S) = "sat" \/ count' = 0
       THEN /\ parent' = "returned"
            /\ worker' = [T \in states |-> "terminated"]
       ELSE UNCHANGED <<parent, worker>>
    /\ UNCHANGED <<Round, solver, log, seen>>

(***************************************************************************)
(* cegis_loop.py copies a log and looks at it.                             *)
(***************************************************************************)
ReadLog(S) ==
    /\ parent = "returned"
    /\ S \notin DOMAIN seen
    /\ seen' = [T \in DOMAIN seen \cup {S} |-> IF T = S THEN log[S] ELSE seen[T]]
    /\ UNCHANGED <<Round, worker, solver, log, queue, count, parent>>

AllRead == parent = "returned" /\ DOMAIN seen = states

WorkerStep(S) ==
    OpenLog(S) \/ LaunchSolver(S) \/ SolverEnds(S) \/ ReportAnswer(S)

ParentStep(S) == StartWorker(S) \/ GetAnswer(S) \/ ReadLog(S)

(***************************************************************************)
(* The phase is over, or waits for an answer that no worker will give.     *)
(***************************************************************************)
Stuck ==
    /\ parent = "waiting"
    /\ queue = {}
    /\ \A S \in states : worker[S] \in {"reported", "dead"}

Over ==
    /\ AllRead \/ Stuck
    /\ \A S \in states : solver[S] # "running" /\ orphan[S] = "none"
    /\ UNCHANGED pvars

PNext ==
    \/ RemoveLogs
    \/ AllStarted
    \/ \E S \in states : WorkerStep(S) \/ ParentStep(S) \/ WorkerDies(S) \/ OrphanEnds(S)
    \/ Over

(***************************************************************************)
(* The system never stays idle while a process of this round can run, and  *)
(* the z3s end.  A worker takes finitely many steps, so this gives every   *)
(* worker its turn.                                                        *)
(***************************************************************************)
PSpec ==
    /\ PInit /\ [][PNext]_pvars
    /\ WF_pvars(RemoveLogs)
    /\ WF_pvars(AllStarted)
    /\ WF_pvars(\E S \in states : ParentStep(S))
    /\ WF_pvars(\E S \in states : WorkerStep(S))

-----------------------------------------------------------------------------
(***************************************************************************)
(* The properties.                                                         *)
(***************************************************************************)

\* Every variable has its type.
PTypeOK ==
    /\ states \subseteq States \ {{}, Component}
    /\ worker \in [states -> {"new", "ready", "opened", "waiting", "reported", "dead", "terminated"}]
    /\ solver \in [states -> {"none", "running", "done"}]
    /\ log \in [states -> Contents]
    /\ orphan \in [states -> {"sat", "unsat", "error", "none"}]
    /\ linked \subseteq states
    /\ queue \subseteq states
    /\ count \in 0..Cardinality(states)
    /\ parent \in {"cleaning", "starting", "waiting", "returned"}
    /\ DOMAIN seen \subseteq states

\* From the moment the workers start, what a log holds is what z3 answers on
\* this round's formula or nothing, though z3s of an earlier round may still be
\* writing: the logs are removed before they are opened again, so that an
\* orphan's file is never the one the main loop reads.
LogsAreOfThisRound ==
    parent # "cleaning" => \A S \in states : log[S] \in {Answer(S), "empty", "absent"}

Phase == INSTANCE VerifyPhase WITH outcome <- IF AllRead THEN {seen} ELSE {}

\* The workers, the bounded queue, the termination or death of the workers and
\* the z3 processes that outlive them give the main loop one of the outcomes
\* that CegisLoop assumes of its step Verify.
ImplementsVerifyPhase == Phase!PhaseSpec

\* parallel-smt-analysis.py returns and all its logs get read, unless a worker
\* dies and with it every worker that would have reported "sat": the parent
\* waits for as many answers as it started workers.
VerificationEnds ==
    \/ <>AllRead
    \/ <>[](/\ \E S \in states : worker[S] = "dead"
            /\ \A S \in states : Answer(S) = "sat" => worker[S] = "dead")
=============================================================================
