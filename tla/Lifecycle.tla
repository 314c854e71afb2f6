----------------------------- MODULE Lifecycle ------------------------------
(***************************************************************************)
(* The runs of cegis.sh in one working directory, and the processes a run  *)
(* leaves behind.  A run cleans the directory, compiles the P4 program of  *)
(* plan length 1, starts a frontend that compiles the longer ones and an   *)
(* unsat core learner in the background, waits for the formula of each     *)
(* length, prints its plan, starts a killer for its background processes,  *)
(* and cleans the directory again.                                         *)
(*                                                                         *)
(* A file is modelled by the run whose program it comes from.              *)
(***************************************************************************)
EXTENDS Integers, Sequences, FiniteSets

CONSTANTS
    MaxRuns,      \* runs of cegis.sh, one after the other
    MaxLen        \* the longest plan a run tries

ASSUME LifecycleAssumption == {MaxRuns, MaxLen} \subseteq Nat \ {0}

Runs == 1..MaxRuns

Lens == 1..MaxLen

LongLens == 2..MaxLen

(***************************************************************************)
(* The P4 text of a run, before or after the loop has regenerated it with  *)
(* free variables; a formula has the text it was compiled from.            *)
(***************************************************************************)
Text == [run : Runs, free : BOOLEAN]

Absent == [run |-> 0, free |-> FALSE]

TextOrAbsent == Text \cup {Absent}

Of(r) == [run |-> r, free |-> FALSE]

VARIABLES
    \* the script
    run, pc,
    at,           \* the next command of clean_repo.sh
    len,          \* the plan length the script is at
    \* files
    p4,           \* X-<len>-merge.p4
    formula,      \* direct-X-<len>-merge.smt
    folder,       \* test_folder_X-<len>-merge: its P4 text and its direct.smt
    lists,        \* the runs whose learner wrote unsat_lists.pickle
    fin,          \* the runs whose learner wrote output-fin
    ready,        \* whether output-ready has the mark READY
    pids,         \* uc_pid.pickle and frontend_pid.pickle
    \* background processes, by run
    frontend, queue, job, learner, killer,
    \* history
    taken,        \* the formula the loop works with (direct-X-merge.smt)
    outlived,     \* earlier learners that were alive when this run cleaned up
    interrupted,  \* runs that were interrupted
    failed        \* runs with a compilation that failed

script == <<run, pc, at, len>>

files == <<p4, formula, folder, lists, fin, ready, pids>>

background == <<frontend, queue, job, learner, killer>>

history == <<taken, outlived, interrupted, failed>>

vars == <<script, files, background, history>>

NoFolder == [exists |-> FALSE, src |-> Absent, smt |-> Absent]

NoJob == [step |-> "idle", len |-> 0, src |-> Absent, cwd |-> FALSE]

-----------------------------------------------------------------------------
Init ==
    /\ run = 1 /\ pc = "cleanStart" /\ at = 1 /\ len = 1
    /\ p4 = [l \in LongLens |-> Absent]
    /\ formula = [l \in Lens |-> Absent]
    /\ folder = [l \in LongLens |-> NoFolder]
    /\ lists = {} /\ fin = {} /\ ready = FALSE
    /\ pids = [uc |-> 0, frontend |-> 0]
    /\ frontend = [r \in Runs |-> "off"]
    /\ queue = [r \in Runs |-> << >>]
    /\ job = [r \in Runs |-> NoJob]
    /\ learner = [r \in Runs |-> "off"]
    /\ killer = [r \in Runs |-> "off"]
    /\ taken = Absent
    /\ outlived = {} /\ interrupted = {} /\ failed = {}

-----------------------------------------------------------------------------
(***************************************************************************)
(* clean_repo.sh, which a run executes at its start and at its end.  The   *)
(* files come off in the order of its commands, background processes run   *)
(* in between.                                                             *)
(***************************************************************************)
Cleaning == pc \in {"cleanStart", "cleanEnd"}

\* Mutant of NextCommand: one command too many.
NextCommandOneMore ==
    IF at < 6 THEN at' = at + 1 /\ UNCHANGED pc
    ELSE at' = 1 /\ pc' = IF pc = "cleanStart" THEN "init" ELSE "ended"

NextCommand ==
    IF at < 5 THEN at' = at + 1 /\ UNCHANGED pc
    ELSE at' = 1 /\ pc' = IF pc = "cleanStart" THEN "init" ELSE "ended"

CleanSmt ==
    /\ Cleaning /\ at = 1 /\ NextCommand
    /\ formula' = [l \in Lens |-> Absent]
    /\ UNCHANGED <<run, len, p4, folder, lists, fin, ready, pids, background, history>>

\* Mutant of CleanPickle: only the pid files are removed.
CleanPidFiles ==
    /\ Cleaning /\ at = 2 /\ NextCommand
    /\ pids' = [uc |-> 0, frontend |-> 0]
    /\ outlived' = IF pc = "cleanStart" THEN {r \in Runs : r < run /\ learner[r] # "off"}
                   ELSE outlived
    /\ UNCHANGED <<run, len, p4, formula, folder, lists, fin, ready, background,
                   taken, interrupted, failed>>

CleanPickle ==
    /\ Cleaning /\ at = 2 /\ NextCommand
    /\ lists' = {}
    /\ pids' = [uc |-> 0, frontend |-> 0]
    /\ outlived' = IF pc = "cleanStart" THEN {r \in Runs : r < run /\ learner[r] # "off"}
                   ELSE outlived
    /\ UNCHANGED <<run, len, p4, formula, folder, fin, ready, background,
                   taken, interrupted, failed>>

CleanP4 ==
    /\ Cleaning /\ at = 3 /\ NextCommand
    /\ p4' = [l \in LongLens |-> Absent]
    /\ UNCHANGED <<run, len, formula, folder, lists, fin, ready, pids, background, history>>

CleanOutput ==
    /\ Cleaning /\ at = 4 /\ NextCommand
    /\ fin' = {} /\ ready' = FALSE
    /\ UNCHANGED <<run, len, p4, formula, folder, lists, pids, background, history>>

(***************************************************************************)
(* A compilation whose folder is removed goes on, and its output is lost.  *)
(***************************************************************************)
LoseFolders(ls) ==
    /\ folder' = [l \in LongLens |-> IF l \in ls THEN NoFolder ELSE folder[l]]
    /\ job' = [r \in Runs |-> IF job[r].len \in ls THEN [job[r] EXCEPT !.cwd = FALSE] ELSE job[r]]

\* Mutant of CleanFolders: the folders of the compilations are left.
CleanNoFolders ==
    /\ Cleaning /\ at = 5 /\ NextCommand
    /\ UNCHANGED <<run, len, files, background, history>>

CleanFolders ==
    /\ Cleaning /\ at = 5 /\ NextCommand
    /\ LoseFolders(LongLens)
    /\ UNCHANGED <<run, len, p4, formula, lists, fin, ready, pids,
                   frontend, queue, learner, killer, history>>

-----------------------------------------------------------------------------
(***************************************************************************)
(* The rest of cegis.sh.                                                   *)
(***************************************************************************)

(***************************************************************************)
(* The programs of length 1 and of the learner are compiled first, and the *)
(* script waits for them.  After an error it goes on.                      *)
(***************************************************************************)
InitCompile ==
    /\ pc = "init" /\ pc' = "generate"
    /\ \/ formula' = [formula EXCEPT ![1] = Of(run)] /\ UNCHANGED failed
       \/ failed' = failed \cup {run} /\ UNCHANGED formula
    /\ UNCHANGED <<run, at, len, p4, folder, lists, fin, ready, pids, background,
                   taken, outlived, interrupted>>

\* Mutant of Generate: the longest P4 program is not compiled.
GenerateOneShort ==
    /\ pc = "generate" /\ pc' = "learn"
    /\ p4' = [l \in LongLens |-> Of(run)]
    /\ frontend' = [frontend EXCEPT ![run] = "on"]
    /\ queue' = [queue EXCEPT ![run] = [i \in 1..(MaxLen - 2) |-> i + 1]]
    /\ pids' = [pids EXCEPT !.frontend = run]
    /\ UNCHANGED <<run, at, len, formula, folder, lists, fin, ready, job, learner, killer, history>>

(***************************************************************************)
(* The longer programs are generated, and the frontend started that will   *)
(* compile them in the order of their length.  It leaves its pid.          *)
(***************************************************************************)
Generate ==
    /\ pc = "generate" /\ pc' = "learn"
    /\ p4' = [l \in LongLens |-> Of(run)]
    /\ frontend' = [frontend EXCEPT ![run] = "on"]
    /\ queue' = [queue EXCEPT ![run] = [i \in 1..(MaxLen - 1) |-> i + 1]]
    /\ pids' = [pids EXCEPT !.frontend = run]
    /\ UNCHANGED <<run, at, len, formula, folder, lists, fin, ready, job, learner, killer, history>>

(***************************************************************************)
(* The learner's first pass is in the foreground.  The second leaves its   *)
(* pid in place of the first's.                                            *)
(***************************************************************************)
Preprocess ==
    /\ pc = "learn" /\ pc' = "wait"
    /\ lists' = lists \cup {run}
    /\ fin' \in {fin, fin \cup {run}}
    /\ learner' = [learner EXCEPT ![run] = "on"]
    /\ pids' = [pids EXCEPT !.uc = run]
    /\ UNCHANGED <<run, at, len, p4, formula, folder, ready,
                   frontend, queue, job, killer, history>>

Take ==
    /\ pc = "wait" /\ formula[len] # Absent
    /\ pc' = "loop"
    /\ taken' = formula[len]
    /\ UNCHANGED <<run, at, len, files, background, outlived, interrupted, failed>>

\* Mutant of Regenerated: the lengths still to come are regenerated too.
RegeneratedAll ==
    [l \in LongLens |-> [run |-> run, free |-> TRUE]]

(***************************************************************************)
(* With --free_var on, and once the learner is done, cegis_loop.py writes  *)
(* the P4 texts up to the current length anew, a single time in a run.     *)
(***************************************************************************)
Regenerated ==
    [l \in LongLens |-> IF l <= len THEN [run |-> run, free |-> TRUE] ELSE p4[l]]

(***************************************************************************)
(* cegis_loop.py for one length.  It may end the search (EXIT).            *)
(***************************************************************************)
Loop ==
    /\ pc = "loop"
    /\ \/ UNCHANGED <<p4, ready>>
       \/ fin # {} /\ ~ready /\ p4' = Regenerated /\ ready' = TRUE
    /\ \/ len < MaxLen /\ len' = len + 1 /\ pc' = "wait"
       \/ pc' = "report" /\ UNCHANGED len
    /\ taken' = Absent
    /\ UNCHANGED <<run, at, formula, folder, lists, fin, pids, background,
                   outlived, interrupted, failed>>

(***************************************************************************)
(* The last run is followed up to its report.                              *)
(***************************************************************************)
Report ==
    /\ pc = "report" /\ run < MaxRuns
    /\ pc' = "cleanEnd"
    /\ killer' = [killer EXCEPT ![run] = "uc"]
    /\ UNCHANGED <<run, at, len, files, frontend, queue, job, learner, history>>

StartRun ==
    /\ run < MaxRuns /\ run' = run + 1
    /\ pc' = "cleanStart" /\ at' = 1 /\ len' = 1
    /\ taken' = Absent
    /\ UNCHANGED <<files, background, outlived, failed>>

NextRun == pc = "ended" /\ StartRun /\ UNCHANGED interrupted

(***************************************************************************)
(* The user interrupts the script and starts it again.  Its background     *)
(* processes have been started with nohup.                                 *)
(***************************************************************************)
Interrupt == pc # "ended" /\ StartRun /\ interrupted' = interrupted \cup {run}

-----------------------------------------------------------------------------
(***************************************************************************)
(* The one worker of parallel-p4c-analysis.py in the background, in        *)
(* check_call: make the folder, copy the P4 file into it, compile there,   *)
(* copy the formula back, remove the folder.  Every command may find its   *)
(* files gone; the job goes on, except that there is no compilation        *)
(* without a folder to run it in.                                          *)
(***************************************************************************)
MakeFolder(r) ==
    /\ frontend[r] = "on" /\ job[r].step = "idle" /\ queue[r] # << >>
    /\ LET l == Head(queue[r]) IN
         /\ job' = [job EXCEPT ![r] = [step |-> "copy", len |-> l, src |-> Absent, cwd |-> FALSE]]
         /\ folder' = [folder EXCEPT ![l].exists = TRUE]
    /\ queue' = [queue EXCEPT ![r] = Tail(@)]
    /\ UNCHANGED <<script, p4, formula, lists, fin, ready, pids,
                   frontend, learner, killer, history>>

CopyP4(r) ==
    /\ job[r].step = "copy"
    /\ LET l == job[r].len IN
         folder' = IF folder[l].exists /\ p4[l] # Absent
                   THEN [folder EXCEPT ![l].src = p4[l]] ELSE folder
    /\ job' = [job EXCEPT ![r].step = "compile"]
    /\ UNCHANGED <<script, p4, formula, lists, fin, ready, pids,
                   frontend, queue, learner, killer, history>>

Compile(r) ==
    /\ job[r].step = "compile"
    /\ LET f == folder[job[r].len] IN
         job' = [job EXCEPT ![r] =
                   IF f.exists THEN [@ EXCEPT !.step = "compiling", !.src = f.src, !.cwd = TRUE]
                   ELSE NoJob]
    /\ UNCHANGED <<script, files, frontend, queue, learner, killer, history>>

Compiled(r) ==
    /\ job[r].step = "compiling"
    /\ job' = [job EXCEPT ![r].step = "export"]
    /\ \/ /\ job[r].src # Absent /\ job[r].cwd
          /\ folder' = [folder EXCEPT ![job[r].len].smt = job[r].src]
          /\ UNCHANGED failed
       \/ failed' = failed \cup {run} /\ UNCHANGED folder
    /\ UNCHANGED <<script, p4, formula, lists, fin, ready, pids, frontend, queue, learner, killer,
                   taken, outlived, interrupted>>

Export(r) ==
    /\ job[r].step = "export"
    /\ job' = [job EXCEPT ![r].step = "remove"]
    /\ LET smt == folder[job[r].len].smt IN
         formula' = IF smt # Absent THEN [formula EXCEPT ![job[r].len] = smt] ELSE formula
    /\ UNCHANGED <<script, p4, folder, lists, fin, ready, pids,
                   frontend, queue, learner, killer, history>>

RemoveFolder(r) ==
    /\ job[r].step = "remove"
    /\ LET l == job[r].len IN
         /\ folder' = [folder EXCEPT ![l] = NoFolder]
         /\ job' = [q \in Runs |->
                      IF q = r THEN NoJob
                      ELSE IF job[q].len = l THEN [job[q] EXCEPT !.cwd = FALSE] ELSE job[q]]
    /\ UNCHANGED <<script, p4, formula, lists, fin, ready, pids,
                   frontend, queue, learner, killer, history>>

-----------------------------------------------------------------------------
(***************************************************************************)
(* distill_uc.py in the background writes unsat cores as it finds them,    *)
(* and FIN when there are no more.                                         *)
(***************************************************************************)
LearnerWrite(r) ==
    /\ learner[r] = "on"
    /\ lists' = lists \cup {r}
    /\ \/ UNCHANGED <<fin, learner>>
       \/ fin' = fin \cup {r} /\ learner' = [learner EXCEPT ![r] = "off"]
    /\ UNCHANGED <<script, p4, formula, folder, ready, pids,
                   frontend, queue, job, killer, history>>

(***************************************************************************)
(* kill_uc.py ends the processes whose pids it finds in the directory.     *)
(* A killed frontend's worker finishes its job and then fails to report.   *)
(***************************************************************************)
KillUc(r) ==
    /\ killer[r] = "uc"
    /\ killer' = [killer EXCEPT ![r] = "frontend"]
    /\ learner' = [q \in Runs |-> IF q = pids.uc THEN "off" ELSE learner[q]]
    /\ UNCHANGED <<script, files, frontend, queue, job, history>>

KillFrontend(r) ==
    /\ killer[r] = "frontend"
    /\ killer' = [killer EXCEPT ![r] = "done"]
    /\ frontend' = [q \in Runs |-> IF q = pids.frontend THEN "off" ELSE frontend[q]]
    /\ UNCHANGED <<script, files, queue, job, learner, history>>

-----------------------------------------------------------------------------
Script ==
    \/ CleanSmt \/ CleanPickle \/ CleanP4 \/ CleanOutput \/ CleanFolders
    \/ InitCompile \/ Generate \/ Preprocess \/ Take \/ Loop \/ Report

Job(r) ==
    MakeFolder(r) \/ CopyP4(r) \/ Compile(r) \/ Compiled(r)
        \/ Export(r) \/ RemoveFolder(r)

Next ==
    \/ Script \/ NextRun \/ Interrupt
    \/ \E r \in Runs : Job(r) \/ LearnerWrite(r) \/ KillUc(r) \/ KillFrontend(r)

Spec == Init /\ [][Next]_vars

(***************************************************************************)
(* The script and the frontends are processes of the operating system and  *)
(* p4c-analysis ends.  The user need not start another run.                *)
(***************************************************************************)
FairSpec == Spec /\ WF_vars(Script) /\ \A r \in Runs : WF_vars(Job(r))

-----------------------------------------------------------------------------
(***************************************************************************)
(* The properties.                                                         *)
(***************************************************************************)
Pids == 0..MaxRuns

Folder == [exists : BOOLEAN, src : TextOrAbsent, smt : TextOrAbsent]

Steps == {"idle", "copy", "compile", "compiling", "export", "remove"}

\* The type invariant; moreover a folder that is gone holds no file, and only a
\* running job has a length.
LTypeOK ==
    /\ run \in Runs /\ at \in 1..5 /\ len \in Lens
    /\ pc \in {"cleanStart", "init", "generate", "learn", "wait", "loop", "report",
               "cleanEnd", "ended"}
    /\ p4 \in [LongLens -> TextOrAbsent]
    /\ formula \in [Lens -> TextOrAbsent] /\ taken \in TextOrAbsent
    /\ folder \in [LongLens -> Folder]
    /\ \A l \in LongLens : folder[l].exists \/ folder[l] = NoFolder
    /\ {lists, fin, outlived, interrupted, failed} \subseteq SUBSET Runs
    /\ ready \in BOOLEAN
    /\ pids \in [uc : Pids, frontend : Pids]
    /\ frontend \in [Runs -> {"off", "on"}]
    /\ queue \in [Runs -> Seq(LongLens)]
    /\ job \in [Runs -> [step : Steps, len : {0} \cup LongLens, src : TextOrAbsent, cwd : BOOLEAN]]
    /\ \A r \in Runs : job[r].step = "idle" <=> job[r].len = 0
    /\ learner \in [Runs -> {"off", "on"}]
    /\ killer \in [Runs -> {"off", "uc", "frontend", "done"}]

\* The formula a run works with was compiled from the P4 text of that run: a
\* compilation that a finished run leaves behind never hands its formula to the next
\* run, even when the killer has missed it.  (After an interrupt it can: the folder
\* of a compilation is the last thing clean_repo.sh removes, formulas are the first.)
FormulaIsFresh ==
    (pc = "loop" /\ run - 1 \notin interrupted) => taken.run = run

\* The unsat cores and the FIN mark that a run reads are its own, or were written
\* after its clean_repo.sh by a learner that outlived an earlier run.
CoresAreFresh == pc = "loop" => lists \cup fin \subseteq {run} \cup outlived

\* Regeneration comes too late.  cegis_loop.py rewrites P4 texts of the lengths that
\* the loop has reached, their formulas are already taken, and a compilation keeps a
\* text at its length: so no formula that a run works with has free variables, and
\* plans of different lengths are compared on the same terms.  With --free_var on the
\* search is the same as without, whatever "faster failure introspection" the message
\* of the regeneration promises.  (From the third run on it can be otherwise after an
\* interrupt: a compilation that the run before inherited takes a regenerated text.)
RegenerationComesTooLate ==
    (run - 1 \notin interrupted \/ run = 2) => ~taken.free

(***************************************************************************)
(* No process of an earlier run is left.                                   *)
(***************************************************************************)
Alone ==
    \A r \in Runs : r < run =>
        /\ frontend[r] = "off" /\ job[r] = NoJob
        /\ killer[r] \in {"off", "done"}

\* The script waits for the formula of a length in a loop without end.  When no
\* process of an earlier run interferes and no compilation fails, the wait ends.
WaitEnds ==
    [](Alone /\ failed = {}) => (pc = "wait" ~> pc # "wait")
=============================================================================
