-------------------------- MODULE LifecycleProofs ---------------------------
(***************************************************************************)
(* A run works with its own formulas, built without free variables, for    *)
(* any number of runs and any plan length.                                 *)
(***************************************************************************)
EXTENDS Lifecycle, TLAPS

LEMMA RunsAreNumbers == Runs \subseteq Nat /\ 1 \in Runs /\ 1 \in Lens /\ Lens \subseteq Nat
  BY LifecycleAssumption DEF Runs, Lens

LEMMA NothingIsTyped == Absent \in TextOrAbsent /\ NoFolder \in Folder
  BY DEF Absent, TextOrAbsent, NoFolder, Folder

JobType == [step : Steps, len : {0} \cup LongLens, src : TextOrAbsent, cwd : BOOLEAN]

(***************************************************************************)
(* What the steps need of the types: the conjuncts of LTypeOK about what   *)
(* compilations touch, and that an idle worker holds nothing.              *)
(***************************************************************************)
WorkType ==
    /\ run \in Runs /\ at \in 1..5 /\ len \in Lens
    /\ p4 \in [LongLens -> TextOrAbsent]
    /\ formula \in [Lens -> TextOrAbsent]
    /\ folder \in [LongLens -> Folder]
    /\ queue \in [Runs -> Seq(LongLens)]
    /\ job \in [Runs -> JobType]
    /\ \A r \in Runs : job[r].step # "idle" => job[r].len \in LongLens
    /\ \A r \in Runs : job[r].len = 0 => ~job[r].cwd

LEMMA WorkTypeInit == Init => WorkType
  BY RunsAreNumbers, NothingIsTyped
     DEF Init, WorkType, JobType, Steps, NoJob

LEMMA WorkTypeStep == WorkType /\ [Next]_vars => WorkType'
<1> SUFFICES ASSUME WorkType, [Next]_vars PROVE WorkType'
  OBVIOUS
<1> USE DEF WorkType
<1>1. ASSUME UNCHANGED <<p4, folder, queue, job>>, formula' \in [Lens -> TextOrAbsent],
             run' \in Runs, at' \in 1..5, len' \in Lens
      PROVE  WorkType'
  BY <1>1
<1>2. NextCommand => at' \in 1..5
  BY DEF NextCommand
<1>3. CASE CleanSmt
  BY <1>1, <1>2, <1>3, NothingIsTyped DEF CleanSmt, background
<1>4. CASE CleanPickle
  BY <1>1, <1>2, <1>4 DEF CleanPickle, background
<1>5. CASE CleanP4
  BY <1>2, <1>5, NothingIsTyped DEF CleanP4, background
<1>6. CASE CleanOutput
  BY <1>1, <1>2, <1>6 DEF CleanOutput, background
<1>7. CASE CleanFolders
  <2>1. folder' \in [LongLens -> Folder]
    BY <1>7, NothingIsTyped DEF CleanFolders, LoseFolders
  <2>2. ASSUME NEW r \in Runs
        PROVE  /\ job'[r] \in JobType
               /\ job'[r].step = job[r].step /\ job'[r].len = job[r].len
               /\ ~job[r].cwd => ~job'[r].cwd
    BY <1>7 DEF CleanFolders, LoseFolders, JobType
  <2>3. job' \in [Runs -> JobType]
    BY <1>7, <2>2 DEF CleanFolders, LoseFolders
  <2> QED BY <1>2, <1>7, <2>1, <2>2, <2>3 DEF CleanFolders
<1>8. CASE InitCompile
  <2>1. Of(run) \in TextOrAbsent
    BY DEF Of, TextOrAbsent, Text
  <2>2. formula' \in [Lens -> TextOrAbsent]
    BY <1>8, <2>1 DEF InitCompile
  <2> QED BY <1>1, <1>8, <2>2 DEF InitCompile, background
<1>9. CASE Generate
  <2>1. [i \in 1..(MaxLen - 1) |-> i + 1] \in Seq(LongLens)
    <3>1. MaxLen - 1 \in Nat /\ \A i \in 1..(MaxLen - 1) : i + 1 \in LongLens
      BY LifecycleAssumption DEF LongLens
    <3>2. [i \in 1..(MaxLen - 1) |-> i + 1] \in [1..(MaxLen - 1) -> LongLens]
      BY <3>1
    <3> QED BY <3>1, <3>2
  <2>2. queue' \in [Runs -> Seq(LongLens)]
    BY <1>9, <2>1 DEF Generate
  <2>3. p4' \in [LongLens -> TextOrAbsent]
    BY <1>9 DEF Generate, Of, TextOrAbsent, Text
  <2> QED BY <1>9, <2>2, <2>3 DEF Generate
<1>10. CASE Preprocess
  BY <1>1, <1>10 DEF Preprocess
<1>11. CASE Take
  BY <1>1, <1>11 DEF Take, files, background
<1>12. CASE Loop
  <2>1. p4' \in [LongLens -> TextOrAbsent]
    <3>1. [run |-> run, free |-> TRUE] \in TextOrAbsent
      BY DEF TextOrAbsent, Text
    <3>2. Regenerated \in [LongLens -> TextOrAbsent]
      BY <3>1 DEF Regenerated
    <3> QED BY <1>12, <3>2 DEF Loop
  <2>2. len' \in Lens
    BY <1>12, LifecycleAssumption DEF Loop, Lens
  <2> QED BY <1>12, <2>1, <2>2 DEF Loop, background
<1>13. CASE Report
  BY <1>1, <1>13 DEF Report, files
<1>14. CASE NextRun \/ Interrupt
  <2>1. StartRun
    BY <1>14 DEF NextRun, Interrupt
  <2>2. run' \in Runs
    BY <2>1, LifecycleAssumption DEF StartRun, Runs
  <2> QED BY <1>1, <2>1, <2>2, RunsAreNumbers DEF StartRun, files, background
<1>15. ASSUME NEW r \in Runs, MakeFolder(r) PROVE WorkType'
  <2> DEFINE l == Head(queue[r])
  <2>1. queue[r] \in Seq(LongLens) /\ queue[r] # << >>
    BY <1>15 DEF MakeFolder
  <2>2. l \in LongLens /\ Tail(queue[r]) \in Seq(LongLens)
    BY <2>1
  <2> HIDE DEF l
  <2> DEFINE new == [step |-> "copy", len |-> l, src |-> Absent, cwd |-> FALSE]
  <2>3. /\ job' = [job EXCEPT ![r] = new]
        /\ folder' = [folder EXCEPT ![l].exists = TRUE]
        /\ queue' = [queue EXCEPT ![r] = Tail(@)]
    BY <1>15 DEF MakeFolder, l
  <2>4. folder' \in [LongLens -> Folder]
    BY <2>2, <2>3 DEF Folder
  <2>5. new \in JobType /\ new.len = l /\ new.cwd = FALSE
    BY <2>2, NothingIsTyped DEF JobType, Steps
  <2> HIDE DEF new
  <2>6. job' \in [Runs -> JobType]
    BY <2>3, <2>5
  <2>7. \A q \in Runs : job'[q] = IF q = r THEN new ELSE job[q]
    BY <2>3
  <2>8. queue' \in [Runs -> Seq(LongLens)]
    BY <2>2, <2>3
  <2>9. 0 \notin LongLens
    BY DEF LongLens
  <2> QED BY <1>15, <2>2, <2>4, <2>5, <2>6, <2>7, <2>8, <2>9 DEF MakeFolder, script
<1>16. ASSUME NEW r \in Runs, CopyP4(r) PROVE WorkType'
  <2>1. folder' \in [LongLens -> Folder]
    BY <1>16 DEF CopyP4, Folder
  <2>2. /\ job' \in [Runs -> JobType]
        /\ \A q \in Runs : job'[q].len = job[q].len /\ job'[q].cwd = job[q].cwd
    BY <1>16 DEF CopyP4, JobType, Steps
  <2>3. \A q \in Runs : job'[q].step # "idle" => job[q].step # "idle"
    BY <1>16 DEF CopyP4, JobType
  <2> QED BY <1>16, <2>1, <2>2, <2>3 DEF CopyP4, script
<1>17. ASSUME NEW r \in Runs, Compile(r) PROVE WorkType'
  <2> DEFINE f == folder[job[r].len]
             on == [job[r] EXCEPT !.step = "compiling", !.src = f.src, !.cwd = TRUE]
  <2>1. job[r].len \in LongLens /\ job[r] \in JobType
    BY <1>17 DEF Compile
  <2>2. f \in Folder
    BY <2>1
  <2>3. on \in JobType /\ on.len = job[r].len
    BY <2>1, <2>2 DEF JobType, Steps, Folder
  <2>4. NoJob \in JobType /\ NoJob.step = "idle" /\ NoJob.cwd = FALSE
    BY NothingIsTyped DEF NoJob, JobType, Steps
  <2>5. job' = [job EXCEPT ![r] = IF f.exists THEN on ELSE NoJob]
    BY <1>17 DEF Compile
  <2>6. 0 \notin LongLens
    BY DEF LongLens
  <2> HIDE DEF on, f
  <2> DEFINE new == IF f.exists THEN on ELSE NoJob
  <2>7. job' \in [Runs -> JobType] /\ \A q \in Runs : job'[q] = IF q = r THEN new ELSE job[q]
    BY <2>3, <2>4, <2>5
  <2> QED BY <1>17, <2>1, <2>3, <2>4, <2>6, <2>7 DEF Compile, script, files
<1>18. ASSUME NEW r \in Runs, Compiled(r) PROVE WorkType'
  <2>1. job[r].len \in LongLens /\ job[r] \in JobType
    BY <1>18 DEF Compiled
  <2>2. folder' \in [LongLens -> Folder]
    <3> DEFINE l == job[r].len
               t == job[r].src
    <3>1. l \in LongLens /\ t \in TextOrAbsent
      BY <2>1 DEF JobType
    <3>2. folder' = folder \/ folder' = [folder EXCEPT ![l].smt = t]
      BY <1>18 DEF Compiled
    <3> HIDE DEF l, t
    <3>3. [folder[l] EXCEPT !.smt = t] \in Folder
      BY <3>1 DEF Folder
    <3>4. [folder EXCEPT ![l].smt = t] = [folder EXCEPT ![l] = [folder[l] EXCEPT !.smt = t]]
      OBVIOUS
    <3> HIDE DEF Folder
    <3> QED BY <3>1, <3>2, <3>3, <3>4
  <2>3. /\ job' \in [Runs -> JobType]
        /\ \A q \in Runs : job'[q].len = job[q].len /\ job'[q].cwd = job[q].cwd
    BY <1>18 DEF Compiled, JobType, Steps
  <2>4. \A q \in Runs : job'[q].step # "idle" => job[q].step # "idle"
    BY <1>18 DEF Compiled, JobType
  <2> QED BY <1>18, <2>2, <2>3, <2>4 DEF Compiled, script
<1>19. ASSUME NEW r \in Runs, Export(r) PROVE WorkType'
  <2>1. job[r].len \in LongLens /\ LongLens \subseteq Lens
    BY <1>19 DEF Export, LongLens, Lens
  <2>2. folder[job[r].len].smt \in TextOrAbsent
    BY <2>1 DEF Folder
  <2>3. formula' \in [Lens -> TextOrAbsent]
    BY <1>19, <2>1, <2>2 DEF Export
  <2>4. /\ job' \in [Runs -> JobType]
        /\ \A q \in Runs : job'[q].len = job[q].len /\ job'[q].cwd = job[q].cwd
    BY <1>19 DEF Export, JobType, Steps
  <2>5. \A q \in Runs : job'[q].step # "idle" => job[q].step # "idle"
    BY <1>19 DEF Export, JobType
  <2> QED BY <1>19, <2>3, <2>4, <2>5 DEF Export, script
<1>20. ASSUME NEW r \in Runs, RemoveFolder(r) PROVE WorkType'
  <2>1. job[r].len \in LongLens
    BY <1>20 DEF RemoveFolder
  <2>2. folder' \in [LongLens -> Folder]
    BY <1>20, <2>1, NothingIsTyped DEF RemoveFolder
  <2>3. NoJob \in JobType /\ NoJob.step = "idle" /\ NoJob.cwd = FALSE
    BY NothingIsTyped DEF NoJob, JobType, Steps
  <2>4. ASSUME NEW q \in Runs
        PROVE  /\ job'[q] \in JobType
               /\ \/ job'[q] = NoJob
                  \/ /\ job'[q].step = job[q].step /\ job'[q].len = job[q].len
                     /\ ~job[q].cwd => ~job'[q].cwd
    BY <1>20, <2>3 DEF RemoveFolder, JobType
  <2>5. job' \in [Runs -> JobType]
    BY <1>20, <2>4 DEF RemoveFolder
  <2> QED BY <1>20, <2>2, <2>3, <2>4, <2>5 DEF RemoveFolder, script
<1>21. ASSUME NEW r \in Runs, LearnerWrite(r) \/ KillUc(r) \/ KillFrontend(r) PROVE WorkType'
  BY <1>1, <1>21 DEF LearnerWrite, KillUc, KillFrontend, script, files
<1>22. CASE UNCHANGED vars
  BY <1>22 DEF vars, script, files, background
<1> QED
  BY <1>3, <1>4, <1>5, <1>6, <1>7, <1>8, <1>9, <1>10, <1>11, <1>12, <1>13, <1>14, <1>15, <1>16,
     <1>17, <1>18, <1>19, <1>20, <1>21, <1>22 DEF Next, Script, Job

-----------------------------------------------------------------------------
(***************************************************************************)
(* The inductive invariant.  After its first clean_repo.sh a run finds     *)
(* only its own texts in the directory, in the folders and in the          *)
(* compilations whose folder still exists.  The second clean_repo.sh       *)
(* leaves a directory without any text, and nothing that a leftover worker *)
(* does puts one back: a job that starts then finds no P4 file to copy.    *)
(* So the next run's first clean_repo.sh, which removes formulas first and *)
(* folders last, has nothing to race with.                                 *)
(***************************************************************************)
Own(t) == t = Absent \/ t.run = run

OwnWork ==
    /\ \A l \in LongLens : Own(p4[l]) /\ Own(folder[l].src) /\ Own(folder[l].smt)
    /\ \A r \in Runs : job[r].cwd => Own(job[r].src)

Blank ==
    /\ \A l \in LongLens : p4[l] = Absent /\ folder[l].src = Absent /\ folder[l].smt = Absent
    /\ \A r \in Runs : job[r].cwd => job[r].src = Absent

FreshInv ==
    /\ Cleaning \/ at = 1
    /\ pc # "cleanStart" => OwnWork
    /\ (Cleaning /\ at >= 4) => \A l \in LongLens : p4[l] = Absent
    /\ pc = "ended" => Blank
    /\ run - 1 \notin interrupted =>
         /\ pc = "cleanStart" => Blank
         /\ (pc # "cleanStart" \/ at >= 2) => \A l \in Lens : Own(formula[l])
         /\ pc = "loop" => taken.run = run

LEMMA FreshInvInit == Init => FreshInv
  BY DEF Init, FreshInv, Cleaning, Blank, NoFolder, NoJob

(***************************************************************************)
(* The steps of a worker keep a directory blank, and own texts own.        *)
(***************************************************************************)
LEMMA WorkerStep ==
    ASSUME WorkType, NEW r \in Runs, Job(r)
    PROVE  /\ Blank => Blank' /\ formula' = formula
           /\ OwnWork => OwnWork'
           /\ (OwnWork /\ \A l \in Lens : Own(formula[l])) => \A l \in Lens : Own(formula'[l])
           /\ UNCHANGED <<run, pc, at, p4, interrupted, taken>>
<1> USE DEF WorkType
<1>1. CASE MakeFolder(r)
  <2>1. Head(queue[r]) \in LongLens
    BY <1>1 DEF MakeFolder
  <2>2. \A l \in LongLens : folder'[l].src = folder[l].src /\ folder'[l].smt = folder[l].smt
    BY <1>1, <2>1 DEF MakeFolder, Folder
  <2>3. \A q \in Runs : job'[q].cwd => job'[q] = job[q]
    BY <1>1 DEF MakeFolder
  <2> QED BY <1>1, <2>2, <2>3 DEF MakeFolder, Blank, OwnWork, Own, script, history
<1>2. CASE CopyP4(r)
  <2> DEFINE k == job[r].len
  <2>1. k \in LongLens
    BY <1>2 DEF CopyP4
  <2>2. \A l \in LongLens :
          /\ folder'[l].src = folder[l].src \/ (p4[l] # Absent /\ folder'[l].src = p4[l])
          /\ folder'[l].smt = folder[l].smt
    BY <1>2, <2>1 DEF CopyP4, Folder
  <2>3. \A q \in Runs : job'[q].cwd = job[q].cwd /\ job'[q].src = job[q].src
    BY <1>2 DEF CopyP4, JobType
  <2>4. UNCHANGED <<run, pc, at, p4, formula, interrupted, taken>>
    BY <1>2 DEF CopyP4, script, history
  <2>5. Blank => Blank'
    BY <2>2, <2>3, <2>4 DEF Blank
  <2>6. OwnWork => OwnWork'
    <3> SUFFICES ASSUME OwnWork PROVE OwnWork'
      OBVIOUS
    <3>1. \A l \in LongLens : Own(p4'[l]) /\ Own(folder'[l].src) /\ Own(folder'[l].smt)
      BY <2>2, <2>4 DEF OwnWork
    <3>2. \A q \in Runs : job'[q].cwd => Own(job'[q].src)
      BY <2>3 DEF OwnWork
    <3> QED BY <2>4, <3>1, <3>2 DEF OwnWork, Own
  <2> QED BY <2>4, <2>5, <2>6 DEF Own
<1>3. CASE Compile(r)
  <2> DEFINE k == job[r].len
  <2>1. k \in LongLens
    BY <1>3 DEF Compile
  <2>2. \A q \in Runs : job'[q].cwd => (job'[q] = job[q] \/ job'[q].src = folder[k].src)
    BY <1>3 DEF Compile, JobType, NoJob
  <2>3. UNCHANGED <<run, pc, at, p4, folder, formula, interrupted, taken>>
    BY <1>3 DEF Compile, script, files, history
  <2> HIDE DEF k
  <2>4. Blank => Blank'
    BY <2>1, <2>2, <2>3 DEF Blank
  <2>5. OwnWork => OwnWork'
    <3> SUFFICES ASSUME OwnWork PROVE OwnWork'
      OBVIOUS
    <3>1. \A l \in LongLens : Own(p4'[l]) /\ Own(folder'[l].src) /\ Own(folder'[l].smt)
      BY <2>3 DEF OwnWork
    <3>2. \A q \in Runs : job'[q].cwd => Own(job'[q].src)
      BY <2>1, <2>2 DEF OwnWork
    <3> QED BY <2>3, <3>1, <3>2 DEF OwnWork, Own
  <2> QED BY <2>3, <2>4, <2>5 DEF Own
<1>4. CASE Compiled(r)
  <2> DEFINE k == job[r].len
  <2>1. k \in LongLens
    BY <1>4 DEF Compiled
  <2>2. \A l \in LongLens :
          /\ folder'[l].src = folder[l].src
          /\ \/ folder'[l].smt = folder[l].smt
             \/ job[r].cwd /\ job[r].src # Absent /\ folder'[l].smt = job[r].src
    <3> DEFINE t == job[r].src
    <3>1. folder' = folder \/ (job[r].cwd /\ t # Absent /\ folder' = [folder EXCEPT ![k].smt = t])
      BY <1>4 DEF Compiled
    <3> HIDE DEF t, k
    <3>2. ASSUME folder' = [folder EXCEPT ![k].smt = t], NEW l \in LongLens
          PROVE  folder'[l].src = folder[l].src /\ (folder'[l].smt = folder[l].smt \/ folder'[l].smt = t)
      BY <3>2 DEF Folder
    <3> QED BY <3>1, <3>2 DEF t
  <2>3. \A q \in Runs : job'[q].cwd = job[q].cwd /\ job'[q].src = job[q].src
    BY <1>4 DEF Compiled, JobType
  <2>4. UNCHANGED <<run, pc, at, p4, formula, interrupted, taken>>
    BY <1>4 DEF Compiled, script
  <2>5. Blank => Blank'
    BY <2>2, <2>3, <2>4 DEF Blank
  <2>6. OwnWork => OwnWork'
    <3> SUFFICES ASSUME OwnWork PROVE OwnWork'
      OBVIOUS
    <3>1. \A l \in LongLens : Own(p4'[l]) /\ Own(folder'[l].src) /\ Own(folder'[l].smt)
      BY <2>2, <2>4 DEF OwnWork
    <3>2. \A q \in Runs : job'[q].cwd => Own(job'[q].src)
      BY <2>3 DEF OwnWork
    <3> QED BY <2>4, <3>1, <3>2 DEF OwnWork, Own
  <2> QED BY <2>4, <2>5, <2>6 DEF Own
<1>5. CASE Export(r)
  <2> DEFINE k == job[r].len
  <2>1. k \in LongLens
    BY <1>5 DEF Export
  <2>2. \/ formula' = formula
        \/ /\ folder[k].smt # Absent
           /\ \A l \in Lens : formula'[l] = formula[l] \/ formula'[l] = folder[k].smt
    BY <1>5 DEF Export
  <2>3. \A q \in Runs : job'[q].cwd = job[q].cwd /\ job'[q].src = job[q].src
    BY <1>5 DEF Export, JobType
  <2>4. UNCHANGED <<run, pc, at, p4, folder, interrupted, taken>>
    BY <1>5 DEF Export, script, history
  <2> HIDE DEF k
  <2>5. Blank => Blank' /\ formula' = formula
    BY <2>1, <2>2, <2>3, <2>4 DEF Blank
  <2>6. OwnWork => OwnWork'
    BY <2>3, <2>4 DEF OwnWork, Own
  <2>7. (OwnWork /\ \A l \in Lens : Own(formula[l])) => \A l \in Lens : Own(formula'[l])
    BY <2>1, <2>2 DEF OwnWork, Own
  <2> QED BY <2>4, <2>5, <2>6, <2>7
<1>6. CASE RemoveFolder(r)
  <2>1. \A l \in LongLens : folder'[l] = folder[l] \/ folder'[l] = NoFolder
    BY <1>6 DEF RemoveFolder
  <2>2. \A q \in Runs : job'[q].cwd => job'[q] = job[q]
    BY <1>6 DEF RemoveFolder, NoJob, JobType
  <2>3. NoFolder.src = Absent /\ NoFolder.smt = Absent
    BY DEF NoFolder
  <2> QED BY <1>6, <2>1, <2>2, <2>3 DEF RemoveFolder, Blank, OwnWork, Own, script, history
<1> QED BY <1>1, <1>2, <1>3, <1>4, <1>5, <1>6 DEF Job

LEMMA FreshInvStep == WorkType /\ FreshInv /\ [Next]_vars => FreshInv'
<1> SUFFICES ASSUME WorkType, FreshInv, [Next]_vars PROVE FreshInv'
  OBVIOUS
<1>1. ASSUME NEW r \in Runs, Job(r) PROVE FreshInv'
  <2>1. /\ Blank => Blank' /\ formula' = formula
        /\ OwnWork => OwnWork'
        /\ (OwnWork /\ \A l \in Lens : Own(formula[l])) => \A l \in Lens : Own(formula'[l])
        /\ UNCHANGED <<run, pc, at, p4, interrupted, taken>>
    BY <1>1, WorkerStep
  <2> QED BY <2>1 DEF FreshInv, Cleaning, Own
<1>2. ASSUME UNCHANGED <<run, pc, at, p4, formula, folder, job, interrupted, taken>> PROVE FreshInv'
  BY <1>2 DEF FreshInv, Cleaning, Own, OwnWork, Blank
<1>3. ASSUME NEW r \in Runs, LearnerWrite(r) \/ KillUc(r) \/ KillFrontend(r) PROVE FreshInv'
  BY <1>2, <1>3 DEF LearnerWrite, KillUc, KillFrontend, script, files, background, history
<1>4. CASE UNCHANGED vars
  BY <1>2, <1>4 DEF vars, script, files, background, history
<1>5. CASE CleanSmt
  <2>1. pc' = pc /\ at' = 2
    BY <1>5 DEF CleanSmt, NextCommand
  <2>2. \A l \in Lens : formula'[l] = Absent
    BY <1>5 DEF CleanSmt
  <2>3. UNCHANGED <<run, p4, folder, job, interrupted, taken>> /\ Cleaning /\ at = 1
    BY <1>5 DEF CleanSmt, NextCommand, Cleaning, background, history
  <2>4. (Blank => Blank') /\ (OwnWork => OwnWork')
    BY <2>3 DEF Blank, OwnWork, Own
  <2>5. \A l \in Lens : Own(formula[l])'
    BY <2>2 DEF Own
  <2> QED BY <2>1, <2>3, <2>4, <2>5 DEF FreshInv, Cleaning
<1>6. CASE CleanPickle
  <2>1. pc' = pc /\ at = 2 /\ at' = 3
    BY <1>6 DEF CleanPickle, NextCommand
  <2>2. UNCHANGED <<run, p4, folder, job, formula, interrupted, taken>>
    BY <1>6 DEF CleanPickle, background
  <2>3. (Blank => Blank') /\ (OwnWork => OwnWork')
    BY <2>2 DEF Blank, OwnWork, Own
  <2>4. \A l \in Lens : Own(formula[l]) => Own(formula[l])'
    BY <2>2 DEF Own
  <2> QED BY <2>1, <2>2, <2>3, <2>4 DEF FreshInv, Cleaning
<1>7. CASE CleanP4
  <2>1. pc' = pc /\ at = 3 /\ at' = 4
    BY <1>7 DEF CleanP4, NextCommand
  <2>2. \A l \in LongLens : p4'[l] = Absent
    BY <1>7 DEF CleanP4
  <2>3. UNCHANGED <<run, folder, job, formula, interrupted, taken>>
    BY <1>7 DEF CleanP4, background, history
  <2>4. (Blank => Blank') /\ (OwnWork => OwnWork')
    BY <2>2, <2>3 DEF Blank, OwnWork, Own
  <2>5. \A l \in Lens : Own(formula[l]) => Own(formula[l])'
    BY <2>3 DEF Own
  <2> QED BY <2>1, <2>2, <2>3, <2>4, <2>5 DEF FreshInv, Cleaning
<1>8. CASE CleanOutput
  <2>1. pc' = pc /\ at = 4 /\ at' = 5
    BY <1>8 DEF CleanOutput, NextCommand
  <2>2. UNCHANGED <<run, p4, folder, job, formula, interrupted, taken>>
    BY <1>8 DEF CleanOutput, background, history
  <2>3. (Blank => Blank') /\ (OwnWork => OwnWork')
    BY <2>2 DEF Blank, OwnWork, Own
  <2>4. \A l \in Lens : Own(formula[l]) => Own(formula[l])'
    BY <2>2 DEF Own
  <2> QED BY <2>1, <2>2, <2>3, <2>4 DEF FreshInv, Cleaning
<1>9. CASE CleanFolders
  <2>1. /\ at = 5 /\ at' = 1 /\ Cleaning /\ pc' = IF pc = "cleanStart" THEN "init" ELSE "ended"
        /\ UNCHANGED <<run, p4, formula, interrupted, taken>>
    BY <1>9 DEF CleanFolders, NextCommand, history
  <2>2. \A l \in LongLens : p4'[l] = Absent /\ folder'[l] = NoFolder
    BY <1>9, <2>1 DEF FreshInv, CleanFolders, LoseFolders
  <2>3. \A r \in Runs : ~job'[r].cwd
    BY <1>9 DEF CleanFolders, LoseFolders, WorkType, JobType
  <2>4. Blank' /\ OwnWork'
    BY <2>2, <2>3 DEF Blank, OwnWork, Own, NoFolder
  <2> QED BY <2>1, <2>4 DEF FreshInv, Cleaning, Own
<1>10. CASE InitCompile
  <2>1. \A l \in Lens : formula'[l] = formula[l] \/ formula'[l] = Of(run)
    BY <1>10 DEF InitCompile, WorkType
  <2>2. \A l \in Lens : Own(formula[l]) => Own(formula'[l])
    BY <2>1 DEF Own, Of
  <2> QED BY <1>10, <2>2 DEF InitCompile, FreshInv, Cleaning, Own, OwnWork, background
<1>11. CASE Generate
  <2>1. \A l \in LongLens : p4'[l].run = run
    BY <1>11 DEF Generate, Of
  <2> QED BY <1>11, <2>1 DEF Generate, FreshInv, Cleaning, Own, OwnWork, history
<1>12. CASE Preprocess
  BY <1>12 DEF Preprocess, FreshInv, Cleaning, Own, OwnWork, history
<1>13. CASE Take
  BY <1>13 DEF Take, FreshInv, Cleaning, Own, OwnWork, files, background, WorkType
<1>14. CASE Loop
  <2>1. \A l \in LongLens : p4'[l] = p4[l] \/ p4'[l].run = run
    BY <1>14 DEF Loop, Regenerated
  <2> QED BY <1>14, <2>1 DEF Loop, FreshInv, Cleaning, Own, OwnWork, background
<1>15. CASE Report
  <2>1. at' = 1 /\ pc = "report"
    BY <1>15 DEF Report, FreshInv, Cleaning
  <2> QED BY <1>15, <2>1 DEF Report, FreshInv, Cleaning, Own, OwnWork, files, history
<1>16. CASE NextRun
  BY <1>16 DEF NextRun, StartRun, FreshInv, Cleaning, Blank, files, background
<1>17. CASE Interrupt
  <2>1. run' = run + 1 /\ run' - 1 \in interrupted'
    BY <1>17, RunsAreNumbers DEF Interrupt, StartRun, WorkType
  <2> QED BY <1>17, <2>1 DEF Interrupt, StartRun, FreshInv, Cleaning
<1> QED
  BY <1>1, <1>3, <1>4, <1>5, <1>6, <1>7, <1>8, <1>9, <1>10, <1>11, <1>12, <1>13, <1>14, <1>15, <1>16,
     <1>17 DEF Next, Script

\* For any number of runs and any plan lengths: the formula a run works with was
\* compiled from its own P4 text, unless the run before it was interrupted.
THEOREM FormulasAreFresh == Spec => []FormulaIsFresh
<1>1. Init => WorkType /\ FreshInv
  BY WorkTypeInit, FreshInvInit
<1>2. WorkType /\ FreshInv /\ [Next]_vars => (WorkType /\ FreshInv)'
  BY WorkTypeStep, FreshInvStep
<1>3. FreshInv => FormulaIsFresh
  BY DEF FreshInv, FormulaIsFresh
<1> QED BY <1>1, <1>2, <1>3, PTL DEF Spec

-----------------------------------------------------------------------------
(***************************************************************************)
(* The learners.  Once a run has removed the pickle files, a learner of an *)
(* earlier run that is still alive is one that was alive then.             *)
(***************************************************************************)
CoreInv ==
    /\ \A q \in Runs : learner[q] = "on" => q <= run
    /\ (pc # "cleanStart" \/ at >= 3) =>
         /\ \A q \in Runs : (learner[q] = "on" /\ q < run) => q \in outlived
         /\ lists \subseteq {run} \cup outlived
    /\ (pc # "cleanStart" \/ at >= 5) => fin \subseteq {run} \cup outlived

LearnerType == learner \in [Runs -> {"off", "on"}]

LEMMA CoreInvStep ==
    ASSUME WorkType, LearnerType, CoreInv, [Next]_vars
    PROVE  LearnerType' /\ CoreInv'
<1> USE DEF LearnerType
<1>1. ASSUME UNCHANGED <<run, lists, fin, learner, outlived>>,
             pc # "cleanStart", pc' # "cleanStart"
      PROVE  LearnerType' /\ CoreInv'
  BY <1>1 DEF CoreInv
<1>2. ASSUME UNCHANGED <<run, pc, at, lists, fin, learner, outlived>>
      PROVE  LearnerType' /\ CoreInv'
  BY <1>2 DEF CoreInv
<1>3. CASE CleanSmt
  <2>1. pc' = pc /\ at = 1 /\ at' = 2
    BY <1>3 DEF CleanSmt, NextCommand
  <2> QED BY <1>3, <2>1 DEF CleanSmt, CoreInv, background, history
<1>4. CASE CleanPickle
  <2>1. pc' = pc /\ at = 2 /\ at' = 3
    BY <1>4 DEF CleanPickle, NextCommand
  <2> QED BY <1>4, <2>1, RunsAreNumbers DEF CleanPickle, CoreInv, background, WorkType
<1>5. CASE CleanP4
  <2>1. pc' = pc /\ at = 3 /\ at' = 4
    BY <1>5 DEF CleanP4, NextCommand
  <2> QED BY <1>5, <2>1 DEF CleanP4, CoreInv, background, history
<1>6. CASE CleanOutput
  <2>1. pc' = pc /\ at = 4 /\ at' = 5
    BY <1>6 DEF CleanOutput, NextCommand
  <2> QED BY <1>6, <2>1 DEF CleanOutput, CoreInv, background, history
<1>7. CASE CleanFolders
  <2>1. at = 5 /\ pc' # "cleanStart"
    BY <1>7 DEF CleanFolders, NextCommand
  <2> QED BY <1>7, <2>1 DEF CleanFolders, CoreInv, history
<1>8. CASE InitCompile \/ Generate \/ Take \/ Loop \/ Report
  BY <1>1, <1>8 DEF InitCompile, Generate, Take, Loop, Report, files, background, history
<1>9. CASE Preprocess
  <2>1. /\ pc # "cleanStart" /\ pc' # "cleanStart" /\ run' = run /\ outlived' = outlived
        /\ lists' = lists \cup {run} /\ fin' \subseteq fin \cup {run}
    BY <1>9 DEF Preprocess, history
  <2>2. \A q \in Runs : learner'[q] = IF q = run THEN "on" ELSE learner[q]
    BY <1>9 DEF Preprocess
  <2>3. LearnerType'
    BY <1>9 DEF Preprocess
  <2> QED BY <2>1, <2>2, <2>3, RunsAreNumbers DEF CoreInv, WorkType
<1>10. CASE NextRun \/ Interrupt
  <2>1. StartRun
    BY <1>10 DEF NextRun, Interrupt
  <2>2. run' = run + 1 /\ pc' = "cleanStart" /\ at' = 1 /\ learner' = learner
    BY <2>1 DEF StartRun, background
  <2>3. \A q \in Runs : learner[q] = "on" => q <= run + 1
    BY RunsAreNumbers DEF CoreInv, WorkType
  <2>4. LearnerType'
    BY <2>2
  <2>5. ~(at' >= 3) /\ ~(at' >= 5)
    BY <2>2
  <2> QED BY <2>2, <2>3, <2>4, <2>5 DEF CoreInv
<1>11. ASSUME NEW r \in Runs, LearnerWrite(r) PROVE LearnerType' /\ CoreInv'
  <2>1. learner[r] = "on" /\ lists' = lists \cup {r} /\ fin' \subseteq fin \cup {r}
        /\ UNCHANGED <<run, pc, at, outlived>>
    BY <1>11 DEF LearnerWrite, script, history
  <2>2. \A q \in Runs : learner'[q] = "on" => learner[q] = "on"
    BY <1>11 DEF LearnerWrite
  <2>3. LearnerType'
    BY <1>11 DEF LearnerWrite
  <2>4. r <= run /\ r \in Nat /\ run \in Nat
    BY <2>1, RunsAreNumbers DEF CoreInv, WorkType
  <2>5. (pc # "cleanStart" \/ at >= 3) => r \in {run} \cup outlived
    BY <2>1, <2>4 DEF CoreInv
  <2>6. at >= 5 => at >= 3
    BY DEF WorkType
  <2> QED BY <2>1, <2>2, <2>3, <2>5, <2>6 DEF CoreInv
<1>12. ASSUME NEW r \in Runs, KillUc(r) PROVE LearnerType' /\ CoreInv'
  <2>1. \A q \in Runs : learner'[q] = "on" => learner[q] = "on"
    BY <1>12 DEF KillUc
  <2> QED BY <1>12, <2>1 DEF KillUc, CoreInv, script, files, history
<1>13. ASSUME NEW r \in Runs, Job(r) \/ KillFrontend(r) PROVE LearnerType' /\ CoreInv'
  BY <1>2, <1>13 DEF Job, MakeFolder, CopyP4, Compile, Compiled, Export, RemoveFolder, KillFrontend,
     script, files, history
<1>14. CASE UNCHANGED vars
  BY <1>2, <1>14 DEF vars, script, files, background, history
<1> QED
  BY <1>3, <1>4, <1>5, <1>6, <1>7, <1>8, <1>9, <1>10, <1>11, <1>12, <1>13, <1>14 DEF Next, Script

\* For any number of runs: unsat cores and the FIN mark of an earlier run are only
\* ever read when a learner of that run outlived it.
THEOREM CoresComeFromTheLiving == Spec => []CoresAreFresh
<1>1. Init => WorkType /\ LearnerType /\ CoreInv
  BY WorkTypeInit DEF Init, LearnerType, CoreInv
<1>2. WorkType /\ LearnerType /\ CoreInv /\ [Next]_vars => (WorkType /\ LearnerType /\ CoreInv)'
  BY WorkTypeStep, CoreInvStep
<1>3. CoreInv => CoresAreFresh
  BY DEF CoreInv, CoresAreFresh
<1> QED BY <1>1, <1>2, <1>3, PTL DEF Spec

-----------------------------------------------------------------------------
(***************************************************************************)
(* The rest of the type invariant.  A compilation writes into its folder   *)
(* only while that folder exists.                                          *)
(***************************************************************************)
FlagType ==
    /\ pc \in {"cleanStart", "init", "generate", "learn", "wait", "loop", "report",
               "cleanEnd", "ended"}
    /\ taken \in TextOrAbsent
    /\ {lists, fin, outlived, interrupted, failed} \subseteq SUBSET Runs
    /\ ready \in BOOLEAN
    /\ pids \in [uc : Pids, frontend : Pids]
    /\ frontend \in [Runs -> {"off", "on"}]
    /\ killer \in [Runs -> {"off", "uc", "frontend", "done"}]

LEMMA FlagTypeInit == Init => FlagType
<1> SUFFICES ASSUME Init PROVE FlagType
  OBVIOUS
<1>1. ready \in BOOLEAN
  BY Zenon DEF Init
<1>2. /\ taken \in TextOrAbsent
      /\ {lists, fin, outlived, interrupted, failed} \subseteq SUBSET Runs
      /\ pids \in [uc : Pids, frontend : Pids]
  BY RunsAreNumbers, NothingIsTyped, LifecycleAssumption DEF Init, Pids
<1> QED BY <1>1, <1>2, Zenon DEF Init, FlagType

LEMMA FlagTypeStep ==
    ASSUME WorkType, FlagType, [Next]_vars
    PROVE  FlagType'
<1> USE DEF FlagType
<1>1. run \in Runs /\ run \in Pids /\ 0 \in Pids
  BY LifecycleAssumption DEF WorkType, Runs, Pids
<1>2. NextCommand => pc' \in {pc, "init", "ended"}
  BY DEF NextCommand
<1>3. CASE CleanSmt \/ CleanP4 \/ CleanOutput \/ CleanFolders
  BY <1>2, <1>3 DEF CleanSmt, CleanP4, CleanOutput, CleanFolders, background, history
<1>4. CASE CleanPickle
  BY <1>1, <1>2, <1>4 DEF CleanPickle, background
<1>5. CASE InitCompile
  BY <1>1, <1>5 DEF InitCompile, background
<1>6. CASE Generate
  BY <1>1, <1>6 DEF Generate, history
<1>7. CASE Preprocess
  BY <1>1, <1>7 DEF Preprocess, history
<1>8. CASE Take
  BY <1>8 DEF Take, WorkType, files, background
<1>9. CASE Loop
  BY <1>9, NothingIsTyped DEF Loop, background
<1>10. CASE Report
  BY <1>10 DEF Report, files, history
<1>11. CASE NextRun \/ Interrupt
  BY <1>1, <1>11, NothingIsTyped DEF NextRun, Interrupt, StartRun, files, background
<1>12. ASSUME NEW r \in Runs, Job(r) PROVE FlagType'
  BY <1>1, <1>12 DEF Job, MakeFolder, CopyP4, Compile, Compiled, Export, RemoveFolder,
     script, files, history
<1>13. ASSUME NEW r \in Runs, LearnerWrite(r) \/ KillUc(r) \/ KillFrontend(r) PROVE FlagType'
  BY <1>13 DEF LearnerWrite, KillUc, KillFrontend, script, files, history
<1>14. CASE UNCHANGED vars
  BY <1>14 DEF vars, script, files, background, history
<1> QED
  BY <1>3, <1>4, <1>5, <1>6, <1>7, <1>8, <1>9, <1>10, <1>11, <1>12, <1>13, <1>14 DEF Next, Script

FolderInv ==
    /\ \A l \in LongLens : folder[l].exists \/ folder[l] = NoFolder
    /\ \A r \in Runs : job[r].step = "idle" => job[r].len = 0
    /\ \A r \in Runs : job[r].cwd => folder[job[r].len].exists

LEMMA FolderInvStep ==
    ASSUME WorkType, FolderInv, [Next]_vars
    PROVE  FolderInv'
<1> USE DEF WorkType
<1>1. ASSUME UNCHANGED <<folder, job>> PROVE FolderInv'
  BY <1>1 DEF FolderInv
<1>2. CASE CleanFolders
  <2>1. \A l \in LongLens : folder'[l] = NoFolder
    BY <1>2 DEF CleanFolders, LoseFolders
  <2>2. \A r \in Runs : ~job'[r].cwd /\ job'[r].step = job[r].step /\ job'[r].len = job[r].len
    BY <1>2 DEF CleanFolders, LoseFolders, JobType
  <2> QED BY <2>1, <2>2 DEF FolderInv
<1>3. CASE Script /\ ~CleanFolders
  BY <1>1, <1>3 DEF Script, CleanSmt, CleanPickle, CleanP4, CleanOutput, InitCompile, Generate,
     Preprocess, Take, Loop, Report, files, background
<1>4. CASE NextRun \/ Interrupt \/ UNCHANGED vars
  BY <1>1, <1>4 DEF NextRun, Interrupt, StartRun, vars, files, background
<1>5. ASSUME NEW r \in Runs, LearnerWrite(r) \/ KillUc(r) \/ KillFrontend(r) PROVE FolderInv'
  BY <1>1, <1>5 DEF LearnerWrite, KillUc, KillFrontend, files
<1>6. ASSUME NEW r \in Runs, MakeFolder(r) PROVE FolderInv'
  <2>1. Head(queue[r]) \in LongLens
    BY <1>6 DEF MakeFolder
  <2>2. \A l \in LongLens :
          /\ folder'[l] = folder[l] \/ folder'[l].exists
          /\ folder[l].exists => folder'[l].exists
    BY <1>6, <2>1 DEF MakeFolder, Folder
  <2>3. \A q \in Runs : job'[q] = job[q] \/ (~job'[q].cwd /\ job'[q].step # "idle")
    BY <1>6 DEF MakeFolder
  <2>4. \A q \in Runs : job[q].cwd => job[q].len \in LongLens
    BY DEF JobType
  <2> QED BY <2>2, <2>3, <2>4 DEF FolderInv
<1>7. ASSUME NEW r \in Runs, CopyP4(r) PROVE FolderInv'
  <2>1. job[r].len \in LongLens
    BY <1>7 DEF CopyP4
  <2>2. \A l \in LongLens :
          folder'[l] = folder[l] \/ (folder[l].exists /\ folder'[l].exists)
    BY <1>7, <2>1 DEF CopyP4, Folder
  <2>3. \A q \in Runs :
          /\ job'[q].len = job[q].len /\ job'[q].cwd = job[q].cwd
          /\ job'[q].step = "idle" => job[q].step = "idle"
    BY <1>7 DEF CopyP4, JobType
  <2>4. \A q \in Runs : job[q].cwd => job[q].len \in LongLens
    BY DEF JobType
  <2> QED BY <2>2, <2>3, <2>4 DEF FolderInv
<1>8. ASSUME NEW r \in Runs, Compile(r) PROVE FolderInv'
  <2>1. folder' = folder
    BY <1>8 DEF Compile, files
  <2>2. \A q \in Runs : \/ job'[q] = job[q] \/ job'[q] = NoJob
                       \/ /\ job'[q].step # "idle" /\ folder[job[q].len].exists
                          /\ job'[q].len = job[q].len
    BY <1>8 DEF Compile, JobType
  <2>3. NoJob.len = 0 /\ NoJob.cwd = FALSE
    BY DEF NoJob
  <2> QED BY <2>1, <2>2, <2>3 DEF FolderInv
<1>9. ASSUME NEW r \in Runs, Compiled(r) PROVE FolderInv'
  <2> DEFINE k == job[r].len
             t == job[r].src
  <2>1. k \in LongLens
    BY <1>9 DEF Compiled
  <2>2. folder' = folder \/ (folder[k].exists /\ folder' = [folder EXCEPT ![k].smt = t])
    BY <1>9 DEF Compiled, FolderInv
  <2>3. \A q \in Runs :
          /\ job'[q].len = job[q].len /\ job'[q].cwd = job[q].cwd
          /\ job'[q].step = "idle" => job[q].step = "idle"
    BY <1>9 DEF Compiled, JobType
  <2>4. \A q \in Runs : job[q].cwd => job[q].len \in LongLens
    BY DEF JobType
  <2> HIDE DEF k, t
  <2>5. \A l \in LongLens :
          folder'[l] = folder[l] \/ (folder[l].exists /\ folder'[l].exists)
    BY <2>1, <2>2 DEF Folder
  <2> QED BY <2>3, <2>4, <2>5 DEF FolderInv
<1>10. ASSUME NEW r \in Runs, Export(r) PROVE FolderInv'
  <2>1. \A q \in Runs :
          /\ job'[q].len = job[q].len /\ job'[q].cwd = job[q].cwd
          /\ job'[q].step = "idle" => job[q].step = "idle"
    BY <1>10 DEF Export, JobType
  <2>2. folder' = folder
    BY <1>10 DEF Export
  <2> QED BY <2>1, <2>2 DEF FolderInv
<1>11. ASSUME NEW r \in Runs, RemoveFolder(r) PROVE FolderInv'
  <2> DEFINE k == job[r].len
  <2>1. \A l \in LongLens : folder'[l] = IF l = k THEN NoFolder ELSE folder[l]
    BY <1>11 DEF RemoveFolder
  <2>2. \A q \in Runs :
          /\ job'[q] # NoJob => job'[q].step = job[q].step /\ job'[q].len = job[q].len
          /\ job'[q].cwd => job[q].cwd /\ job[q].len # k /\ job'[q].len = job[q].len
    BY <1>11 DEF RemoveFolder, JobType, NoJob
  <2>3. \A q \in Runs : job[q].cwd => job[q].len \in LongLens
    BY DEF JobType
  <2>4. NoJob.len = 0
    BY DEF NoJob
  <2> HIDE DEF k, WorkType
  <2>5. \A l \in LongLens : folder'[l].exists \/ folder'[l] = NoFolder
    BY <2>1 DEF FolderInv
  <2>6. \A q \in Runs : job'[q].step = "idle" => job'[q].len = 0
    BY <2>2, <2>4 DEF FolderInv
  <2>7. \A q \in Runs : job'[q].cwd => folder'[job'[q].len].exists
    BY <2>1, <2>2, <2>3 DEF FolderInv
  <2> QED BY <2>5, <2>6, <2>7 DEF FolderInv
<1> QED
  BY <1>2, <1>3, <1>4, <1>5, <1>6, <1>7, <1>8, <1>9, <1>10, <1>11 DEF Next, Job

\* For any number of runs and lengths: every variable has its type, a folder that is
\* gone holds no file, and only a running job has a length.
THEOREM TypesHold == Spec => []LTypeOK
<1> DEFINE I == WorkType /\ LearnerType /\ FlagType /\ FolderInv
<1>1. Init => I
  <2> SUFFICES ASSUME Init PROVE I
    OBVIOUS
  <2>1. FlagType
    BY FlagTypeInit, Zenon
  <2>2. FolderInv
    BY DEF Init, FolderInv, NoJob
  <2> QED BY <2>1, <2>2, WorkTypeInit DEF Init, LearnerType
<1>2. I /\ [Next]_vars => I'
  <2>1. LearnerType /\ [Next]_vars => LearnerType'
    BY DEF LearnerType, Next, Script, Job, CleanSmt, CleanPickle, CleanP4, CleanOutput, CleanFolders,
       InitCompile, Generate, Preprocess, Take, Loop, Report, NextRun, Interrupt, StartRun,
       MakeFolder, CopyP4, Compile, Compiled, Export, RemoveFolder, LearnerWrite, KillUc,
       KillFrontend, vars, background
  <2> QED BY <2>1, WorkTypeStep, FlagTypeStep, FolderInvStep
<1>3. I => LTypeOK
  <2>1. 0 \notin LongLens
    BY DEF LongLens
  <2> QED BY <2>1 DEF LTypeOK, WorkType, LearnerType, FlagType, FolderInv, JobType
<1> QED BY <1>1, <1>2, <1>3, PTL DEF Spec

-----------------------------------------------------------------------------
(***************************************************************************)
(* Free variables.  In a run, texts with free variables only exist for the *)
(* lengths that the loop has left behind, whichever worker compiles them:  *)
(* a text of some length only ever becomes a formula of that length.       *)
(***************************************************************************)
Behind(l) == l < len \/ (l = len /\ pc \in {"report", "cleanEnd", "ended"})

Ahead == {l \in LongLens : ~Behind(l)}

PlainAt(ls) ==
    /\ \A l \in ls : ~folder[l].src.free /\ ~folder[l].smt.free
    /\ \A r \in Runs : (job[r].cwd /\ job[r].len \in ls) => ~job[r].src.free

(***************************************************************************)
(* Until the second run has cleaned up there is a single worker, and it    *)
(* has copied every text before the loop regenerates it.                   *)
(***************************************************************************)
OneWorker == run = 1 \/ (run = 2 /\ pc = "cleanStart")

Queued(l) == \E i \in DOMAIN queue[1] : queue[1][i] = l

ToCopy(l) == Queued(l) \/ (job[1].step = "copy" /\ job[1].len = l)

SingleInv ==
    /\ \A r \in Runs : r # 1 => queue[r] = << >> /\ job[r] = NoJob
    /\ \A i, j \in DOMAIN queue[1] : queue[1][i] = queue[1][j] => i = j
    /\ job[1].step # "idle" => ~Queued(job[1].len)
    /\ PlainAt(LongLens)
    /\ \A l \in LongLens : ~formula[l].free
    /\ \A l \in LongLens : ToCopy(l) => ~p4[l].free
    /\ run = 1 =>
         /\ \A l \in LongLens : (formula[l] # Absent \/ l < len \/ (l = len /\ pc # "wait")) => ~ToCopy(l)
         /\ pc \in {"cleanStart", "init", "generate"} =>
              /\ queue[1] = << >> /\ job[1] = NoJob
              /\ \A l \in LongLens : formula[l] = Absent

FreeInv ==
    /\ ~formula[1].free
    /\ pc # "loop" => taken = Absent
    /\ pc \in {"cleanStart", "init", "generate", "learn"} => len = 1
    /\ OneWorker => SingleInv
    /\ (run - 1 \notin interrupted \/ run = 2) =>
         /\ (pc = "cleanStart" /\ at >= 2) => \A l \in LongLens : ~formula[l].free
         /\ pc # "cleanStart" =>
              /\ PlainAt(Ahead)
              /\ \A l \in Ahead : ~p4[l].free /\ ~formula[l].free
         /\ ~taken.free

LEMMA FreeInvInit == Init => FreeInv
<1> SUFFICES ASSUME Init PROVE FreeInv
  OBVIOUS
<1> USE RunsAreNumbers DEF Init, NoFolder, NoJob, Absent
<1>1. LongLens \subseteq Lens /\ 1 \notin LongLens
  BY DEF LongLens, Lens
<1>2. PlainAt(LongLens)
  BY DEF PlainAt
<1>3. \A l \in LongLens : ~ToCopy(l)
  BY DEF ToCopy, Queued
<1>4. SingleInv
  BY <1>1, <1>2, <1>3 DEF SingleInv, Queued
<1> QED BY <1>1, <1>4 DEF FreeInv

(***************************************************************************)
(* A worker carries a text from file to file of one length.                *)
(***************************************************************************)
LEMMA WorkerKeepsPlain ==
    ASSUME WorkType, NEW r \in Runs, Job(r), NEW ls \in SUBSET LongLens, PlainAt(ls),
           (job[r].step = "copy" /\ job[r].len \in ls) => ~p4[job[r].len].free
    PROVE  /\ PlainAt(ls)'
           /\ \A l \in Lens : formula'[l] # formula[l] =>
                 /\ l \in LongLens
                 /\ job[r].step = "export" /\ l = job[r].len
                 /\ l \in ls => ~formula'[l].free
           /\ UNCHANGED <<run, pc, at, len, p4, interrupted, taken>>
<1> USE DEF WorkType
<1>1. CASE MakeFolder(r)
  <2>1. Head(queue[r]) \in LongLens
    BY <1>1 DEF MakeFolder
  <2>2. \A l \in LongLens : folder'[l].src = folder[l].src /\ folder'[l].smt = folder[l].smt
    BY <1>1, <2>1 DEF MakeFolder, Folder
  <2>3. \A q \in Runs : job'[q].cwd => job'[q] = job[q]
    BY <1>1 DEF MakeFolder
  <2>4. UNCHANGED <<run, pc, at, len, p4, formula, interrupted, taken>>
    BY <1>1 DEF MakeFolder, script, history
  <2>5. PlainAt(ls)'
    BY <2>2, <2>3 DEF PlainAt
  <2> QED BY <2>4, <2>5
<1>2. CASE CopyP4(r)
  <2> DEFINE k == job[r].len
  <2>1. k \in LongLens /\ job[r].step = "copy"
    BY <1>2 DEF CopyP4
  <2>2. \A l \in LongLens :
          /\ folder'[l].src = folder[l].src \/ (l = k /\ folder'[l].src = p4[l])
          /\ folder'[l].smt = folder[l].smt
    BY <1>2, <2>1 DEF CopyP4, Folder
  <2>3. \A q \in Runs :
          job'[q].cwd = job[q].cwd /\ job'[q].src = job[q].src /\ job'[q].len = job[q].len
    BY <1>2 DEF CopyP4, JobType
  <2>4. UNCHANGED <<run, pc, at, len, p4, formula, interrupted, taken>>
    BY <1>2 DEF CopyP4, script, history
  <2>5. k \in ls => ~p4[k].free
    BY <2>1
  <2> HIDE DEF k, WorkType
  <2>6. \A l \in ls : ~folder'[l].src.free /\ ~folder'[l].smt.free
    BY <2>2, <2>5 DEF PlainAt
  <2>7. PlainAt(ls)'
    BY <2>3, <2>6 DEF PlainAt
  <2> QED BY <2>4, <2>7
<1>3. CASE Compile(r)
  <2> DEFINE k == job[r].len
  <2>1. k \in LongLens
    BY <1>3 DEF Compile
  <2>2. \A q \in Runs : job'[q].cwd =>
          (job'[q] = job[q] \/ (job'[q].src = folder[k].src /\ job'[q].len = k))
    BY <1>3 DEF Compile, JobType, NoJob
  <2>3. UNCHANGED <<run, pc, at, len, p4, folder, formula, interrupted, taken>>
    BY <1>3 DEF Compile, script, files, history
  <2> HIDE DEF k, WorkType
  <2>4. PlainAt(ls)'
    <3>1. \A l \in ls : ~folder'[l].src.free /\ ~folder'[l].smt.free
      BY <2>3 DEF PlainAt
    <3>2. ASSUME NEW q \in Runs, job'[q].cwd, job'[q].len \in ls PROVE ~job'[q].src.free
      <4>1. CASE job'[q] = job[q]
        BY <3>2, <4>1 DEF PlainAt
      <4>2. CASE job'[q].src = folder[k].src /\ job'[q].len = k
        BY <3>2, <4>2 DEF PlainAt
      <4> QED BY <2>2, <3>2, <4>1, <4>2
    <3> QED BY <3>1, <3>2 DEF PlainAt
  <2> QED BY <2>3, <2>4
<1>4. CASE Compiled(r)
  <2> DEFINE k == job[r].len
  <2>1. k \in LongLens
    BY <1>4 DEF Compiled
  <2>2. \A l \in LongLens :
          /\ folder'[l].src = folder[l].src
          /\ \/ folder'[l].smt = folder[l].smt
             \/ job[r].cwd /\ l = k /\ folder'[l].smt = job[r].src
    <3> DEFINE t == job[r].src
    <3>1. folder' = folder \/ (job[r].cwd /\ folder' = [folder EXCEPT ![k].smt = t])
      BY <1>4 DEF Compiled
    <3> HIDE DEF t, k
    <3>2. ASSUME folder' = [folder EXCEPT ![k].smt = t], NEW l \in LongLens
          PROVE  /\ folder'[l].src = folder[l].src
                 /\ folder'[l].smt = folder[l].smt \/ (l = k /\ folder'[l].smt = t)
      BY <3>2 DEF Folder
    <3> QED BY <3>1, <3>2 DEF t
  <2>3. \A q \in Runs :
          job'[q].cwd = job[q].cwd /\ job'[q].src = job[q].src /\ job'[q].len = job[q].len
    BY <1>4 DEF Compiled, JobType
  <2>4. UNCHANGED <<run, pc, at, len, p4, formula, interrupted, taken>>
    BY <1>4 DEF Compiled, script
  <2>5. PlainAt(ls)'
    BY <2>2, <2>3 DEF PlainAt
  <2> QED BY <2>4, <2>5
<1>5. CASE Export(r)
  <2> DEFINE k == job[r].len
  <2>1. k \in LongLens /\ job[r].step = "export"
    BY <1>5 DEF Export
  <2>2. \A l \in Lens : formula'[l] = formula[l] \/ (l = k /\ formula'[l] = folder[k].smt)
    BY <1>5 DEF Export
  <2>3. \A q \in Runs :
          job'[q].cwd = job[q].cwd /\ job'[q].src = job[q].src /\ job'[q].len = job[q].len
    BY <1>5 DEF Export, JobType
  <2>4. UNCHANGED <<run, pc, at, len, p4, folder, interrupted, taken>>
    BY <1>5 DEF Export, script, history
  <2>5. PlainAt(ls)'
    BY <2>3, <2>4 DEF PlainAt
  <2> QED BY <2>1, <2>2, <2>4, <2>5 DEF PlainAt
<1>6. CASE RemoveFolder(r)
  <2>1. \A l \in LongLens : folder'[l] = folder[l] \/ folder'[l] = NoFolder
    BY <1>6 DEF RemoveFolder
  <2>2. \A q \in Runs : job'[q].cwd => job'[q] = job[q]
    BY <1>6 DEF RemoveFolder, NoJob, JobType
  <2>3. ~NoFolder.src.free /\ ~NoFolder.smt.free
    BY DEF NoFolder, Absent
  <2>4. UNCHANGED <<run, pc, at, len, p4, formula, interrupted, taken>>
    BY <1>6 DEF RemoveFolder, script, history
  <2>5. PlainAt(ls)'
    BY <2>1, <2>2, <2>3 DEF PlainAt
  <2> QED BY <2>4, <2>5
<1> QED BY <1>1, <1>2, <1>3, <1>4, <1>5, <1>6 DEF Job

(***************************************************************************)
(* The single worker copies nothing twice.                                 *)
(***************************************************************************)
LEMMA SingleWorkerStep ==
    ASSUME WorkType, SingleInv, NEW r \in Runs, Job(r)
    PROVE  /\ \A q \in Runs : q # 1 => queue'[q] = << >> /\ job'[q] = NoJob
           /\ \A i, j \in DOMAIN queue'[1] : queue'[1][i] = queue'[1][j] => i = j
           /\ \A l \in LongLens :
                /\ (job'[1].step # "idle" /\ job'[1].len = l) => ~Queued(l)'
                /\ ToCopy(l)' => ToCopy(l)
                /\ (job[1].step = "export" /\ job[1].len = l) => ~ToCopy(l)'
           /\ r = 1 /\ ~(queue[1] = << >> /\ job[1] = NoJob)
<1> USE DEF WorkType
<1>1. NoJob.step = "idle" /\ NoJob.len = 0 /\ 0 \notin LongLens
  BY DEF NoJob, LongLens
<1>2. job[r] # NoJob \/ queue[r] # << >>
  BY <1>1 DEF Job, MakeFolder, CopyP4, Compile, Compiled, Export, RemoveFolder
<1>3. r = 1 /\ 1 \in Runs
  BY <1>2, RunsAreNumbers DEF SingleInv
<1>4. CASE MakeFolder(1)
  <2> DEFINE s == queue[1]
             k == Head(s)
  <2>1. s \in Seq(LongLens) /\ s # << >> /\ job[1].step = "idle"
    BY <1>3, <1>4 DEF MakeFolder
  <2>2. /\ queue'[1] = Tail(s) /\ job'[1].step = "copy" /\ job'[1].len = k
        /\ \A q \in Runs : q # 1 => queue'[q] = queue[q] /\ job'[q] = job[q]
    BY <1>3, <1>4 DEF MakeFolder
  <2>3. /\ k = s[1] /\ 1 \in DOMAIN s
        /\ DOMAIN Tail(s) = 1..(Len(s) - 1)
        /\ \A i \in 1..(Len(s) - 1) : i + 1 \in DOMAIN s /\ i + 1 # 1 /\ Tail(s)[i] = s[i + 1]
    BY <2>1
  <2>4. \A i, j \in DOMAIN s : s[i] = s[j] => i = j
    BY DEF SingleInv
  <2> HIDE DEF s
  <2>5. \A i, j \in DOMAIN Tail(s) : Tail(s)[i] = Tail(s)[j] => i = j
    BY <2>3, <2>4
  <2>6. \A i \in DOMAIN Tail(s) : Tail(s)[i] # k
    BY <2>3, <2>4
  <2>7. \A l : Queued(l)' => Queued(l) /\ l # k
    BY <2>2, <2>3, <2>6 DEF Queued, s
  <2>8. Queued(k)
    BY <2>3 DEF Queued, s
  <2>9. \A q \in Runs : q # 1 => queue'[q] = << >> /\ job'[q] = NoJob
    BY <2>2 DEF SingleInv
  <2>10. \A i, j \in DOMAIN queue'[1] : queue'[1][i] = queue'[1][j] => i = j
    BY <2>2, <2>5
  <2> HIDE DEF WorkType, k
  <2>11. \A l \in LongLens :
           /\ (job'[1].step # "idle" /\ job'[1].len = l) => ~Queued(l)'
           /\ ToCopy(l)' => ToCopy(l)
           /\ (job[1].step = "export" /\ job[1].len = l) => ~ToCopy(l)'
    BY <2>1, <2>2, <2>7, <2>8 DEF ToCopy
  <2>12. queue[1] # << >>
    BY <2>1 DEF s
  <2> QED BY <1>3, <2>9, <2>10, <2>11, <2>12
<1>5. CASE ~MakeFolder(1)
  <2>1. queue' = queue /\ job[1].step # "idle"
    BY <1>3, <1>5 DEF Job, CopyP4, Compile, Compiled, Export, RemoveFolder
  <2>2. job'[1] = NoJob \/ (job'[1].len = job[1].len /\ job'[1].step \notin {"copy", "idle"})
    <3>1. CASE Compile(1)
      BY <1>3, <3>1 DEF Compile, JobType
    <3>2. CASE CopyP4(1) \/ Compiled(1) \/ Export(1)
      BY <1>3, <3>2 DEF CopyP4, Compiled, Export, JobType
    <3>3. CASE RemoveFolder(1)
      BY <1>3, <3>3 DEF RemoveFolder
    <3> QED BY <1>3, <1>5, <3>1, <3>2, <3>3 DEF Job
  <2>3. \A q \in Runs : q # 1 => job'[q] = NoJob
    <3>1. CASE RemoveFolder(1)
      <4>1. job[1].len # 0
        BY <1>1, <1>3, <2>1
      <4> QED BY <1>1, <1>3, <3>1, <4>1 DEF RemoveFolder, SingleInv
    <3>2. CASE ~RemoveFolder(1)
      BY <1>3, <1>5, <3>2 DEF Job, CopyP4, Compile, Compiled, Export, SingleInv
    <3> QED BY <3>1, <3>2
  <2> HIDE DEF WorkType
  <2>4. \A l : Queued(l)' <=> Queued(l)
    BY <2>1 DEF Queued
  <2>5. \A l \in LongLens : ToCopy(l)' => Queued(l)
    BY <1>1, <2>2, <2>4 DEF ToCopy
  <2>6. ~Queued(job[1].len)
    BY <2>1 DEF SingleInv
  <2>7. \A l \in LongLens :
          /\ (job'[1].step # "idle" /\ job'[1].len = l) => ~Queued(l)'
          /\ ToCopy(l)' => ToCopy(l)
          /\ (job[1].step = "export" /\ job[1].len = l) => ~ToCopy(l)'
    BY <1>1, <2>2, <2>4, <2>5, <2>6 DEF ToCopy
  <2> QED BY <1>1, <1>3, <2>1, <2>3, <2>7 DEF SingleInv
<1> QED BY <1>4, <1>5

LEMMA SingleInvStep ==
    ASSUME WorkType, FlagType, FreeInv, [Next]_vars, OneWorker'
    PROVE  SingleInv'
<1> USE DEF WorkType
<1>1. OneWorker /\ SingleInv /\ LongLens \subseteq Lens /\ 1 \notin LongLens /\ 1 \in Runs
  <2>1. OneWorker
    <3>1. CASE run' = run /\ (pc = "cleanStart" \/ pc' # "cleanStart")
      BY <3>1 DEF OneWorker
    <3>2. CASE NextRun \/ Interrupt
      BY <3>2, LifecycleAssumption DEF OneWorker, NextRun, Interrupt, StartRun, Runs
    <3> QED
      BY <3>1, <3>2 DEF Next, Script, Job, CleanSmt, CleanPickle, CleanP4, CleanOutput,
         CleanFolders, NextCommand, Cleaning, InitCompile, Generate, Preprocess, Take, Loop, Report,
         MakeFolder, CopyP4, Compile, Compiled, Export, RemoveFolder, LearnerWrite, KillUc,
         KillFrontend, vars, script
  <2> QED BY <2>1, RunsAreNumbers DEF FreeInv, LongLens, Lens
<1>2. ASSUME NEW r \in Runs, Job(r) PROVE SingleInv'
  <2>1. /\ \A q \in Runs : q # 1 => queue'[q] = << >> /\ job'[q] = NoJob
        /\ \A i, j \in DOMAIN queue'[1] : queue'[1][i] = queue'[1][j] => i = j
        /\ \A l \in LongLens :
             /\ (job'[1].step # "idle" /\ job'[1].len = l) => ~Queued(l)'
             /\ ToCopy(l)' => ToCopy(l)
             /\ (job[1].step = "export" /\ job[1].len = l) => ~ToCopy(l)'
        /\ r = 1 /\ ~(queue[1] = << >> /\ job[1] = NoJob)
    BY <1>1, <1>2, SingleWorkerStep
  <2>2. (job[r].step = "copy" /\ job[r].len \in LongLens) => ~p4[job[r].len].free
    BY <1>1, <2>1 DEF SingleInv, ToCopy
  <2>3. PlainAt(LongLens)
    BY <1>1 DEF SingleInv
  <2>4. /\ PlainAt(LongLens)'
        /\ \A l \in Lens : formula'[l] # formula[l] =>
              /\ job[1].step = "export" /\ l = job[1].len
              /\ l \in LongLens /\ ~formula'[l].free
        /\ UNCHANGED <<run, pc, at, len, p4, interrupted, taken>>
    <3>1. /\ PlainAt(LongLens)'
          /\ \A l \in Lens : formula'[l] # formula[l] =>
                /\ l \in LongLens
                /\ job[r].step = "export" /\ l = job[r].len
                /\ l \in LongLens => ~formula'[l].free
          /\ UNCHANGED <<run, pc, at, len, p4, interrupted, taken>>
      <4> DEFINE ls == LongLens
      <4> HIDE DEF WorkType
      <4>1. ls \in SUBSET LongLens
        OBVIOUS
      <4>2. PlainAt(ls) /\ ((job[r].step = "copy" /\ job[r].len \in ls) => ~p4[job[r].len].free)
        BY <2>2, <2>3
      <4> HIDE DEF ls
      <4>3. /\ PlainAt(ls)'
            /\ \A l \in Lens : formula'[l] # formula[l] =>
                  /\ l \in LongLens
                  /\ job[r].step = "export" /\ l = job[r].len
                  /\ l \in ls => ~formula'[l].free
            /\ UNCHANGED <<run, pc, at, len, p4, interrupted, taken>>
        BY <1>2, <4>1, <4>2, WorkerKeepsPlain
      <4> QED BY <4>3 DEF ls
    <3> QED BY <2>1, <3>1
  <2>5. job'[1].step # "idle" => ~Queued(job[1].len)'
    <3>1. WorkType'
      BY WorkTypeStep
    <3>2. job'[1].step # "idle" => job'[1].len \in LongLens
      BY <1>1, <3>1
    <3> QED BY <2>1, <3>2
  <2> HIDE DEF WorkType
  <2>6. \A l \in LongLens : ~formula'[l].free /\ (ToCopy(l)' => ~p4'[l].free)
    BY <1>1, <2>1, <2>4 DEF SingleInv
  <2>7. \A l \in LongLens :
          (run = 1 /\ (formula'[l] # Absent \/ l < len \/ (l = len /\ pc # "wait"))) => ~ToCopy(l)'
    BY <1>1, <2>1, <2>4 DEF SingleInv
  <2>8. run = 1 => pc \notin {"cleanStart", "init", "generate"}
    BY <1>1, <2>1 DEF SingleInv
  <2> QED BY <2>1, <2>4, <2>5, <2>6, <2>7, <2>8 DEF SingleInv
<1>3. ASSUME UNCHANGED <<run, queue, job, folder>>,
             \A l \in LongLens : formula'[l] = formula[l] \/ formula'[l] = Absent,
             \A l \in LongLens : ToCopy(l) => p4'[l] = p4[l] \/ p4'[l] = Absent,
             UNCHANGED pc \/ pc' \notin {"cleanStart", "init", "generate"} \/ (pc = "init" /\ pc' = "generate"),
             run = 1 => \A l \in LongLens :
                (l < len' \/ (l = len' /\ pc' # "wait")) =>
                    (l < len \/ (l = len /\ pc # "wait") \/ formula[l] # Absent)
      PROVE  SingleInv'
  <2>1. \A l : (Queued(l)' <=> Queued(l)) /\ (ToCopy(l)' <=> ToCopy(l))
    BY <1>3 DEF Queued, ToCopy
  <2>2. ~Absent.free
    BY DEF Absent
  <2>3. PlainAt(LongLens)'
    BY <1>1, <1>3 DEF SingleInv, PlainAt
  <2> HIDE DEF WorkType
  <2>4. \A l \in LongLens : ~formula'[l].free /\ (ToCopy(l)' => ~p4'[l].free)
    BY <1>1, <1>3, <2>1, <2>2 DEF SingleInv
  <2>5. \A l \in LongLens :
          (run = 1 /\ (formula'[l] # Absent \/ l < len' \/ (l = len' /\ pc' # "wait"))) => ~ToCopy(l)'
    BY <1>1, <1>3, <2>1 DEF SingleInv
  <2>6. job'[1].step # "idle" => ~Queued(job[1].len)'
    BY <1>1, <1>3, <2>1 DEF SingleInv
  <2>7. (run = 1 /\ pc' \in {"cleanStart", "init", "generate"}) =>
          /\ queue'[1] = << >> /\ job'[1] = NoJob
          /\ \A l \in LongLens : formula'[l] = Absent
    BY <1>1, <1>3 DEF SingleInv
  <2> QED BY <1>1, <1>3, <2>3, <2>4, <2>5, <2>6, <2>7 DEF SingleInv
<1>4. CASE CleanSmt \/ CleanPickle \/ CleanP4 \/ CleanOutput
  <2>1. UNCHANGED <<run, queue, job, folder, pc, len>>
    BY <1>4 DEF CleanSmt, CleanPickle, CleanP4, CleanOutput, NextCommand, background
  <2>2. \A l \in LongLens : formula'[l] = formula[l] \/ formula'[l] = Absent
    BY <1>1, <1>4 DEF CleanSmt, CleanPickle, CleanP4, CleanOutput
  <2>3. \A l \in LongLens : p4'[l] = p4[l] \/ p4'[l] = Absent
    BY <1>4 DEF CleanSmt, CleanPickle, CleanP4, CleanOutput
  <2> QED BY <1>3, <2>1, <2>2, <2>3
<1>5. CASE CleanFolders
  <2>1. /\ UNCHANGED <<run, len, queue, p4, formula>>
        /\ pc' = IF pc = "cleanStart" THEN "init" ELSE "ended"
        /\ Cleaning
    BY <1>5 DEF CleanFolders, NextCommand
  <2>2. \A l \in LongLens : folder'[l] = NoFolder
    BY <1>5 DEF CleanFolders, LoseFolders
  <2>3. \A r \in Runs :
          /\ ~job'[r].cwd /\ job'[r].step = job[r].step /\ job'[r].len = job[r].len
          /\ job[r] = NoJob => job'[r] = NoJob
    <3>1. NoJob.len = 0 /\ 0 \notin LongLens
      BY DEF NoJob, LongLens
    <3>2. \A r \in Runs : ~job'[r].cwd /\ job'[r].step = job[r].step /\ job'[r].len = job[r].len
      BY <1>5 DEF CleanFolders, LoseFolders, JobType
    <3>3. \A r \in Runs : job[r].len \notin LongLens => job'[r] = job[r]
      BY <1>5 DEF CleanFolders, LoseFolders
    <3> QED BY <3>1, <3>2, <3>3
  <2>4. PlainAt(LongLens)'
    <3> HIDE DEF WorkType
    <3>1. ~NoFolder.src.free /\ ~NoFolder.smt.free
      BY DEF NoFolder, Absent
    <3>2. \A l \in LongLens : ~folder'[l].src.free /\ ~folder'[l].smt.free
      BY <2>2, <3>1
    <3> QED BY <2>3, <3>2 DEF PlainAt
  <2>5. \A l : (Queued(l)' <=> Queued(l)) /\ (ToCopy(l)' <=> ToCopy(l))
    BY <1>1, <2>1, <2>3 DEF Queued, ToCopy
  <2> HIDE DEF WorkType
  <2>6. \A l \in LongLens :
          (run = 1 /\ (formula'[l] # Absent \/ l < len' \/ (l = len' /\ pc' # "wait"))) => ~ToCopy(l)'
    BY <1>1, <2>1, <2>5 DEF SingleInv, Cleaning
  <2>7. job'[1].step # "idle" => ~Queued(job[1].len)'
    BY <1>1, <2>3, <2>5 DEF SingleInv
  <2>8. (run = 1 /\ pc' \in {"cleanStart", "init", "generate"}) =>
          /\ queue'[1] = << >> /\ job'[1] = NoJob
          /\ \A l \in LongLens : formula'[l] = Absent
    BY <1>1, <2>1, <2>3 DEF SingleInv, Cleaning
  <2> QED BY <1>1, <2>1, <2>3, <2>4, <2>5, <2>6, <2>7, <2>8 DEF SingleInv
<1>6. CASE InitCompile
  <2>1. UNCHANGED <<run, queue, job, folder, p4, len>> /\ pc = "init" /\ pc' = "generate"
    BY <1>6 DEF InitCompile, background
  <2>2. \A l \in LongLens : formula'[l] = formula[l]
    BY <1>1, <1>6 DEF InitCompile
  <2> QED BY <1>3, <2>1, <2>2
<1>7. CASE Generate
  <2>1. run = 1 /\ pc = "generate" /\ pc' = "learn" /\ len = 1
    BY <1>1, <1>7 DEF Generate, OneWorker, FreeInv
  <2>2. UNCHANGED <<run, job, folder, formula, len>>
    BY <1>7 DEF Generate
  <2>3. job[1] = NoJob /\ \A l \in LongLens : formula[l] = Absent /\ l # 1 /\ ~(l < 1)
    BY <1>1, <2>1 DEF SingleInv, LongLens
  <2>4. \A l \in LongLens : ~p4'[l].free
    BY <1>7 DEF Generate, Of
  <2>5. /\ queue'[1] = [i \in 1..(MaxLen - 1) |-> i + 1]
        /\ \A r \in Runs : r # 1 => queue'[r] = queue[r]
    BY <1>1, <1>7, <2>1 DEF Generate
  <2>6. \A i, j \in DOMAIN queue'[1] : queue'[1][i] = queue'[1][j] => i = j
    BY <2>5
  <2>7. PlainAt(LongLens)'
    BY <1>1, <2>2 DEF SingleInv, PlainAt
  <2>8. job'[1].step = "idle"
    BY <2>2, <2>3 DEF NoJob
  <2> HIDE DEF WorkType
  <2>9. \A l \in LongLens : ~formula'[l].free
    BY <2>2, <2>3 DEF Absent
  <2>10. \A l \in LongLens : ~(formula'[l] # Absent \/ l < len' \/ (l = len' /\ pc' # "wait"))
    BY <2>1, <2>2, <2>3
  <2> QED BY <1>1, <2>1, <2>2, <2>4, <2>5, <2>6, <2>7, <2>8, <2>9, <2>10 DEF SingleInv
<1>8. CASE Preprocess
  BY <1>3, <1>8 DEF Preprocess
<1>9. CASE Take
  BY <1>3, <1>9 DEF Take, files, background
<1>10. CASE Loop
  <2>1. run = 1 /\ pc = "loop" /\ UNCHANGED <<run, queue, job, folder, formula>>
    BY <1>1, <1>10 DEF Loop, OneWorker, background
  <2>2. (len' = len + 1 /\ pc' = "wait") \/ (len' = len /\ pc' = "report")
    BY <1>10 DEF Loop
  <2>3. \A l \in LongLens : ToCopy(l) => p4'[l] = p4[l]
    <3> SUFFICES ASSUME NEW l \in LongLens, ToCopy(l) PROVE p4'[l] = p4[l]
      OBVIOUS
    <3>1. ~(l < len) /\ l # len /\ l \in Nat /\ len \in Nat
      BY <1>1, <2>1, RunsAreNumbers DEF SingleInv
    <3> QED BY <1>10, <3>1 DEF Loop, Regenerated
  <2>4. \A l \in LongLens :
          (l < len' \/ (l = len' /\ pc' # "wait")) => (l < len \/ (l = len /\ pc # "wait"))
    BY <1>1, <2>1, <2>2, RunsAreNumbers
  <2> QED BY <1>3, <2>1, <2>2, <2>3, <2>4
<1>11. CASE Report
  BY <1>3, <1>11 DEF Report, files
<1>12. CASE NextRun \/ Interrupt
  <2>1. run' = run + 1 /\ UNCHANGED <<p4, formula, folder, queue, job>>
    BY <1>12 DEF NextRun, Interrupt, StartRun, files, background
  <2>2. run' # 1
    BY <2>1, LifecycleAssumption DEF Runs
  <2>3. \A l : (Queued(l)' <=> Queued(l)) /\ (ToCopy(l)' <=> ToCopy(l))
    BY <2>1 DEF Queued, ToCopy
  <2>4. PlainAt(LongLens)'
    BY <1>1, <2>1 DEF SingleInv, PlainAt
  <2> HIDE DEF WorkType
  <2>5. job'[1].step # "idle" => ~Queued(job[1].len)'
    BY <1>1, <2>1, <2>3 DEF SingleInv
  <2> QED BY <1>1, <2>1, <2>2, <2>3, <2>4, <2>5 DEF SingleInv
<1>13. ASSUME NEW r \in Runs, LearnerWrite(r) \/ KillUc(r) \/ KillFrontend(r) PROVE SingleInv'
  BY <1>3, <1>13 DEF LearnerWrite, KillUc, KillFrontend, script, files
<1>14. CASE UNCHANGED vars
  BY <1>3, <1>14 DEF vars, script, files, background
<1> QED
  BY <1>2, <1>4, <1>5, <1>6, <1>7, <1>8, <1>9, <1>10, <1>11, <1>12, <1>13, <1>14 DEF Next, Script

LEMMA FreeInvStep ==
    ASSUME WorkType, FlagType, FreshInv, FreeInv, [Next]_vars
    PROVE  FreeInv'
<1> USE DEF WorkType
<1>1. OneWorker' => SingleInv'
  BY SingleInvStep
<1>2. LongLens \subseteq Lens /\ LongLens \subseteq Nat /\ 1 \notin LongLens /\ 1 \in Lens /\ ~Absent.free
  BY RunsAreNumbers DEF LongLens, Lens, Absent
<1> DEFINE Safe == run - 1 \notin interrupted \/ run = 2
           Clear == pc # "cleanStart" =>
                      PlainAt(Ahead) /\ \A l \in Ahead : ~p4[l].free /\ ~formula[l].free
           Gone == (pc = "cleanStart" /\ at >= 2) => \A l \in LongLens : ~formula[l].free
           Early == pc \in {"cleanStart", "init", "generate", "learn"} => len = 1
<1>3. ASSUME ~formula[1].free', pc' # "loop" => taken' = Absent, Early',
             Safe' => Gone' /\ Clear' /\ ~taken'.free
      PROVE  FreeInv'
  BY <1>1, <1>3 DEF FreeInv
<1>4. /\ ~formula[1].free /\ (pc # "loop" => taken = Absent) /\ Early
      /\ Safe => Gone /\ Clear /\ ~taken.free
  BY DEF FreeInv
<1>5. ASSUME UNCHANGED <<run, pc, at, len, p4, formula, folder, job, interrupted, taken>> PROVE FreeInv'
  BY <1>3, <1>4, <1>5 DEF PlainAt, Ahead, Behind
<1>6. ASSUME NEW r \in Runs, LearnerWrite(r) \/ KillUc(r) \/ KillFrontend(r) PROVE FreeInv'
  BY <1>5, <1>6 DEF LearnerWrite, KillUc, KillFrontend, script, files, background, history
<1>7. CASE UNCHANGED vars
  BY <1>5, <1>7 DEF vars, script, files, background, history
<1>8. ASSUME NEW r \in Runs, Job(r) PROVE FreeInv'
  <2> PICK ls \in SUBSET LongLens : ls = IF pc # "cleanStart" /\ Safe THEN Ahead ELSE {}
    BY DEF Ahead
  <2>1. PlainAt(ls) /\ \A l \in ls : ~p4[l].free /\ ~formula[l].free
    <3>1. PlainAt({})
      BY DEF PlainAt
    <3> QED BY <1>4, <3>1
  <2>2. /\ PlainAt(ls)'
        /\ \A l \in Lens : formula'[l] # formula[l] =>
              l \in LongLens /\ (l \in ls => ~formula'[l].free)
        /\ UNCHANGED <<run, pc, at, len, p4, interrupted, taken>>
    BY <1>8, <2>1, WorkerKeepsPlain
  <2>3. (pc = "cleanStart" /\ run - 1 \notin interrupted) => formula' = formula
    BY <1>8, WorkerStep DEF FreshInv
  <2>4. (pc = "cleanStart" /\ run = 2) => \A l \in LongLens : ~formula'[l].free
    BY <1>1, <2>2 DEF OneWorker, SingleInv
  <2>5. Safe' => Gone'
    BY <1>4, <2>2, <2>3, <2>4
  <2>6. Ahead' = Ahead
    BY <2>2 DEF Ahead, Behind
  <2>7. Safe' => Clear'
    <3> SUFFICES ASSUME Safe', pc' # "cleanStart" PROVE Clear'
      OBVIOUS
    <3>1. ls = Ahead /\ ls = Ahead'
      BY <2>2, <2>6
    <3>2. \A l \in ls : ~formula'[l].free
      BY <1>2, <2>1, <2>2
    <3> QED BY <2>1, <2>2, <3>1, <3>2
  <2> QED BY <1>2, <1>3, <1>4, <2>2, <2>5, <2>7
<1>9. CASE CleanSmt
  <2>1. pc' = pc /\ at' = 2 /\ UNCHANGED <<run, len, p4, folder, job, interrupted, taken>>
    BY <1>9 DEF CleanSmt, NextCommand, background, history
  <2>2. \A l \in Lens : ~formula'[l].free
    BY <1>2, <1>9 DEF CleanSmt
  <2>3. Safe' => Clear'
    BY <1>2, <1>4, <2>1, <2>2 DEF PlainAt, Ahead, Behind
  <2> QED BY <1>2, <1>3, <1>4, <2>1, <2>2, <2>3
<1>10. CASE CleanPickle \/ CleanP4 \/ CleanOutput
  <2>1. /\ pc' = pc /\ at' >= 2 /\ at >= 2
        /\ UNCHANGED <<run, len, formula, folder, job, interrupted, taken>>
    BY <1>10 DEF CleanPickle, CleanP4, CleanOutput, NextCommand, background, history
  <2>2. \A l \in LongLens : p4'[l] = p4[l] \/ p4'[l] = Absent
    BY <1>10 DEF CleanPickle, CleanP4, CleanOutput
  <2>3. Safe' => Clear'
    BY <1>2, <1>4, <2>1, <2>2 DEF PlainAt, Ahead, Behind
  <2> QED BY <1>2, <1>3, <1>4, <2>1, <2>3
<1>11. CASE CleanFolders
  <2>1. /\ pc' = IF pc = "cleanStart" THEN "init" ELSE "ended"
        /\ Cleaning /\ at = 5 /\ UNCHANGED <<run, len, p4, formula, interrupted, taken>>
    BY <1>11 DEF CleanFolders, NextCommand, history
  <2>2. \A l \in LongLens : folder'[l] = NoFolder
    BY <1>11 DEF CleanFolders, LoseFolders
  <2>3. \A r \in Runs : ~job'[r].cwd
    BY <1>11 DEF CleanFolders, LoseFolders, JobType
  <2>4. PlainAt(LongLens)'
    <3> HIDE DEF WorkType
    <3>1. ~NoFolder.src.free /\ ~NoFolder.smt.free
      BY DEF NoFolder, Absent
    <3>2. \A l \in LongLens : ~folder'[l].src.free /\ ~folder'[l].smt.free
      BY <2>2, <3>1
    <3> QED BY <2>3, <3>2 DEF PlainAt
  <2>5. \A l \in LongLens : p4[l] = Absent
    BY <2>1 DEF FreshInv
  <2>6. Ahead' \subseteq LongLens /\ (pc = "cleanEnd" => Ahead' = Ahead)
    BY <2>1 DEF Ahead, Behind
  <2>7. Safe' => \A l \in Ahead' : ~formula[l].free
    BY <1>4, <2>1, <2>6 DEF Cleaning
  <2>8. PlainAt(Ahead)'
    BY <2>4, <2>6 DEF PlainAt
  <2>9. Safe' => Clear'
    BY <1>2, <2>1, <2>5, <2>6, <2>7, <2>8
  <2>10. Early'
    BY <1>4, <2>1 DEF Cleaning
  <2>11. Safe' => Gone'
    BY <2>1
  <2>12. pc # "loop"
    BY <2>1 DEF Cleaning
  <2> HIDE DEF Safe, Gone, Clear, Early
  <2>13. Safe' = Safe
    BY <2>1 DEF Safe
  <2> QED BY <1>2, <1>3, <1>4, <2>1, <2>9, <2>10, <2>11, <2>12, <2>13
<1>12. CASE InitCompile \/ Generate \/ Preprocess
  <2>1. /\ pc \in {"init", "generate", "learn"} /\ pc' \in {"generate", "learn", "wait"}
        /\ UNCHANGED <<run, len, folder, job, interrupted, taken>>
    BY <1>12 DEF InitCompile, Generate, Preprocess, background, history
  <2>2. \A l \in LongLens : p4'[l] = p4[l] \/ ~p4'[l].free
    BY <1>12 DEF InitCompile, Generate, Preprocess, Of
  <2>3. \A l \in Lens : formula'[l] = formula[l] \/ ~formula'[l].free
    BY <1>12 DEF InitCompile, Generate, Preprocess, Of
  <2>4. Ahead' = Ahead /\ Ahead \subseteq LongLens
    BY <2>1 DEF Ahead, Behind
  <2>5. PlainAt(Ahead) => PlainAt(Ahead)'
    BY <2>1, <2>4 DEF PlainAt
  <2>6. Safe' => Clear'
    BY <1>2, <1>4, <2>1, <2>2, <2>3, <2>4, <2>5
  <2>7. Early'
    BY <1>4, <2>1
  <2> QED BY <1>2, <1>3, <1>4, <2>1, <2>3, <2>6, <2>7
<1>13. CASE Take
  <2>1. /\ pc = "wait" /\ pc' = "loop" /\ taken' = formula[len]
        /\ UNCHANGED <<run, len, p4, formula, folder, job, interrupted>>
    BY <1>13 DEF Take, files, background
  <2>2. Ahead' = Ahead /\ (len # 1 => len \in Ahead)
    BY <2>1, RunsAreNumbers DEF Ahead, Behind, Lens, LongLens
  <2>3. PlainAt(Ahead) => PlainAt(Ahead)'
    BY <2>1, <2>2 DEF PlainAt
  <2>4. Safe' => Clear' /\ ~taken'.free
    BY <1>4, <2>1, <2>2, <2>3
  <2> QED BY <1>3, <1>4, <2>1, <2>4
<1>14. CASE Loop
  <2>1. /\ pc = "loop" /\ taken' = Absent
        /\ UNCHANGED <<run, formula, folder, job, interrupted>>
        /\ (len' = len + 1 /\ pc' = "wait") \/ (len' = len /\ pc' = "report")
    BY <1>14 DEF Loop, background
  <2>2. Ahead' \subseteq {l \in Ahead : l > len}
    <3> SUFFICES ASSUME NEW l \in Ahead' PROVE l \in Ahead /\ l > len
      OBVIOUS
    <3>1. l \in LongLens /\ ~Behind(l)'
      BY DEF Ahead
    <3>2. l \in Nat /\ len \in Nat
      BY <1>2, <3>1, RunsAreNumbers
    <3>3. l > len
      BY <2>1, <3>1, <3>2 DEF Behind
    <3>4. ~Behind(l)
      BY <3>2, <3>3 DEF Behind
    <3> QED BY <3>1, <3>3, <3>4 DEF Ahead
  <2>3. \A l \in Ahead' : p4'[l] = p4[l]
    <3> SUFFICES ASSUME NEW l \in Ahead' PROVE p4'[l] = p4[l]
      OBVIOUS
    <3>1. l \in LongLens /\ ~(l <= len)
      BY <1>2, <2>2, RunsAreNumbers DEF Ahead
    <3> QED BY <1>14, <3>1 DEF Loop, Regenerated
  <2>4. PlainAt(Ahead) => PlainAt(Ahead)'
    BY <2>1, <2>2 DEF PlainAt
  <2>5. Safe' => Clear'
    <3> SUFFICES ASSUME Safe' PROVE Clear'
      OBVIOUS
    <3>1. PlainAt(Ahead) /\ \A l \in Ahead : ~p4[l].free /\ ~formula[l].free
      BY <1>4, <2>1
    <3>2. \A l \in Ahead' : ~p4'[l].free /\ ~formula'[l].free
      BY <2>1, <2>2, <2>3, <3>1
    <3> QED BY <2>4, <3>1, <3>2
  <2> QED BY <1>2, <1>3, <1>4, <2>1, <2>5
<1>15. CASE Report
  <2>1. /\ pc = "report" /\ pc' = "cleanEnd"
        /\ UNCHANGED <<run, len, p4, formula, folder, job, interrupted, taken>>
    BY <1>15 DEF Report, files, history
  <2>2. Ahead' = Ahead
    BY <2>1 DEF Ahead, Behind
  <2>3. PlainAt(Ahead) => PlainAt(Ahead)'
    BY <2>1, <2>2 DEF PlainAt
  <2> QED BY <1>3, <1>4, <2>1, <2>2, <2>3
<1>16. CASE NextRun \/ Interrupt
  <2>1. pc' = "cleanStart" /\ at' = 1 /\ len' = 1 /\ taken' = Absent /\ UNCHANGED formula
    BY <1>16 DEF NextRun, Interrupt, StartRun, files
  <2> QED BY <1>2, <1>3, <1>4, <2>1
<1> QED
  BY <1>6, <1>7, <1>8, <1>9, <1>10, <1>11, <1>12, <1>13, <1>14, <1>15, <1>16 DEF Next, Script

\* For any number of runs, lengths and leftover workers: a run that follows no
\* interrupted run, or only an interrupted first one, works with formulas that were
\* compiled before cegis_loop.py wrote their P4 text anew.
THEOREM FormulasArePlain == Spec => []RegenerationComesTooLate
<1> DEFINE I == WorkType /\ FlagType /\ FreshInv /\ FreeInv
<1>1. Init => I
  <2> SUFFICES ASSUME Init PROVE I
    OBVIOUS
  <2>1. FlagType
    BY FlagTypeInit, Zenon
  <2> QED BY <2>1, WorkTypeInit, FreshInvInit, FreeInvInit
<1>2. I /\ [Next]_vars => I'
  BY WorkTypeStep, FlagTypeStep, FreshInvStep, FreeInvStep
<1>3. I => RegenerationComesTooLate
  BY DEF FreeInv, RegenerationComesTooLate
<1> QED BY <1>1, <1>2, <1>3, PTL DEF Spec
=============================================================================
