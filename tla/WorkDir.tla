------------------------------- MODULE WorkDir -------------------------------
(***************************************************************************)
(* The files of the working directory that more than one process of a run  *)
(* touches, and the unsat cores one of them carries.  Every process runs   *)
(* in the same directory and opens these files by name, without locks.     *)
(***************************************************************************)
EXTENDS UpdatePlan

VARIABLES
    result,       \* file "result": the outcome of a verification
    handle,       \* the unsat core learner's open handle on "result"
    outputFin,    \* file "output-fin" says FIN
    unsatLists    \* what reading unsat_lists.pickle yields

workDir == <<result, handle, outputFin, unsatLists>>

(***************************************************************************)
(* An unsat core fixes some version bits to 1 and others to 0.  It matches *)
(* every state that agrees with it.                                        *)
(***************************************************************************)
Cores == [one : States, zero : States]

Matches(core, S) == core.one \subseteq S /\ core.zero \cap S = {}

(***************************************************************************)
(* unlink: "rm -rf result" leaves a handle opened earlier on a file that   *)
(* nobody else will read.                                                  *)
(***************************************************************************)
Unlink(h) == IF h = "linked" THEN "unlinked" ELSE h

WorkDirTypeOK ==
    /\ result \in {"absent", "empty", "SAT", "UNSAT"}
    /\ handle \in {"closed", "linked", "unlinked"}
    /\ outputFin \in BOOLEAN
    /\ unsatLists \in SUBSET Cores

WorkDirInit ==
    /\ result = "absent"
    /\ handle = "closed"
    /\ outputFin = FALSE
    /\ unsatLists = {}
=============================================================================
