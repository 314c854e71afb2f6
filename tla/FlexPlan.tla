------------------------------ MODULE FlexPlan ------------------------------
(***************************************************************************)
(* A run of cegis.sh from the preprocessing on: the unsat core learner     *)
(* runs once on its own, then in the background of the main loop.  The two *)
(* processes share the files of WorkDir and interleave freely.  The run    *)
(* ends with the report, after which the learner is killed.                *)
(***************************************************************************)
EXTENDS CegisLoop, UnsatCoreLearner

sysVars == <<main, learner, workDir>>

SysInit == Init /\ LearnerInit

MainStep == pass = 2 /\ MainNext /\ UNCHANGED learner

LearnerStep == pc # "done" /\ LearnerNext /\ UNCHANGED main

RunOver == pc = "done" /\ UNCHANGED sysVars

SysNext == MainStep \/ LearnerStep \/ RunOver

SysSpec == SysInit /\ [][SysNext]_sysVars

-----------------------------------------------------------------------------
(***************************************************************************)
(* The properties.                                                         *)
(***************************************************************************)

\* Every variable of both processes has its type.
SysTypeOK == TypeOK /\ LearnerTypeOK

\* A plan that is accepted without verification because the learner said FIN
\* (cegis_loop.py, "No need for verification...") fails for no packet.
SkippedVerificationIsSafe ==
    [][pc = "checkFin" /\ pc' = "decide" => SafePlan(LenOf(plan), plan)]_sysVars

\* A candidate that verification refuted in this round ("Violation found,
\* generating counter example...") is not accepted in the same round.
RefutedPlanIsRejected ==
    [][pc = "decide" /\ pc' = "endLength" /\ (\E q \in ces : ~Passes(LenOf(plan), plan, q))
           => outputPlan' = outputPlan]_sysVars
=============================================================================
