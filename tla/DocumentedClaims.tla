--------------------------- MODULE DocumentedClaims ---------------------------
(***************************************************************************)
(* What a comment of the repository says of a run, where the code does     *)
(* something else.  The claim is checked against GraphOrchestrator by a    *)
(* run that is expected to find it violated.                               *)
(***************************************************************************)
EXTENDS GraphOrchestrator

\* plan_store.py, resolve_waiting_need: "Resolve the oldest user-routed need
\* and reactivate its task."  So an answered question continues the run.
\* The code: the stage calls resume_planner_pause next, which refuses the
\* plan that resolve_waiting_need has just made active.
AnswerContinuesRun ==
    [][outcome = "waiting_input" /\ outcome' # outcome => outcome' # "raised"]_vars
===============================================================================
