-------------------------- MODULE GraphOrchestrator --------------------------
(***************************************************************************)
(* One run of a plan: GraphOrchestrator.run (runtime/orchestrator.py) with *)
(* the stage that enters and leaves it, GraphPlanningStage                 *)
(* (runtime/stages/graph_planning_stage.py), and the budget counters it    *)
(* consumes.  The planner and the executor are LLM calls: any answer their *)
(* contracts let through may come back.                                    *)
(*                                                                         *)
(* The store's methods are the actions of PlanStore; this module says when *)
(* they are called.  A pause ends the generator; the user's answer starts  *)
(* a new one on the same plan, and the budget counters carry on.           *)
(***************************************************************************)
EXTENDS PlanStore

CONSTANTS
    PlanRevisionLimit, \* limit of plan_revisions, and max_steps of the loop
    NoTask             \* no task is claimed

ASSUME PlanRevisionAssumption == PlanRevisionLimit \in Nat \ {0}
ASSUME NoTaskAssumption == NoTask \notin Tasks

\* record_failure's max_attempts and the run's task_attempts budget are the
\* same number: GraphPlanningStage copies the limit into the orchestrator.
TaskAttemptLimit == MaxAttempts

MaxSteps == PlanRevisionLimit

VARIABLES
    pc,             \* where the run is
    force,          \* force_replan of this entry
    reason,         \* reason of the planner call under way
    task,           \* the claimed task
    pendingNeeds,   \* pending_needs of the replan under way
    steps,          \* iterations of the for loop begun
    usedRevisions,  \* RuntimeBudgetCounter plan_revisions
    usedAttempts,   \* RuntimeBudgetCounter task_attempts
    outcome         \* how the stage ended

budgetVars == <<usedRevisions, usedAttempts>>
runVars == <<pc, force, reason, task, pendingNeeds, steps, budgetVars, outcome>>
vars == <<storeVars, runVars>>

Reasons == {"none", "initial", "user_input", "pending_need", "task_completed",
            "technical_failure", "needs_dependency", "unfulfillable"}

\* needs_final ... failed are GraphPlanningOutcomes; raised is an exception
\* that leaves the stage; cancelled is the user's answer to a pause.
Outcomes == {"none", "needs_final", "waiting_input", "waiting_confirmation",
             "failed", "raised", "cancelled"}

OrchTypeOK ==
    /\ TypeOK
    /\ pc \in {"enter", "planning", "resolvers", "loop", "executing", "ended"}
    /\ force \in BOOLEAN
    /\ reason \in Reasons
    /\ task \in Tasks \cup {NoTask}
    /\ pendingNeeds \subseteq Tasks \X Keys
    /\ steps \in 0 .. MaxSteps
    /\ usedRevisions \in 0 .. PlanRevisionLimit
    /\ usedAttempts \in 0 .. TaskAttemptLimit
    /\ outcome \in Outcomes

OrchInit ==
    /\ Init
    /\ pc = "enter"
    /\ force = FALSE
    /\ reason = "none"
    /\ task = NoTask
    /\ pendingNeeds = {}
    /\ steps = 0
    /\ usedRevisions = 0
    /\ usedAttempts = 0
    /\ outcome = "none"

(***************************************************************************)
(* Ends                                                                    *)
(***************************************************************************)

\* The stage reads the plan's status once the generator is done.
StageOutcome(planned, confirmation) ==
    CASE planned = "completed" -> "needs_final"
      [] planned = "waiting_input" ->
            IF confirmation THEN "waiting_confirmation" ELSE "waiting_input"
      [] OTHER -> "failed"

\* The generator returns.
End(planned, confirmation) ==
    /\ pc' = "ended"
    /\ outcome' = StageOutcome(planned, confirmation)
    /\ task' = NoTask
    /\ reason' = "none"
    /\ pendingNeeds' = {}
    /\ UNCHANGED <<force, steps>>

\* An exception the generator does not catch.
Raise ==
    /\ pc' = "ended"
    /\ outcome' = "raised"
    /\ UNCHANGED <<force, reason, task, pendingNeeds, steps>>

(***************************************************************************)
(* Planning                                                                *)
(***************************************************************************)

\* revise, or the initial planner call.
Plan(why, needs) ==
    /\ pc' = "planning"
    /\ reason' = why
    /\ pendingNeeds' = needs
    /\ task' = NoTask
    /\ UNCHANGED <<force, steps, budgetVars, outcome>>

\* snapshot()["tasks"] has an entry for every task row and for every
\* dependency row, those of removed tasks included.
SnapshotIsEmpty == \A t \in Tasks : status[t] = "absent" /\ dependsOn[t] = {}

Enter ==
    /\ pc = "enter"
    /\ \/ force /\ Plan("user_input", {})
       \/ ~force /\ SnapshotIsEmpty /\ Plan("initial", {})
       \/ /\ ~force /\ ~SnapshotIsEmpty
          /\ pc' = "loop"
          /\ UNCHANGED <<force, reason, task, pendingNeeds, steps, budgetVars,
                         outcome>>
    /\ UNCHANGED storeVars

\* Planners never declare needs.
PlannerPatches == GraphPatchesWith({{}}) \cup DecisionPatches

\* Every exception of the planner call, the budget check or apply_patch
\* fails the plan and ends the run.
PlanFails ==
    /\ mark_failed
    /\ End("failed", FALSE)

\* Faulty variant: a refused patch leaves the plan as it was.
PlannerAnswersIgnored(p) ==
    /\ pc = "planning"
    /\ usedRevisions < PlanRevisionLimit
    /\ usedRevisions' = usedRevisions + 1
    /\ apply_patch(p, revision) \/ (~PatchAccepted(p, revision) /\ UNCHANGED storeVars)
    /\ pc' = "loop"
    /\ reason' = "none"
    /\ UNCHANGED <<usedAttempts, force, task, pendingNeeds, steps, outcome>>

PlannerAnswers(p) ==
    /\ pc = "planning"
    /\ usedRevisions < PlanRevisionLimit
    /\ usedRevisions' = usedRevisions + 1
    /\ UNCHANGED usedAttempts
    /\ \/ /\ apply_patch(p, revision)
          /\ pc' = IF reason = "pending_need" THEN "resolvers" ELSE "loop"
          /\ reason' = "none"
          /\ UNCHANGED <<force, task, pendingNeeds, steps, outcome>>
       \/ /\ ~PatchAccepted(p, revision)
          /\ PlanFails

\* The planner call raises, or its answer is over the revision budget.
PlannerRaises ==
    /\ pc = "planning"
    /\ PlanFails
    /\ UNCHANGED budgetVars

has_declared_resolvers(needs) ==
    \A n \in needs :
        \E producer \in dependsOn[n[1]] : n[2] \in expectedOutputs[producer]

CheckResolvers ==
    /\ pc = "resolvers"
    /\ UNCHANGED budgetVars
    /\ \/ /\ planStatus = "active" /\ ~has_declared_resolvers(pendingNeeds)
          /\ PlanFails
       \/ /\ planStatus # "active" \/ has_declared_resolvers(pendingNeeds)
          /\ pc' = "loop"
          /\ pendingNeeds' = {}
          /\ UNCHANGED <<storeVars, force, reason, task, steps, outcome>>

(***************************************************************************)
(* The loop                                                                *)
(***************************************************************************)

StepsExhausted ==
    /\ pc = "loop" /\ steps = MaxSteps
    /\ End(planStatus, FALSE)
    /\ UNCHANGED <<storeVars, budgetVars>>

Looping == pc = "loop" /\ steps < MaxSteps

\* The statuses the loop leaves on.
PlanIsTerminal ==
    planStatus \in {"completed", "waiting_input", "failed", "cancelled"}

PlanTerminal ==
    /\ Looping /\ PlanIsTerminal
    /\ End(planStatus, FALSE)
    /\ UNCHANGED <<storeVars, budgetVars>>

\* claim_ready, then the attempt budget: a refused attempt raises and
\* leaves the claim.
Claim(t) ==
    /\ Looping /\ ~PlanIsTerminal
    /\ claim_ready(t)
    /\ steps' = steps + 1
    /\ task' = t
    /\ \/ /\ usedAttempts < TaskAttemptLimit
          /\ usedAttempts' = usedAttempts + 1
          /\ pc' = "executing"
          /\ UNCHANGED <<usedRevisions, outcome>>
       \/ /\ usedAttempts = TaskAttemptLimit
          /\ pc' = "ended"
          /\ outcome' = "raised"
          /\ UNCHANGED budgetVars
    /\ UNCHANGED <<force, reason, pendingNeeds>>

NothingReady == Looping /\ ~PlanIsTerminal /\ \A t \in Tasks : ~task_is_ready(t)

\* Required needs that are not resolved, of tasks in any status.
UnresolvedNeeds ==
    {n \in Tasks \X RequiredKeys : need[n[1]][n[2]] \notin {"none", "resolved"}}

ReplanForNeeds ==
    /\ NothingReady /\ UnresolvedNeeds # {}
    /\ pc' = "planning"
    /\ reason' = "pending_need"
    /\ pendingNeeds' = UnresolvedNeeds
    /\ steps' = steps + 1
    /\ UNCHANGED <<storeVars, force, task, budgetVars, outcome>>

\* Faulty variant: waits for a task to become ready.
StalledWaits ==
    /\ NothingReady /\ UnresolvedNeeds = {}
    /\ UNCHANGED vars

Stalled ==
    /\ NothingReady /\ UnresolvedNeeds = {}
    /\ End(planStatus, FALSE)
    /\ UNCHANGED <<storeVars, budgetVars>>

(***************************************************************************)
(* Task execution                                                          *)
(***************************************************************************)

NextIteration ==
    /\ pc' = "loop"
    /\ task' = NoTask
    /\ UNCHANGED <<force, reason, pendingNeeds, steps, budgetVars,
                   outcome>>

TaskCompletes(outputs) ==
    /\ pc = "executing"
    /\ apply_result(task, "completed", outputs)
    /\ \/ onSuccess[task] = "replan" /\ Plan("task_completed", {})
       \/ onSuccess[task] = "continue" /\ NextIteration

\* apply_result raises outside the try block: the claim stays.
ResultRefused(outputs) ==
    /\ pc = "executing"
    /\ ~CanComplete(task, outputs)
    /\ Raise
    /\ UNCHANGED <<storeVars, budgetVars>>

TaskNeeds(keys) ==
    /\ pc = "executing"
    /\ apply_result(task, "needs_dependency", keys)
    /\ Plan("needs_dependency", {})

TaskUnfulfillable ==
    /\ pc = "executing"
    /\ apply_result(task, "unfulfillable", {})
    /\ Plan("unfulfillable", {})

\* The executor raises only retryable technical failures, and nothing marks
\* them as timed out.
TaskFails ==
    /\ pc = "executing"
    /\ record_failure(task, TRUE, FALSE)
    /\ \/ attempts[task] >= MaxAttempts /\ Plan("technical_failure", {})
       \/ attempts[task] < MaxAttempts /\ NextIteration

\* Faulty variant: the pause is reported but not stored for the task.
TaskAsksWithoutPause ==
    /\ pc = "executing"
    /\ planStatus' = "waiting_input"
    /\ UNCHANGED <<revision, status, rowVars, attempts, attempt, need, resolver>>
    /\ End("waiting_input", TRUE)
    /\ UNCHANGED budgetVars

TaskAsksConfirmation ==
    /\ pc = "executing"
    /\ pause_task_for_confirmation(task)
    /\ End("waiting_input", TRUE)
    /\ UNCHANGED budgetVars

(***************************************************************************)
(* The user                                                                *)
(***************************************************************************)

\* A new entry of the stage on the same plan.
Restart(replan) ==
    /\ pc' = "enter"
    /\ force' = replan
    /\ steps' = 0
    /\ outcome' = "none"
    /\ UNCHANGED <<reason, task, pendingNeeds, budgetVars>>

Confirm ==
    /\ pc = "ended" /\ outcome = "waiting_confirmation"
    /\ resume_waiting_tasks
    /\ Restart(FALSE)

\* resolve_waiting_need, then resume_planner_pause, which refuses a plan
\* the first call has already made active.
Answer ==
    /\ pc = "ended" /\ outcome = "waiting_input"
    /\ \/ UserNeeds = {} /\ resume_planner_pause /\ Restart(TRUE)
       \/ /\ \E t \in Tasks, k \in Keys : resolve_waiting_need(t, k)
          /\ Raise
          /\ UNCHANGED budgetVars

\* Faulty variant: writes the plan outside the store.
CancelWritesPlan ==
    /\ pc = "ended" /\ outcome \in {"waiting_input", "waiting_confirmation"}
    /\ outcome' = "cancelled"
    /\ planStatus' = "cancelled"
    /\ UNCHANGED <<revision, status, rowVars, attempts, attempt, need, resolver,
                   pc, force, reason, task, pendingNeeds, steps, budgetVars>>

Cancel ==
    /\ pc = "ended" /\ outcome \in {"waiting_input", "waiting_confirmation"}
    /\ outcome' = "cancelled"
    /\ UNCHANGED <<storeVars, pc, force, reason, task, pendingNeeds, steps,
                   budgetVars>>

(***************************************************************************)
(* Specification                                                           *)
(***************************************************************************)
Planning ==
    \/ \E p \in PlannerPatches : PlannerAnswers(p)
    \/ PlannerRaises
    \/ CheckResolvers

Loop ==
    \/ StepsExhausted
    \/ PlanTerminal
    \/ \E t \in Tasks : Claim(t)
    \/ ReplanForNeeds
    \/ Stalled

Executing ==
    \/ \E keys \in SUBSET Keys :
          TaskCompletes(keys) \/ ResultRefused(keys) \/ TaskNeeds(keys)
    \/ TaskUnfulfillable
    \/ TaskFails
    \/ TaskAsksConfirmation

Run == Enter \/ Planning \/ Loop \/ Executing

UserActs == Confirm \/ Answer \/ Cancel

OrchNext == Run \/ UserActs

OrchSafety == OrchInit /\ [][OrchNext]_vars

\* A run that is under way takes its next step: the planner and the
\* executor have timeouts of their own.  Nobody makes the user answer.
OrchSpec == OrchSafety /\ WF_vars(Run)

(***************************************************************************)
(* Properties                                                              *)
(***************************************************************************)

\* At most one task runs, it is the one the run has claimed, and no end of
\* a run other than an exception leaves it running: after a pause, a
\* failure or a completed plan nothing is half executed (orchestrator.run
\* claims one task per iteration and reports its result before the next).
RunningOnlyWhileExecuting ==
    \A t \in Tasks : status[t] = "running" =>
        task = t /\ (pc = "executing" \/ outcome = "raised")

\* record_failure gives a task up only at the attempt that also uses up the
\* attempt budget of the whole run, because the stage takes max_attempts
\* from that budget: once a task is "failed" no task of this plan can be
\* started again, whatever the planner makes of the technical failure.
FailureExhaustsRun ==
    \A t \in Tasks : status[t] = "failed" => usedAttempts = TaskAttemptLimit

\* The pause the user sees is the one the plan is in: a confirmation pause
\* has a task that waits for it, so that Confirm reactivates the plan; a
\* question has none, so that answering it skips no confirmation.
PauseKindMatchesPlan ==
    /\ outcome \in {"waiting_confirmation", "waiting_input"} =>
          planStatus = "waiting_input"
    /\ outcome = "waiting_confirmation" => \E t \in Tasks : status[t] = "waiting_user"
    /\ outcome = "waiting_input" => \A t \in Tasks : status[t] # "waiting_user"

\* Every revision of the plan was paid for once, over all resumes, and one
\* that was paid for but not applied has failed the plan: the budget is
\* consumed before apply_patch, outside its savepoint.
RevisionsPaidOnce ==
    /\ revision <= usedRevisions
    /\ usedRevisions <= revision + 1
    /\ usedRevisions = revision + 1 => planStatus = "failed"

\* A run ends: however the planner and the executor answer, and after every
\* resume, the loop guard, the budgets and the resolver check stop it.
EveryRunEnds == pc = "enter" ~> pc = "ended"

\* How much of a run is left at most: the iterations of the loop, and the
\* places of the one under way.
Work ==
    4 * (MaxSteps - steps)
        + CASE pc = "enter"     -> 5
            [] pc = "executing" -> 4
            [] pc = "planning"  -> 3
            [] pc = "resolvers" -> 2
            [] pc = "loop"      -> 1
            [] OTHER            -> 0

\* No step of a run goes round in a circle: each one uses up some of the
\* bounded work, whatever the planner and the executor answer (the for loop of
\* orchestrator.run counts replans and claims alike).
RunAdvances == [][Run => Work' < Work]_vars

\* A run that stalls with open tasks does so because one of them depends on a
\* task that has ended without completing or waits for a retry or for a
\* dependency: open tasks alone never stop a run, and nothing still runs.
StallHasCause ==
    [][Stalled /\ Open # {} =>
           \E t \in Open : \E d \in dependsOn[t] :
               status[d] \in {"failed", "unfulfillable", "cancelled",
                              "waiting_retry", "waiting_dependency"}]_vars
==============================================================================
