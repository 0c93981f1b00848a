------------------------------ MODULE PlanStore ------------------------------
(***************************************************************************)
(* The persisted execution graph of one run: SqlPlanStore in               *)
(* runtime/plan_store.py over the tables of models/runtime_plan.py.        *)
(*                                                                         *)
(* One action per public method that writes.  Only the patch takes the     *)
(* plan's row lock first; the others lock the task rows they write, most   *)
(* the plan's row at the end, and the claim never locks it.  Each is still *)
(* a single step, because the run that the plan belongs to calls them one  *)
(* after the other.  A method that raises leaves the rows as they were (a  *)
(* patch has a savepoint) and is not a step at all.  Next lets the callers *)
(* use the methods in any order their own checks allow; GraphOrchestrator  *)
(* is the production caller.                                               *)
(*                                                                         *)
(* Texts, inputs, values, checkpoints and timestamps are left out.         *)
(***************************************************************************)
EXTENDS Integers, FiniteSets, TaskGraph

CONSTANTS
    Tasks,          \* task ids, totally ordered as the strings they are
    Keys,           \* names of needs and of task outputs
    OptionalKeys,   \* the keys whose needs and outputs are required=False
    SuccessActions, \* the on_success values planners use
    MaxAttempts,    \* max_attempts of record_failure
    User,           \* resolver_task_id "user"
    NoResolver      \* resolver_task_id NULL

ASSUME TasksAssumption == Tasks \subseteq Nat /\ IsFiniteSet(Tasks)
ASSUME KeysAssumption == OptionalKeys \subseteq Keys
ASSUME SuccessAssumption == SuccessActions \subseteq {"continue", "replan"}
ASSUME MaxAttemptsAssumption == MaxAttempts \in Nat \ {0}
ASSUME ResolverAssumption == User \notin Tasks /\ NoResolver \notin Tasks \cup {User}

VARIABLES
    planStatus,     \* RuntimePlan.status
    revision,       \* RuntimePlan.revision
    status,         \* RuntimePlanTask.status, "absent" when there is no row
    dependsOn,      \* RuntimeTaskDependency rows; they outlive their task
    plannedOrder,   \* RuntimePlanTask.planned_order
    expectedOutputs,\* RuntimePlanTask.expected_outputs, the keys
    onSuccess,      \* RuntimePlanTask.on_success
    attempts,       \* RuntimePlanTask.attempts
    attempt,        \* RuntimeTaskAttempt.status of attempt number `attempts'
    need,           \* RuntimeTaskNeed.status, "none" when there is no row
    resolver        \* RuntimeTaskNeed.resolver_task_id

rowVars == <<dependsOn, plannedOrder, expectedOutputs, onSuccess>>
storeVars == <<planStatus, revision, status, rowVars, attempts, attempt,
               need, resolver>>

PlanStatus == {"draft", "active", "waiting_input", "completed", "failed",
               "cancelled"}

TaskStatus == {"pending", "ready", "running", "waiting_dependency",
               "waiting_user", "waiting_retry", "completed",
               "unfulfillable", "failed", "cancelled"}

AttemptStatus == {"running", "succeeded", "failed", "timed_out", "cancelled"}

RequirementStatus == {"pending", "resolved", "waiting_user", "unresolvable"}

Decisions == {"revise_plan", "ask_user", "complete_plan", "fail_plan"}

TerminalTaskStatuses == {"completed", "unfulfillable", "failed", "cancelled"}

\* Statuses a patch may neither remove nor replace.
Protected == {"running", "completed"}

RequiredKeys == Keys \ OptionalKeys

Existing == {t \in Tasks : status[t] # "absent"}

TypeOK ==
    /\ planStatus \in PlanStatus
    /\ revision \in Nat
    /\ status \in [Tasks -> TaskStatus \cup {"absent"}]
    /\ dependsOn \in [Tasks -> SUBSET Tasks]
    /\ plannedOrder \in [Tasks -> Nat]
    /\ expectedOutputs \in [Tasks -> SUBSET Keys]
    /\ onSuccess \in [Tasks -> {"continue", "replan"}]
    /\ attempts \in [Tasks -> Nat]
    /\ attempt \in [Tasks -> AttemptStatus \cup {"none"}]
    /\ need \in [Tasks -> [Keys -> RequirementStatus \cup {"none"}]]
    /\ resolver \in [Tasks -> [Keys -> Tasks \cup {User, NoResolver}]]

(***************************************************************************)
(* create: an empty draft plan.                                            *)
(***************************************************************************)
Init ==
    /\ planStatus = "draft"
    /\ revision = 0
    /\ status = [t \in Tasks |-> "absent"]
    /\ dependsOn = [t \in Tasks |-> {}]
    /\ plannedOrder = [t \in Tasks |-> 0]
    /\ expectedOutputs = [t \in Tasks |-> {}]
    /\ onSuccess = [t \in Tasks |-> "continue"]
    /\ attempts = [t \in Tasks |-> 0]
    /\ attempt = [t \in Tasks |-> "none"]
    /\ need = [t \in Tasks |-> [k \in Keys |-> "none"]]
    /\ resolver = [t \in Tasks |-> [k \in Keys |-> NoResolver]]

(***************************************************************************)
(* Patches                                                                 *)
(***************************************************************************)

\* The positions of the tasks in patch.tasks.
Orders(ids) ==
    {r \in [ids -> 0 .. Cardinality(ids) - 1] :
        \A a, b \in ids : a # b => r[a] # r[b]}

\* A patch that changes the graph: the tasks it supplies with their new
\* definition, and the tasks it removes.  A PlanPatch never supplies and
\* removes the same task, and no supplied task depends on itself.
GraphPatchesFor(ids, NeedSets) ==
    {[decision |-> "revise_plan", ids |-> ids, remove |-> remove,
      deps |-> deps, order |-> order, outputs |-> outputs,
      success |-> success, needs |-> needs] :
        remove \in SUBSET (Tasks \ ids),
        deps \in {d \in [ids -> SUBSET Tasks] : \A t \in ids : t \notin d[t]},
        order \in Orders(ids),
        outputs \in [ids -> SUBSET Keys],
        success \in [ids -> SuccessActions],
        needs \in [ids -> NeedSets]}

GraphPatchesWith(NeedSets) ==
    UNION {GraphPatchesFor(ids, NeedSets) : ids \in SUBSET Tasks}

\* A decision about the plan as a whole leaves the graph alone.
DecisionPatches ==
    {[decision |-> d, ids |-> {}, remove |-> {},
      deps |-> [t \in {} |-> {}], order |-> [t \in {} |-> 0],
      outputs |-> [t \in {} |-> {}], success |-> [t \in {} |-> "continue"],
      needs |-> [t \in {} |-> {}]] :
        d \in Decisions \ {"revise_plan"}}

Patches == GraphPatchesWith(SUBSET Keys) \cup DecisionPatches

HasNeeds(t) == \E k \in Keys : need[t][k] # "none"

\* Faulty variant: the removed tasks are still counted.
CombinedIdsWithRemoved(p) == Existing \cup p.ids

\* The graph that would be persisted: what stays plus what is supplied.
CombinedIds(p) == (Existing \ p.remove) \cup p.ids

CombinedDeps(p) ==
    [t \in Tasks |-> IF t \in p.ids THEN p.deps[t] ELSE dependsOn[t]]

\* A supplied task without needs inherits the persisted ones as plain
\* dictionaries (model_copy does not validate), on which `need.key' raises
\* AttributeError: the patch is refused.
InheritsNeeds(p) == \E t \in p.ids : p.needs[t] = {} /\ HasNeeds(t)

\* Faulty variant: nothing keeps a patch from replacing a finished task.
PatchAcceptedOverHistory(p, expected_revision) ==
    /\ expected_revision = revision
    /\ \A t \in p.remove : status[t] \notin Protected
    /\ validate_task_graph(CombinedIds(p), CombinedDeps(p))
    /\ ~InheritsNeeds(p)

\* Faulty variant: only the supplied tasks are searched for cycles.
PatchAcceptedUnmerged(p, expected_revision) ==
    /\ expected_revision = revision
    /\ \A t \in p.remove : status[t] \notin Protected
    /\ Closed(CombinedIds(p), CombinedDeps(p)) /\ Acyclic(p.ids, p.deps)
    /\ \A t \in p.ids : status[t] \notin Protected
    /\ ~InheritsNeeds(p)

PatchAccepted(p, expected_revision) ==
    /\ expected_revision = revision
    /\ \A t \in p.remove : status[t] \notin Protected
    /\ validate_task_graph(CombinedIds(p), CombinedDeps(p))
    /\ \A t \in p.ids : status[t] \notin Protected
    /\ ~InheritsNeeds(p)

PlanStatusAfter(decision) ==
    CASE decision = "ask_user" -> "waiting_input"
      [] decision = "complete_plan" -> "completed"
      [] decision = "fail_plan" -> "failed"
      [] OTHER -> "active"

\* The need rows of task t once the patch has replaced or deleted them.
PatchedNeed(p, t, k) ==
    LET row == CASE t \in p.remove -> "none"
                 [] t \in p.ids /\ k \notin p.needs[t] -> "none"
                 [] t \in p.ids /\ k \in p.needs[t] /\ need[t][k] = "none"
                        -> "pending"
                 [] OTHER -> need[t][k]
    IN  IF p.decision = "ask_user" /\ row = "pending" THEN "waiting_user"
        ELSE row

\* Faulty variant: a need row that is written again takes over the status of
\* the prior one and not its source.
PatchedResolverLost(p, t, k) ==
    IF t \in p.remove \cup p.ids THEN NoResolver ELSE resolver[t][k]

PatchedResolver(p, t, k) ==
    IF t \in p.remove \/ (t \in p.ids /\ k \notin p.needs[t])
    THEN NoResolver ELSE resolver[t][k]

apply_patch(p, expected_revision) ==
    /\ revision' = revision + 1
    /\ PatchAccepted(p, expected_revision)
    /\ planStatus' = PlanStatusAfter(p.decision)
    /\ status' = [t \in Tasks |-> CASE t \in p.remove -> "absent"
                                    [] t \in p.ids -> "pending"
                                    [] OTHER -> status[t]]
    /\ dependsOn' = CombinedDeps(p)
    /\ plannedOrder' = [t \in Tasks |-> CASE t \in p.remove -> 0
                                          [] t \in p.ids -> p.order[t]
                                          [] OTHER -> plannedOrder[t]]
    /\ expectedOutputs' = [t \in Tasks |-> CASE t \in p.remove -> {}
                                             [] t \in p.ids -> p.outputs[t]
                                             [] OTHER -> expectedOutputs[t]]
    /\ onSuccess' = [t \in Tasks |-> CASE t \in p.remove -> "continue"
                                       [] t \in p.ids -> p.success[t]
                                       [] OTHER -> onSuccess[t]]
    /\ attempts' = [t \in Tasks |-> IF t \in p.remove THEN 0 ELSE attempts[t]]
    /\ attempt' = [t \in Tasks |-> IF t \in p.remove THEN "none"
                                   ELSE attempt[t]]
    /\ need' = [t \in Tasks |-> [k \in Keys |-> PatchedNeed(p, t, k)]]
    /\ resolver' = [t \in Tasks |-> [k \in Keys |-> PatchedResolver(p, t, k)]]

mark_failed ==
    /\ planStatus' = "failed"
    /\ UNCHANGED <<revision, status, rowVars, attempts, attempt, need, resolver>>

(***************************************************************************)
(* Task lifecycle                                                          *)
(***************************************************************************)

NeedsResolved(t) == \A k \in RequiredKeys : need[t][k] \in {"none", "resolved"}

\* Faulty variant: any terminal dependency will do.
task_is_ready_after_any_end(t) ==
    /\ status[t] \in {"pending", "ready"}
    /\ \A d \in dependsOn[t] : status[d] \in TerminalTaskStatuses
    /\ NeedsResolved(t)

task_is_ready(t) ==
    /\ status[t] \in {"pending", "ready"}
    /\ \A d \in dependsOn[t] : status[d] = "completed"
    /\ NeedsResolved(t)

\* sorted(candidates): by planned_order, then by task id.
ClaimedFirst(t) ==
    /\ task_is_ready(t)
    /\ \A u \in Tasks : task_is_ready(u) =>
          \/ plannedOrder[t] < plannedOrder[u]
          \/ plannedOrder[t] = plannedOrder[u] /\ t <= u

claim_ready(t) ==
    /\ ClaimedFirst(t)
    /\ status' = [status EXCEPT ![t] = "running"]
    /\ attempts' = [attempts EXCEPT ![t] = @ + 1]
    /\ attempt' = [attempt EXCEPT ![t] = "running"]
    /\ UNCHANGED <<planStatus, revision, rowVars, need, resolver>>

\* _refresh_status: the plan status that follows from the task statuses s.
refresh_status(s) ==
    LET live == {s[t] : t \in Tasks} \ {"absent"}
    IN  CASE /\ live # {}
             /\ live \subseteq TerminalTaskStatuses \ {"failed", "unfulfillable"}
               -> "completed"
          [] "waiting_user" \in live -> "waiting_input"
          [] live # {} /\ live \subseteq {"failed", "unfulfillable"} -> "failed"
          [] OTHER -> planStatus

missing_contract_outputs(t, outputs) ==
    (expectedOutputs[t] \cap RequiredKeys) \ outputs

CanComplete(t, outputs) ==
    NeedsResolved(t) /\ missing_contract_outputs(t, outputs) = {}

\* The pending needs a completed task resolves: those of its dependents
\* that ask for a key it produced.
Resolves(t, outputs, consumer, k) ==
    /\ consumer # t
    /\ status[consumer] # "absent"
    /\ need[consumer][k] = "pending"
    /\ k \in outputs
    /\ t \in dependsOn[consumer]

apply_completed(t, outputs) ==
    /\ CanComplete(t, outputs)
    /\ status' = [status EXCEPT ![t] = "completed"]
    /\ need' = [c \in Tasks |-> [k \in Keys |->
                  IF Resolves(t, outputs, c, k) THEN "resolved"
                  ELSE need[c][k]]]
    /\ resolver' = [c \in Tasks |-> [k \in Keys |->
                      IF Resolves(t, outputs, c, k) THEN t
                      ELSE resolver[c][k]]]

apply_needs_dependency(t, needs) ==
    /\ needs # {}
    /\ status' = [status EXCEPT ![t] = "waiting_dependency"]
    /\ need' = [need EXCEPT ![t] =
                  [k \in Keys |-> IF k \in needs THEN "pending" ELSE "none"]]
    /\ resolver' = [resolver EXCEPT ![t] = [k \in Keys |-> NoResolver]]

apply_unfulfillable(t) ==
    /\ status' = [status EXCEPT ![t] = "unfulfillable"]
    /\ UNCHANGED <<need, resolver>>

\* The attempt row is not closed: it stays "running" after a result.
apply_result(t, outcome, keys) ==
    /\ status[t] = "running"
    /\ \/ outcome = "completed" /\ apply_completed(t, keys)
       \/ outcome = "needs_dependency" /\ apply_needs_dependency(t, keys)
       \/ outcome = "unfulfillable" /\ apply_unfulfillable(t)
    /\ planStatus' = refresh_status(status')
    /\ UNCHANGED <<revision, rowVars, attempts, attempt>>

\* Faulty variant: gives up one attempt early.
record_failure_early(t, retryable, timedOut) ==
    /\ attempt' = [attempt EXCEPT ![t] = IF timedOut THEN "timed_out" ELSE "failed"]
    /\ status' = [status EXCEPT ![t] =
                    IF retryable /\ attempts[t] + 1 < MaxAttempts
                    THEN "waiting_retry" ELSE "failed"]
    /\ planStatus' = refresh_status(status')
    /\ UNCHANGED <<revision, rowVars, attempts, need, resolver>>

\* No status check in the code: the caller has claimed the task.
record_failure(t, retryable, timedOut) ==
    /\ attempt' = [attempt EXCEPT ![t] = IF timedOut THEN "timed_out" ELSE "failed"]
    /\ status' = [status EXCEPT ![t] =
                    IF retryable /\ attempts[t] < MaxAttempts
                    THEN "waiting_retry" ELSE "failed"]
    /\ planStatus' = refresh_status(status')
    /\ UNCHANGED <<revision, rowVars, attempts, need, resolver>>

(***************************************************************************)
(* Pause and resume                                                        *)
(***************************************************************************)

\* Faulty variant: the attempt row is left open.
pause_with_open_attempt(t) ==
    /\ status' = [status EXCEPT ![t] = "waiting_user"]
    /\ planStatus' = "waiting_input"
    /\ UNCHANGED <<revision, rowVars, attempts, attempt, need, resolver>>

\* No status check in the code: the caller has claimed the task.
pause_task_for_confirmation(t) ==
    /\ status' = [status EXCEPT ![t] = "waiting_user"]
    /\ attempt' = [attempt EXCEPT ![t] = "cancelled"]
    /\ planStatus' = "waiting_input"
    /\ UNCHANGED <<revision, rowVars, attempts, need, resolver>>

Waiting == {t \in Tasks :
              status[t] \in {"waiting_user", "waiting_dependency", "waiting_retry"}}

\* Faulty variant: only the plan is reactivated.
resume_plan_only ==
    /\ planStatus' = IF Waiting # {} THEN "active" ELSE planStatus
    /\ UNCHANGED <<revision, status, rowVars, attempts, attempt, need, resolver>>

resume_waiting_tasks ==
    /\ status' = [t \in Tasks |-> IF t \in Waiting THEN "pending" ELSE status[t]]
    /\ planStatus' = IF Waiting # {} THEN "active" ELSE planStatus
    /\ UNCHANGED <<revision, rowVars, attempts, attempt, need, resolver>>

UserNeeds == {w \in Tasks \X Keys :
                status[w[1]] # "absent" /\ need[w[1]][w[2]] = "waiting_user"}

\* Needs have random row ids, so any waiting need may be the first one.
resolve_waiting_need(t, k) ==
    /\ <<t, k>> \in UserNeeds
    /\ need' = [need EXCEPT ![t][k] = "resolved"]
    /\ resolver' = [resolver EXCEPT ![t][k] = User]
    /\ status' = [status EXCEPT ![t] =
                    IF @ \in {"waiting_dependency", "waiting_user"}
                    THEN "pending" ELSE @]
    /\ planStatus' = "active"
    /\ UNCHANGED <<revision, rowVars, attempts, attempt>>

resume_planner_pause ==
    /\ planStatus = "waiting_input"
    /\ planStatus' = "active"
    /\ UNCHANGED <<revision, status, rowVars, attempts, attempt, need, resolver>>

(***************************************************************************)
(* The callers: a failure or a confirmation is reported for a task that    *)
(* was claimed (runtime/orchestrator.py), and a resume only reaches a plan *)
(* that waits for input (runtime/stages/graph_planning_stage.py).          *)
(***************************************************************************)
Patching == \E p \in Patches : apply_patch(p, revision)

Working ==
    \E t \in Tasks :
        \/ claim_ready(t)
        \/ \E outcome \in {"completed", "needs_dependency", "unfulfillable"},
              keys \in SUBSET Keys : apply_result(t, outcome, keys)
        \/ /\ status[t] = "running"
           /\ \/ \E retryable, timedOut \in BOOLEAN :
                    record_failure(t, retryable, timedOut)
              \/ pause_task_for_confirmation(t)

Resuming ==
    /\ planStatus = "waiting_input"
    /\ \/ resume_waiting_tasks
       \/ \E t \in Tasks, k \in Keys : resolve_waiting_need(t, k)
       \/ resume_planner_pause

Next == mark_failed \/ Working \/ Resuming \/ Patching

Spec == Init /\ [][Next]_storeVars

(***************************************************************************)
(* Properties                                                              *)
(***************************************************************************)

\* Whatever patches, removals and redefinitions were applied, the tasks in
\* the store form a closed acyclic graph: no task waits for one that was
\* removed, and no set of tasks waits for itself (apply_patch validates the
\* combined graph, not the patch).
GraphStaysValid == validate_task_graph(Existing, dependsOn)

\* A task that runs or has completed does so on inputs that are there: all
\* its dependencies have completed and its required needs are resolved.
\* claim_ready establishes this; no later patch, result or resume of any
\* other task takes it away.
StartedOnInputs ==
    \A t \in Tasks : status[t] \in Protected =>
        /\ \A d \in dependsOn[t] : status[d] = "completed"
        /\ NeedsResolved(t)

\* A need is resolved exactly when a source is recorded for it, and a task
\* recorded as its source has completed and stays so.
ResolvedNeedsHaveSource ==
    \A t \in Tasks, k \in Keys :
        /\ need[t][k] = "resolved" <=> resolver[t][k] # NoResolver
        /\ resolver[t][k] \in Tasks => status[resolver[t][k]] = "completed"

\* A running task has an open attempt row; a task that has failed or waits for
\* a retry has one that was closed as such, a task paused for the user one that
\* was cancelled, and a task never claimed none: what record_failure counts are
\* executions.  Nothing is said of a completed, unfulfillable or
\* waiting_dependency task: apply_result never closes the row, which stays
\* "running" (AttemptStatus.SUCCEEDED is written nowhere).
AttemptFollowsTask ==
    \A t \in Tasks :
        /\ status[t] = "running" => attempt[t] = "running"
        /\ status[t] \in {"failed", "waiting_retry"} => attempt[t] \in {"failed", "timed_out"}
        /\ status[t] = "waiting_user" => attempt[t] = "cancelled"
        /\ attempts[t] = 0 <=> attempt[t] = "none"

\* Tasks that wait to be claimed.
Open == {t \in Tasks : status[t] \in {"pending", "ready"}}

\* Open tasks never wait only for one another or for nobody: one of them can
\* be claimed, or lacks a required need, or depends on a task of the plan that
\* runs, waits for someone else or has ended without completing (claim_ready
\* finds nothing only while there is somebody to wait for or to replan).
NoMutualWait ==
    Open # {} =>
        \E t \in Open :
            \/ task_is_ready(t)
            \/ ~NeedsResolved(t)
            \/ \E d \in dependsOn[t] : status[d] \in TaskStatus \ {"pending", "ready", "completed"}

\* A step that keeps the record of every completed task, and takes up or
\* removes a task that ended otherwise only with a new revision of the plan.
HistoryKept ==
    \A t \in Tasks :
        /\ status[t] = "completed" =>
               /\ status'[t] = "completed"
               /\ dependsOn'[t] = dependsOn[t]
               /\ expectedOutputs'[t] = expectedOutputs[t]
               /\ attempts'[t] = attempts[t]
        /\ status[t] \in TerminalTaskStatuses /\ status'[t] # status[t] => revision' = revision + 1

\* The record of a completed task is history: no step removes it, reopens
\* it, counts another attempt or changes what it depended on or promised.  A
\* task that has failed or cannot be fulfilled is taken up again by no result,
\* answer or resume, only by a patch.
CompletedIsHistory == [][HistoryKept]_storeVars
==============================================================================
