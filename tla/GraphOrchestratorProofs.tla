----------------------- MODULE GraphOrchestratorProofs -----------------------
(***************************************************************************)
(* A run uses the plan store as PlanStore allows, so it has PlanStore's    *)
(* properties, and it keeps its own: for every set of tasks, every limit   *)
(* and every answer of the planner, the executor and the user.             *)
(***************************************************************************)
EXTENDS GraphOrchestrator, PlanStoreProofs

USE DEF PlanStatus, TaskStatus, AttemptStatus, RequirementStatus

RunTypeOK ==
    /\ pc \in {"enter", "planning", "resolvers", "loop", "executing", "ended"}
    /\ force \in BOOLEAN
    /\ reason \in Reasons
    /\ task \in Tasks \cup {NoTask}
    /\ pendingNeeds \subseteq Tasks \X Keys
    /\ steps \in 0 .. MaxSteps
    /\ usedRevisions \in 0 .. PlanRevisionLimit
    /\ usedAttempts \in 0 .. TaskAttemptLimit
    /\ outcome \in Outcomes

\* A run that executes holds a running task; only an ended run has an
\* outcome.
PhaseInv ==
    /\ pc = "executing" => task \in Tasks /\ status[task] = "running"
    /\ pc = "ended" <=> outcome # "none"

\* Every attempt of a task was paid for, except one that was refused.
AttemptsPaid ==
    outcome # "raised" => \A t \in Tasks : attempts[t] <= usedAttempts

\* A revision that was paid for and not applied has ended the run.
RevisionsInv ==
    /\ revision <= usedRevisions
    /\ usedRevisions <= revision + 1
    /\ usedRevisions = revision + 1 => planStatus = "failed" /\ outcome = "failed"

\* Tasks wait for the user only while a confirmation is open, or for good
\* after it was cancelled.
WaitingInv ==
    \A t \in Tasks : status[t] = "waiting_user" =>
        outcome \in {"waiting_confirmation", "cancelled"}

RunInv ==
    /\ RunTypeOK
    /\ PhaseInv
    /\ RunningOnlyWhileExecuting
    /\ AttemptsPaid
    /\ FailureExhaustsRun
    /\ RevisionsInv
    /\ WaitingInv
    /\ PauseKindMatchesPlan

OrchInv == StoreInv /\ RunInv

-----------------------------------------------------------------------------

\* The patches of a planner, which declares no needs, are patches of the store.
LEMMA PlannerPatchesArePatches == PlannerPatches \subseteq Patches
<1>1. ASSUME NEW p \in GraphPatchesWith({{}})
      PROVE  p \in GraphPatchesWith(SUBSET Keys)
    <2>1. PICK ids \in SUBSET Tasks : p \in GraphPatchesFor(ids, {{}})
        BY <1>1 DEF GraphPatchesWith
    <2>2. [ids -> {{}}] \subseteq [ids -> SUBSET Keys]
        OBVIOUS
    <2>3. p \in GraphPatchesFor(ids, SUBSET Keys)
        BY <2>1, <2>2 DEF GraphPatchesFor
    <2> QED BY <2>3 DEF GraphPatchesWith
<1> QED BY <1>1 DEF PlannerPatches, Patches

\* Every step of a run is a step of the store or leaves it alone.
LEMMA RunUsesStore ==
    ASSUME OrchInv, OrchNext
    PROVE  Next \/ UNCHANGED storeVars
<1> USE DEF OrchInv, RunInv
<1>1. CASE Enter
    BY <1>1 DEF Enter
<1>2. CASE Planning
    <2>1. CASE \E p \in PlannerPatches : PlannerAnswers(p)
        BY <2>1, PlannerPatchesArePatches DEF PlannerAnswers, PlanFails, Next, Patching
    <2>2. CASE PlannerRaises
        BY <2>2 DEF PlannerRaises, PlanFails, Next
    <2>3. CASE CheckResolvers
        BY <2>3 DEF CheckResolvers, PlanFails, Next
    <2> QED BY <1>2, <2>1, <2>2, <2>3 DEF Planning
<1>3. CASE Loop
    <2>1. CASE \E t \in Tasks : Claim(t)
        BY <2>1 DEF Claim, Next, Working
    <2> QED BY <1>3, <2>1 DEF Loop, StepsExhausted, PlanTerminal, ReplanForNeeds, Stalled
<1>4. CASE Executing
    <2>1. pc = "executing" => task \in Tasks /\ status[task] = "running"
        BY DEF PhaseInv
    <2>2. CASE \E keys \in SUBSET Keys :
                  TaskCompletes(keys) \/ ResultRefused(keys) \/ TaskNeeds(keys)
        BY <2>1, <2>2 DEF TaskCompletes, ResultRefused, TaskNeeds, Next, Working
    <2>3. CASE TaskUnfulfillable
        BY <2>1, <2>3 DEF TaskUnfulfillable, Next, Working
    <2>4. CASE TaskFails
        BY <2>1, <2>4 DEF TaskFails, Next, Working
    <2>5. CASE TaskAsksConfirmation
        BY <2>1, <2>5 DEF TaskAsksConfirmation, Next, Working
    <2> QED BY <1>4, <2>2, <2>3, <2>4, <2>5 DEF Executing
<1>5. CASE UserActs
    <2>1. CASE Confirm
        BY <2>1 DEF Confirm, PauseKindMatchesPlan, Next, Resuming
    <2>2. CASE Answer
        BY <2>2 DEF Answer, PauseKindMatchesPlan, Next, Resuming
    <2>3. CASE Cancel
        BY <2>3 DEF Cancel
    <2> QED BY <1>5, <2>1, <2>2, <2>3 DEF UserActs
<1> QED BY <1>1, <1>2, <1>3, <1>4, <1>5 DEF OrchNext, Run

-----------------------------------------------------------------------------
(***************************************************************************)
(* RunInv is kept, action by action.                                       *)
(***************************************************************************)

\* Steps that write nothing to the store but perhaps the plan's status.
TaskColumns == <<revision, status, attempts>>

\* A return of the generator that leaves the task rows alone (End) keeps RunInv.
LEMMA EndKeepsRunInv ==
    ASSUME OrchInv, pc \in {"planning", "resolvers", "loop"},
           UNCHANGED <<TaskColumns, budgetVars>>,
           End(planStatus', FALSE)
    PROVE  RunInv'
<1> USE DEF OrchInv, RunInv, TaskColumns, budgetVars, End
<1>1. outcome = "none" /\ outcome' \in {"needs_final", "waiting_input", "failed"}
    BY DEF PhaseInv, StageOutcome
<1>2. RunTypeOK'
    BY <1>1 DEF RunTypeOK, Reasons, Outcomes
<1>3. PhaseInv'
    BY <1>1 DEF PhaseInv
<1>4. RunningOnlyWhileExecuting'
    BY <1>1 DEF RunningOnlyWhileExecuting
<1>5. AttemptsPaid' /\ FailureExhaustsRun'
    BY <1>1 DEF AttemptsPaid, FailureExhaustsRun
<1>6. RevisionsInv'
    BY <1>1 DEF RevisionsInv
<1>7. WaitingInv' /\ PauseKindMatchesPlan'
    BY <1>1 DEF WaitingInv, PauseKindMatchesPlan, StageOutcome
<1> QED BY <1>2, <1>3, <1>4, <1>5, <1>6, <1>7

\* Steps inside a run that leave the store alone.
LEMMA MoveKeepsRunInv ==
    ASSUME OrchInv, pc \in {"enter", "resolvers", "loop"},
           UNCHANGED <<storeVars, budgetVars, outcome, task>>,
           RunTypeOK', pc' \in {"planning", "loop"}
    PROVE  RunInv'
<1> USE DEF OrchInv, RunInv, storeVars, rowVars, budgetVars
<1>1. outcome = "none"
    BY DEF PhaseInv
<1>2. PhaseInv' /\ RunningOnlyWhileExecuting'
    BY <1>1 DEF PhaseInv, RunningOnlyWhileExecuting
<1>3. AttemptsPaid' /\ FailureExhaustsRun' /\ RevisionsInv'
    BY <1>1 DEF AttemptsPaid, FailureExhaustsRun, RevisionsInv
<1>4. WaitingInv' /\ PauseKindMatchesPlan'
    BY <1>1 DEF WaitingInv, PauseKindMatchesPlan
<1> QED BY <1>2, <1>3, <1>4

\* The entry of the stage, with its choice of planning or looping, keeps RunInv.
LEMMA EnterKeepsRunInv ==
    ASSUME OrchInv, Enter
    PROVE  RunInv'
<1>1. RunTypeOK'
    BY DEF OrchInv, RunInv, Enter, Plan, RunTypeOK, Reasons, budgetVars
<1>2. UNCHANGED <<storeVars, budgetVars, outcome>> /\ pc' \in {"planning", "loop"}
    BY DEF Enter, Plan
<1>3. CASE UNCHANGED task
    BY <1>1, <1>2, <1>3, MoveKeepsRunInv DEF Enter
<1>4. CASE task' = NoTask
    <2> USE DEF OrchInv, RunInv, storeVars, rowVars, budgetVars
    <2>1. outcome = "none" /\ pc = "enter"
        BY DEF PhaseInv, Enter
    <2>2. PhaseInv' /\ RunningOnlyWhileExecuting'
        BY <1>2, <2>1 DEF PhaseInv, RunningOnlyWhileExecuting
    <2>3. AttemptsPaid' /\ FailureExhaustsRun' /\ RevisionsInv'
        BY <1>2, <2>1 DEF AttemptsPaid, FailureExhaustsRun, RevisionsInv
    <2>4. WaitingInv' /\ PauseKindMatchesPlan'
        BY <1>2, <2>1 DEF WaitingInv, PauseKindMatchesPlan
    <2> QED BY <1>1, <2>2, <2>3, <2>4
<1> QED BY <1>3, <1>4 DEF Enter, Plan

\* A planner's answer that apply_patch accepts.
LEMMA AcceptedKeepsRunInv ==
    ASSUME OrchInv, NEW p \in PlannerPatches, pc = "planning",
           usedRevisions < PlanRevisionLimit, usedRevisions' = usedRevisions + 1,
           UNCHANGED usedAttempts, apply_patch(p, revision),
           pc' \in {"resolvers", "loop"}, reason' = "none",
           UNCHANGED <<force, task, pendingNeeds, steps, outcome>>
    PROVE  RunInv'
<1> USE DEF OrchInv, RunInv
<1>1. PatchOK(p)
    BY PlannerPatchesArePatches, PatchesOK
<1>2. outcome = "none" /\ TypeOK
    BY DEF PhaseInv, StoreInv
<1>3. \A t \in Tasks : status'[t] \in {"absent", "pending", status[t]}
    BY <1>1, <1>2, PatchedTask
<1>4. \A t \in Tasks : attempts'[t] \in {0, attempts[t]}
    BY DEF apply_patch
<1>5. RunTypeOK'
    BY PlanRevisionAssumption DEF RunTypeOK, Reasons
<1>6. PhaseInv' /\ RunningOnlyWhileExecuting'
    BY <1>2, <1>3 DEF PhaseInv, RunningOnlyWhileExecuting
<1>7. AttemptsPaid' /\ FailureExhaustsRun'
    BY <1>2, <1>3, <1>4 DEF AttemptsPaid, FailureExhaustsRun, RunTypeOK
<1>8. RevisionsInv'
    BY <1>2 DEF RevisionsInv, apply_patch, RunTypeOK, TypeOK
<1>9. WaitingInv' /\ PauseKindMatchesPlan'
    BY <1>2, <1>3 DEF WaitingInv, PauseKindMatchesPlan
<1> QED BY <1>5, <1>6, <1>7, <1>8, <1>9

\* A planner's answer that is paid for and refused.
LEMMA RefusedKeepsRunInv ==
    ASSUME OrchInv, pc = "planning",
           usedRevisions < PlanRevisionLimit, usedRevisions' = usedRevisions + 1,
           UNCHANGED usedAttempts, PlanFails
    PROVE  RunInv'
<1> USE DEF OrchInv, RunInv, PlanFails, mark_failed, End
<1>1. outcome = "none" /\ outcome' = "failed" /\ planStatus' = "failed"
    BY DEF PhaseInv, StageOutcome
<1>2. RunTypeOK'
    <2>1. usedRevisions' \in 0 .. PlanRevisionLimit
        BY PlanRevisionAssumption DEF RunTypeOK
    <2> QED BY <1>1, <2>1 DEF RunTypeOK, Reasons, Outcomes
<1>3. PhaseInv' /\ RunningOnlyWhileExecuting'
    BY <1>1 DEF PhaseInv, RunningOnlyWhileExecuting
<1>4. AttemptsPaid' /\ FailureExhaustsRun'
    BY <1>1 DEF AttemptsPaid, FailureExhaustsRun
<1>5. RevisionsInv'
    <2>1. /\ revision \in Nat /\ usedRevisions \in Nat /\ revision' = revision
          /\ revision <= usedRevisions /\ usedRevisions <= revision + 1
          /\ usedRevisions # revision + 1
        BY <1>1, PlanRevisionAssumption DEF RevisionsInv, RunTypeOK, StoreInv, TypeOK
    <2>2. revision <= usedRevisions + 1 /\ usedRevisions + 1 <= revision + 1
        BY <2>1
    <2> QED BY <1>1, <2>1, <2>2 DEF RevisionsInv
<1>6. WaitingInv' /\ PauseKindMatchesPlan'
    BY <1>1 DEF WaitingInv, PauseKindMatchesPlan
<1> QED BY <1>2, <1>3, <1>4, <1>5, <1>6

\* The planner's answers, its exceptions and the resolver check keep RunInv.
LEMMA PlanningKeepsRunInv ==
    ASSUME OrchInv, Planning
    PROVE  RunInv'
<1>1. CASE \E p \in PlannerPatches : PlannerAnswers(p)
    BY <1>1, AcceptedKeepsRunInv, RefusedKeepsRunInv DEF PlannerAnswers
<1>2. ASSUME pc \in {"planning", "resolvers"}, PlanFails, UNCHANGED budgetVars
      PROVE  RunInv'
    BY <1>2, EndKeepsRunInv DEF PlanFails, mark_failed, TaskColumns
<1>3. CASE PlannerRaises
    BY <1>2, <1>3 DEF PlannerRaises
<1>4. CASE CheckResolvers
    <2>1. CASE PlanFails
        BY <1>2, <1>4, <2>1 DEF CheckResolvers
    <2>2. CASE ~PlanFails
        <3>1. RunTypeOK'
            BY <1>4, <2>2 DEF OrchInv, RunInv, CheckResolvers, RunTypeOK, budgetVars
        <3> QED BY <1>4, <2>2, <3>1, MoveKeepsRunInv DEF CheckResolvers
    <2> QED BY <2>1, <2>2
<1> QED BY <1>1, <1>3, <1>4 DEF Planning

\* claim_ready with the attempt budget, granted or refused, keeps RunInv.
LEMMA ClaimKeepsRunInv ==
    ASSUME OrchInv, NEW t \in Tasks, Claim(t)
    PROVE  RunInv'
<1> USE DEF OrchInv, RunInv, Claim, Looping, claim_ready, TaskAttemptLimit, budgetVars
<1>1. outcome = "none" /\ TypeOK
    BY DEF PhaseInv, StoreInv
<1>2. /\ \A u \in Tasks : status'[u] = IF u = t THEN "running" ELSE status[u]
      /\ \A u \in Tasks : attempts'[u] = IF u = t THEN attempts[t] + 1 ELSE attempts[u]
      /\ UNCHANGED <<planStatus, revision>>
    BY <1>1 DEF TypeOK
<1>3. RunTypeOK'
    BY PlanRevisionAssumption, MaxAttemptsAssumption
       DEF RunTypeOK, Outcomes, MaxSteps
<1>4. PhaseInv'
    BY <1>1, <1>2 DEF PhaseInv
<1>5. RunningOnlyWhileExecuting'
    BY <1>1, <1>2 DEF RunningOnlyWhileExecuting
<1>6. AttemptsPaid'
    BY <1>1, <1>2 DEF AttemptsPaid, RunTypeOK, TypeOK
<1>7. FailureExhaustsRun'
    <2>1. (\E u \in Tasks : status[u] = "failed") => usedAttempts' = MaxAttempts
        BY MaxAttemptsAssumption DEF FailureExhaustsRun, RunTypeOK
    <2> QED BY <1>2, <2>1 DEF FailureExhaustsRun
<1>8. RevisionsInv'
    BY <1>1, <1>2 DEF RevisionsInv
<1>9. WaitingInv' /\ PauseKindMatchesPlan'
    BY <1>1, <1>2 DEF WaitingInv, PauseKindMatchesPlan
<1> QED BY <1>3, <1>4, <1>5, <1>6, <1>7, <1>8, <1>9

\* Every branch of the loop's body before the execution keeps RunInv.
LEMMA LoopKeepsRunInv ==
    ASSUME OrchInv, Loop
    PROVE  RunInv'
<1>1. CASE StepsExhausted \/ PlanTerminal \/ Stalled
    <2>1. pc = "loop" /\ UNCHANGED <<storeVars, budgetVars>> /\ End(planStatus, FALSE)
        BY <1>1 DEF StepsExhausted, PlanTerminal, Stalled, NothingReady, Looping
    <2> QED BY <2>1, EndKeepsRunInv DEF storeVars, TaskColumns
<1>2. CASE ReplanForNeeds
    <2>1. UnresolvedNeeds \subseteq Tasks \X Keys
        BY DEF UnresolvedNeeds, RequiredKeys
    <2>2. RunTypeOK'
        BY <1>2, <2>1, PlanRevisionAssumption
           DEF OrchInv, RunInv, ReplanForNeeds, NothingReady, Looping, RunTypeOK,
               Reasons, budgetVars, MaxSteps
    <2> QED BY <1>2, <2>2, MoveKeepsRunInv DEF ReplanForNeeds, NothingReady, Looping
<1> QED BY <1>1, <1>2, ClaimKeepsRunInv DEF Loop

\* The claimed task stops running inside the run: a result or a failure was
\* recorded for it.
LEMMA TaskEndsKeepsRunInv ==
    ASSUME OrchInv, pc = "executing",
           NEW s \in TaskStatus \ {"running", "waiting_user"},
           status' = [status EXCEPT ![task] = s],
           s = "failed" => attempts[task] >= MaxAttempts,
           UNCHANGED <<revision, attempts, steps, force, budgetVars, outcome>>,
           task' = NoTask, pc' \in {"planning", "loop"}, reason' \in Reasons,
           pendingNeeds' \in {pendingNeeds, {}}
    PROVE  RunInv'
<1> USE DEF OrchInv, RunInv, budgetVars, TaskAttemptLimit
<1>1. outcome = "none" /\ TypeOK /\ task \in Tasks
    BY DEF PhaseInv, StoreInv
<1>2. \A u \in Tasks : status'[u] = IF u = task THEN s ELSE status[u]
    BY <1>1 DEF TypeOK
<1>3. RunTypeOK'
    BY DEF RunTypeOK
<1>4. PhaseInv'
    BY <1>1 DEF PhaseInv
<1>5. RunningOnlyWhileExecuting'
    BY <1>1, <1>2 DEF RunningOnlyWhileExecuting
<1>6. AttemptsPaid'
    BY <1>1 DEF AttemptsPaid
<1>7. FailureExhaustsRun'
    <2>1. attempts[task] <= usedAttempts /\ usedAttempts <= MaxAttempts
          /\ attempts[task] \in Nat /\ usedAttempts \in Nat
        BY <1>1, MaxAttemptsAssumption DEF AttemptsPaid, RunTypeOK, TypeOK
    <2>2. s = "failed" => usedAttempts = MaxAttempts
        BY <2>1, MaxAttemptsAssumption
    <2> QED BY <1>2, <2>2 DEF FailureExhaustsRun
<1>8. RevisionsInv'
    BY <1>1 DEF RevisionsInv
<1>9. WaitingInv' /\ PauseKindMatchesPlan'
    BY <1>1, <1>2 DEF WaitingInv, PauseKindMatchesPlan
<1> QED BY <1>3, <1>4, <1>5, <1>6, <1>7, <1>8, <1>9

\* A pause for a confirmation keeps RunInv: its task waits for the user.
LEMMA ConfirmationKeepsRunInv ==
    ASSUME OrchInv, TaskAsksConfirmation
    PROVE  RunInv'
<1> USE DEF OrchInv, RunInv, TaskAsksConfirmation, pause_task_for_confirmation,
            End, budgetVars
<1>1. outcome = "none" /\ TypeOK /\ task \in Tasks
    BY DEF PhaseInv, StoreInv
<1>2. \A u \in Tasks : status'[u] = IF u = task THEN "waiting_user" ELSE status[u]
    BY <1>1 DEF TypeOK
<1>3. outcome' = "waiting_confirmation" /\ planStatus' = "waiting_input"
    BY DEF StageOutcome
<1>4. RunTypeOK'
    BY <1>3 DEF RunTypeOK, Reasons, Outcomes
<1>5. PhaseInv'
    BY <1>3 DEF PhaseInv
<1>6. RunningOnlyWhileExecuting'
    BY <1>1, <1>2 DEF RunningOnlyWhileExecuting
<1>7. AttemptsPaid' /\ FailureExhaustsRun'
    <2>1. UNCHANGED <<attempts, usedAttempts>>
        OBVIOUS
    <2>2. AttemptsPaid'
        BY <1>1, <2>1 DEF AttemptsPaid
    <2>3. FailureExhaustsRun'
        BY <1>2, <2>1 DEF FailureExhaustsRun
    <2> QED BY <2>2, <2>3
<1>8. RevisionsInv'
    BY <1>1, <1>3 DEF RevisionsInv
<1>9. WaitingInv' /\ PauseKindMatchesPlan'
    BY <1>1, <1>2, <1>3 DEF WaitingInv, PauseKindMatchesPlan
<1> QED BY <1>4, <1>5, <1>6, <1>7, <1>8, <1>9

\* The store is left as it is and the exception ends the run.
LEMMA RefusedResultKeepsRunInv ==
    ASSUME OrchInv, pc = "executing", Raise, UNCHANGED <<storeVars, budgetVars>>
    PROVE  RunInv'
<1> USE DEF OrchInv, RunInv, Raise, storeVars, budgetVars
<1>1. RunTypeOK'
    BY DEF RunTypeOK, Outcomes
<1>2. PhaseInv' /\ RunningOnlyWhileExecuting' /\ AttemptsPaid'
    BY DEF PhaseInv, RunningOnlyWhileExecuting, AttemptsPaid
<1>3. outcome = "none"
    BY DEF PhaseInv
<1>4. FailureExhaustsRun' /\ RevisionsInv'
    BY <1>3 DEF FailureExhaustsRun, RevisionsInv
<1>5. WaitingInv' /\ PauseKindMatchesPlan'
    BY <1>3 DEF WaitingInv, PauseKindMatchesPlan
<1> QED BY <1>1, <1>2, <1>4, <1>5

\* Every way in which a task execution ends keeps RunInv.
LEMMA ExecutingKeepsRunInv ==
    ASSUME OrchInv, Executing
    PROVE  RunInv'
<1>1. CASE \E keys \in SUBSET Keys : TaskCompletes(keys)
    BY <1>1, TaskEndsKeepsRunInv
       DEF TaskCompletes, apply_result, apply_completed, Plan, NextIteration,
           budgetVars, Reasons, OrchInv, RunInv, RunTypeOK
<1>2. CASE \E keys \in SUBSET Keys : ResultRefused(keys)
    BY <1>2, RefusedResultKeepsRunInv DEF ResultRefused
<1>3. CASE \E keys \in SUBSET Keys : TaskNeeds(keys)
    BY <1>3, TaskEndsKeepsRunInv
       DEF TaskNeeds, apply_result, apply_needs_dependency, Plan, budgetVars, Reasons
<1>4. CASE TaskUnfulfillable
    BY <1>4, TaskEndsKeepsRunInv
       DEF TaskUnfulfillable, apply_result, apply_unfulfillable, Plan, budgetVars,
           Reasons
<1>5. CASE TaskFails
    <2> DEFINE s == IF attempts[task] < MaxAttempts THEN "waiting_retry" ELSE "failed"
    <2>1. /\ status' = [status EXCEPT ![task] = s]
          /\ UNCHANGED <<revision, attempts>> /\ pc = "executing"
        BY <1>5 DEF TaskFails, record_failure
    <2>2. /\ UNCHANGED <<steps, force, budgetVars, outcome>>
          /\ task' = NoTask /\ pc' \in {"planning", "loop"} /\ reason' \in Reasons
          /\ pendingNeeds' \in {pendingNeeds, {}}
        BY <1>5 DEF TaskFails, Plan, NextIteration, budgetVars, Reasons, OrchInv,
                    RunInv, RunTypeOK
    <2>3. s \in TaskStatus \ {"running", "waiting_user"}
        OBVIOUS
    <2>4. s = "failed" => attempts[task] >= MaxAttempts
        BY <2>1, MaxAttemptsAssumption DEF OrchInv, StoreInv, TypeOK, RunInv, PhaseInv
    <2> HIDE DEF s
    <2> QED BY <2>1, <2>2, <2>3, <2>4, TaskEndsKeepsRunInv
<1> QED BY <1>1, <1>2, <1>3, <1>4, <1>5, ConfirmationKeepsRunInv DEF Executing

\* Confirmations, answers and cancellations by the user keep RunInv.
LEMMA UserKeepsRunInv ==
    ASSUME OrchInv, UserActs
    PROVE  RunInv'
<1> USE DEF OrchInv, RunInv, budgetVars
<1>1. CASE Confirm \/ (UserNeeds = {} /\ Answer /\ Restart(TRUE))
    <2>1. /\ outcome \in {"waiting_confirmation", "waiting_input"} /\ outcome' = "none"
          /\ \E replan \in BOOLEAN : Restart(replan)
          /\ UNCHANGED <<revision, attempts>>
        BY <1>1 DEF Confirm, Answer, Restart, resume_waiting_tasks,
                    resume_planner_pause, UserNeeds, resolve_waiting_need
    <2>2. \A t \in Tasks : status'[t] \in {status[t], "pending"}
                           /\ status'[t] # "waiting_user"
        <3>1. CASE Confirm
            BY <3>1 DEF Confirm, resume_waiting_tasks, Waiting
        <3>2. CASE UserNeeds = {} /\ Answer
            BY <3>2 DEF Answer, resume_planner_pause, PauseKindMatchesPlan,
                        UserNeeds, resolve_waiting_need
        <3> QED BY <1>1, <3>1, <3>2
    <2>3. RunTypeOK'
        BY <2>1, PlanRevisionAssumption DEF Restart, RunTypeOK, Outcomes, MaxSteps
    <2>4. PhaseInv' /\ RunningOnlyWhileExecuting'
        BY <2>1, <2>2 DEF Restart, PhaseInv, RunningOnlyWhileExecuting
    <2>5. AttemptsPaid' /\ FailureExhaustsRun'
        BY <2>1, <2>2 DEF Restart, AttemptsPaid, FailureExhaustsRun
    <2>6. RevisionsInv'
        BY <2>1 DEF Restart, RevisionsInv
    <2>7. WaitingInv' /\ PauseKindMatchesPlan'
        BY <2>1, <2>2 DEF WaitingInv, PauseKindMatchesPlan
    <2> QED BY <2>3, <2>4, <2>5, <2>6, <2>7
<1>2. CASE Answer /\ \E t \in Tasks, k \in Keys : resolve_waiting_need(t, k) /\ Raise
    <2>1. PICK t \in Tasks, k \in Keys : resolve_waiting_need(t, k) /\ Raise
        BY <1>2
    <2>2. outcome = "waiting_input" /\ outcome' = "raised" /\ TypeOK
          /\ UNCHANGED <<revision, attempts, budgetVars>>
        BY <1>2, <2>1 DEF Answer, Raise, resolve_waiting_need, StoreInv, Restart
    <2>3. \A u \in Tasks : status'[u] \in {status[u], "pending"}
        BY <2>1, <2>2 DEF resolve_waiting_need, TypeOK
    <2>4. RunTypeOK'
        BY <2>1, <2>2 DEF Raise, RunTypeOK, Outcomes
    <2>5. PhaseInv' /\ RunningOnlyWhileExecuting' /\ AttemptsPaid'
        BY <2>1, <2>2, <2>3 DEF Raise, PhaseInv, RunningOnlyWhileExecuting, AttemptsPaid
    <2>6. FailureExhaustsRun' /\ RevisionsInv'
        BY <2>2, <2>3 DEF FailureExhaustsRun, RevisionsInv
    <2>7. WaitingInv' /\ PauseKindMatchesPlan'
        BY <2>2, <2>3 DEF WaitingInv, PauseKindMatchesPlan
    <2> QED BY <2>4, <2>5, <2>6, <2>7
<1>3. CASE Cancel
    <2> USE DEF Cancel, storeVars
    <2>1. RunTypeOK'
        BY <1>3 DEF RunTypeOK, Outcomes
    <2>2. PhaseInv' /\ RunningOnlyWhileExecuting' /\ AttemptsPaid'
        BY <1>3 DEF PhaseInv, RunningOnlyWhileExecuting, AttemptsPaid
    <2>3. FailureExhaustsRun' /\ RevisionsInv'
        BY <1>3 DEF FailureExhaustsRun, RevisionsInv
    <2>4. WaitingInv' /\ PauseKindMatchesPlan'
        BY <1>3 DEF WaitingInv, PauseKindMatchesPlan
    <2> QED BY <2>1, <2>2, <2>3, <2>4
<1> QED BY <1>1, <1>2, <1>3 DEF UserActs, Answer

-----------------------------------------------------------------------------

\* A new run on an empty plan satisfies the inductive invariant.
LEMMA OrchInitial == OrchInit => OrchInv
<1> SUFFICES ASSUME OrchInit PROVE OrchInv
    OBVIOUS
<1>1. StoreInv
    BY StoreInitial DEF OrchInit
<1>2. RunInv
    <2> USE DEF OrchInit, Init
    <2>1. RunTypeOK
        <3>1. /\ 0 \in 0 .. MaxSteps /\ 0 \in 0 .. PlanRevisionLimit
              /\ 0 \in 0 .. TaskAttemptLimit
            BY PlanRevisionAssumption, MaxAttemptsAssumption
               DEF MaxSteps, TaskAttemptLimit
        <3>2. force \in BOOLEAN
            OBVIOUS
        <3> HIDE DEF Init
        <3> QED BY <3>1, <3>2 DEF RunTypeOK, Reasons, Outcomes
    <2>2. PhaseInv /\ RunningOnlyWhileExecuting
        BY DEF PhaseInv, RunningOnlyWhileExecuting
    <2>3. AttemptsPaid /\ FailureExhaustsRun /\ RevisionsInv
        BY DEF AttemptsPaid, FailureExhaustsRun, RevisionsInv
    <2>4. WaitingInv /\ PauseKindMatchesPlan
        BY DEF WaitingInv, PauseKindMatchesPlan
    <2> QED BY <2>1, <2>2, <2>3, <2>4 DEF RunInv
<1> QED BY <1>1, <1>2 DEF OrchInv

\* Steps that change none of the variables keep the invariant.
LEMMA OrchStutter ==
    ASSUME OrchInv, UNCHANGED vars
    PROVE  OrchInv'
<1> USE DEF vars, runVars, storeVars, rowVars, budgetVars
<1>1. StoreInv'
    BY StoreInductive DEF OrchInv
<1>2. RunInv'
    BY DEF OrchInv, RunInv, RunTypeOK, PhaseInv, RunningOnlyWhileExecuting,
           AttemptsPaid, FailureExhaustsRun, RevisionsInv, WaitingInv,
           PauseKindMatchesPlan
<1> QED BY <1>1, <1>2 DEF OrchInv

\* The invariant of the run and its store is inductive.
LEMMA OrchInductive == OrchInv /\ [OrchNext]_vars => OrchInv'
<1> SUFFICES ASSUME OrchInv, OrchNext PROVE OrchInv'
    BY OrchStutter
<1>1. StoreInv'
    BY RunUsesStore, StoreInductive DEF OrchInv
<1>2. RunInv'
    BY EnterKeepsRunInv, PlanningKeepsRunInv, LoopKeepsRunInv,
       ExecutingKeepsRunInv, UserKeepsRunInv DEF OrchNext, Run
<1> QED BY <1>1, <1>2 DEF OrchInv

\* The inductive invariant holds throughout every run.
LEMMA OrchInvariance == OrchSafety => []OrchInv
BY OrchInitial, OrchInductive, PTL DEF OrchSafety

\* A run, with all its resumes, is a behaviour of the plan store: the
\* orchestrator calls each method only where PlanStore lets it, so every
\* theorem about Spec holds for the plans of a run.
THEOREM RunImplementsStore == OrchSafety => Spec
<1>1. OrchInit => Init
    BY DEF OrchInit
<1>2. OrchInv /\ [OrchNext]_vars => [Next]_storeVars
    BY RunUsesStore DEF vars
<1> QED BY <1>1, <1>2, OrchInvariance, PTL DEF OrchSafety, Spec

\* The variables of a run keep their types; in particular the budgets are
\* never overdrawn.
THEOREM RunTypes == OrchSafety => []OrchTypeOK
<1>1. OrchInv => OrchTypeOK
    BY DEF OrchInv, StoreInv, RunInv, RunTypeOK, OrchTypeOK
<1> QED BY <1>1, OrchInvariance, PTL

\* Nothing is left running, except by an exception.
THEOREM RunLeavesNothingRunning == OrchSafety => []RunningOnlyWhileExecuting
<1>1. OrchInv => RunningOnlyWhileExecuting
    BY DEF OrchInv, RunInv
<1> QED BY <1>1, OrchInvariance, PTL

\* A task that is given up takes the attempt budget of the run with it.
THEOREM RunFailureExhausts == OrchSafety => []FailureExhaustsRun
<1>1. OrchInv => FailureExhaustsRun
    BY DEF OrchInv, RunInv
<1> QED BY <1>1, OrchInvariance, PTL

\* The pause shown to the user is the one the plan is in.
THEOREM RunPauseKind == OrchSafety => []PauseKindMatchesPlan
<1>1. OrchInv => PauseKindMatchesPlan
    BY DEF OrchInv, RunInv
<1> QED BY <1>1, OrchInvariance, PTL

\* Every revision is paid for exactly once.
THEOREM RunRevisionsPaid == OrchSafety => []RevisionsPaidOnce
<1>1. OrchInv => RevisionsPaidOnce
    BY DEF OrchInv, RunInv, RevisionsInv, RevisionsPaidOnce
<1> QED BY <1>1, OrchInvariance, PTL

\* The plan of a run has every property of the store, over all its resumes.
THEOREM RunKeepsPlan ==
    OrchSafety => /\ [](GraphStaysValid /\ StartedOnInputs /\ ResolvedNeedsHaveSource)
                  /\ [](AttemptFollowsTask /\ NoMutualWait)
                  /\ CompletedIsHistory
BY RunImplementsStore, StoreGraphValid, StoreStartsOnInputs, StoreNeedSources, StoreAttempts,
   StoreNoMutualWait, StoreHistory, PTL

-----------------------------------------------------------------------------

\* What is left of a run, by where it is.
LEMMA WorkIs ==
    ASSUME RunTypeOK
    PROVE  /\ steps \in Nat /\ MaxSteps \in Nat /\ steps <= MaxSteps
           /\ Work \in Nat
           /\ pc = "enter" => Work = 4 * (MaxSteps - steps) + 5
           /\ pc = "executing" => Work = 4 * (MaxSteps - steps) + 4
           /\ pc = "planning" => Work = 4 * (MaxSteps - steps) + 3
           /\ pc = "resolvers" => Work = 4 * (MaxSteps - steps) + 2
           /\ pc = "loop" => Work = 4 * (MaxSteps - steps) + 1
           /\ pc = "ended" => Work = 4 * (MaxSteps - steps)
<1>1. steps \in Nat /\ MaxSteps \in Nat /\ steps <= MaxSteps
    BY PlanRevisionAssumption DEF RunTypeOK, MaxSteps
<1> QED BY <1>1 DEF Work, RunTypeOK

\* The same after the step.
LEMMA WorkBecomes ==
    ASSUME RunTypeOK'
    PROVE  /\ steps' \in Nat
           /\ pc' = "executing" => Work' = 4 * (MaxSteps - steps') + 4
           /\ pc' = "planning" => Work' = 4 * (MaxSteps - steps') + 3
           /\ pc' = "resolvers" => Work' = 4 * (MaxSteps - steps') + 2
           /\ pc' = "loop" => Work' = 4 * (MaxSteps - steps') + 1
           /\ pc' = "ended" => Work' = 4 * (MaxSteps - steps')
<1>1. steps' \in Nat /\ MaxSteps \in Nat
    BY PlanRevisionAssumption DEF RunTypeOK, MaxSteps
<1> QED BY <1>1 DEF Work

\* Where a step of a run leads, and that the loop counts claims and replans.
LEMMA RunMoves ==
    ASSUME Run
    PROVE  \/ pc = "enter" /\ pc' \in {"planning", "loop"} /\ steps' = steps
           \/ pc = "planning" /\ pc' \in {"resolvers", "loop", "ended"} /\ steps' = steps
           \/ pc = "resolvers" /\ pc' \in {"loop", "ended"} /\ steps' = steps
           \/ pc = "loop" /\ pc' = "ended" /\ steps' \in {steps, steps + 1}
           \/ pc = "loop" /\ pc' \in {"executing", "planning"} /\ steps' = steps + 1
           \/ pc = "executing" /\ pc' \in {"planning", "loop", "ended"} /\ steps' = steps
<1>1. CASE Enter
    BY <1>1 DEF Enter, Plan
<1>2. CASE Planning
    <2>1. CASE \E p \in PlannerPatches : PlannerAnswers(p)
        <3>1. PICK p : PlannerAnswers(p)
            BY <2>1
        <3>2. pc = "planning" /\ pc' \in {"resolvers", "loop", "ended"} /\ steps' = steps
            BY <3>1, Zenon DEF PlannerAnswers, PlanFails, End
        <3> QED BY <3>2
    <2>2. CASE PlannerRaises
        BY <2>2 DEF PlannerRaises, PlanFails, End
    <2>3. CASE CheckResolvers
        BY <2>3 DEF CheckResolvers, PlanFails, End
    <2> QED BY <1>2, <2>1, <2>2, <2>3 DEF Planning
<1>3. CASE Loop
    BY <1>3 DEF Loop, StepsExhausted, PlanTerminal, Claim, ReplanForNeeds, Stalled, NothingReady,
                Looping, End
<1>4. CASE Executing
    BY <1>4 DEF Executing, TaskCompletes, ResultRefused, TaskNeeds, TaskUnfulfillable, TaskFails,
                TaskAsksConfirmation, Plan, NextIteration, Raise, End
<1> QED BY <1>1, <1>2, <1>3, <1>4 DEF Run

\* Between two answers of the user a run takes at most 4 * MaxSteps + 5 steps,
\* for every limit, every number of tasks and whatever the planner and the
\* executor answer: the work that is left is a natural number, and every step
\* of the run uses some of it up.
THEOREM RunTerminates == OrchSafety => [](Work \in Nat) /\ RunAdvances
<1>1. OrchInv => Work \in Nat
    BY WorkIs DEF OrchInv, RunInv
<1>2. OrchInv /\ OrchInv' /\ [OrchNext]_vars => [Run => Work' < Work]_vars
    <2> SUFFICES ASSUME RunTypeOK, RunTypeOK', Run PROVE Work' < Work
        BY DEF OrchInv, RunInv
    <2> QED BY RunMoves, WorkIs, WorkBecomes
<1> QED BY <1>1, <1>2, OrchInvariance, PTL DEF OrchSafety, RunAdvances

\* A run never stalls on open tasks that wait for one another.
THEOREM RunStallHasCause == OrchSafety => StallHasCause
<1> DEFINE Cause ==
        Stalled /\ Open # {} =>
            \E t \in Open : \E d \in dependsOn[t] :
                status[d] \in {"failed", "unfulfillable", "cancelled",
                               "waiting_retry", "waiting_dependency"}
<1>1. OrchInv /\ NoMutualWait /\ [OrchNext]_vars => [Cause]_vars
    <2> SUFFICES ASSUME OrchInv, NoMutualWait, Stalled, Open # {} PROVE Cause
        OBVIOUS
    <2>1. /\ pc = "loop" /\ UnresolvedNeeds = {}
          /\ \A t \in Tasks : ~task_is_ready(t)
        BY DEF Stalled, NothingReady, Looping
    <2>2. \A t \in Tasks : NeedsResolved(t)
        <3> SUFFICES ASSUME NEW t \in Tasks, NEW k \in RequiredKeys
                     PROVE  need[t][k] \in {"none", "resolved"}
            BY DEF NeedsResolved
        <3>1. <<t, k>> \notin UnresolvedNeeds
            BY <2>1
        <3> QED BY <3>1 DEF UnresolvedNeeds
    <2>3. PICK t \in Open : \E d \in dependsOn[t] :
              status[d] \in TaskStatus \ {"pending", "ready", "completed"}
        BY <2>1, <2>2 DEF NoMutualWait, Open
    <2>4. PICK d \in dependsOn[t] : status[d] \in TaskStatus \ {"pending", "ready", "completed"}
        BY <2>3
    <2>5. d \in Tasks
        BY DEF OrchInv, StoreInv, TypeOK, Open
    <2>6. status[d] # "running" /\ status[d] # "waiting_user"
        BY <2>1, <2>5 DEF OrchInv, RunInv, PhaseInv, RunningOnlyWhileExecuting, WaitingInv
    <2> QED BY <2>4, <2>6
<1>2. OrchSafety => []NoMutualWait
    BY RunKeepsPlan, PTL
<1> QED BY <1>1, <1>2, OrchInvariance, PTL DEF OrchSafety, StallHasCause
==============================================================================
