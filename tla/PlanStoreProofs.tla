--------------------------- MODULE PlanStoreProofs ---------------------------
(***************************************************************************)
(* Invariants of the plan store, for every set of tasks and keys and every *)
(* patch.  The inductive invariant is the conjunction of the checked ones. *)
(***************************************************************************)
EXTENDS PlanStore, FiniteSetTheorems, TLAPS

USE DEF PlanStatus, TaskStatus, AttemptStatus, RequirementStatus

StoreInv ==
    /\ TypeOK
    /\ GraphStaysValid
    /\ StartedOnInputs
    /\ ResolvedNeedsHaveSource
    /\ AttemptFollowsTask

-----------------------------------------------------------------------------
(***************************************************************************)
(* Patches                                                                 *)
(***************************************************************************)

PatchOK(p) ==
    /\ p.decision \in Decisions
    /\ p.ids \subseteq Tasks
    /\ p.remove \subseteq Tasks
    /\ p.ids \cap p.remove = {}
    /\ p.deps \in [p.ids -> SUBSET Tasks]
    /\ p.order \in [p.ids -> Nat]
    /\ p.outputs \in [p.ids -> SUBSET Keys]
    /\ p.success \in [p.ids -> SuccessActions]
    /\ p.needs \in [p.ids -> SUBSET Keys]

\* The positions of the tasks in a patch are natural numbers.
LEMMA OrdersAreNat ==
    ASSUME NEW ids \in SUBSET Tasks, NEW r \in Orders(ids)
    PROVE  r \in [ids -> Nat]
<1>1. Cardinality(ids) \in Nat
    BY TasksAssumption, FS_Subset, FS_CardinalityType
<1>2. 0 .. Cardinality(ids) - 1 \subseteq Nat
    BY <1>1
<1> QED BY <1>2 DEF Orders

\* A patch of the graph is well formed: it never supplies and removes one task.
LEMMA GraphPatchesOK ==
    ASSUME NEW NeedSets \in SUBSET SUBSET Keys, NEW p \in GraphPatchesWith(NeedSets)
    PROVE  PatchOK(p)
<1>1. PICK ids \in SUBSET Tasks : p \in GraphPatchesFor(ids, NeedSets)
    BY DEF GraphPatchesWith
<1>2. PICK remove \in SUBSET (Tasks \ ids),
            deps \in {d \in [ids -> SUBSET Tasks] : \A t \in ids : t \notin d[t]},
            order \in Orders(ids),
            outputs \in [ids -> SUBSET Keys],
            success \in [ids -> SuccessActions],
            needs \in [ids -> NeedSets] :
         p = [decision |-> "revise_plan", ids |-> ids, remove |-> remove,
              deps |-> deps, order |-> order, outputs |-> outputs,
              success |-> success, needs |-> needs]
    BY <1>1 DEF GraphPatchesFor
<1>3. order \in [ids -> Nat] /\ needs \in [ids -> SUBSET Keys]
    BY OrdersAreNat
<1> QED BY <1>2, <1>3 DEF PatchOK, Decisions

\* Every patch is well formed.
LEMMA PatchesOK ==
    ASSUME NEW p \in Patches
    PROVE  PatchOK(p)
<1>1. CASE p \in GraphPatchesWith(SUBSET Keys)
    BY <1>1, GraphPatchesOK
<1>2. CASE p \in DecisionPatches
    <2>1. PICK d \in Decisions \ {"revise_plan"} :
            p = [decision |-> d, ids |-> {}, remove |-> {},
                 deps |-> [t \in {} |-> {}], order |-> [t \in {} |-> 0],
                 outputs |-> [t \in {} |-> {}], success |-> [t \in {} |-> "continue"],
                 needs |-> [t \in {} |-> {}]]
        BY <1>2 DEF DecisionPatches
    <2>2. /\ p.decision = d /\ p.ids = {} /\ p.remove = {}
          /\ p.deps = [t \in {} |-> {}] /\ p.order = [t \in {} |-> 0]
          /\ p.outputs = [t \in {} |-> {}] /\ p.success = [t \in {} |-> "continue"]
          /\ p.needs = [t \in {} |-> {}]
        BY <2>1
    <2>3. [t \in {} |-> {}] \in [{} -> SUBSET Tasks]
        OBVIOUS
    <2>4. [t \in {} |-> 0] \in [{} -> Nat]
        OBVIOUS
    <2>5. [t \in {} |-> {}] \in [{} -> SUBSET Keys]
        OBVIOUS
    <2>6. [t \in {} |-> "continue"] \in [{} -> SuccessActions]
        OBVIOUS
    <2> HIDE DEF Decisions
    <2> QED BY <2>2, <2>3, <2>4, <2>5, <2>6 DEF PatchOK
<1> QED BY <1>1, <1>2 DEF Patches

\* The tasks and the dependencies after a patch are the combined graph that
\* was validated.
LEMMA PatchedGraph ==
    ASSUME TypeOK, NEW p, PatchOK(p), apply_patch(p, revision)
    PROVE  Existing' = CombinedIds(p) /\ dependsOn' = CombinedDeps(p)
<1>1. \A t \in Tasks : status'[t] = CASE t \in p.remove -> "absent"
                                      [] t \in p.ids -> "pending"
                                      [] OTHER -> status[t]
    BY DEF apply_patch
<1>2. \A t \in Tasks : status'[t] # "absent" <=> t \in CombinedIds(p)
    BY <1>1 DEF PatchOK, CombinedIds, Existing
<1> QED BY <1>2 DEF apply_patch, Existing, PatchOK, CombinedIds

\* What a patch leaves of each task.
LEMMA PatchedTask ==
    ASSUME TypeOK, NEW p, PatchOK(p), apply_patch(p, revision), NEW t \in Tasks
    PROVE  /\ t \in p.remove => status'[t] = "absent"
           /\ t \in p.ids => status'[t] = "pending"
           /\ t \notin p.ids \cup p.remove => status'[t] = status[t]
           /\ status[t] \in Protected => t \notin p.ids \cup p.remove
BY DEF apply_patch, PatchAccepted, PatchOK

\* apply_patch leaves rows of their types.
LEMMA PatchKeepsType ==
    ASSUME TypeOK, NEW p, PatchOK(p), apply_patch(p, revision)
    PROVE  TypeOK'
<1> USE DEF TypeOK, apply_patch, PatchOK
<1>1. planStatus' \in PlanStatus /\ revision' \in Nat
    BY DEF PlanStatusAfter, Decisions
<1>2. status' \in [Tasks -> TaskStatus \cup {"absent"}]
    OBVIOUS
<1>3. dependsOn' \in [Tasks -> SUBSET Tasks]
    BY DEF CombinedDeps
<1>4. plannedOrder' \in [Tasks -> Nat]
    OBVIOUS
<1>5. expectedOutputs' \in [Tasks -> SUBSET Keys]
    OBVIOUS
<1>6. onSuccess' \in [Tasks -> {"continue", "replan"}]
    BY SuccessAssumption
<1>7. attempts' \in [Tasks -> Nat] /\ attempt' \in [Tasks -> AttemptStatus \cup {"none"}]
    OBVIOUS
<1>8. need' \in [Tasks -> [Keys -> RequirementStatus \cup {"none"}]]
    <2>1. \A t \in Tasks, k \in Keys :
             PatchedNeed(p, t, k) \in RequirementStatus \cup {"none"}
        BY DEF PatchedNeed
    <2> HIDE DEF TypeOK, PatchOK
    <2> QED BY <2>1
<1>9. resolver' \in [Tasks -> [Keys -> Tasks \cup {User, NoResolver}]]
    BY DEF PatchedResolver
<1> HIDE DEF apply_patch, PatchOK
<1> QED BY <1>1, <1>2, <1>3, <1>4, <1>5, <1>6, <1>7, <1>8, <1>9

\* apply_patch keeps the invariant of the store.
LEMMA PatchKeepsInv ==
    ASSUME StoreInv, NEW p, PatchOK(p), apply_patch(p, revision)
    PROVE  StoreInv'
<1>1. TypeOK'
    BY PatchKeepsType DEF StoreInv
<1>2. GraphStaysValid'
    <2>1. validate_task_graph(CombinedIds(p), CombinedDeps(p))
        BY DEF apply_patch, PatchAccepted
    <2>2. Existing' = CombinedIds(p) /\ dependsOn' = CombinedDeps(p)
        BY PatchedGraph DEF StoreInv
    <2> QED BY <2>1, <2>2 DEF GraphStaysValid, validate_task_graph,
                              NoSelfDependency, Closed, Acyclic
<1>3. StartedOnInputs'
    <2> SUFFICES ASSUME NEW t \in Tasks, status'[t] \in Protected
                 PROVE  /\ \A d \in dependsOn'[t] : status'[d] = "completed"
                        /\ NeedsResolved(t)'
        BY DEF StartedOnInputs, Protected
    <2>1. t \notin p.ids \cup p.remove /\ status[t] \in Protected
        BY PatchedTask DEF StoreInv, Protected
    <2>2. dependsOn'[t] = dependsOn[t] /\ dependsOn[t] \subseteq Tasks
        BY <2>1 DEF StoreInv, TypeOK, apply_patch, CombinedDeps
    <2>3. \A d \in dependsOn[t] : status'[d] = "completed"
        BY <2>1, <2>2, PatchedTask DEF StoreInv, StartedOnInputs, Protected
    <2>4. \A k \in RequiredKeys : need'[t][k] = need[t][k]
        <3> SUFFICES ASSUME NEW k \in RequiredKeys PROVE need'[t][k] = need[t][k]
            OBVIOUS
        <3>1. k \in Keys /\ need[t][k] \in {"none", "resolved"}
            BY <2>1 DEF StoreInv, StartedOnInputs, NeedsResolved, RequiredKeys
        <3>2. need'[t][k] = PatchedNeed(p, t, k)
            BY <3>1 DEF apply_patch
        <3> QED BY <3>1, <3>2, <2>1 DEF PatchedNeed
    <2>5. NeedsResolved(t)'
        BY <2>1, <2>4 DEF NeedsResolved, StoreInv, StartedOnInputs
    <2> QED BY <2>2, <2>3, <2>5
<1>4. ResolvedNeedsHaveSource'
    <2> SUFFICES ASSUME NEW t \in Tasks, NEW k \in Keys
                 PROVE  /\ need'[t][k] = "resolved" <=> resolver'[t][k] # NoResolver
                        /\ resolver'[t][k] \in Tasks =>
                              status'[resolver'[t][k]] = "completed"
        BY DEF ResolvedNeedsHaveSource
    <2>1. /\ need'[t][k] = PatchedNeed(p, t, k)
          /\ resolver'[t][k] = PatchedResolver(p, t, k)
        BY DEF apply_patch
    <2>2. /\ need[t][k] = "resolved" <=> resolver[t][k] # NoResolver
          /\ resolver[t][k] \in Tasks => status[resolver[t][k]] = "completed"
        BY DEF StoreInv, ResolvedNeedsHaveSource
    <2>3. need'[t][k] = "resolved" <=> resolver'[t][k] # NoResolver
        BY <2>1, <2>2 DEF PatchedNeed, PatchedResolver, PatchOK
    <2>4. resolver'[t][k] \in Tasks => resolver'[t][k] = resolver[t][k]
        BY <2>1, ResolverAssumption DEF PatchedResolver
    <2>5. ASSUME resolver[t][k] \in Tasks PROVE status'[resolver[t][k]] = "completed"
        BY <2>2, <2>5, PatchedTask DEF StoreInv, Protected
    <2> QED BY <2>3, <2>4, <2>5
<1>5. AttemptFollowsTask'
    <2> SUFFICES ASSUME NEW t \in Tasks
                 PROVE  /\ status'[t] = "running" => attempt'[t] = "running"
                        /\ status'[t] \in {"failed", "waiting_retry"} =>
                              attempt'[t] \in {"failed", "timed_out"}
                        /\ status'[t] = "waiting_user" => attempt'[t] = "cancelled"
                        /\ attempts'[t] = 0 <=> attempt'[t] = "none"
        BY DEF AttemptFollowsTask
    <2>1. /\ attempts'[t] = IF t \in p.remove THEN 0 ELSE attempts[t]
          /\ attempt'[t] = IF t \in p.remove THEN "none" ELSE attempt[t]
        BY DEF apply_patch
    <2> QED BY <2>1, PatchedTask DEF StoreInv, AttemptFollowsTask
<1> QED BY <1>1, <1>2, <1>3, <1>4, <1>5 DEF StoreInv

-----------------------------------------------------------------------------
(***************************************************************************)
(* The other methods leave the graph alone and change one task, or tasks   *)
(* that neither run nor have completed.                                    *)
(***************************************************************************)

\* A step that adds and removes no task or dependency keeps the graph valid.
LEMMA GraphKept ==
    ASSUME GraphStaysValid, UNCHANGED dependsOn, Existing' = Existing
    PROVE  GraphStaysValid'
BY DEF GraphStaysValid, validate_task_graph, NoSelfDependency, Closed, Acyclic

\* _refresh_status returns a plan status.
LEMMA RefreshIsStatus ==
    ASSUME TypeOK, NEW s
    PROVE  refresh_status(s) \in PlanStatus
BY DEF TypeOK, refresh_status

\* Neither the tasks nor their needs change.
LEMMA PlanOnlyKeepsInv ==
    ASSUME StoreInv, planStatus' \in PlanStatus,
           UNCHANGED <<revision, status, rowVars, attempts, attempt, need, resolver>>
    PROVE  StoreInv'
<1>1. TypeOK'
    BY DEF StoreInv, TypeOK, rowVars
<1>2. GraphStaysValid'
    BY GraphKept DEF StoreInv, rowVars, Existing
<1>3. StartedOnInputs' /\ ResolvedNeedsHaveSource' /\ AttemptFollowsTask'
    BY DEF StoreInv, StartedOnInputs, ResolvedNeedsHaveSource, AttemptFollowsTask,
           NeedsResolved, rowVars
<1> QED BY <1>1, <1>2, <1>3 DEF StoreInv

\* claim_ready_batch keeps the invariant: the claimed task has its inputs.
LEMMA ClaimKeepsInv ==
    ASSUME StoreInv, NEW t \in Tasks, claim_ready(t)
    PROVE  StoreInv'
<1> USE DEF StoreInv, claim_ready, rowVars
<1>1. /\ task_is_ready(t) /\ status[t] \in {"pending", "ready"}
      /\ \A u \in Tasks : status'[u] = IF u = t THEN "running" ELSE status[u]
    BY DEF ClaimedFirst, task_is_ready, TypeOK
<1>2. TypeOK'
    BY DEF TypeOK
<1>3. GraphStaysValid'
    BY <1>1, GraphKept DEF Existing
<1>4. StartedOnInputs'
    <2> SUFFICES ASSUME NEW u \in Tasks, status'[u] \in Protected
                 PROVE  /\ \A d \in dependsOn[u] : status'[d] = "completed"
                        /\ NeedsResolved(u)
        BY DEF StartedOnInputs, Protected, NeedsResolved
    <2>1. (\A d \in dependsOn[u] : status[d] = "completed") /\ NeedsResolved(u)
        BY <1>1 DEF StartedOnInputs, task_is_ready
    <2>2. dependsOn[u] \subseteq Tasks
        BY DEF TypeOK
    <2> QED BY <1>1, <2>1, <2>2
<1>5. ResolvedNeedsHaveSource'
    BY <1>1 DEF ResolvedNeedsHaveSource
<1>6. AttemptFollowsTask'
    BY <1>1 DEF AttemptFollowsTask, TypeOK
<1> QED BY <1>2, <1>3, <1>4, <1>5, <1>6

\* A running task stops running without completing; no need changes.
LEMMA TaskStopsKeepsInv ==
    ASSUME StoreInv, NEW t \in Tasks, status[t] = "running",
           NEW s \in TaskStatus \ Protected, status' = [status EXCEPT ![t] = s],
           NEW a \in AttemptStatus, attempt' = [attempt EXCEPT ![t] = a],
           s \in {"failed", "waiting_retry"} => a \in {"failed", "timed_out"},
           s = "waiting_user" => a = "cancelled",
           planStatus' \in PlanStatus,
           UNCHANGED <<revision, rowVars, attempts, need, resolver>>
    PROVE  StoreInv'
<1> USE DEF StoreInv, rowVars
<1>1. \A u \in Tasks : status'[u] = IF u = t THEN s ELSE status[u]
    BY DEF TypeOK
<1>2. TypeOK'
    BY DEF TypeOK
<1>3. GraphStaysValid'
    BY <1>1, GraphKept DEF Existing
<1>4. StartedOnInputs'
    <2> SUFFICES ASSUME NEW u \in Tasks, status'[u] \in Protected
                 PROVE  /\ \A d \in dependsOn[u] : status'[d] = "completed"
                        /\ NeedsResolved(u)
        BY DEF StartedOnInputs, Protected, NeedsResolved
    <2>1. (\A d \in dependsOn[u] : status[d] = "completed") /\ NeedsResolved(u)
        BY <1>1 DEF StartedOnInputs
    <2>2. dependsOn[u] \subseteq Tasks
        BY DEF TypeOK
    <2> QED BY <1>1, <2>1, <2>2
<1>5. ResolvedNeedsHaveSource'
    BY <1>1 DEF ResolvedNeedsHaveSource
<1>6. AttemptFollowsTask'
    BY <1>1 DEF AttemptFollowsTask, TypeOK, Protected
<1> QED BY <1>2, <1>3, <1>4, <1>5, <1>6

\* record_failure of a running task keeps the invariant.
LEMMA FailureKeepsInv ==
    ASSUME StoreInv, NEW t \in Tasks, status[t] = "running",
           NEW retryable \in BOOLEAN, NEW timedOut \in BOOLEAN,
           record_failure(t, retryable, timedOut)
    PROVE  StoreInv'
<1> DEFINE s == IF retryable /\ attempts[t] < MaxAttempts THEN "waiting_retry"
                ELSE "failed"
           a == IF timedOut THEN "timed_out" ELSE "failed"
<1>1. s \in TaskStatus \ Protected /\ s # "waiting_user" /\ a \in {"failed", "timed_out"}
    BY DEF Protected
<1>2. planStatus' \in PlanStatus
    BY RefreshIsStatus DEF record_failure, StoreInv
<1>3. status' = [status EXCEPT ![t] = s] /\ attempt' = [attempt EXCEPT ![t] = a]
    BY DEF record_failure
<1>4. UNCHANGED <<revision, rowVars, attempts, need, resolver>>
    BY DEF record_failure
<1> HIDE DEF s, a
<1> QED BY <1>1, <1>2, <1>3, <1>4, TaskStopsKeepsInv

\* pause_task_for_confirmation of a running task keeps the invariant.
LEMMA ConfirmationKeepsInv ==
    ASSUME StoreInv, NEW t \in Tasks, status[t] = "running",
           pause_task_for_confirmation(t)
    PROVE  StoreInv'
<1>1. "waiting_user" \in TaskStatus \ Protected /\ "cancelled" \in AttemptStatus
    BY DEF Protected
<1> QED BY <1>1, TaskStopsKeepsInv DEF pause_task_for_confirmation

\* An unfulfillable result keeps the invariant.
LEMMA UnfulfillableKeepsInv ==
    ASSUME StoreInv, NEW t \in Tasks, NEW keys \in SUBSET Keys,
           apply_result(t, "unfulfillable", keys)
    PROVE  StoreInv'
<1>1. /\ status[t] = "running" /\ apply_unfulfillable(t)
      /\ planStatus' = refresh_status(status')
      /\ UNCHANGED <<revision, rowVars, attempts, attempt>>
    BY DEF apply_result
<1>2. planStatus' \in PlanStatus
    BY <1>1, RefreshIsStatus DEF StoreInv
<1>3. attempt' = [attempt EXCEPT ![t] = "running"]
    BY <1>1 DEF StoreInv, AttemptFollowsTask, TypeOK
<1>4. "unfulfillable" \in TaskStatus \ Protected
    BY DEF Protected
<1> QED BY <1>1, <1>2, <1>3, <1>4, TaskStopsKeepsInv DEF apply_unfulfillable

\* A result that asks for dependencies keeps the invariant.
LEMMA NeedsKeepsInv ==
    ASSUME StoreInv, NEW t \in Tasks, NEW keys \in SUBSET Keys,
           apply_result(t, "needs_dependency", keys)
    PROVE  StoreInv'
<1> USE DEF StoreInv, rowVars
<1>1. /\ status[t] = "running" /\ apply_needs_dependency(t, keys)
      /\ planStatus' = refresh_status(status')
      /\ UNCHANGED <<revision, rowVars, attempts, attempt>>
    BY DEF apply_result
<1>2. \A u \in Tasks : status'[u] = IF u = t THEN "waiting_dependency" ELSE status[u]
    BY <1>1 DEF apply_needs_dependency, TypeOK
<1>3. /\ \A u \in Tasks \ {t} : need'[u] = need[u] /\ resolver'[u] = resolver[u]
      /\ \A k \in Keys : need'[t][k] \in {"pending", "none"}
                         /\ resolver'[t][k] = NoResolver
    BY <1>1 DEF apply_needs_dependency, TypeOK
<1>4. TypeOK'
    <2>1. planStatus' \in PlanStatus
        BY <1>1, RefreshIsStatus
    <2>2. status' \in [Tasks -> TaskStatus \cup {"absent"}]
        BY <1>1 DEF apply_needs_dependency, TypeOK
    <2>3. need' \in [Tasks -> [Keys -> RequirementStatus \cup {"none"}]]
        BY <1>1 DEF apply_needs_dependency, TypeOK
    <2>4. resolver' \in [Tasks -> [Keys -> Tasks \cup {User, NoResolver}]]
        BY <1>1 DEF apply_needs_dependency, TypeOK
    <2> QED BY <1>1, <2>1, <2>2, <2>3, <2>4 DEF TypeOK
<1>5. GraphStaysValid'
    BY <1>1, <1>2, GraphKept DEF Existing
<1>6. StartedOnInputs'
    <2> SUFFICES ASSUME NEW u \in Tasks, status'[u] \in Protected
                 PROVE  /\ \A d \in dependsOn[u] : status'[d] = "completed"
                        /\ NeedsResolved(u)'
        BY <1>1 DEF StartedOnInputs, Protected
    <2>1. /\ u # t /\ dependsOn[u] \subseteq Tasks /\ NeedsResolved(u)
          /\ \A d \in dependsOn[u] : status[d] = "completed"
        BY <1>2 DEF StartedOnInputs, TypeOK, Protected
    <2> QED BY <1>1, <1>2, <1>3, <2>1 DEF NeedsResolved
<1>7. ResolvedNeedsHaveSource'
    <2> SUFFICES ASSUME NEW u \in Tasks, NEW k \in Keys
                 PROVE  /\ need'[u][k] = "resolved" <=> resolver'[u][k] # NoResolver
                        /\ resolver'[u][k] \in Tasks =>
                              status'[resolver'[u][k]] = "completed"
        BY DEF ResolvedNeedsHaveSource
    <2>1. CASE u = t
        BY <2>1, <1>3, ResolverAssumption
    <2>2. CASE u # t
        BY <2>2, <1>1, <1>2, <1>3 DEF ResolvedNeedsHaveSource
    <2> QED BY <2>1, <2>2
<1>8. AttemptFollowsTask'
    BY <1>1, <1>2 DEF AttemptFollowsTask
<1> QED BY <1>4, <1>5, <1>6, <1>7, <1>8

\* A completed result, with the needs that it resolves, keeps the invariant.
LEMMA CompletedKeepsInv ==
    ASSUME StoreInv, NEW t \in Tasks, NEW outputs \in SUBSET Keys,
           apply_result(t, "completed", outputs)
    PROVE  StoreInv'
<1> USE DEF StoreInv, rowVars
<1>1. /\ status[t] = "running" /\ apply_completed(t, outputs)
      /\ planStatus' = refresh_status(status')
      /\ UNCHANGED <<revision, rowVars, attempts, attempt>>
    BY DEF apply_result
<1>2. \A u \in Tasks : status'[u] = IF u = t THEN "completed" ELSE status[u]
    BY <1>1 DEF apply_completed, TypeOK
<1>3. \A u \in Tasks, k \in Keys :
        /\ need'[u][k] = IF Resolves(t, outputs, u, k) THEN "resolved" ELSE need[u][k]
        /\ resolver'[u][k] = IF Resolves(t, outputs, u, k) THEN t ELSE resolver[u][k]
    BY <1>1 DEF apply_completed
<1>4. TypeOK'
    <2>1. planStatus' \in PlanStatus
        BY <1>1, RefreshIsStatus
    <2>2. status' \in [Tasks -> TaskStatus \cup {"absent"}]
        BY <1>1 DEF apply_completed, TypeOK
    <2>3. need' \in [Tasks -> [Keys -> RequirementStatus \cup {"none"}]]
        BY <1>1 DEF apply_completed, TypeOK
    <2>4. resolver' \in [Tasks -> [Keys -> Tasks \cup {User, NoResolver}]]
        BY <1>1 DEF apply_completed, TypeOK
    <2> QED BY <1>1, <2>1, <2>2, <2>3, <2>4 DEF TypeOK
<1>5. GraphStaysValid'
    BY <1>1, <1>2, GraphKept DEF Existing
<1>6. StartedOnInputs'
    <2> SUFFICES ASSUME NEW u \in Tasks, status'[u] \in Protected
                 PROVE  /\ \A d \in dependsOn[u] : status'[d] = "completed"
                        /\ NeedsResolved(u)'
        BY <1>1 DEF StartedOnInputs, Protected
    <2>1. /\ dependsOn[u] \subseteq Tasks /\ NeedsResolved(u)
          /\ \A d \in dependsOn[u] : status[d] = "completed"
        BY <1>1, <1>2 DEF StartedOnInputs, TypeOK, Protected
    <2>2. RequiredKeys \subseteq Keys
        BY DEF RequiredKeys
    <2> QED BY <1>1, <1>2, <1>3, <2>1, <2>2 DEF NeedsResolved
<1>7. ResolvedNeedsHaveSource'
    <2> SUFFICES ASSUME NEW u \in Tasks, NEW k \in Keys
                 PROVE  /\ need'[u][k] = "resolved" <=> resolver'[u][k] # NoResolver
                        /\ resolver'[u][k] \in Tasks =>
                              status'[resolver'[u][k]] = "completed"
        BY DEF ResolvedNeedsHaveSource
    <2>1. CASE Resolves(t, outputs, u, k)
        BY <2>1, <1>2, <1>3, ResolverAssumption
    <2>2. CASE ~Resolves(t, outputs, u, k)
        BY <2>2, <1>1, <1>2, <1>3 DEF ResolvedNeedsHaveSource
    <2> QED BY <2>1, <2>2
<1>8. AttemptFollowsTask'
    BY <1>1, <1>2 DEF AttemptFollowsTask
<1> QED BY <1>4, <1>5, <1>6, <1>7, <1>8

\* Tasks that wait become pending; at most a user's need is resolved.
LEMMA ResumeKeepsInv ==
    ASSUME StoreInv, resume_waiting_tasks
    PROVE  StoreInv'
<1> USE DEF StoreInv, rowVars, resume_waiting_tasks
<1>1. \A u \in Tasks : /\ u \in Waiting => status[u] \notin Protected \cup {"absent"}
                       /\ status'[u] = IF u \in Waiting THEN "pending" ELSE status[u]
    BY DEF Waiting, Protected
<1>2. TypeOK'
    BY DEF TypeOK
<1>3. GraphStaysValid'
    BY <1>1, GraphKept DEF Existing
<1>4. StartedOnInputs'
    <2> SUFFICES ASSUME NEW u \in Tasks, status'[u] \in Protected
                 PROVE  /\ \A d \in dependsOn[u] : status'[d] = "completed"
                        /\ NeedsResolved(u)
        BY DEF StartedOnInputs, Protected, NeedsResolved
    <2>1. /\ dependsOn[u] \subseteq Tasks /\ NeedsResolved(u)
          /\ \A d \in dependsOn[u] : status[d] = "completed"
        BY <1>1 DEF StartedOnInputs, TypeOK, Protected
    <2> QED BY <1>1, <2>1 DEF Protected
<1>5. ResolvedNeedsHaveSource'
    BY <1>1 DEF ResolvedNeedsHaveSource, Protected
<1>6. AttemptFollowsTask'
    BY <1>1 DEF AttemptFollowsTask
<1> QED BY <1>2, <1>3, <1>4, <1>5, <1>6

\* resolve_waiting_need keeps the invariant.
LEMMA AnswerKeepsInv ==
    ASSUME StoreInv, NEW t \in Tasks, NEW k \in Keys, resolve_waiting_need(t, k)
    PROVE  StoreInv'
<1> USE DEF StoreInv, rowVars, resolve_waiting_need
<1>1. \A u \in Tasks : \/ status'[u] = status[u]
                       \/ /\ u = t /\ status'[u] = "pending"
                          /\ status[u] \in {"waiting_dependency", "waiting_user"}
    BY DEF TypeOK
<1>2. \A u \in Tasks, j \in Keys :
        IF u = t /\ j = k THEN need'[u][j] = "resolved" /\ resolver'[u][j] = User
        ELSE need'[u][j] = need[u][j] /\ resolver'[u][j] = resolver[u][j]
    BY DEF TypeOK
<1>3. TypeOK'
    <2>1. status' \in [Tasks -> TaskStatus \cup {"absent"}]
        BY DEF TypeOK
    <2>2. need' \in [Tasks -> [Keys -> RequirementStatus \cup {"none"}]]
        BY DEF TypeOK
    <2>3. resolver' \in [Tasks -> [Keys -> Tasks \cup {User, NoResolver}]]
        BY DEF TypeOK
    <2> QED BY <2>1, <2>2, <2>3 DEF TypeOK
<1>4. GraphStaysValid'
    BY <1>1, GraphKept DEF Existing
<1>5. StartedOnInputs'
    <2> SUFFICES ASSUME NEW u \in Tasks, status'[u] \in Protected
                 PROVE  /\ \A d \in dependsOn[u] : status'[d] = "completed"
                        /\ NeedsResolved(u)'
        BY DEF StartedOnInputs, Protected
    <2>1. /\ dependsOn[u] \subseteq Tasks /\ NeedsResolved(u)
          /\ \A d \in dependsOn[u] : status[d] = "completed"
        BY <1>1 DEF StartedOnInputs, TypeOK, Protected
    <2>2. RequiredKeys \subseteq Keys
        BY DEF RequiredKeys
    <2> QED BY <1>1, <1>2, <2>1, <2>2 DEF NeedsResolved
<1>6. ResolvedNeedsHaveSource'
    <2> SUFFICES ASSUME NEW u \in Tasks, NEW j \in Keys
                 PROVE  /\ need'[u][j] = "resolved" <=> resolver'[u][j] # NoResolver
                        /\ resolver'[u][j] \in Tasks =>
                              status'[resolver'[u][j]] = "completed"
        BY DEF ResolvedNeedsHaveSource
    <2>1. CASE u = t /\ j = k
        BY <2>1, <1>2, ResolverAssumption
    <2>2. CASE ~(u = t /\ j = k)
        BY <2>2, <1>1, <1>2 DEF ResolvedNeedsHaveSource
    <2> QED BY <2>1, <2>2
<1>7. AttemptFollowsTask'
    BY <1>1 DEF AttemptFollowsTask
<1> QED BY <1>3, <1>4, <1>5, <1>6, <1>7

-----------------------------------------------------------------------------

\* The empty draft plan satisfies the invariant.
LEMMA StoreInitial == Init => StoreInv
<1> SUFFICES ASSUME Init PROVE StoreInv
    OBVIOUS
<1> USE DEF Init
<1>1. TypeOK
    BY DEF TypeOK
<1>2. GraphStaysValid
    <2>1. Existing = {}
        BY DEF Existing
    <2> QED BY <2>1 DEF GraphStaysValid, validate_task_graph, NoSelfDependency,
                        Closed, Acyclic
<1>3. StartedOnInputs /\ ResolvedNeedsHaveSource /\ AttemptFollowsTask
    BY ResolverAssumption DEF StartedOnInputs, ResolvedNeedsHaveSource,
                              AttemptFollowsTask, Protected
<1> QED BY <1>1, <1>2, <1>3 DEF StoreInv

\* Claims, results, failures and pauses keep the invariant.
LEMMA WorkingKeepsInv ==
    ASSUME StoreInv, Working
    PROVE  StoreInv'
<1>1. PICK t \in Tasks :
        \/ claim_ready(t)
        \/ \E outcome \in {"completed", "needs_dependency", "unfulfillable"},
              keys \in SUBSET Keys : apply_result(t, outcome, keys)
        \/ /\ status[t] = "running"
           /\ \/ \E retryable, timedOut \in BOOLEAN : record_failure(t, retryable, timedOut)
              \/ pause_task_for_confirmation(t)
    BY DEF Working
<1>2. CASE \E outcome \in {"completed", "needs_dependency", "unfulfillable"},
              keys \in SUBSET Keys : apply_result(t, outcome, keys)
    BY <1>2, CompletedKeepsInv, NeedsKeepsInv, UnfulfillableKeepsInv
<1> QED BY <1>1, <1>2, ClaimKeepsInv, FailureKeepsInv, ConfirmationKeepsInv

\* The three methods that resume a plan keep the invariant.
LEMMA ResumingKeepsInv ==
    ASSUME StoreInv, Resuming
    PROVE  StoreInv'
<1>1. CASE resume_planner_pause
    BY <1>1, PlanOnlyKeepsInv DEF resume_planner_pause
<1> QED BY <1>1, ResumeKeepsInv, AnswerKeepsInv DEF Resuming

\* The invariant of the store is inductive.
LEMMA StoreInductive == StoreInv /\ [Next]_storeVars => StoreInv'
<1> SUFFICES ASSUME StoreInv, [Next]_storeVars PROVE StoreInv'
    OBVIOUS
<1>1. CASE Patching
    BY <1>1, PatchesOK, PatchKeepsInv DEF Patching
<1>2. CASE mark_failed
    BY <1>2, PlanOnlyKeepsInv DEF mark_failed
<1>3. CASE UNCHANGED storeVars
    BY <1>3, PlanOnlyKeepsInv DEF storeVars, StoreInv, TypeOK
<1> QED BY <1>1, <1>2, <1>3, WorkingKeepsInv, ResumingKeepsInv DEF Next

\* The inductive invariant holds in every reachable store.
LEMMA StoreInvariance == Spec => []StoreInv
BY StoreInitial, StoreInductive, PTL DEF Spec

\* Every column of the store keeps its type, under every use of its methods.
THEOREM StoreTypes == Spec => []TypeOK
<1>1. StoreInv => TypeOK
    BY DEF StoreInv
<1> QED BY <1>1, StoreInvariance, PTL

\* No sequence of patches leaves a dangling or circular dependency among the
\* persisted tasks.
THEOREM StoreGraphValid == Spec => []GraphStaysValid
<1>1. StoreInv => GraphStaysValid
    BY DEF StoreInv
<1> QED BY <1>1, StoreInvariance, PTL

\* A task that runs or has completed has all its inputs, for good.
THEOREM StoreStartsOnInputs == Spec => []StartedOnInputs
<1>1. StoreInv => StartedOnInputs
    BY DEF StoreInv
<1> QED BY <1>1, StoreInvariance, PTL

\* A resolved need names the user or a task that has completed.
THEOREM StoreNeedSources == Spec => []ResolvedNeedsHaveSource
<1>1. StoreInv => ResolvedNeedsHaveSource
    BY DEF StoreInv
<1> QED BY <1>1, StoreInvariance, PTL

\* The attempt rows agree with the tasks that run, have failed, wait for a retry
\* or for the user, or were never claimed.
THEOREM StoreAttempts == Spec => []AttemptFollowsTask
<1>1. StoreInv => AttemptFollowsTask
    BY DEF StoreInv
<1> QED BY <1>1, StoreInvariance, PTL

\* Open tasks of a valid graph are not all held up by open tasks: the one that
\* has no dependency among them is ready, or waits for something else.
THEOREM StoreNoMutualWait == Spec => []NoMutualWait
<1>1. StoreInv => NoMutualWait
    <2> SUFFICES ASSUME StoreInv, Open # {}, \A t \in Open : ~task_is_ready(t) /\ NeedsResolved(t)
                 PROVE  \E t \in Open : \E d \in dependsOn[t] :
                            status[d] \in TaskStatus \ {"pending", "ready", "completed"}
        BY DEF NoMutualWait
    <2>1. Open \subseteq Existing
        BY DEF Open, Existing
    <2>2. PICK t \in Open : dependsOn[t] \cap Open = {}
        BY <2>1 DEF StoreInv, GraphStaysValid, validate_task_graph, Acyclic
    <2>3. PICK d \in dependsOn[t] : status[d] # "completed"
        BY DEF task_is_ready, Open
    <2>4. d \in Existing /\ d \notin Open
        BY <2>1, <2>2, <2>3 DEF StoreInv, GraphStaysValid, validate_task_graph, Closed
    <2>5. status[d] \in TaskStatus \ {"pending", "ready", "completed"}
        BY <2>3, <2>4 DEF StoreInv, TypeOK, Existing, Open
    <2> QED BY <2>5
<1> QED BY <1>1, StoreInvariance, PTL

\* apply_patch leaves the record of completed tasks as it is.
LEMMA PatchKeepsHistory ==
    ASSUME StoreInv, NEW p, PatchOK(p), apply_patch(p, revision)
    PROVE  HistoryKept
<1> SUFFICES ASSUME NEW t \in Tasks, status[t] = "completed"
             PROVE  /\ status'[t] = "completed"
                    /\ dependsOn'[t] = dependsOn[t]
                    /\ expectedOutputs'[t] = expectedOutputs[t]
                    /\ attempts'[t] = attempts[t]
    BY DEF HistoryKept, apply_patch
<1>1. t \notin p.ids /\ t \notin p.remove /\ status'[t] = "completed"
    BY PatchedTask DEF StoreInv, Protected
<1> QED BY <1>1 DEF apply_patch, CombinedDeps

\* So does every step of the store.
LEMMA StepKeepsHistory == StoreInv /\ [Next]_storeVars => [HistoryKept]_storeVars
<1> SUFFICES ASSUME StoreInv, Next PROVE HistoryKept
    OBVIOUS
<1> USE DEF HistoryKept, rowVars, TerminalTaskStatuses
<1>1. TypeOK
    BY DEF StoreInv
<1>2. CASE Patching
    BY <1>2, PatchesOK, PatchKeepsHistory DEF Patching
<1>3. CASE mark_failed
    BY <1>3 DEF mark_failed
<1>4. CASE Working
    <2>1. PICK t \in Tasks :
            \/ claim_ready(t)
            \/ \E outcome \in {"completed", "needs_dependency", "unfulfillable"},
                  keys \in SUBSET Keys : apply_result(t, outcome, keys)
            \/ /\ status[t] = "running"
               /\ \/ \E retryable, timedOut \in BOOLEAN : record_failure(t, retryable, timedOut)
                  \/ pause_task_for_confirmation(t)
        BY <1>4 DEF Working
    <2>2. CASE claim_ready(t)
        <3>1. status[t] \notin TerminalTaskStatuses
            BY <2>2 DEF claim_ready, ClaimedFirst, task_is_ready
        <3> QED BY <1>1, <2>2, <3>1 DEF claim_ready, TypeOK
    <2>3. CASE \E outcome \in {"completed", "needs_dependency", "unfulfillable"},
                  keys \in SUBSET Keys : apply_result(t, outcome, keys)
        BY <1>1, <2>3 DEF apply_result, apply_completed, apply_needs_dependency,
                          apply_unfulfillable, TypeOK
    <2>4. CASE /\ status[t] = "running"
               /\ \E retryable, timedOut \in BOOLEAN : record_failure(t, retryable, timedOut)
        BY <1>1, <2>4 DEF record_failure, TypeOK
    <2>5. CASE status[t] = "running" /\ pause_task_for_confirmation(t)
        BY <1>1, <2>5 DEF pause_task_for_confirmation, TypeOK
    <2> QED BY <2>1, <2>2, <2>3, <2>4, <2>5
<1>5. CASE Resuming
    <2>1. CASE resume_waiting_tasks
        BY <2>1 DEF resume_waiting_tasks, Waiting
    <2>2. CASE \E t \in Tasks, k \in Keys : resolve_waiting_need(t, k)
        BY <1>1, <2>2 DEF resolve_waiting_need, TypeOK
    <2>3. CASE resume_planner_pause
        BY <2>3 DEF resume_planner_pause
    <2> QED BY <1>5, <2>1, <2>2, <2>3 DEF Resuming
<1> QED BY <1>2, <1>3, <1>4, <1>5 DEF Next

\* No method rewrites the record of a completed task, and only a patch takes
\* up a task that ended otherwise.
THEOREM StoreHistory == Spec => CompletedIsHistory
<1>1. StoreInv /\ [Next]_storeVars => [HistoryKept]_storeVars
    BY StepKeepsHistory
<1> QED BY <1>1, StoreInvariance, PTL DEF Spec, CompletedIsHistory
==============================================================================
