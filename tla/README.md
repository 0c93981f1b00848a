# Verification of ml-portal

ml-portal is a portal for LLM agents: users chat with agents that plan and carry out tasks with
tools, over documents and tables that the portal ingests and indexes. This directory holds TLA+
models of the parts of its backend (`src/apps/api/src/app/`, paths below are relative to it) whose
correctness rests on protocols rather than on data conversion, the TLC runs that check them on small
instances, and TLAPS proofs for every size.

`PROJECT.json` maps every definition to the lines it models, and lists the runs, the mutants that
show that each property can fail, the findings, the hazards and the theorems.

## 1. Inventory

| Component | State | Operations | Hard behaviour | What makes it correct |
|---|---|---|---|---|
| **Execution graph store** `runtime/plan_store.py` | plan, task, dependency, need and attempt rows | patch, claim, result, failure, pause, three kinds of resume | long sequences of legal patches and results | the graph stays closed and acyclic, tasks start on inputs, history is kept |
| **Graph orchestrator** `runtime/orchestrator.py`, `runtime/stages/graph_planning_stage.py` | the loop, the claimed task, budget counters | plan, claim, execute, replan, pause, resume | arbitrary LLM answers, exceptions between two writes, budgets at their limit | every run ends, nothing is left half executed, budgets are paid once |
| **RAG ingest** `services/rag_status_manager.py`, `workers/tasks_rag_ingest/` | status row per stage, aggregate, Celery messages, Redis locks and cached results, artifacts | start, stop, stop all, retry, delete, clean up; extract, normalize, chunk, embed and index tasks | uncommitted and stale reads, redelivery, lost workers, expiring locks, failures that are only logged | completed stages have their inputs, ready documents are indexed, removed files stay away, everything settles |
| **Chat turns** `services/chat_turn_*.py`, `chat_stream_service.py`, `core/idempotency.py` | turn rows, cached responses, messages | send, pause, resume, complete, fail, cancel | two requests with one key, a closed stream, columns that are flushed and not committed | one run per turn, one answer per key, nothing told before it is stored |
| **Sandbox runs** `services/sandbox/`, `api/v1/routers/sandbox/runs.py` | run rows, runner tasks per process | run, pause, resume, cancel, sweep of stale runs | checks separated from writes by awaits, signals that are lost or late | a run has one runner, completion follows its effects |
| **Agent tool loop** `agents/runtime/agent.py`, `tools.py`, `agents/operation_executor.py` | messages, tool ledger, in-memory budget | LLM call, tool call, reuse, confirmation gate | limits, repeated calls, pauses inside a loop | no operation without its gate or confirmation, the loop ends |
| **Confirmation tokens** `agents/runtime/confirmation.py` | used nonces in Redis or in the process | issue, verify, consume | Redis failing in between, a full fallback store | a token is used once |
| **Memory** `runtime/memory/`, `workers/tasks_memory.py` | facts, terms, their observations; summaries | extract, reconcile, compact, edit | tasks of several runs, retried and delivered again | facts are confirmed on distinct sources, none is counted or kept twice |
| Runtime pipeline `runtime/pipeline.py` | one turn of an agent | memory, planning, finalization | partial failure of a turn | what was written back matches the outcome reported |
| Collections `services/collection/` | tables, schemas, vectorization status | DDL, rows, vectorize | schema change during vectorization | vectors follow rows |
| Resilience `core/circuit_breaker.py`, `core/resilience.py` | breaker state, counters | admit, report | concurrent and cancelled calls | an open breaker closes only after a probe, and some probe always gets through |
| RAG upload, reindex, audit | artifacts, vectors | upload, reindex, audit | reindexing during an ingest | vectors follow documents |
| Health, periodic tasks, administration, authorization, event streams, templates, embedding and rerank services, MCP servers, web client | configuration rows or none | CRUD, probes, conversion | little protocol state | outside the scope of these models |

The components in bold are modelled, some of them in part; section 6 says what is left out.

How they interact: a chat or sandbox request opens a stream, which runs the pipeline; its planning
stage enters the orchestrator with the plan of the run; the orchestrator calls the planner (an LLM)
and the agent executor (the tool loop), and writes every decision through the plan store. A pause
ends the stream and is stored in the turn and in the plan; the user's answer opens a new stream on
the same plan, with a token if an operation was confirmed. When a run has finished, a Celery task
writes what it has shown to the memory. Ingest is separate: HTTP handlers write status rows and send
Celery messages; worker processes run the stages and write the rows; agents later search what was
indexed.

`PROJECT.json` lists under `hazards` what is hard to test in this code, each with the properties
that cover it, or with the reason why none does.

## 2. Modules

```
StoreBeforeTell ------------- the promise of a streaming endpoint
PausableRun ----------------- a run that pauses and is taken up by a later request
  ChatTurn ------------------ requests, sessions, turn rows, idempotency keys; implements both
  |     ChatTurnProofs
  |   ChatClaims              what the code says and does not do
  SandboxRun ---------------- one sandbox run and its runner tasks; implements PausableRun
        SandboxRunProofs

TaskGraph ------------------- which task graphs validate_task_graph accepts
  |  \
  |   TaskGraphSearch ------- the depth-first search that decides it
  |       TaskGraphSearchProofs
  PlanStore ----------------- SqlPlanStore, one action per method
  |  |  MCPlanStore           counters bounded for TLC
  |  PlanStoreProofs
  GraphOrchestrator --------- one run, calling the actions of PlanStore
  |     GraphOrchestratorProofs
  DocumentedClaims            what comments say and the code does not do

ToolLoop -------------------- the loop of one task, its gates and tokens
      ToolLoopProofs

MemoryFacts ----------------- facts, terms, the tasks and edits that write them
      MCMemoryFacts           symmetry for TLC
      MemoryFactsProofs

RagIngest ------------------- the ingest and the deletion of one document
  |     MCRagIngest           symmetry for TLC
  |     RagIngestProofs
  RagClaims                   what comments say and the code does not do
```

The layers are tied together by what they assume of each other. `GraphOrchestrator` works on a plan
alone; that no second stream executes the same turn, and so the same plan, is `TurnsArePausable` of
`ChatTurn`, which also says when it fails. `ChatTurn` and `SandboxRun` in turn take from
`EveryRunEnds` that the pipeline they await ends, and `GraphOrchestrator` takes from `ExecutionEnds`
of `ToolLoop` that the executor answers.

### ChatTurn and StoreBeforeTell

`StoreBeforeTell` is the abstract specification of a streaming endpoint: transactions store, events
tell, and an event names only what an earlier transaction has stored. It matters because the client
comes back with what it was told, in a request that sees only what is stored.

`PausableRun` is the abstract specification that chat turns and sandbox runs share, although neither
their code nor their tables do: the run is opened once, has one holder at a time, is taken up only
from a pause, is settled by its holder in the step that lets go, and stays over. Nothing locks a run
in either implementation, so the promise is off (`disturbed`) once one of their unlocked checks has
failed it. `Turn(t)` maps the row of a turn and the requests that execute it or have read its pause;
for a sandbox run the holders are requests and runner tasks.

`ChatTurn` models the requests that send a message or resume a paused run. `row` are the durable
columns of `chat_turns`, and `flushed` the columns that a request's session has flushed: a commit of
that session, by whichever service, makes all of them durable, and a session that closes without one
loses them (`get_db`). So `create_user_message` commits the turn that `start_turn` has flushed, and
`complete_turn`, after which nothing commits, is lost. The idempotency checks are reads without a
lock, in the database and then in Redis, whose failures let the request go on. `raced` records the
keys and turns for which two requests passed the same check before either was durable: the
properties hold outside these races, and the code does nothing against them. `Abandon` closes a
stream at any point: the client disconnects, the process stops, a statement fails, or one of the
early returns is taken. Attachments and texts are left out; a request hash stands for a body.

### SandboxRun

The row of one run is written by requests and by runner tasks, in sessions of their own and without
a lock. A runner executes one segment (from a start or a resume to the next pause or the end):
`load`, the pipeline's events, `Done`, `_persist_terminal`, `task_done`. `EffectsBeforeCompletion`
speaks of the sessions: the effects of a segment are committed before the run is marked
complete. A cancellation reaches a runner as `task.cancel` in its own process or through Redis in
another (`signals`), late or never. Two resumes may read one pause (`raced`), `fail_stale_runs` may
fail a run that still works, and a cancellation may write over an outcome that was stored after it had
read the status (`overwritten` records these two). `RunIsPausable`,
`OneRunner` and `SettledIsQuiet` say that nothing else makes two runners, a runner that outlives its
run's end, or an ended run that comes back.

### TaskGraph and TaskGraphSearch

`validate_task_graph` refuses self-dependencies, dependencies on unknown tasks and cycles. `TaskGraph`
defines the verdict without an algorithm: every non-empty set of tasks has a member that depends on
none of them. `TaskGraphSearch` is the recursive `visit`: the stack of open calls, what each open
loop has still to visit, and the sets `visiting` and `visited`. Python iterates over sets and over
rows without an order, so the next element is always a choice.

### PlanStore

The variables are the columns of `models/runtime_plan.py`; a task without a row has status `absent`.
Dependency rows outlive the removal of their task, as in the code. Each action is one public method:
`apply_patch` (with the validation of the combined graph, the refusals, and the rows that it
replaces), `claim_ready` (the first ready task by planned order and id), `apply_result` in its three
outcomes with the needs that it resolves and `_refresh_status`, `record_failure`,
`pause_task_for_confirmation`, `resume_waiting_tasks`, `resolve_waiting_need`,
`resume_planner_pause`, `mark_failed`. Each is one step because the run that owns the plan calls them
one after the other, not because of locks: the patch locks the plan's row first, most others only at
their end, and the claim never. A method that raises changes nothing and is no step. `Next` allows any order of calls that the
callers' own checks allow, which is more than the orchestrator does. Texts, inputs and values are
left out; a key stands for a need and for an output of that name.

A patch that redefines a task with needs is refused: the code copies the needs as plain dictionaries
and then reads an attribute of them (`InheritsNeeds`).

### GraphOrchestrator

`pc` is the position in `GraphOrchestrator.run`: entry, planner call, resolver check, loop, task
execution, end. Planner and executor return anything that their contracts accept: every patch over
the tasks, every set of outputs or needs, or an exception. The stage around the generator
translates the plan's status to an outcome and handles the resumes. Budget counters are consumed
where the code consumes them, before the patch and after the claim, and exceptions that leave the
generator end in the outcome `raised` with the rows as they are at that moment. The limit of attempts
per task is the attempt budget of the run, because the stage copies one into the other. The loop guard is
the revision limit, as `pipeline.py` passes it.

One run works on a plan at a time. Two resumes of one turn would make two; what lets the second one
in is part of `ChatTurn`.

### ToolLoop

One execution is the loop of `AgentToolRuntime` for one task: ask the model, make the calls of its
answer, ask again, with every limit of the policy and every way out. A segment is what a chat request
executes: several tasks in a row, which share the ledger of results and the request's tokens. The
model answers anything: no call, unknown operations, several calls at once. In front of an operation
are the gate that `collection.info` opens, the confirmation, and the reuse of an earlier result. A
token is issued when the user confirms, expires, and is consumed in Redis or, when Redis fails, in
the process's capped store. `confirmed_runs` counts, per operation, the runs that needed a
confirmation, and is compared with the confirmations of that operation. An answer of
`collection.info` activates the operations that it lists in `invoke_as`, any subset of the
collection's, and none when it names another collection. The ledger keeps the answer (`listed`,
`foreign`), or a shortened preview that lists nothing and names no collection; a later task that
reuses it opens and activates what the stored answer says. `shown` remembers what was ever listed in
the segment, and `ActiveAsReturned` compares the active operations with both. Arguments are left out, so two calls of an operation are the same call;
there is one collection.

### MemoryFacts

A task works in one READ COMMITTED transaction that keeps its inserts (`draft`), updates (`saved`)
and observations (`observed`) to itself. It finds the row of a candidate without a lock, and later
writes absolute values; an update holds its row to the end of the transaction. What LLM calls
extract is any candidate with the run's evidence. A task that fails is retried, a lost worker's
message is delivered again, and users and administrators edit rows in between, each edit a short
transaction. A unique violation or a deadlock ends an attempt like any other failure. One owner per
scope; texts, aliases and the catalogue of projects are left out. `raced` records the facts on which
two tasks worked at the same time. A unique index on terms of a user's scope is left out, which allows
more than the code does. A row is always read with its committed columns; a session that still holds
the object of an earlier candidate may return older ones (`fact_reconciler.py:112`), which matters for
two candidates of one fact in a row. The run has one candidate per attempt; the theorems are about the model
as it stands.

### RagIngest

One document with its stages extract, normalize, chunk, and embed and index per model.

* *Rows and transactions.* `status` and `agg` are committed columns. A task's transaction
  opens with `set_processing`, which flushes and does not commit, and ends with the commit of the
  completed or failed stage; a handler's transaction (`open`) is committed by `db_uow` after the
  handler has returned and after the Celery messages have been sent. Every transition also updates
  the document's row, whose lock admits one writing transaction (`DocumentLocked`).
* *Stale reads.* What a transition validates, cascades to and aggregates is read before locks are
  awaited. `request.seen` and `worker[w].seen` are those reads; `Overwrite` writes their consequences
  over whatever is there when the lock is granted. `ReadRows` and `ReadToFail` are the re-reads on the
  way, at any moment of the wait; this allows at least what the row locks allow.
* *Tasks.* A message carries the result of the stage before it, or, when a stage was retried alone,
  none. It is taken by any idle worker; the Redis lock of an embed or index stage is taken, or refused
  after five seconds (`LockTimeout`); the row accepts `processing` or the task is refused and notifies
  its error in a session of its own. `Load` reads the inputs and `Finish` writes the output and
  commits; `already_processed` takes the result from the cache; `Break` is an exception before the
  stage is marked completed, possibly after its output was written, `Raise` and `FailCommit` one after
  it; `Continue` releases the Redis lock and passes the chain on, unless the lock has expired, when
  releasing it raises.
* *Outputs.* `stored` are the objects in S3 and the vectors, `recorded` what the database knows of
  them, `cached` the results in Redis, which are saved before the commit and under a key that does not
  change when the stage is run again. An upload or download that fails without an exception sets
  `dropped`; rows of chunks that are rolled back under a cached result set `lost`. Properties that do
  not survive these say so.
* *Deletion.* The handler deletes the rows and sends the clean-up before its commit. The clean-up
  lists the document's files, removes what it has listed, and then removes the vectors. A task that
  is taken afterwards is not refused: without a row, `set_processing` does nothing, and the stage runs on
  what it finds, without the document's lock.
* *Faults.* A worker is lost in any phase and its message is delivered again, with its Redis lock
  left behind (`Crash`); a lock expires under its owner (`Expire`); a task waits for a lock of its own
  transaction until its time limit (`Hang`, `TimeLimit`); an API process is lost between dispatch and
  commit (`LoseTransaction`).

Abstractions: one handler waits at a time; the row locks are merged into the document's, so that a
deadlock between a cascade and a waiting handler, which PostgreSQL ends by aborting one of them, does
not appear apart from the failures it leads to; the tenant has at least one embedding model
(`ModelsAssumption`); the time limit strikes only tasks that are stuck; the clean-up removes all that it
has listed or fails as a whole. The archive flag, versions of an output, the deletion of a whole
collection, the periodic recomputation of aggregates, and the Celery task ids of the rows (with the
revocation that uses them) are left out. Batch reindexing and `RAGIngestService` call the same
`start_ingest` and `retry_stage`.

## 3. Runs

| Run | Instance | Shows |
|---|---|---|
| `chat_turn` | 3 requests, 2 of which may start turns, 1 key, 2 bodies | `ToldIsStored` (it implements `StoreBeforeTell`), `OneAnswerPerKey`, `OnePayloadPerKey`, `TurnsArePausable` (every turn implements `PausableRun`), `FailureLeavesMessage`, `PhasesAreValid`, `EveryRequestEnds` |
| `sandbox_run` | 4 requests, 2 processes | `EffectsBeforeCompletion`, `SettledIsQuiet`, `RunIsPausable` (it implements `PausableRun`), `RunnersEnd` |
| `plan_store` | 2 tasks, 1 key, 2 attempts, at most 3 patches, 2 claims per task | `GraphStaysValid`, `StartedOnInputs`, `ResolvedNeedsHaveSource`, `AttemptFollowsTask`, `NoMutualWait`, `CompletedIsHistory` under every order of calls |
| `task_graph_search` | every graph over 4 ids, unknown ids included | `VerdictIsRight` and `SearchEnds` in every iteration order |
| `orchestrator_run` | 2 tasks, 1 key, 2 attempts, 3 revisions | `RunningOnlyWhileExecuting`, `FailureExhaustsRun`, `PauseKindMatchesPlan`, `RevisionsPaidOnce`, `EveryRunEnds`, and that every run is a behaviour of the store's `Spec` |
| `tool_loop` | 3 operations (one opens the collection, two are confirmed, one of these belongs to it), 3 model calls, 2 calls, 1 retry, 2 tokens, 3 executions, a fallback store of 1 | types with the limits of the policy (retries excepted), `GateHolds`, `ActiveAsReturned`, `FinalRestsOnCalls`, `RunsAreConfirmed`, `ExecutionEnds` |
| `memory_facts` | 3 subjects, 2 sources, 2 tasks, support 2, 1 retry, 2 rows, 1 lost worker, 1 edit | `ConfirmedIsSupported`, `SupportCountsSources`, `OneRowPerFact` |
| `rag_ingest` | 1 model, 2 workers, 2 handler calls, 1 lost process | `CompletedHasInputs`, `CleanedStaysClean`, `TasksAdvance`, `IngestSettles` |
| `rag_models` | 2 models, 2 workers, 2 handler calls | `ReadyIsIndexed`, `OneModelFailsAlone` |

Bounds. Three requests give two sends with one key and a resume, or a paused turn and two resumes that
read it together. Four sandbox requests give a start, two overlapping resumes and a cancellation; a
second process gives a runner that the cancelling process does not know. Two tasks and one key suffice for a
consumer and a producer, for a redefinition against a removal, and for a need whose source completes
before or after it is asked; three patches allow create, redefine and remove. Graphs are searched over
four ids, so that cycles of every shape up to length four, diamonds and dangling edges occur; the
store itself is checked on small graphs and proved for all. In the tool loop every limit is met within
one execution; two tokens and a third execution give a token that is presented again after its use, its
expiry, or its loss from the full fallback store. Two memory tasks on two rows race for one fact, or
lose one row to an edit; the support is lowered to 2 so that it is reached. Two workers give two tasks
of one stage, the second delivered or dispatched while the first runs; two handler calls give a start
that is then stopped, retried or deleted at any moment. The invariants of all these runs are also
proved without bounds, and the type invariants that a run does not list are proved as well.

Symmetry is used for models and workers (`MCRagIngest`) and for sources and tasks (`MCMemoryFacts`), in
runs without liveness properties. Deadlock checking is off: a run that has ended, a verdict that was
given, a document whose messages are consumed and a chat to which nobody writes may stop.

Three further runs state what a comment or docstring says, and are expected to be violated
by what the code does; the lines are quoted in `PROJECT.json` under `findings`:

| Run | Said | Done |
|---|---|---|
| `claim_answer` | an answered need reactivates its task | the second resume call raises, because the first one has made the plan active |
| `claim_rag_rerun` | a restarted document is accepted by its worker | the message may arrive before the commit: extract stays queued with no message |
| `claim_chat_completed` | the row is the persistent record of a turn | completion is flushed and never committed: the row of an answered turn stays `started` |

Other behaviour that the models show and that a reader of the code may not expect:

* the orchestrator's loop guard counts claimed tasks, so it limits the number of tasks
  (`runtime/orchestrator.py:436`); no patch can connect a producer to a waiting task
  (`runtime/plan_store.py:554`); a task in `waiting_retry` is never claimed (`runtime/plan_store.py:695`);
  the attempt row of a completed, unfulfillable or `waiting_dependency` task stays `running`, because
  `AttemptStatus.SUCCEEDED` is written nowhere (`runtime/orchestrator.py:670` only emits an event);
* `processing` is never committed: `set_processing` flushes, and the transaction ends with the completed
  or failed stage. `AGENT_CODEBASE_REMEDIATION.md:148` says that "`run_stage` persists
  `processing/done/error` stage state", `docs/GLOSSARY.md:59` lists it among the statuses, and the guards
  at `stream.py:416` and `stream.py:525`, with the unit test `test_ingest_guards.py:91`, refuse a start or a
  retry while it is shown. They never meet it: a start or a retry is accepted beside a working task,
  in the model too;
* a request that repeats the key of a paused turn is let through
  (`services/chat_stream_service.py:133`): both turns may be answered, without any overlap of checks;
* `retry_count` may pass `max_retries`: it is compared after an error of the transport only, and an
  answer without calls or with unknown operations adds to it unchecked
  (`agents/runtime/agent.py:751`, `817`);
* a shortened `collection.info` in the ledger opens a collection for a later task and activates nothing
  (`agents/runtime/agent.py:1134`); operations are activated by `op.operation`
  (`agents/runtime/agent.py:1236`), while `test_agent_runtime_retry_instruction.py:34` gives
  `invoke_as` the slug and expects it to be active;
* a stop that waited for a task's commit overwrites completed with cancelled
  (`services/rag_status_manager.py:169`);
* a sandbox cancellation that read `running` overwrites a pause that was stored meanwhile with
  `cancelling`, and no runner is there to end it (`api/v1/routers/sandbox/runs.py`, `run_manager.py:149`);
* two tasks that work on one fact lose support or make a second row; a forgotten fact comes back with
  a task that had read it; `_supersede_targets` never supersedes, because `_dto` does not copy the row's id
  (`runtime/memory/fact_reconciler.py:329`);
* a document may be ready without vectors after rows of chunks were rolled back under a cached
  result, or after S3 failed silently; a stage may wait for its own transaction until its time limit
  (`workers/tasks_rag_ingest/stage_context.py:304`); the clean-up may run although the deletion is not
  committed, which leaves a ready document without artifacts; tasks of a deleted document run on.

## 4. Fairness

* `ChatSpec`: weak fairness of what the server does for each request, a coroutine of its own. Nothing
  makes a client send or resume.
* `SandboxSpec`: weak fairness of each runner task, a coroutine of a running event loop; a lost
  process takes its runner with it, which ends it too. None is assumed of requests: runners end even
  if every request stops half-way.
* `OrchSpec`: weak fairness of the run's own steps. The loop is a single coroutine, and planner and
  executor calls have timeouts whose expiry is one of their answers. Nothing makes the user answer:
  `EveryRunEnds` speaks of each entry of the stage, and after a pause there may be no other.
* `LoopSpec`: weak fairness of the loop's steps, for the same reason.
* `SearchSpec`: weak fairness of the search, which is synchronous code.
* `MemorySpec` states safety only, and no fairness.
* `RagFairSpec`: handlers and the clean-up end, and every worker keeps taking messages and ending its
  tasks, which Celery does as long as the process lives; a lost process is `Crash`, and a stuck task is
  ended by its time limit. No fairness is assumed of `Expire`: a task that meets a lock that nobody
  releases gives up after five seconds by `LockTimeout`. Nothing obliges a handler to be called or a
  process to be lost.

## 5. Proofs

All theorems hold for every value of the constants that the named assumptions allow.

* `ChatTurnProofs`: the base of the invariant is what each position of a request implies for its
  session and its turn (`FunInv`, `RowInv`, `PcInv`), in particular that a row is absent or complete and
  that flushed columns name durable messages only. On it rest `PhaseInv` (the phase at each
  position), `StoreInv` (what is about to be told is stored), `SegmentInv` (a turn that is executed is
  not paused, so that only resumes that read one pause share it), `KeyInv` (unless a key was raced for, at
  most one request with it is past the check and not durable, and durable turns with it have one body)
  `AnswerInv` (the row of an answered turn stays `started`, which keeps later requests with its key
  out) and `PauseInv` (a turn that is paused, or that another request works on, was paused): together
  they say that an answered turn of a key is followed by another only after a pause. `ChatTold` is the refinement of `StoreBeforeTell`, and `ChatTurnsArePausable` that of
  `PausableRun`, by every turn: `SegmentInv` is what makes the holders of an undisturbed turn one, and
  each kind of step is shown to be one abstract step or none for the turn it works on and for all others.
* `SandboxRunProofs`: `HolderInv` says that at most one request or runner holds the run. Nothing in the
  row says so: a status that lets a second one in is stored only by the holder, in the step in which it
  lets go, and this is what the invariant records for each status. `SandboxIsPausable` is the
  refinement of `PausableRun`; `SandboxOneRunner` and `SandboxTypes` are proved and left out of the
  run. `CompletionInv` and `SegmentInv` carry the effects from the commit to the completed row.
* `PlanStoreProofs`: `StoreInv` is the conjunction of the type invariant and the four invariants of
  the `plan_store` run. None of them is inductive alone: that a running task keeps its completed
  dependencies needs the protection of completed tasks in patches and that dependencies exist
  (`GraphStaysValid`); that a need's source stays completed needs that completed tasks are neither
  removed nor replaced. The proof has one lemma per method, and `PatchKeepsInv` is its core.
  `StoreHistory` is an action property from the same invariant. `StoreNoMutualWait` needs no induction:
  among the open tasks of an acyclic graph one depends on none of them, and whatever it depends on has
  completed, so that it can be claimed, or has not, and is then somebody to wait for.
* `GraphOrchestratorProofs`: `OrchInv` adds to `StoreInv` what each position of the run implies
  (`PhaseInv`), that attempts of all tasks were paid for from the one budget (`AttemptsPaid`), that an
  unapplied revision has ended the run (`RevisionsInv`) and that tasks wait for the user only while a
  confirmation is open (`WaitingInv`). `RunImplementsStore` shows step by step that the orchestrator
  uses the store as `PlanStore!Spec` allows, and `RunKeepsPlan` takes from it all the theorems about
  the store for the plan of a run. `RunStallHasCause` combines `NoMutualWait` with the guard under
  which the loop stalls.
* `TaskGraphSearchProofs`: the open calls are a simple path of the graph (`PathInv`), and what was
  visited is closed and acyclic, with no loop having skipped a task (`DoneInv`). A dependency on an
  open call closes a cycle (`PathIsCycle`); a task whose dependencies were all visited extends the
  acyclic part (`AcyclicExtends`). Hence `SearchVerdict`.
* `ToolLoopProofs`: `LoopInv` bounds the counters by the position in the loop, `GateInv` ties what
  ran to the opened collection and the active operations to the answers of `collection.info`, and `SpentInv` counts: as long as Redis
  answered, every run of a confirmed operation has spent a token that was issued for that operation,
  which stays in Redis until it has expired (`Spent`, `SpentFor`). `RunsAreConfirmed` alone is not
  inductive, because it does not say that tokens which have not been used are the ones left.
* `MemoryFactsProofs`: `MemInv` relates the rows to what transactions have read and saved. `SupportInv`
  bounds every copy of a support count by the sources that are or will be committed with it,
  `ConfirmInv` does so for copies that confirm, `ExactInv` makes the bound exact for facts that no two
  tasks touch, and `AloneInv` and `SingleInv` say that such a fact has one row. `MemoryKept` is an action
  property: rows, sources and decisions are never taken back (`RowsStay`), and support falls only in a
  race. It needs two more facts: no transaction writes the first status of a row again
  (`NoPending`), and `raced` only grows.
* `RagIngestProofs`: outputs exist in the order of the pipeline (`Ordered`, `Made`, `Grounded`), and
  every copy of the rows, the committed ones, those a handler or a failing worker has read, and those
  that wait to be committed, shows completed only where outputs are stored (`Backed`, `RowsInv`). The
  invariant has to speak of the copies because they overwrite newer rows. `OutputInv` covers records
  and cached results, `TasksInv` what a task has loaded, `QueueInv` messages that carry a result, and
  `CleanInv` what clean-up and late tasks leave. `RagOneModelAlone` and `RagTasksAdvance` are action
  properties.

Progress. That something ends is liveness under fairness, which the prover does not reach. Its other
half is that no step leads back, and that is proved for every size: each component has a measure, and
an action property says that its own steps decrease it and that nobody else's increase it.

| Theorem | Measure | What it leaves to the run |
|---|---|---|
| `RunTerminates` | `Work`: loop iterations left and the place in the present one | `EveryRunEnds`: a run that has not ended can always step |
| `LoopTerminates` | `Work`: model calls left and the calls of the last answer | `ExecutionEnds` |
| `SearchTerminates` | roots, tasks never called, open calls, the open loops, in this order | `SearchEnds` |
| `ChatRequestsAdvance` | `StepsLeft(r)`: places up to the end of the stream | `EveryRequestEnds` |
| `SandboxRunnersAdvance` | `StepsLeft(p)`: places up to the end of the runner | `RunnersEnd` |
| `RagTasksAdvance` | `LeftIn(phase)`: places up to the end of a task; and the causes of new messages | `IngestSettles` |

`RagTasksAdvance` is also a property of the `rag_ingest` run. For the first two the measure is a natural number that is proved to be one, so the theorems bound the
number of steps. For `RagIngest` the number of messages would have to be summed over a chain that
fans out to every model; the theorem stops short of that and says which steps make messages. The other
action properties, like `FactsAreKept` and `StallHasCause`, were checked with TLC on the constants of
the runs before they were proved; the runs list the liveness properties instead.

Only model-checked: the liveness properties `EveryRequestEnds`, `RunnersEnd`, `EveryRunEnds`,
`SearchEnds`, `ExecutionEnds` and `IngestSettles`, which need fairness and ENABLED and are out of the
prover's reach; and the claims, which do not hold. Facts that would need induction over data are
avoided: the models use no recursive operator, and the graph verdict is stated over sets of tasks.

## 6. Not modelled, and what is left

Most of the code of the repository is CRUD over configuration rows, conversion (templates, documents,
prompts, schemas to SQL), administration, migrations and calls to other services. It is sequential and
keeps no protocol state, so a model of it would repeat it; this is why the models cover a small share
of the lines. `PROJECT.json` lists every component with its reason. `InMemoryPlanStore` is a second
implementation of the store for tests. Trace events, prompts, texts and progress streams are left out
throughout.

Left for later, in order of importance:

1. Proofs: `RagIngest` as an implementation of an abstract pipeline in which a stage of a document is
   absent, in work or done; a bound on the messages of an ingest.
2. `RuntimePipeline`: the order of memory, planning and finalization in a turn, over `ChatTurn` and
   `GraphOrchestrator`.
3. `RagIngest`: versions of an output, archiving, the revocation of tasks, the deletion of a collection.
4. `CircuitBreaker`: both breakers under concurrent and cancelled calls.
5. The vectorization status of collections under schema changes.
6. `MemoryFacts`: dialogue summaries, aliases of projects, facts of sandbox branches.
