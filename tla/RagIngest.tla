----------------------------- MODULE RagIngest -----------------------------
(***************************************************************************)
(* The ingest pipeline of one RAG document: the status rows kept by        *)
(* RAGStatusManager, the Celery tasks that run the stages, the results     *)
(* that they cache, the HTTP handlers that start, stop and retry them, and *)
(* the deletion of the document.                                           *)
(*                                                                         *)
(* Transactions.  Every transition of a row also updates the document's    *)
(* row (_update_aggregate_status), so the database lock on the document    *)
(* row admits one writing transaction at a time: a task holds it from      *)
(* set_processing, which only flushes, to the commit that ends its stage;  *)
(* a handler, to the commit after it has returned.  Reads take no lock and *)
(* see committed rows only.  What a transition reads (the status that it   *)
(* validates, the rows that it cascades to, the rows that it aggregates),  *)
(* it reads before the locks are awaited: what it writes afterwards        *)
(* overwrites whatever was committed in between.  The row locks are        *)
(* abstracted to the document's: rows are read at one moment, which may be *)
(* any moment of the wait.                                                 *)
(***************************************************************************)
EXTENDS Naturals, FiniteSets

CONSTANTS Models,       \* target embedding models of the tenant
          Workers,      \* Celery worker processes
          MaxRequests,  \* bound: handlers called in a behaviour
          MaxCrashes    \* bound: processes and transactions lost

ASSUME ModelsAssumption == Models # {} /\ IsFiniteSet(Models)
ASSUME BoundsAssumption == MaxRequests \in Nat /\ MaxCrashes \in Nat

VARIABLES status,    \* committed status of every row but upload
          agg,       \* agg_status of the document
          queue,     \* Celery messages waiting, by stage
          worker,    \* what each worker process is doing
          lock,      \* owner of the Redis lock of each embed and index stage
          stored,    \* upload, and stages whose output is in S3 or Qdrant
          recorded,  \* stages whose output is recorded in the database: its key
                     \* in source.meta, and the rows of chunks
          cached,    \* stages with a result in Redis (save_idempotency)
          dropped,   \* S3 has failed an upload or a download silently (history)
          lost,      \* a result of chunk was cached, and its rows rolled back (history)
          deleted,   \* the document and its status rows are deleted
          cleanup,   \* where cleanup_document_artifacts is
          listed,    \* files that it has listed and not yet removed
          raced,     \* a task was making a file when it removed them (history)
          request,   \* handler that has read its rows and waits for locks
          open,      \* handler's transaction, written and not yet committed
          requests, crashes

rows == <<status, agg>>
outputs == <<stored, recorded, cached, dropped, lost>>
deletion == <<deleted, cleanup, listed, raced>>
handlers == <<request, open, requests>>
ragVars == <<rows, queue, worker, lock, outputs, deletion, handlers, crashes>>

-----------------------------------------------------------------------------
(* Stages are named by the node_type and node_key of their row.            *)

Upload == <<"pipeline", "upload">>
Extract == <<"pipeline", "extract">>
Normalize == <<"pipeline", "normalize">>
Chunk == <<"pipeline", "chunk">>
Embed(m) == <<"embedding", m>>
Index(m) == <<"index", m>>

Pipeline == {Extract, Normalize, Chunk}
Embeds == {Embed(m) : m \in Models}
Indexes == {Index(m) : m \in Models}
Stages == Pipeline \cup Embeds \cup Indexes
LockStages == Embeds \cup Indexes

\* Stages whose output is an object under the document's prefix in S3.
Files == {Upload} \cup Pipeline \cup Embeds

\* A message names a stage, and carries the result of the stage before or not.
Messages == Stages \X BOOLEAN

StageStatus == {"pending", "queued", "processing", "completed", "failed", "cancelled"}
AggStatus == {"uploaded", "processing", "ready", "partial", "failed"}

VALID_TRANSITIONS ==
  [pending    |-> {"queued", "processing", "failed", "cancelled"},
   queued     |-> {"processing", "failed", "cancelled"},
   processing |-> {"completed", "failed", "cancelled"},
   completed  |-> {"queued"},
   failed     |-> {"queued", "cancelled"},
   cancelled  |-> {"queued"}]

Active == {"queued", "processing"}

is_retry_supported(s) == s \in {Extract} \cup LockStages

\* The chain: extract, normalize, chunk, then embed and index of every model.
Following(s) ==
  CASE s = Extract -> {Normalize}
    [] s = Normalize -> {Chunk}
    [] s = Chunk -> Embeds
    [] s \in Embeds -> {Index(s[2])}
    [] OTHER -> {}

\* Mutant: a failed embedding cancels the index stages of every model.
Downstream_all_models(s) ==
  CASE s = Extract -> {Normalize, Chunk} \cup LockStages
    [] s = Normalize -> {Chunk} \cup LockStages
    [] s = Chunk -> LockStages
    [] s \in Embeds -> Indexes
    [] OTHER -> {}

Downstream(s) ==
  CASE s = Extract -> {Normalize, Chunk} \cup LockStages
    [] s = Normalize -> {Chunk} \cup LockStages
    [] s = Chunk -> LockStages
    [] s \in Embeds -> {Index(s[2])}
    [] OTHER -> {}

-----------------------------------------------------------------------------
(* The status manager.                                                     *)

\* Mutant: one indexed model makes the document ready.
calculate_aggregate_status_any(row) ==
  LET pipeline == {row[p] : p \in Pipeline}
      index == {row[i] : i \in Indexes}
  IN CASE "failed" \in pipeline -> "failed"
       [] pipeline = {"pending"} -> "uploaded"
       [] pipeline \cap {"pending", "queued", "processing"} # {} -> "processing"
       [] index \cap {"pending", "queued", "processing"} # {} -> "processing"
       [] "completed" \in index -> "ready"
       [] OTHER -> "failed"

calculate_aggregate_status(row) ==
  LET pipeline == {row[p] : p \in Pipeline}
      index == {row[i] : i \in Indexes}
  IN CASE "failed" \in pipeline -> "failed"
       [] pipeline = {"pending"} -> "uploaded"
       [] pipeline \cap {"pending", "queued", "processing"} # {} -> "processing"
       [] index \cap {"pending", "queued", "processing"} # {} -> "processing"
       [] index = {"completed"} -> "ready"
       [] "completed" \in index -> "partial"
       [] OTHER -> "failed"

\* _cascade_reset_downstream to cancelled: rows that ended well or were
\* cancelled are left alone.
cascade_cancel(row, from) ==
  [s \in Stages |-> IF /\ \E f \in from : s \in Downstream(f)
                       /\ row[s] \notin {"completed", "cancelled"}
                    THEN "cancelled" ELSE row[s]]

cascade_reset(row, from) ==
  [s \in Stages |-> IF s \in Downstream(from) THEN "pending" ELSE row[s]]

\* transition_stage to failed, its cascade included.
Failing(row, s) == cascade_cancel([row EXCEPT ![s] = "failed"], {s})

\* The rows once a transaction that read seen has written view: the row of its
\* own stage, and those whose status it changed.
Overwrite(view, seen, own) ==
  [s \in Stages |-> IF s = own \/ view[s] # seen[s] THEN view[s] ELSE status[s]]

\* A task in its transaction: before its input is read, and after.
Loaded == {"loaded", "empty"}
Working == {"working"} \cup Loaded

DocumentLocked ==
  open.op # "none" \/ \E w \in Workers : worker[w].phase \in Working \cup {"stuck"}

\* Nothing of the document has been removed yet.
Uncleaned == cleanup \in {"none", "sent", "listed"}

-----------------------------------------------------------------------------
(* Handlers.  seen are the rows as the handler read them.                  *)

Ops == {"start", "stop", "stop_all", "retry", "delete"}
NotRead == [s \in Stages |-> "pending"]
NoRequest == [op |-> "none", stage |-> Extract, seen |-> NotRead]
NoTransaction == [op |-> "none", row |-> NotRead, agg |-> "uploaded"]

Allowed(op, s) ==
  CASE op = "start" -> s = Extract /\ \A t \in Stages : status[t] \notin Active
    [] op = "stop" -> status[s] \in Active
    [] op = "stop_all" -> s = Extract
    [] op = "retry" -> is_retry_supported(s) /\ status[s] \notin Active
    [] op = "delete" -> s = Extract /\ cleanup = "none"

\* A handler is called and finds the document.  A deletion, of which there is
\* one in a behaviour, first sends the task that cleans up.
Call(op, s) ==
  /\ requests < MaxRequests
  /\ request.op = "none"
  /\ ~deleted
  /\ Allowed(op, s)
  /\ request' = [op |-> op, stage |-> s, seen |-> status]
  /\ cleanup' = IF op = "delete" THEN "sent" ELSE cleanup
  /\ requests' = requests + 1
  /\ UNCHANGED <<rows, queue, worker, lock, outputs, deleted, listed, raced, open,
                 crashes>>

\* stop_stage and retry_stage read the rows on the way, between two waits;
\* start_ingest and stop_ingest hold the rows that they loaded first.
ReadRows ==
  /\ request.op \in {"stop", "retry"}
  /\ ~deleted
  /\ request.seen # status
  /\ request' = [request EXCEPT !.seen = status]
  /\ UNCHANGED <<rows, queue, worker, lock, outputs, deletion, open, requests, crashes>>

\* The rows after the handler's writes, the aggregate that it stores, and the
\* stages that it dispatches.
start_ingest ==
  LET view == [s \in Stages |-> IF s = Extract THEN "queued" ELSE "pending"]
  IN [row |-> Overwrite(view, request.seen, Extract),
      agg |-> calculate_aggregate_status(view),
      sent |-> {<<Extract, FALSE>>}]

stop_stage ==
  LET view == cascade_cancel([request.seen EXCEPT ![request.stage] = "cancelled"],
                             {request.stage})
  IN [row |-> Overwrite(view, request.seen, request.stage),
      agg |-> calculate_aggregate_status(view),
      sent |-> {}]

SeenActive == {s \in Stages : request.seen[s] \in Active}

stop_ingest ==
  LET view == cascade_cancel([s \in Stages |-> IF s \in SeenActive THEN "cancelled"
                                               ELSE request.seen[s]], SeenActive)
  IN [row |-> [s \in Stages |-> IF view[s] # request.seen[s] THEN view[s] ELSE status[s]],
      agg |-> calculate_aggregate_status(view),
      sent |-> {}]

\* The aggregate is stored by the transition to queued, before the reset.
retry_stage ==
  LET queued == [request.seen EXCEPT ![request.stage] = "queued"]
  IN [row |-> Overwrite(cascade_reset(queued, request.stage), request.seen, request.stage),
      agg |-> calculate_aggregate_status(queued),
      sent |-> {<<request.stage, FALSE>>}]

\* The rows go as they are.
delete_rag_document == [row |-> status, agg |-> agg, sent |-> {}]

Written ==
  CASE request.op = "start" -> start_ingest
    [] request.op = "stop" -> stop_stage
    [] request.op = "stop_all" -> stop_ingest
    [] request.op = "delete" -> delete_rag_document
    [] OTHER -> retry_stage

\* The writes, once the locks are free, and the dispatch of the Celery chain:
\* the messages leave before the transaction commits.
Write ==
  /\ request.op # "none"
  /\ request.op = "stop_all" => SeenActive # {}
  /\ ~deleted
  /\ ~DocumentLocked
  /\ open' = [op |-> request.op, row |-> Written.row, agg |-> Written.agg]
  /\ queue' = [m \in Messages |-> queue[m] + IF m \in Written.sent THEN 1 ELSE 0]
  /\ request' = NoRequest
  /\ UNCHANGED <<rows, worker, lock, outputs, deletion, requests, crashes>>

\* The document was deleted while the handler waited: its rows are not there.
NotFound ==
  /\ request.op # "none"
  /\ deleted
  /\ request' = NoRequest
  /\ UNCHANGED <<rows, queue, worker, lock, outputs, deletion, open, requests, crashes>>

\* stop_ingest saw no active row: it writes nothing and waits for nothing.
StopNothing ==
  /\ request.op = "stop_all" /\ SeenActive = {}
  /\ request' = NoRequest
  /\ UNCHANGED <<rows, queue, worker, lock, outputs, deletion, open, requests, crashes>>

\* db_uow commits after the handler has returned.
Commit ==
  /\ open.op # "none"
  /\ status' = open.row
  /\ agg' = open.agg
  /\ deleted' = (deleted \/ open.op = "delete")
  /\ open' = NoTransaction
  /\ UNCHANGED <<queue, worker, lock, outputs, cleanup, listed, raced, request, requests,
                 crashes>>

\* The API process is lost, or the commit fails: the messages are already out.
LoseTransaction ==
  /\ open.op # "none"
  /\ crashes < MaxCrashes
  /\ crashes' = crashes + 1
  /\ open' = NoTransaction
  /\ UNCHANGED <<rows, queue, worker, lock, outputs, deletion, request, requests>>

-----------------------------------------------------------------------------
(* Workers.                                                                *)

Idle == [phase |-> "idle", stage |-> Extract, passed |-> FALSE, seen |-> NotRead]
Phases == {"idle", "waiting", "refused", "failing", "committed", "stuck"} \cup Working

Task(phase, m) == [phase |-> phase, stage |-> m[1], passed |-> m[2], seen |-> NotRead]

Set(w, phase) == worker' = [worker EXCEPT ![w].phase = phase]
Rest(w) == worker' = [worker EXCEPT ![w] = Idle]

\* transition_stage to failed begins: the row is read and accepts it, or not.
\* For a deleted document there is no row, and nothing is done.
TryToFail(w, m, otherwise) ==
  worker' = [worker EXCEPT ![w] =
    CASE deleted -> Idle
      [] ~deleted /\ "failed" \in VALID_TRANSITIONS[status[m[1]]] ->
           [Task("failing", m) EXCEPT !.seen = status]
      [] OTHER -> otherwise]

\* The Redis lock is released on every exit; a lock that has expired and
\* belongs to another task or to nobody is not released.
Released(w) == [s \in LockStages |-> IF lock[s] = w THEN "free" ELSE lock[s]]

\* A task starts: the Redis lock of an embed or index stage, then the read and
\* the validation of set_processing.  A row that is not there refuses nothing.
Take(w, m) ==
  LET s == m[1]
      valid == deleted \/ "processing" \in VALID_TRANSITIONS[status[s]]
  IN /\ worker[w].phase = "idle"
     /\ queue[m] > 0
     /\ s \in LockStages => lock[s] = "free"
     /\ worker' = [worker EXCEPT ![w] = Task(IF valid THEN "waiting" ELSE "refused", m)]
     /\ lock' = IF valid /\ s \in LockStages THEN [lock EXCEPT ![s] = w] ELSE lock
     /\ queue' = [queue EXCEPT ![m] = @ - 1]
     /\ UNCHANGED <<rows, outputs, deletion, handlers, crashes>>

\* blocking_timeout = 5: another task holds the lock and this one fails.
LockTimeout(w, m) ==
  /\ worker[w].phase = "idle"
  /\ queue[m] > 0
  /\ m[1] \in LockStages /\ lock[m[1]] # "free"
  /\ TryToFail(w, m, Task("refused", m))
  /\ queue' = [queue EXCEPT ![m] = @ - 1]
  /\ UNCHANGED <<rows, lock, outputs, deletion, handlers, crashes>>

\* set_processing gets the row locks; it is flushed and not committed, so that
\* no other session, and none of the guards in Allowed, sees the stage in
\* processing.  When upsert_node finds no document it writes nothing, and the
\* stage goes on.
Begin(w) ==
  /\ worker[w].phase = "waiting"
  /\ deleted \/ ~DocumentLocked
  /\ Set(w, "working")
  /\ UNCHANGED <<rows, queue, lock, outputs, deletion, handlers, crashes>>

\* The document was deleted while the task waited to update a row that it had
\* read: the update finds none.
Missing(w) ==
  /\ deleted
  /\ worker[w].phase \in {"waiting", "failing"}
  /\ IF worker[w].phase = "waiting" THEN Set(w, "refused") ELSE Rest(w)
  /\ lock' = Released(w)
  /\ UNCHANGED <<rows, queue, outputs, deletion, handlers, crashes>>

\* Mutant: chunk takes a canonical document that is not there for an empty one.
InputThere_empty(s, passed) ==
  /\ s = Extract => Upload \in stored
  /\ s = Normalize => Extract \in stored
  /\ s \in Embeds => Chunk \in stored /\ (passed \/ Chunk \in recorded)
  /\ s \in Indexes => passed \/ Embed(s[2]) \in recorded \cup stored

\* The input of a stage is read, by the key in the result of the stage before or
\* in source.meta.  Index has a key, or finds one by listing the bucket; that its
\* download has failed is not noticed.
InputThere(s, passed) ==
  /\ s = Extract => Upload \in stored
  /\ s = Normalize => Extract \in stored
  /\ s = Chunk => Normalize \in stored
  /\ s \in Embeds => Chunk \in stored /\ (passed \/ Chunk \in recorded)
  /\ s \in Indexes => passed \/ Embed(s[2]) \in recorded \cup stored

\* There is nothing to index: no file of embeddings, or no rows of chunks.
NothingToIndex(s) == s \in Indexes /\ (Embed(s[2]) \notin stored \/ Chunk \notin recorded)

\* No cached result is taken, and the input is read.
Load(w) ==
  LET s == worker[w].stage
  IN /\ worker[w].phase = "working"
     /\ InputThere(s, worker[w].passed)
     /\ Set(w, IF NothingToIndex(s) THEN "empty" ELSE "loaded")
     /\ UNCHANGED <<rows, queue, lock, outputs, deletion, handlers, crashes>>

\* The output is written; or the upload, or the download by index, fails, which
\* is only logged.
Output(w) ==
  \/ /\ worker[w].phase = "loaded"
     /\ \/ stored' = stored \cup {worker[w].stage} /\ UNCHANGED dropped
        \/ dropped' = TRUE /\ UNCHANGED stored
  \/ worker[w].phase = "empty" /\ UNCHANGED <<stored, dropped>>

\* The rows written by a task's transaction, if there are any.
Settle(view) ==
  /\ status' = IF deleted THEN status ELSE view
  /\ agg' = IF deleted THEN agg ELSE calculate_aggregate_status(view)

\* set_completed in the task's transaction.
Completed(s) == [status EXCEPT ![s] = "completed"]

\* The output, set_completed, the result in Redis and the commit.
Finish(w) ==
  LET s == worker[w].stage
  IN /\ Output(w)
     /\ Settle(Completed(s))
     /\ recorded' = recorded \cup ({s} \ Indexes)
     /\ cached' = cached \cup {s}
     /\ Set(w, "committed")
     /\ UNCHANGED <<lost, queue, lock, deletion, handlers, crashes>>

\* check_idempotency finds a result whose object exists: nothing is done again.
\* An entry that has expired is one that is not found.
already_processed(w) ==
  LET s == worker[w].stage
  IN /\ worker[w].phase = "working"
     /\ s \in cached /\ (s \in Indexes \/ s \in stored)
     /\ Settle(Completed(s))
     /\ Set(w, "committed")
     /\ UNCHANGED <<queue, lock, outputs, deletion, handlers, crashes>>

\* An exception before set_completed: set_failed, its cascade and the commit.
\* The output may already have been written.
Break(w) ==
  LET s == worker[w].stage
  IN /\ worker[w].phase \in Working
     /\ Output(w) \/ UNCHANGED <<stored, dropped>>
     /\ Settle(Failing(status, s))
     /\ lock' = Released(w)
     /\ Rest(w)
     /\ UNCHANGED <<recorded, cached, lost, queue, deletion, handlers, crashes>>

\* An exception after set_completed, for a deleted document: no row refuses
\* failed, and what the session holds is committed.
Raise(w) ==
  LET s == worker[w].stage
  IN /\ deleted
     /\ Output(w)
     /\ recorded' = recorded \cup ({s} \ Indexes)
     /\ cached' \in {cached, cached \cup {s}}
     /\ lock' = Released(w)
     /\ Rest(w)
     /\ UNCHANGED <<rows, lost, queue, deletion, handlers, crashes>>

\* The stage comes to an end without its commit, at any point of its work.
Interrupted(w) ==
  LET s == worker[w].stage
  IN \/ UNCHANGED outputs
     \/ /\ Output(w)
        /\ cached' \in {cached, cached \cup {s}}
        /\ lost' = (lost \/ (s = Chunk /\ s \in cached' /\ s \notin recorded))
        /\ UNCHANGED recorded

\* The commit fails: set_failed in that session does, too.
FailCommit(w) ==
  /\ worker[w].phase \in Working
  /\ crashes < MaxCrashes
  /\ crashes' = crashes + 1
  /\ Interrupted(w)
  /\ lock' = Released(w)
  /\ Set(w, "refused")
  /\ UNCHANGED <<rows, queue, deletion, handlers>>

\* An exception between set_completed and the commit: set_failed is refused by
\* the row, which is completed in that session, and notify_stage_error waits in
\* a session of its own for the locks of the first.
Hang(w) ==
  /\ worker[w].phase \in Working
  /\ ~deleted
  /\ crashes < MaxCrashes
  /\ crashes' = crashes + 1
  /\ Interrupted(w)
  /\ lock' = Released(w)
  /\ Set(w, "stuck")
  /\ UNCHANGED <<rows, queue, deletion, handlers>>

\* task_soft_time_limit ends the wait and the task.
TimeLimit(w) ==
  /\ worker[w].phase = "stuck"
  /\ Rest(w)
  /\ UNCHANGED <<rows, queue, lock, outputs, deletion, handlers, crashes>>

\* Mutant: a stage whose lock has expired is tried again.
Continue_retrying(w) ==
  LET s == worker[w].stage
  IN /\ worker[w].phase = "committed"
     /\ IF s \in LockStages /\ lock[s] # w
        THEN Set(w, "waiting") /\ UNCHANGED queue
        ELSE /\ queue' = [m \in Messages |->
                            queue[m] + IF m[2] /\ m[1] \in Following(s) THEN 1 ELSE 0]
             /\ Rest(w)
     /\ lock' = Released(w)
     /\ UNCHANGED <<rows, outputs, deletion, handlers, crashes>>

\* After the commit: the Redis lock is released and Celery sends the rest of
\* the chain.  Releasing a lock that has expired raises, and the chain ends.
Continue(w) ==
  LET s == worker[w].stage
  IN /\ worker[w].phase = "committed"
     /\ IF s \in LockStages /\ lock[s] # w
        THEN Set(w, "refused") /\ UNCHANGED queue
        ELSE /\ queue' = [m \in Messages |->
                            queue[m] + IF m[2] /\ m[1] \in Following(s) THEN 1 ELSE 0]
             /\ Rest(w)
     /\ lock' = Released(w)
     /\ UNCHANGED <<rows, outputs, deletion, handlers, crashes>>

Message(w) == <<worker[w].stage, worker[w].passed>>

\* Mutant: the notification is tried until the row accepts it.
Notify_until_accepted(w) ==
  /\ worker[w].phase = "refused"
  /\ "failed" \in VALID_TRANSITIONS[status[worker[w].stage]]
  /\ TryToFail(w, Message(w), Idle)
  /\ UNCHANGED <<rows, queue, lock, outputs, deletion, handlers, crashes>>

\* notify_stage_error, in a session of its own, reads the row again.
Notify(w) ==
  /\ worker[w].phase = "refused"
  /\ TryToFail(w, Message(w), Idle)
  /\ UNCHANGED <<rows, queue, lock, outputs, deletion, handlers, crashes>>

\* The rows to cascade to and to aggregate are read on the way.
ReadToFail(w) ==
  /\ worker[w].phase = "failing"
  /\ ~deleted
  /\ worker[w].seen # status
  /\ worker' = [worker EXCEPT ![w].seen = status]
  /\ UNCHANGED <<rows, queue, lock, outputs, deletion, handlers, crashes>>

Fail(w) ==
  LET s == worker[w].stage
      view == Failing(worker[w].seen, s)
  IN /\ worker[w].phase = "failing"
     /\ ~deleted
     /\ ~DocumentLocked
     /\ status' = Overwrite(view, worker[w].seen, s)
     /\ agg' = calculate_aggregate_status(view)
     /\ Rest(w)
     /\ UNCHANGED <<queue, lock, outputs, deletion, handlers, crashes>>

\* The worker is lost: its transaction rolls back, its message is delivered
\* again (acks_late, reject_on_worker_lost), its Redis lock stays until it
\* expires.
Crash(w) ==
  /\ worker[w].phase # "idle"
  /\ crashes < MaxCrashes
  /\ crashes' = crashes + 1
  /\ IF worker[w].phase \in Working THEN Interrupted(w) ELSE UNCHANGED outputs
  /\ queue' = [queue EXCEPT ![Message(w)] = @ + 1]
  /\ lock' = [t \in LockStages |-> IF lock[t] = w THEN "dead" ELSE lock[t]]
  /\ Rest(w)
  /\ UNCHANGED <<rows, deletion, handlers>>

\* timeout = 600: the lock of a task that is gone or takes longer.
Expire(s) ==
  /\ lock[s] # "free"
  /\ lock' = [lock EXCEPT ![s] = "free"]
  /\ UNCHANGED <<rows, queue, worker, outputs, deletion, handlers, crashes>>

-----------------------------------------------------------------------------
(* cleanup_document_artifacts.                                             *)

\* The objects under the prefix are listed, and a second request deletes them;
\* that one of the two fails is only logged.
ListFiles ==
  /\ cleanup = "sent"
  /\ listed' = stored \cap Files
  /\ cleanup' = "listed"
  /\ UNCHANGED <<rows, queue, worker, lock, outputs, deleted, raced, handlers, crashes>>

CleanFiles ==
  /\ cleanup = "listed"
  /\ \/ /\ stored' = stored \ listed
        /\ cleanup' = "files"
        /\ raced' = \/ listed # stored \cap Files
                    \/ \E w \in Workers : worker[w].phase = "loaded" /\ worker[w].stage \in Files
     \/ cleanup' = "failed" /\ UNCHANGED <<stored, raced>>
  /\ listed' = {}
  /\ UNCHANGED <<rows, queue, worker, lock, recorded, cached, dropped, lost, deleted,
                 handlers, crashes>>

\* The vectors are deleted, except where that fails, or where the models are no
\* longer known from the status rows and not listed in the code.
CleanVectors ==
  /\ cleanup \in {"files", "failed"}
  /\ \E gone \in SUBSET Indexes : stored' = stored \ gone
  /\ cleanup' = IF cleanup = "files" THEN "done" ELSE "incomplete"
  /\ UNCHANGED <<rows, queue, worker, lock, recorded, cached, dropped, lost, deleted, listed,
                 raced, handlers, crashes>>

-----------------------------------------------------------------------------
\* initialize_document_statuses
RagInit ==
  /\ status = [s \in Stages |-> "pending"]
  /\ agg = "uploaded"
  /\ queue = [m \in Messages |-> 0]
  /\ worker = [w \in Workers |-> Idle]
  /\ lock = [s \in LockStages |-> "free"]
  /\ stored = {Upload} /\ recorded = {} /\ cached = {}
  /\ dropped = FALSE /\ lost = FALSE
  /\ deleted = FALSE /\ cleanup = "none" /\ listed = {} /\ raced = FALSE
  /\ request = NoRequest /\ open = NoTransaction
  /\ requests = 0 /\ crashes = 0

HandlerStep == Write \/ StopNothing \/ NotFound \/ Commit

WorkerStep(w) ==
  \/ \E m \in Messages : Take(w, m) \/ LockTimeout(w, m)
  \/ Begin(w) \/ Missing(w) \/ Load(w) \/ Finish(w) \/ already_processed(w) \/ Break(w) \/ Raise(w)
  \/ FailCommit(w) \/ Hang(w) \/ TimeLimit(w) \/ Continue(w) \/ Notify(w) \/ Fail(w)

CleanupStep == ListFiles \/ CleanFiles \/ CleanVectors

RagNext ==
  \/ \E op \in Ops, s \in Stages : Call(op, s)
  \/ ReadRows \/ Write \/ StopNothing \/ NotFound \/ Commit \/ LoseTransaction
  \/ \E w \in Workers, m \in Messages : Take(w, m) \/ LockTimeout(w, m)
  \/ \E w \in Workers : Begin(w) \/ Missing(w) \/ Load(w) \/ Finish(w) \/ already_processed(w)
  \/ \E w \in Workers : Break(w) \/ Raise(w) \/ FailCommit(w) \/ Hang(w) \/ TimeLimit(w)
  \/ \E w \in Workers : Continue(w) \/ Notify(w) \/ ReadToFail(w) \/ Fail(w) \/ Crash(w)
  \/ \E s \in LockStages : Expire(s)
  \/ ListFiles \/ CleanFiles \/ CleanVectors

RagSpec == RagInit /\ [][RagNext]_ragVars

\* Workers keep taking messages and ending tasks, and handlers end.
RagFairness ==
  /\ WF_ragVars(HandlerStep)
  /\ WF_ragVars(CleanupStep)
  /\ \A w \in Workers : WF_ragVars(WorkerStep(w))

RagFairSpec == RagSpec /\ RagFairness
-----------------------------------------------------------------------------
(* Properties.                                                             *)

Cleanups == {"none", "sent", "listed", "files", "failed", "done", "incomplete"}

\* Types of the rows, messages, workers, locks and handlers of a document.
RagTypeOK ==
  /\ status \in [Stages -> StageStatus]
  /\ agg \in AggStatus
  /\ queue \in [Messages -> Nat]
  /\ worker \in [Workers -> [phase : Phases, stage : Stages, passed : BOOLEAN,
                             seen : [Stages -> StageStatus]]]
  /\ lock \in [LockStages -> Workers \cup {"free", "dead"}]
  /\ stored \subseteq Stages \cup {Upload} /\ recorded \subseteq Stages \ Indexes
  /\ cached \subseteq Stages /\ dropped \in BOOLEAN /\ lost \in BOOLEAN
  /\ deleted \in BOOLEAN /\ cleanup \in Cleanups /\ raced \in BOOLEAN
  /\ listed \subseteq Files
  /\ request \in [op : Ops \cup {"none"}, stage : Stages, seen : [Stages -> StageStatus]]
  /\ open \in [op : Ops \cup {"none"}, row : [Stages -> StageStatus], agg : AggStatus]
  /\ requests \in 0..MaxRequests /\ crashes \in 0..MaxCrashes

\* The stages whose output a stage is made from.
Upstream(s) == {t \in Stages : s \in Downstream(t)}

\* A completed stage was made from what is stored, through retries of single
\* stages, cached results, crashes between the writes, and duplicate tasks.  An
\* upload that failed silently is noticed by the next stage, except by index; it
\* may cost the stage its own output, as it may cost index the vectors that a
\* cached result of chunk has lost its rows.
CompletedHasInputs ==
  Uncleaned => \A s \in Stages : status[s] = "completed" =>
    /\ Upstream(s) \ Embeds \subseteq stored
    /\ ~dropped => Upstream(s) \cup ({s} \ Indexes) \subseteq stored
    /\ ~dropped /\ ~lost => s \in stored

\* A document is reported ready only if the vectors of every model were stored,
\* also where agg_status was computed from rows that have changed since; unless
\* S3 failed silently or the rows of chunks were lost after their result was
\* cached.
ReadyIsIndexed ==
  Uncleaned /\ ~dropped /\ ~lost /\ agg = "ready" => Indexes \subseteq stored

\* The files that the clean-up has removed do not come back: tasks of a deleted
\* document are not refused, but whether they were queued, sent again after a lost
\* worker or retried, they find nothing to start from.  Only a task that was at
\* work on a file at that time leaves it, and the rest of the chain goes on.
CleanedStaysClean == cleanup \in {"files", "done"} /\ ~raced => stored \cap Files = {}

\* The embed and index tasks of one model leave the rows of the others alone,
\* also when they fail.
OneModelFailsAlone ==
  [][\A w \in Workers, s \in LockStages :
       /\ worker[w].phase \in Working \cup {"failing"}
       /\ worker[w].stage \in LockStages
       /\ worker'[w] # worker[w]
       /\ s[2] # worker[w].stage[2]
       => status'[s] = status[s]]_ragVars

\* Messages, tasks and handlers all come to an end: failures, refused tasks,
\* lost workers and expired locks never leave a task running for ever.
IngestSettles ==
  <>[](/\ \A m \in Messages : queue[m] = 0
       /\ \A w \in Workers : worker[w] = Idle
       /\ request = NoRequest /\ open = NoTransaction
       /\ cleanup \in {"none", "done", "incomplete"})

\* How many steps a task in a phase has left at most.
LeftIn(phase) ==
  CASE phase = "waiting" -> 6
    [] phase = "working" -> 5
    [] phase \in Loaded -> 4
    [] phase = "committed" -> 3
    [] phase = "refused" -> 2
    [] phase \in {"failing", "stuck"} -> 1
    [] OTHER -> 0

\* A task never goes back: whatever it meets (a lock that has expired, a row
\* that refuses its status, a commit that fails, the deletion of the document),
\* each of its steps brings it closer to its end, except that it may read the
\* rows again before it writes its failure.  And no task makes work without
\* end: new messages are those of a request, of a lost worker, or of the stages
\* that follow one that has committed.
TasksAdvance ==
  [][/\ \A w \in Workers :
          /\ worker[w].phase # "idle"
          /\ worker'[w] # worker[w]
          => LeftIn(worker'[w].phase) < LeftIn(worker[w].phase) \/ ReadToFail(w)
     /\ \A m \in Messages : queue'[m] > queue[m] =>
          \/ request.op # "none" /\ request'.op = "none"
          \/ crashes' > crashes
          \/ \E w \in Workers :
               worker[w].phase = "committed" /\ m[2] /\ m[1] \in Following(worker[w].stage)
    ]_ragVars
=============================================================================
