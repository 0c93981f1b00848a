-------------------------- MODULE RagIngestProofs --------------------------
(***************************************************************************)
(* Proofs about the ingest pipeline, for any number of models, workers,    *)
(* handlers and crashes.  The inductive invariant follows what is claimed  *)
(* of the outputs through every place where a claim waits: the committed   *)
(* rows, the rows that a handler or a failing task has read, the rows of   *)
(* an open transaction, cached results, messages that carry a result, and  *)
(* tasks that have read their input.                                       *)
(***************************************************************************)
EXTENDS RagIngest, TLAPS

\* What a copy of the rows claims of a completed stage: the claims, and all that
\* follows, only hold as long as nothing has been removed.
Made(s) ==
  Uncleaned =>
    /\ Upstream(s) \ Embeds \subseteq stored
    /\ ~dropped => Upstream(s) \cup ({s} \ Indexes) \subseteq stored
    /\ ~dropped /\ ~lost => s \in stored

\* What a stage has read was made from what is stored.
Grounded(s) ==
  Uncleaned => /\ Upstream(s) \ Embeds \subseteq stored
               /\ ~dropped => Upstream(s) \subseteq stored

\* A stage that has stored its output had all it was made from.
Ordered(s) == Uncleaned => Upstream(s) \subseteq stored

\* Why index may find nothing to index.
Excused == Uncleaned => dropped \/ lost

\* Every model is indexed.
Indexed == Uncleaned /\ ~dropped /\ ~lost => Indexes \subseteq stored

\* Chunk has left its rows, or has lost them.
Fresh == Chunk \in recorded \/ lost

\* What the embedding of a model has left.
Embedded(m) ==
  Fresh /\ (Uncleaned => Pipeline \subseteq stored /\ (dropped \/ Embed(m) \in stored))

\* What the stage before a stage has left, if its result has been passed on.
Preceded(s) == (s \in Embeds => Fresh) /\ (s \in Indexes => Embedded(s[2]))

\* A copy of the rows claims only what was made, and shows no stage in processing.
Backed(row) ==
  \A s \in Stages : row[s] # "processing" /\ (row[s] = "completed" => Made(s))

RowsInv ==
  /\ Backed(status) /\ Backed(request.seen) /\ Backed(open.row)
  /\ agg = "ready" => Indexed
  /\ open.agg = "ready" => Indexed

OutputInv ==
  /\ \A s \in Stages : s \in stored => Ordered(s)
  /\ \A m \in Models : Embed(m) \in recorded \cup stored => Embedded(m)
  /\ Chunk \in cached => Fresh
  /\ \A i \in Indexes : i \in cached => Made(i)

\* What a task has read and what it passes on.
Sound(task) ==
  /\ Backed(task.seen)
  /\ task.passed => Preceded(task.stage)
  /\ task.phase \in Loaded => Grounded(task.stage) /\ (task.stage \in Embeds => Fresh)
  /\ task.phase = "loaded" => Ordered(task.stage)
  /\ task.phase = "empty" => task.stage \in Indexes /\ Excused
  /\ task.phase = "committed" => \A s \in Following(task.stage) : Preceded(s)

TasksInv == \A w \in Workers : Sound(worker[w])

QueueInv == \A m \in Messages : queue[m] > 0 /\ m[2] => Preceded(m[1])

\* Once the files are removed, no task has input to make one from.
CleanInv ==
  cleanup \in {"files", "done"} /\ ~raced =>
    /\ stored \cap Files = {}
    /\ \A w \in Workers : worker[w].phase = "loaded" => worker[w].stage \in Indexes

RagInv ==
  RagTypeOK /\ RowsInv /\ OutputInv /\ TasksInv /\ QueueInv /\ CleanInv

-----------------------------------------------------------------------------
(* The stages.                                                             *)

\* The stages downstream of a stage, and those that follow it, are stages.
LEMMA StageFacts ==
  /\ Extract \in Stages /\ Indexes \subseteq Stages /\ LockStages \subseteq Stages
  /\ Embeds \subseteq Stages /\ Chunk \in Stages /\ Pipeline \subseteq Stages
  /\ \A s \in Stages : Downstream(s) \subseteq Stages /\ Following(s) \subseteq Stages
BY DEF Stages, Pipeline, LockStages, Embeds, Indexes, Downstream, Following, Extract,
       Normalize, Chunk, Embed, Index

\* What each stage is made from.
LEMMA UpstreamFacts ==
  /\ Upstream(Extract) = {}
  /\ Upstream(Normalize) = {Extract}
  /\ Upstream(Chunk) = {Extract, Normalize}
  /\ \A m \in Models : Upstream(Embed(m)) = Pipeline
  /\ \A m \in Models : Upstream(Index(m)) = Pipeline \cup {Embed(m)}
<1>1. Upstream(Extract) = {}
  BY DEF Upstream, Stages, Pipeline, LockStages, Embeds, Indexes, Downstream, Extract,
         Normalize, Chunk, Embed, Index
<1>2. Upstream(Normalize) = {Extract}
  BY DEF Upstream, Stages, Pipeline, LockStages, Embeds, Indexes, Downstream, Extract,
         Normalize, Chunk, Embed, Index
<1>3. Upstream(Chunk) = {Extract, Normalize}
  BY DEF Upstream, Stages, Pipeline, LockStages, Embeds, Indexes, Downstream, Extract,
         Normalize, Chunk, Embed, Index
<1>4. \A m \in Models : Upstream(Embed(m)) = Pipeline
  BY DEF Upstream, Stages, Pipeline, LockStages, Embeds, Indexes, Downstream, Extract,
         Normalize, Chunk, Embed, Index
<1>5. \A m \in Models : Upstream(Index(m)) = Pipeline \cup {Embed(m)}
  BY DEF Upstream, Stages, Pipeline, LockStages, Embeds, Indexes, Downstream, Extract,
         Normalize, Chunk, Embed, Index
<1> QED BY <1>1, <1>2, <1>3, <1>4, <1>5

\* The stages of a model.
LEMMA ModelFacts ==
  /\ \A m \in Models : /\ Embed(m) \in Embeds /\ Embed(m)[2] = m
                       /\ Index(m) \in Indexes /\ Index(m)[2] = m
  /\ \A s \in Embeds : s[2] \in Models /\ s = Embed(s[2])
  /\ \A s \in Indexes : s[2] \in Models /\ s = Index(s[2])
BY DEF Embeds, Indexes, Embed, Index

\* The kinds of stages are different ones.
LEMMA KindFacts ==
  /\ Embeds \cap Indexes = {} /\ Pipeline \cap LockStages = {}
  /\ Extract # Chunk /\ Normalize # Chunk /\ Extract # Normalize
  /\ \A s \in Stages : s \in Pipeline \/ s \in Embeds \/ s \in Indexes
  /\ Stages \ Indexes \subseteq Files /\ Upload \notin Stages
  /\ Indexes \cap Files = {} /\ Upload \in Files
BY DEF Stages, Pipeline, LockStages, Embeds, Indexes, Upload, Extract, Normalize, Chunk, Embed,
       Index, Files

\* The chain of the pipeline.
LEMMA ChainFacts ==
  /\ Following(Extract) = {Normalize} /\ Following(Normalize) = {Chunk}
  /\ Following(Chunk) = Embeds
  /\ \A s \in Embeds : Following(s) = {Index(s[2])}
  /\ \A s \in Indexes : Following(s) = {}
BY DEF Following, Embeds, Indexes, Extract, Normalize, Chunk, Embed, Index

\* The aggregate is one of its values, and ready only when every index completed.
LEMMA AggregateFacts ==
  ASSUME NEW row \in [Stages -> StageStatus]
  PROVE  /\ calculate_aggregate_status(row) \in AggStatus
         /\ calculate_aggregate_status(row) = "ready" =>
              \A i \in Indexes : row[i] = "completed"
BY DEF calculate_aggregate_status, AggStatus

\* Cancelling downstream and resetting downstream complete nothing.
LEMMA CascadeFacts ==
  ASSUME NEW row \in [Stages -> StageStatus]
  PROVE  /\ \A from \in SUBSET Stages :
              /\ cascade_cancel(row, from) \in [Stages -> StageStatus]
              /\ \A s \in Stages : cascade_cancel(row, from)[s] \in {row[s], "cancelled"}
         /\ \A from \in Stages :
              /\ cascade_reset(row, from) \in [Stages -> StageStatus]
              /\ \A s \in Stages : cascade_reset(row, from)[s] \in {row[s], "pending"}
         /\ \A f \in Stages :
              /\ Failing(row, f) \in [Stages -> StageStatus]
              /\ \A s \in Stages : Failing(row, f)[s] \in {row[s], "cancelled", "failed"}
BY DEF cascade_cancel, cascade_reset, Failing, StageStatus

\* Rows overwritten with backed rows are backed.
LEMMA OverwriteFacts ==
  ASSUME status \in [Stages -> StageStatus], Backed(status),
         NEW view \in [Stages -> StageStatus], Backed(view),
         NEW seen, NEW own
  PROVE  /\ Overwrite(view, seen, own) \in [Stages -> StageStatus]
         /\ Backed(Overwrite(view, seen, own))
BY DEF Overwrite, Backed

\* A backed copy of the rows is ready only if every index was stored.
LEMMA ReadyBacked ==
  ASSUME NEW row \in [Stages -> StageStatus], Backed(row),
         calculate_aggregate_status(row) = "ready"
  PROVE  Indexed
BY AggregateFacts, StageFacts DEF Backed, Made, Indexed

-----------------------------------------------------------------------------
(* Outputs only grow, until they are removed.                              *)

Grows ==
  /\ Uncleaned' => Uncleaned /\ stored \subseteq stored'
  /\ recorded \subseteq recorded'
  /\ dropped => dropped'
  /\ lost => lost'

\* What is claimed of the outputs stays true as they grow.
LEMMA Growth ==
  ASSUME Grows
  PROVE  /\ \A s \in Stages : /\ Made(s) => Made(s)'
                              /\ Grounded(s) => Grounded(s)'
                              /\ Ordered(s) => Ordered(s)'
                              /\ Preceded(s) => Preceded(s)'
         /\ \A m \in Models : Embedded(m) => Embedded(m)'
         /\ Fresh => Fresh'
         /\ Excused => Excused'
         /\ Indexed => Indexed'
<1>1. ASSUME NEW s \in Stages, Made(s) PROVE Made(s)'
  BY <1>1 DEF Grows, Made, Upstream
<1>2. ASSUME NEW s \in Stages, Grounded(s) PROVE Grounded(s)'
  BY <1>2 DEF Grows, Grounded, Upstream
<1>3. ASSUME NEW s \in Stages, Ordered(s) PROVE Ordered(s)'
  BY <1>3 DEF Grows, Ordered, Upstream
<1>4. Fresh => Fresh'
  BY DEF Grows, Fresh
<1>5. ASSUME NEW m, Embedded(m) PROVE Embedded(m)'
  BY <1>4, <1>5 DEF Grows, Embedded
<1>6. ASSUME NEW s \in Stages, Preceded(s) PROVE Preceded(s)'
  BY <1>4, <1>5, <1>6 DEF Preceded
<1>7. (Excused => Excused') /\ (Indexed => Indexed')
  BY DEF Grows, Excused, Indexed
<1> QED BY <1>1, <1>2, <1>3, <1>4, <1>5, <1>6, <1>7

-----------------------------------------------------------------------------
(* Types.                                                                  *)

\* What a worker process does.
Tasks == [phase : Phases, stage : Stages, passed : BOOLEAN, seen : [Stages -> StageStatus]]

\* The values of a state without requests, transactions and tasks.
LEMMA RestTypes ==
  /\ NotRead \in [Stages -> StageStatus]
  /\ NoRequest \in [op : Ops \cup {"none"}, stage : Stages, seen : [Stages -> StageStatus]]
  /\ NoTransaction \in [op : Ops \cup {"none"}, row : [Stages -> StageStatus], agg : AggStatus]
  /\ NoTransaction.agg = "uploaded" /\ NoTransaction.op = "none"
  /\ NoTransaction.row = NotRead /\ NoRequest.seen = NotRead
  /\ Idle \in Tasks /\ Idle.seen = NotRead /\ Idle.phase = "idle" /\ Idle.passed = FALSE
BY StageFacts
DEF NotRead, NoRequest, NoTransaction, Idle, Tasks, Phases, Ops, StageStatus, AggStatus

\* What a handler writes is backed, and so is the aggregate it stores.
LEMMA WrittenFacts ==
  ASSUME RagTypeOK, RowsInv, request.op # "none"
  PROVE  /\ Written.row \in [Stages -> StageStatus]
         /\ Written.agg \in AggStatus
         /\ Backed(Written.row)
         /\ Written.agg = "ready" => Indexed
<1> DEFINE st == request.stage
<1>0. /\ status \in [Stages -> StageStatus] /\ request.seen \in [Stages -> StageStatus]
      /\ st \in Stages /\ request.op \in Ops
  BY DEF RagTypeOK
<1>a. Backed(status) /\ Backed(request.seen) /\ (agg = "ready" => Indexed) /\ agg \in AggStatus
  BY DEF RagTypeOK, RowsInv
<1>1. CASE request.op = "start"
  <2> DEFINE view == [s \in Stages |-> IF s = Extract THEN "queued" ELSE "pending"]
  <2>1. view \in [Stages -> StageStatus] /\ Backed(view)
    BY DEF StageStatus, Backed
  <2> HIDE DEF view
  <2>2. start_ingest = [row |-> Overwrite(view, request.seen, Extract),
                        agg |-> calculate_aggregate_status(view), sent |-> {<<Extract, FALSE>>}]
    BY DEF start_ingest, view
  <2>3. Written = start_ingest
    BY <1>1 DEF Written
  <2> QED BY <1>0, <1>a, <2>1, <2>2, <2>3, OverwriteFacts, AggregateFacts, ReadyBacked
<1>2. CASE request.op = "stop"
  <2> DEFINE cancelled == [request.seen EXCEPT ![st] = "cancelled"]
             view == cascade_cancel(cancelled, {st})
  <2>1. cancelled \in [Stages -> StageStatus] /\ Backed(cancelled)
    BY <1>0, <1>a DEF StageStatus, Backed
  <2>2. view \in [Stages -> StageStatus] /\ Backed(view)
    <3>1. {st} \in SUBSET Stages
      BY <1>0
    <3> HIDE DEF cancelled, st
    <3> QED BY <2>1, <3>1, CascadeFacts DEF Backed
  <2>3. Written.row = Overwrite(view, request.seen, st)
        /\ Written.agg = calculate_aggregate_status(view)
    BY <1>2 DEF Written, stop_stage
  <2> HIDE DEF view
  <2> QED BY <1>0, <1>a, <2>2, <2>3, OverwriteFacts, AggregateFacts, ReadyBacked
<1>3. CASE request.op = "stop_all"
  <2> DEFINE hit == [s \in Stages |-> IF s \in SeenActive THEN "cancelled"
                                      ELSE request.seen[s]]
             view == cascade_cancel(hit, SeenActive)
  <2>1. hit \in [Stages -> StageStatus] /\ Backed(hit) /\ SeenActive \in SUBSET Stages
    BY <1>0, <1>a DEF StageStatus, Backed, SeenActive
  <2>2. view \in [Stages -> StageStatus] /\ Backed(view)
    <3> HIDE DEF hit
    <3> QED BY <2>1, CascadeFacts DEF Backed
  <2>3. /\ Written.row = [s \in Stages |-> IF view[s] # request.seen[s] THEN view[s]
                                            ELSE status[s]]
        /\ Written.agg = calculate_aggregate_status(view)
    BY <1>3 DEF Written, stop_ingest
  <2> HIDE DEF view
  <2>4. Written.row \in [Stages -> StageStatus] /\ Backed(Written.row)
    BY <2>2, <2>3, <1>0, <1>a DEF Backed
  <2> QED BY <2>2, <2>3, <2>4, AggregateFacts, ReadyBacked
<1>4. CASE request.op = "retry"
  <2> DEFINE queued == [request.seen EXCEPT ![st] = "queued"]
             view == cascade_reset(queued, st)
  <2>1. queued \in [Stages -> StageStatus] /\ Backed(queued)
    BY <1>0, <1>a DEF StageStatus, Backed
  <2>2. /\ Written.row = Overwrite(view, request.seen, st)
        /\ Written.agg = calculate_aggregate_status(queued)
    BY <1>4 DEF Written, retry_stage
  <2> HIDE DEF queued, st
  <2>3. view \in [Stages -> StageStatus] /\ Backed(view)
    BY <2>1, <1>0, CascadeFacts DEF Backed
  <2> HIDE DEF view
  <2>4. Written.row \in [Stages -> StageStatus] /\ Backed(Written.row)
    BY <1>0, <1>a, <2>2, <2>3, OverwriteFacts
  <2> QED BY <2>1, <2>2, <2>4, AggregateFacts, ReadyBacked
<1>5. CASE request.op = "delete"
  <2>1. Written.row = status /\ Written.agg = agg
    BY <1>5 DEF Written, delete_rag_document
  <2> QED BY <1>0, <1>a, <2>1
<1> QED BY <1>0, <1>1, <1>2, <1>3, <1>4, <1>5 DEF Ops

\* Handlers keep the types.
LEMMA HandlerTypes ==
  ASSUME RagTypeOK, RowsInv,
         \/ \E op \in Ops, s \in Stages : Call(op, s)
         \/ ReadRows \/ Write \/ StopNothing \/ NotFound \/ Commit \/ LoseTransaction
  PROVE  RagTypeOK'
<1>1. ASSUME NEW op \in Ops, NEW s \in Stages, Call(op, s)
      PROVE  RagTypeOK'
  BY <1>1, BoundsAssumption DEF Call, RagTypeOK, Cleanups, rows, outputs
<1>2. CASE ReadRows
  BY <1>2 DEF ReadRows, RagTypeOK, rows, outputs, deletion
<1>3. CASE Write
  BY <1>3, WrittenFacts, RestTypes DEF Write, RagTypeOK, rows, outputs, deletion
<1>4. CASE StopNothing \/ NotFound
  BY <1>4, RestTypes DEF StopNothing, NotFound, RagTypeOK, rows, outputs, deletion
<1>5. CASE Commit
  BY <1>5, RestTypes DEF Commit, RagTypeOK, outputs
<1>6. CASE LoseTransaction
  BY <1>6, RestTypes, BoundsAssumption DEF LoseTransaction, RagTypeOK, rows, outputs, deletion
<1> QED BY <1>1, <1>2, <1>3, <1>4, <1>5, <1>6

\* Tasks have the shape of a task, whatever they begin or end.
LEMMA TaskTypes ==
  ASSUME RagTypeOK, NEW w \in Workers, NEW m \in Messages
  PROVE  /\ worker \in [Workers -> Tasks] /\ worker[w] \in Tasks
         /\ Message(w) \in Messages
         /\ \A phase \in Phases : Task(phase, m) \in Tasks
         /\ \A phase \in Phases : [worker[w] EXCEPT !.phase = phase] \in Tasks
         /\ [Task("failing", m) EXCEPT !.seen = status] \in Tasks
         /\ [worker[w] EXCEPT !.seen = status] \in Tasks
<1>1. worker \in [Workers -> Tasks] /\ worker[w] \in Tasks
  BY DEF RagTypeOK, Tasks
<1>2. m[1] \in Stages /\ m[2] \in BOOLEAN /\ status \in [Stages -> StageStatus]
      /\ NotRead \in [Stages -> StageStatus]
  BY RestTypes DEF Messages, RagTypeOK
<1>3. Message(w) \in Messages
  BY <1>1 DEF Message, Messages, Tasks
<1>4. \A phase \in Phases : Task(phase, m) \in Tasks
  BY <1>2 DEF Task, Tasks
<1>5. [Task("failing", m) EXCEPT !.seen = status] \in Tasks
  BY <1>2 DEF Task, Tasks, Phases
<1>6. \A phase \in Phases : [worker[w] EXCEPT !.phase = phase] \in Tasks
  BY <1>1 DEF Tasks
<1>7. [worker[w] EXCEPT !.seen = status] \in Tasks
  BY <1>1, <1>2 DEF Tasks
<1> QED BY <1>1, <1>3, <1>4, <1>5, <1>6, <1>7

\* The steps of a task that read or write no output and no row.
Quiet(w) ==
  \/ \E m \in Messages : Take(w, m) \/ LockTimeout(w, m)
  \/ Begin(w) \/ Missing(w) \/ Load(w) \/ TimeLimit(w) \/ Continue(w)
  \/ Notify(w) \/ ReadToFail(w)

\* The steps in which a task changes outputs, rows, or both.
Ending(w) ==
  \/ Finish(w) \/ already_processed(w) \/ Break(w) \/ Raise(w) \/ FailCommit(w) \/ Hang(w)
  \/ Fail(w) \/ Crash(w)

\* What the quiet steps leave alone, and the records that they may write.
LEMMA QuietShape ==
  ASSUME RagTypeOK, NEW w \in Workers, Quiet(w)
  PROVE  /\ UNCHANGED <<rows, outputs, deletion, handlers, crashes>>
         /\ \E task \in Tasks : worker' = [worker EXCEPT ![w] = task]
         /\ queue' \in [Messages -> Nat]
         /\ lock' \in [LockStages -> Workers \cup {"free", "dead"}]
<1> DEFINE P == /\ UNCHANGED <<rows, outputs, deletion, handlers, crashes>>
                /\ \E task \in Tasks : worker' = [worker EXCEPT ![w] = task]
                /\ queue' \in [Messages -> Nat]
                /\ lock' \in [LockStages -> Workers \cup {"free", "dead"}]
<1>0. /\ queue \in [Messages -> Nat]
      /\ lock \in [LockStages -> Workers \cup {"free", "dead"}]
  BY DEF RagTypeOK
<1>1. ASSUME NEW m \in Messages, Take(w, m) \/ LockTimeout(w, m)
      PROVE  P
  <2>1. UNCHANGED <<rows, outputs, deletion, handlers, crashes>>
    BY <1>1 DEF Take, LockTimeout
  <2>2. queue' \in [Messages -> Nat]
    <3>1. queue' = [queue EXCEPT ![m] = @ - 1] /\ queue[m] > 0
      BY <1>1 DEF Take, LockTimeout
    <3> QED BY <1>0, <3>1
  <2>3. lock' \in [LockStages -> Workers \cup {"free", "dead"}]
    <3>1. lock' = lock \/ lock' = [lock EXCEPT ![m[1]] = w]
      BY <1>1 DEF Take, LockTimeout
    <3> QED BY <1>0, <3>1
  <2>4. \E task \in Tasks : worker' = [worker EXCEPT ![w] = task]
    <3>1. \/ worker' = [worker EXCEPT ![w] = Task("waiting", m)]
          \/ worker' = [worker EXCEPT ![w] = Task("refused", m)]
          \/ worker' = [worker EXCEPT ![w] = [Task("failing", m) EXCEPT !.seen = status]]
          \/ worker' = [worker EXCEPT ![w] = Idle]
      BY <1>1 DEF Take, LockTimeout, TryToFail
    <3>2. "waiting" \in Phases /\ "refused" \in Phases
      BY DEF Phases
    <3> QED BY <3>1, <3>2, TaskTypes, RestTypes
  <2> QED BY <2>1, <2>2, <2>3, <2>4
<1>2. ASSUME Begin(w) \/ Missing(w) \/ Load(w) \/ TimeLimit(w) \/ Continue(w)
             \/ Notify(w) \/ ReadToFail(w)
      PROVE  P
  <2>1. UNCHANGED <<rows, outputs, deletion, handlers, crashes>>
    BY <1>2 DEF Begin, Missing, Load, TimeLimit, Continue, Notify, ReadToFail
  <2>2. queue' \in [Messages -> Nat]
    <3>1. CASE Continue(w)
      BY <1>0, <3>1 DEF Continue
    <3>2. CASE ~Continue(w)
      BY <1>0, <1>2, <3>2 DEF Begin, Missing, Load, TimeLimit, Notify, ReadToFail
    <3> QED BY <3>1, <3>2
  <2>3. lock' \in [LockStages -> Workers \cup {"free", "dead"}]
    <3>1. lock' = lock \/ lock' = Released(w)
      BY <1>2 DEF Begin, Missing, Load, TimeLimit, Continue, Notify, ReadToFail
    <3> QED BY <1>0, <3>1 DEF Released
  <2>4. \E task \in Tasks : worker' = [worker EXCEPT ![w] = task]
    <3>0. worker \in [Workers -> Tasks] /\ Message(w) \in Messages
      BY TaskTypes DEF RagTypeOK, Tasks, Message, Messages
    <3>1. \/ worker' = [worker EXCEPT ![w] = Idle]
          \/ \E phase \in {"working", "loaded", "empty", "refused"} :
               worker' = [worker EXCEPT ![w] = [worker[w] EXCEPT !.phase = phase]]
          \/ worker' = [worker EXCEPT ![w] = [worker[w] EXCEPT !.seen = status]]
          \/ worker' = [worker EXCEPT ![w] =
                          [Task("failing", Message(w)) EXCEPT !.seen = status]]
      BY <1>2, <3>0
      DEF Begin, Missing, Load, TimeLimit, Continue, Notify, ReadToFail, Set, Rest, TryToFail
    <3>2. {"working", "loaded", "empty", "refused"} \subseteq Phases
      BY DEF Phases, Working, Loaded
    <3> QED BY <3>0, <3>1, <3>2, TaskTypes, RestTypes
  <2> QED BY <2>1, <2>2, <2>3, <2>4
<1> QED BY <1>1, <1>2 DEF Quiet

\* Quiet steps, and expiring locks, keep the types.
LEMMA QuietTypes ==
  ASSUME RagTypeOK,
         (\E w \in Workers : Quiet(w)) \/ (\E s \in LockStages : Expire(s))
  PROVE  RagTypeOK'
<1>1. ASSUME NEW w \in Workers, Quiet(w) PROVE RagTypeOK'
  <2>1. worker' \in [Workers -> Tasks]
    BY <1>1, QuietShape, TaskTypes DEF RagTypeOK, Tasks
  <2>2. /\ UNCHANGED <<rows, outputs, deletion, handlers, crashes>>
        /\ queue' \in [Messages -> Nat]
        /\ lock' \in [LockStages -> Workers \cup {"free", "dead"}]
    BY <1>1, QuietShape
  <2> QED BY <2>1, <2>2 DEF RagTypeOK, Tasks, rows, outputs, deletion, handlers
<1>2. ASSUME NEW s \in LockStages, Expire(s) PROVE RagTypeOK'
  <2>1. lock' \in [LockStages -> Workers \cup {"free", "dead"}]
    BY <1>2 DEF Expire, RagTypeOK
  <2> QED BY <1>2, <2>1 DEF Expire, RagTypeOK, rows, outputs, deletion, handlers
<1> QED BY <1>1, <1>2

\* The outputs that a task may leave when it ends: the result of Output with what
\* is cached and recorded afterwards, or nothing.
LEMMA EndingOutputs ==
  ASSUME RagTypeOK, NEW w \in Workers, Ending(w)
  PROVE  /\ UNCHANGED <<deletion, handlers>>
         /\ stored' = stored \/ stored' = stored \cup {worker[w].stage}
         /\ recorded' = recorded \/ recorded' = recorded \cup ({worker[w].stage} \ Indexes)
         /\ cached' = cached \/ cached' = cached \cup {worker[w].stage}
         /\ dropped' \in BOOLEAN /\ (dropped => dropped')
         /\ lost' \in BOOLEAN /\ (lost => lost')
<1> DEFINE s == worker[w].stage
<1>0. dropped \in BOOLEAN /\ lost \in BOOLEAN
  BY DEF RagTypeOK
<1>1. Output(w) => /\ stored' = stored \/ stored' = stored \cup {s}
                   /\ dropped' \in BOOLEAN /\ (dropped => dropped')
  <2>1. Output(w) => stored' = stored \/ stored' = stored \cup {s}
    BY DEF Output
  <2>2. Output(w) => dropped' = dropped \/ dropped' = TRUE
    BY DEF Output
  <2>3. (dropped' = dropped \/ dropped' = TRUE) => dropped' \in BOOLEAN /\ (dropped => dropped')
    <3>1. CASE dropped' = dropped
      BY <1>0, <3>1
    <3>2. CASE dropped' = TRUE
      BY <3>2
    <3> QED BY <3>1, <3>2
  <2> QED BY <2>1, <2>2, <2>3
<1>2. Interrupted(w) =>
        /\ stored' = stored \/ stored' = stored \cup {s}
        /\ dropped' \in BOOLEAN /\ (dropped => dropped')
        /\ recorded' = recorded
        /\ cached' = cached \/ cached' = cached \cup {s}
        /\ lost' \in BOOLEAN /\ (lost => lost')
  <2>1. CASE UNCHANGED outputs
    BY <1>0, <2>1 DEF outputs
  <2>2. CASE Output(w) /\ Interrupted(w) /\ ~UNCHANGED outputs
    <3>1. /\ cached' \in {cached, cached \cup {s}}
          /\ lost' = (lost \/ (s = Chunk /\ s \in cached' /\ s \notin recorded))
          /\ recorded' = recorded
      BY <2>2 DEF Interrupted
    <3> QED BY <1>0, <1>1, <2>2, <3>1
  <2> QED BY <2>1, <2>2 DEF Interrupted
<1>3. CASE Finish(w) \/ Raise(w)
  BY <1>0, <1>1, <1>3 DEF Finish, Raise
<1>4. CASE already_processed(w) \/ Fail(w)
  BY <1>0, <1>4 DEF already_processed, Fail, outputs
<1>5. CASE Break(w)
  BY <1>0, <1>1, <1>5 DEF Break
<1>6. CASE FailCommit(w) \/ Hang(w)
  BY <1>2, <1>6 DEF FailCommit, Hang
<1>7. CASE Crash(w)
  <2>1. Interrupted(w) \/ UNCHANGED outputs
    BY <1>7 DEF Crash
  <2>2. UNCHANGED <<deletion, handlers>>
    BY <1>7 DEF Crash
  <2> QED BY <1>0, <1>2, <2>1, <2>2 DEF outputs
<1> QED BY <1>3, <1>4, <1>5, <1>6, <1>7 DEF Ending

\* What a task is after it has ended, and what it leaves of messages and locks.
LEMMA EndingShape ==
  ASSUME RagTypeOK, NEW w \in Workers, Ending(w)
  PROVE  /\ \/ worker' = [worker EXCEPT ![w] = Idle]
            \/ /\ Finish(w) \/ already_processed(w)
               /\ worker' = [worker EXCEPT ![w] = [worker[w] EXCEPT !.phase = "committed"]]
            \/ /\ UNCHANGED rows
               /\ \E phase \in {"refused", "stuck"} :
                    worker' = [worker EXCEPT ![w] = [worker[w] EXCEPT !.phase = phase]]
         /\ queue' = queue \/ queue' = [queue EXCEPT ![Message(w)] = @ + 1]
         /\ lock' \in [LockStages -> Workers \cup {"free", "dead"}]
         /\ crashes' \in 0..MaxCrashes
<1>0. /\ lock \in [LockStages -> Workers \cup {"free", "dead"}] /\ crashes \in 0..MaxCrashes
      /\ worker \in [Workers -> Tasks]
  BY DEF RagTypeOK, Tasks
<1>1. CASE Finish(w) \/ already_processed(w)
  BY <1>0, <1>1 DEF Finish, already_processed, Set
<1>2. CASE Break(w) \/ Raise(w) \/ Fail(w)
  BY <1>0, <1>2 DEF Break, Raise, Fail, Rest, Released
<1>3. CASE FailCommit(w)
  BY <1>0, <1>3, BoundsAssumption DEF FailCommit, Set, Released
<1>4. CASE Hang(w)
  BY <1>0, <1>4, BoundsAssumption DEF Hang, Set, Released
<1>5. CASE Crash(w)
  BY <1>0, <1>5, BoundsAssumption DEF Crash, Rest
<1> QED BY <1>1, <1>2, <1>3, <1>4, <1>5 DEF Ending

\* The rows that a task writes when it ends.
LEMMA EndingRows ==
  ASSUME RagTypeOK, NEW w \in Workers, Ending(w)
  PROVE  /\ status' \in [Stages -> StageStatus] /\ agg' \in AggStatus
         /\ \/ UNCHANGED rows
            \/ /\ Finish(w) \/ already_processed(w)
               /\ status' = Completed(worker[w].stage)
               /\ agg' = calculate_aggregate_status(status')
            \/ /\ Break(w)
               /\ status' = Failing(status, worker[w].stage)
               /\ agg' = calculate_aggregate_status(status')
            \/ /\ Fail(w)
               /\ status' = Overwrite(Failing(worker[w].seen, worker[w].stage),
                                      worker[w].seen, worker[w].stage)
               /\ agg' = calculate_aggregate_status(Failing(worker[w].seen, worker[w].stage))
<1> DEFINE s == worker[w].stage
           seen == worker[w].seen
<1>0. /\ status \in [Stages -> StageStatus] /\ agg \in AggStatus
      /\ s \in Stages /\ seen \in [Stages -> StageStatus]
  BY DEF RagTypeOK
<1>1. CASE Finish(w) \/ already_processed(w)
  <2>1. Completed(s) \in [Stages -> StageStatus]
    BY <1>0 DEF Completed, StageStatus
  <2>2. \/ UNCHANGED rows
        \/ status' = Completed(s) /\ agg' = calculate_aggregate_status(Completed(s))
    BY <1>1 DEF Finish, already_processed, Settle, rows
  <2> QED BY <1>0, <1>1, <2>1, <2>2, AggregateFacts DEF rows
<1>2. CASE Break(w)
  <2>1. Failing(status, s) \in [Stages -> StageStatus]
    BY <1>0, CascadeFacts
  <2>2. \/ UNCHANGED rows
        \/ status' = Failing(status, s) /\ agg' = calculate_aggregate_status(Failing(status, s))
    BY <1>2 DEF Break, Settle, rows
  <2> QED BY <1>0, <1>2, <2>1, <2>2, AggregateFacts DEF rows
<1>3. CASE Fail(w)
  <2>1. Failing(seen, s) \in [Stages -> StageStatus]
    BY <1>0, CascadeFacts
  <2>2. /\ status' = Overwrite(Failing(seen, s), seen, s)
        /\ agg' = calculate_aggregate_status(Failing(seen, s))
    BY <1>3 DEF Fail
  <2>3. Overwrite(Failing(seen, s), seen, s) \in [Stages -> StageStatus]
    BY <1>0, <2>1 DEF Overwrite
  <2> QED BY <1>3, <2>1, <2>2, <2>3, AggregateFacts
<1>4. CASE Raise(w) \/ FailCommit(w) \/ Hang(w) \/ Crash(w)
  BY <1>0, <1>4 DEF Raise, FailCommit, Hang, Crash, rows
<1> QED BY <1>1, <1>2, <1>3, <1>4 DEF Ending

\* Ending tasks keep the types.
LEMMA EndingTypes ==
  ASSUME RagTypeOK, NEW w \in Workers, Ending(w)
  PROVE  RagTypeOK'
<1>1. worker' \in [Workers -> Tasks]
  <2>1. {"committed", "refused", "stuck"} \subseteq Phases
    BY DEF Phases
  <2>2. worker \in [Workers -> Tasks] /\ Message(w) \in Messages
    BY DEF RagTypeOK, Tasks, Message, Messages
  <2>3. \E task \in Tasks : worker' = [worker EXCEPT ![w] = task]
    <3>1. \A phase \in Phases : [worker[w] EXCEPT !.phase = phase] \in Tasks
      BY <2>2, TaskTypes
    <3>2. \/ worker' = [worker EXCEPT ![w] = Idle]
          \/ \E phase \in Phases :
               worker' = [worker EXCEPT ![w] = [worker[w] EXCEPT !.phase = phase]]
      BY <2>1, EndingShape
    <3> QED BY <3>1, <3>2, RestTypes
  <2> QED BY <2>2, <2>3
<1>2. queue' \in [Messages -> Nat]
  <2>1. queue \in [Messages -> Nat]
    BY DEF RagTypeOK
  <2> QED BY <2>1, EndingShape
<1>3. /\ lock' \in [LockStages -> Workers \cup {"free", "dead"}]
      /\ crashes' \in 0..MaxCrashes
  BY EndingShape
<1>4. status' \in [Stages -> StageStatus] /\ agg' \in AggStatus
  BY EndingRows
<1>5. /\ stored' \subseteq Stages \cup {Upload} /\ recorded' \subseteq Stages \ Indexes
      /\ cached' \subseteq Stages /\ dropped' \in BOOLEAN /\ lost' \in BOOLEAN
  <2>1. worker[w].stage \in Stages
    BY DEF RagTypeOK
  <2> QED BY <2>1, EndingOutputs DEF RagTypeOK
<1>6. UNCHANGED <<deletion, handlers>>
  BY EndingOutputs
<1> QED BY <1>1, <1>2, <1>3, <1>4, <1>5, <1>6 DEF RagTypeOK, Tasks, deletion, handlers

\* Cleaning up keeps the types.
LEMMA CleanTypes ==
  ASSUME RagTypeOK, ListFiles \/ CleanFiles \/ CleanVectors
  PROVE  RagTypeOK'
<1>1. CASE ListFiles
  BY <1>1 DEF ListFiles, RagTypeOK, Cleanups, rows, outputs, handlers
<1>2. CASE CleanFiles
  <2>1. /\ stored' \subseteq stored /\ listed' = {} /\ cleanup' \in Cleanups
        /\ raced' \in BOOLEAN
    BY <1>2 DEF CleanFiles, Cleanups, RagTypeOK
  <2> QED BY <1>2, <2>1 DEF CleanFiles, RagTypeOK, rows, handlers
<1>3. CASE CleanVectors
  BY <1>3 DEF CleanVectors, RagTypeOK, Cleanups, rows, handlers
<1> QED BY <1>1, <1>2, <1>3

-----------------------------------------------------------------------------
(* The steps of the invariant.                                             *)

\* A task that is left alone stays sound.
LEMMA SoundKept ==
  ASSUME Grows, NEW v \in Workers, worker[v] \in Tasks, worker'[v] = worker[v],
         Sound(worker[v])
  PROVE  Sound(worker[v])'
<1>1. worker[v].stage \in Stages
  BY DEF Tasks
<1> QED BY <1>1, Growth, StageFacts DEF Sound, Backed

\* A resting worker is sound.
LEMMA IdleSound == Sound(Idle)'
<1>1. \A s \in Stages : NotRead[s] = "pending"
  BY DEF NotRead
<1> QED BY <1>1, RestTypes DEF Sound, Backed, Loaded

\* A fresh document satisfies the invariant.
LEMMA InitInv == RagInit => RagInv
<1> SUFFICES ASSUME RagInit PROVE RagInv OBVIOUS
<1>0. \A s \in Stages : NotRead[s] = "pending"
  BY DEF NotRead
<1>1. RagTypeOK
  <2>1. /\ status \in [Stages -> StageStatus] /\ agg \in AggStatus
        /\ queue \in [Messages -> Nat]
        /\ lock \in [LockStages -> Workers \cup {"free", "dead"}]
    BY DEF RagInit, StageStatus, AggStatus
  <2>2. worker \in [Workers -> Tasks]
    BY RestTypes DEF RagInit
  <2>3. /\ stored \subseteq Stages \cup {Upload} /\ recorded \subseteq Stages \ Indexes
        /\ cached \subseteq Stages /\ dropped \in BOOLEAN /\ lost \in BOOLEAN
        /\ deleted \in BOOLEAN /\ cleanup \in Cleanups /\ raced \in BOOLEAN
        /\ listed \subseteq Files
    BY DEF RagInit, Cleanups
  <2>4. /\ request = NoRequest /\ open = NoTransaction
        /\ requests \in 0..MaxRequests /\ crashes \in 0..MaxCrashes
    BY BoundsAssumption DEF RagInit
  <2> QED BY <2>1, <2>2, <2>3, <2>4, RestTypes DEF RagTypeOK, Tasks
<1>2. RowsInv
  BY <1>0, RestTypes DEF RagInit, RowsInv, Backed
<1>3. OutputInv
  <2>1. \A s \in Stages : s \notin stored
    BY KindFacts DEF RagInit
  <2>2. recorded = {} /\ cached = {}
    BY DEF RagInit
  <2> QED BY <2>1, <2>2, ModelFacts, StageFacts DEF OutputInv
<1>4. TasksInv
  BY <1>0, RestTypes DEF RagInit, TasksInv, Sound, Backed, Loaded
<1>5. QueueInv
  BY DEF RagInit, QueueInv
<1>6. CleanInv
  BY DEF RagInit, CleanInv
<1> QED BY <1>1, <1>2, <1>3, <1>4, <1>5, <1>6 DEF RagInv

\* No step takes anything from the outputs before they are removed.
LEMMA StepGrows ==
  ASSUME RagTypeOK, RagNext
  PROVE  Grows
<1>1. ASSUME UNCHANGED <<outputs, cleanup>> PROVE Grows
  BY <1>1 DEF Grows, Uncleaned, outputs
<1>2. ASSUME NEW op \in Ops, NEW s \in Stages, Call(op, s) PROVE Grows
  <2>1. cleanup' = cleanup \/ cleanup = "none"
    BY <1>2 DEF Call, Allowed
  <2>2. UNCHANGED outputs
    BY <1>2 DEF Call
  <2> QED BY <2>1, <2>2 DEF Grows, Uncleaned, outputs
<1>3. CASE ReadRows \/ Write \/ StopNothing \/ NotFound \/ Commit \/ LoseTransaction
  BY <1>1, <1>3 DEF ReadRows, Write, StopNothing, NotFound, Commit, LoseTransaction, deletion
<1>4. ASSUME NEW w \in Workers, Quiet(w) PROVE Grows
  BY <1>1, <1>4, QuietShape DEF deletion
<1>5. ASSUME NEW s \in LockStages, Expire(s) PROVE Grows
  BY <1>1, <1>5 DEF Expire, deletion
<1>6. ASSUME NEW w \in Workers, Ending(w) PROVE Grows
  BY <1>6, EndingOutputs DEF Grows, Uncleaned, deletion
<1>7. CASE ListFiles
  BY <1>7 DEF ListFiles, Grows, Uncleaned, outputs
<1>8. CASE CleanFiles \/ CleanVectors
  <2>1. ~Uncleaned'
    BY <1>8 DEF CleanFiles, CleanVectors, Uncleaned
  <2>2. recorded' = recorded /\ dropped' = dropped /\ lost' = lost
    BY <1>8 DEF CleanFiles, CleanVectors
  <2> QED BY <2>1, <2>2 DEF Grows
<1> QED BY <1>2, <1>3, <1>4, <1>5, <1>6, <1>7, <1>8 DEF RagNext, Quiet, Ending

\* Where nothing is stored, recorded or cached anew, the outputs keep their order.
LEMMA OutputsKept ==
  ASSUME OutputInv, Grows, stored' \subseteq stored, recorded' = recorded, cached' = cached
  PROVE  OutputInv'
BY Growth, StageFacts DEF OutputInv

-----------------------------------------------------------------------------
(* Handlers and cleaning up.                                               *)

\* Handlers store and claim only what the rows that they read have claimed.
LEMMA HandlerRows ==
  ASSUME RagInv, Grows,
         \/ \E op \in Ops, s \in Stages : Call(op, s)
         \/ ReadRows \/ Write \/ StopNothing \/ NotFound \/ Commit \/ LoseTransaction
  PROVE  RowsInv'
<1>0. \A s \in Stages : NotRead[s] = "pending"
  BY DEF NotRead
<1>1. Backed(status)' /\ (agg = "ready" => Indexed)'
  <2>1. \/ status' = status /\ agg' = agg
        \/ status' = open.row /\ agg' = open.agg
    BY DEF Call, ReadRows, Write, StopNothing, NotFound, Commit, LoseTransaction, rows
  <2> QED BY <2>1, Growth DEF RagInv, RowsInv, Backed
<1>2. Backed(request.seen)'
  <2>1. request'.seen \in {request.seen, status, NotRead}
    <3>1. request \in [op : Ops \cup {"none"}, stage : Stages, seen : [Stages -> StageStatus]]
      BY DEF RagInv, RagTypeOK
    <3> QED BY <3>1, RestTypes
            DEF Call, ReadRows, Write, StopNothing, NotFound, Commit, LoseTransaction
  <2> QED BY <1>0, <2>1, Growth DEF RagInv, RowsInv, Backed
<1>3. Backed(open.row)' /\ (open.agg = "ready" => Indexed)'
  <2>1. CASE Write
    <3>1. open'.row = Written.row /\ open'.agg = Written.agg
      BY <2>1 DEF Write
    <3>2. Backed(Written.row) /\ (Written.agg = "ready" => Indexed)
      BY <2>1, WrittenFacts DEF RagInv, Write
    <3> QED BY <3>1, <3>2, Growth DEF Backed
  <2>2. CASE ~Write
    <3>1. open' = open \/ open' = NoTransaction
      BY <2>2 DEF Call, ReadRows, StopNothing, NotFound, Commit, LoseTransaction
    <3> QED BY <1>0, <3>1, RestTypes, Growth DEF RagInv, RowsInv, Backed
  <2> QED BY <2>1, <2>2
<1> QED BY <1>1, <1>2, <1>3 DEF RowsInv

\* The messages of a handler carry no result.
LEMMA HandlerQueue ==
  ASSUME RagInv, Grows,
         \/ \E op \in Ops, s \in Stages : Call(op, s)
         \/ ReadRows \/ Write \/ StopNothing \/ NotFound \/ Commit \/ LoseTransaction
  PROVE  QueueInv'
<1>1. \A m \in Messages : m[2] => queue'[m] = queue[m]
  <2>1. CASE Write
    <3>1. \A m \in Written.sent : m[2] = FALSE
      <4>1. /\ start_ingest.sent = {<<Extract, FALSE>>}
            /\ retry_stage.sent = {<<request.stage, FALSE>>}
            /\ stop_stage.sent = {} /\ stop_ingest.sent = {} /\ delete_rag_document.sent = {}
        BY DEF start_ingest, stop_stage, stop_ingest, retry_stage, delete_rag_document
      <4>2. Written \in {start_ingest, stop_stage, stop_ingest, retry_stage, delete_rag_document}
        BY DEF Written
      <4>3. \A m \in Written.sent : m = <<Extract, FALSE>> \/ m = <<request.stage, FALSE>>
        BY <4>1, <4>2
      <4>4. ASSUME NEW m \in Written.sent PROVE m[2] = FALSE
        <5>1. CASE m = <<Extract, FALSE>>
          BY <5>1
        <5>2. CASE m = <<request.stage, FALSE>>
          BY <5>2
        <5> QED BY <4>3, <5>1, <5>2
      <4> QED BY <4>4
    <3>2. queue' = [m \in Messages |-> queue[m] + IF m \in Written.sent THEN 1 ELSE 0]
      BY <2>1 DEF Write
    <3>3. queue \in [Messages -> Nat]
      BY DEF RagInv, RagTypeOK
    <3> QED BY <3>1, <3>2, <3>3
  <2>2. CASE ~Write
    BY <2>2 DEF Call, ReadRows, StopNothing, NotFound, Commit, LoseTransaction
  <2> QED BY <2>1, <2>2
<1>2. \A m \in Messages : m[1] \in Stages
  BY DEF Messages
<1> QED BY <1>1, <1>2, Growth DEF RagInv, QueueInv

\* Handlers keep the invariant.
LEMMA HandlerInv ==
  ASSUME RagInv, Grows,
         \/ \E op \in Ops, s \in Stages : Call(op, s)
         \/ ReadRows \/ Write \/ StopNothing \/ NotFound \/ Commit \/ LoseTransaction
  PROVE  RagInv'
<1>1. RagTypeOK'
  BY HandlerTypes DEF RagInv
<1>2. RowsInv' /\ QueueInv'
  BY HandlerRows, HandlerQueue
<1>3. worker' = worker /\ UNCHANGED outputs
  BY DEF Call, ReadRows, Write, StopNothing, NotFound, Commit, LoseTransaction
<1>4. OutputInv'
  BY <1>3, OutputsKept DEF RagInv, outputs
<1>5. TasksInv'
  <2>1. worker \in [Workers -> Tasks]
    BY DEF RagInv, RagTypeOK, Tasks
  <2> QED BY <1>3, <2>1, SoundKept DEF RagInv, TasksInv
<1>6. CleanInv'
  <2>1. /\ cleanup' = cleanup \/ cleanup' = "sent"
        /\ raced' = raced /\ stored' = stored
    <3>1. CASE Commit
      BY <1>3, <3>1 DEF Commit, outputs
    <3>2. CASE ~Commit
      BY <1>3, <3>2
      DEF Call, ReadRows, Write, StopNothing, NotFound, LoseTransaction, deletion, outputs
    <3> QED BY <3>1, <3>2
  <2> QED BY <1>3, <2>1 DEF RagInv, CleanInv
<1> QED BY <1>1, <1>2, <1>4, <1>5, <1>6 DEF RagInv

\* So does cleaning up.
LEMMA CleanStepInv ==
  ASSUME RagInv, Grows, ListFiles \/ CleanFiles \/ CleanVectors
  PROVE  RagInv'
<1>1. RagTypeOK'
  BY CleanTypes DEF RagInv
<1>2. /\ UNCHANGED <<rows, queue, worker, recorded, cached, deleted, handlers>>
      /\ stored' \subseteq stored
  BY DEF ListFiles, CleanFiles, CleanVectors, outputs
<1>3. RowsInv'
  BY <1>2, Growth DEF RagInv, RowsInv, Backed, rows, handlers
<1>4. OutputInv'
  BY <1>2, OutputsKept DEF RagInv
<1>5. TasksInv'
  <2>1. worker \in [Workers -> Tasks]
    BY DEF RagInv, RagTypeOK, Tasks
  <2> QED BY <1>2, <2>1, SoundKept DEF RagInv, TasksInv
<1>6. QueueInv'
  <2>1. \A m \in Messages : m[1] \in Stages
    BY DEF Messages
  <2> QED BY <1>2, <2>1, Growth DEF RagInv, QueueInv
<1>7. CleanInv'
  <2>1. CASE CleanFiles
    <3>1. \A w \in Workers : worker[w].stage \in Stages
      BY DEF RagInv, RagTypeOK
    <3>2. cleanup' = "failed" \/ (/\ stored' = stored \ listed
                                  /\ raced' = \/ listed # stored \cap Files
                                              \/ \E w \in Workers : /\ worker[w].phase = "loaded"
                                                                    /\ worker[w].stage \in Files)
      BY <2>1 DEF CleanFiles
    <3>3. ASSUME cleanup' # "failed", ~raced'
          PROVE  /\ stored' \cap Files = {}
                 /\ \A w \in Workers : worker[w].phase = "loaded" => worker[w].stage \in Indexes
      <4>1. listed = stored \cap Files /\ stored' = stored \ listed
        BY <3>2, <3>3
      <4>2. \A w \in Workers : ~(worker[w].phase = "loaded" /\ worker[w].stage \in Files)
        BY <3>2, <3>3
      <4> QED BY <3>1, <4>1, <4>2, KindFacts
    <3> QED BY <1>2, <3>3 DEF CleanInv
  <2>2. CASE CleanVectors
    <3>1. cleanup' \in {"files", "done"} => cleanup \in {"files", "done"}
      BY <2>2 DEF CleanVectors
    <3>2. raced' = raced
      BY <2>2 DEF CleanVectors
    <3> QED BY <1>2, <3>1, <3>2 DEF RagInv, CleanInv
  <2>3. CASE ListFiles
    BY <2>3 DEF ListFiles, CleanInv
  <2> QED BY <2>1, <2>2, <2>3
<1> QED BY <1>1, <1>3, <1>4, <1>5, <1>6, <1>7 DEF RagInv

-----------------------------------------------------------------------------
(* Tasks.                                                                  *)

\* A task that has not read its input, and has not committed, is sound if what
\* was passed to it and the rows that it has read are.
LEMMA PlainSound ==
  ASSUME RagInv, Grows, NEW w \in Workers, worker'[w] \in Tasks,
         worker'[w].seen \in {worker[w].seen, status, NotRead},
         worker'[w].phase \notin Loaded \cup {"committed"},
         worker'[w].passed => Preceded(worker'[w].stage)
  PROVE  Sound(worker[w])'
<1>1. worker'[w].stage \in Stages
  BY DEF Tasks
<1>2. \A s \in Stages : NotRead[s] = "pending"
  BY DEF NotRead
<1>3. Backed(worker[w].seen)'
  BY <1>2, Growth DEF RagInv, TasksInv, Sound, RowsInv, Backed
<1>4. (worker[w].passed => Preceded(worker[w].stage))'
  BY <1>1, Growth
<1> QED BY <1>3, <1>4 DEF Sound, Loaded

\* What a task has read, once it has found its input.
LEMMA LoadFacts ==
  ASSUME RagInv, NEW s \in Stages, NEW passed \in BOOLEAN, passed => Preceded(s),
         InputThere(s, passed)
  PROVE  /\ Grounded(s)
         /\ s \in Embeds => Fresh
         /\ ~NothingToIndex(s) => Ordered(s)
         /\ NothingToIndex(s) => s \in Indexes /\ Excused
<1>1. CASE s \in Pipeline
  <2>1. Ordered(s)
    <3>1. CASE s = Extract
      BY <3>1, UpstreamFacts DEF Ordered
    <3>2. CASE s = Normalize
      BY <3>2, UpstreamFacts DEF Ordered, InputThere
    <3>3. CASE s = Chunk
      <4>1. Normalize \in stored /\ Normalize \in Stages
        BY <3>3 DEF InputThere, Stages, Pipeline
      <4>2. Ordered(Normalize)
        BY <4>1 DEF RagInv, OutputInv
      <4> QED BY <3>3, <4>1, <4>2, UpstreamFacts DEF Ordered
    <3> QED BY <1>1, <3>1, <3>2, <3>3 DEF Pipeline
  <2>2. s \notin Embeds /\ s \notin Indexes
    BY <1>1, KindFacts DEF LockStages
  <2> QED BY <2>1, <2>2 DEF Ordered, Grounded, NothingToIndex
<1>2. CASE s \in Embeds
  <2>1. Chunk \in stored /\ (passed \/ Chunk \in recorded)
    BY <1>2 DEF InputThere
  <2>2. Fresh
    BY <1>2, <2>1 DEF Preceded, Fresh
  <2>3. Ordered(s)
    <3>1. Ordered(Chunk)
      BY <2>1, StageFacts DEF RagInv, OutputInv
    <3>2. Upstream(s) = Pipeline
      BY <1>2, UpstreamFacts, ModelFacts
    <3> QED BY <2>1, <3>1, <3>2, UpstreamFacts DEF Ordered, Pipeline
  <2>4. s \notin Indexes
    BY <1>2, KindFacts
  <2> QED BY <2>2, <2>3, <2>4 DEF Ordered, Grounded, NothingToIndex
<1>3. CASE s \in Indexes
  <2> DEFINE m == s[2]
  <2>1. m \in Models /\ s = Index(m) /\ s \notin Embeds
    BY <1>3, ModelFacts, KindFacts
  <2>2. passed \/ Embed(m) \in recorded \cup stored
    BY <1>3 DEF InputThere
  <2>3. Embedded(m)
    BY <1>3, <2>1, <2>2 DEF Preceded, RagInv, OutputInv
  <2>4. Upstream(s) = Pipeline \cup {Embed(m)} /\ Embed(m) \in Embeds
    BY <2>1, UpstreamFacts, ModelFacts
  <2>5. NothingToIndex(s) = (Embed(m) \notin stored \/ Chunk \notin recorded)
    BY <1>3 DEF NothingToIndex
  <2> HIDE DEF m
  <2> QED BY <1>3, <2>1, <2>3, <2>4, <2>5 DEF Embedded, Fresh, Grounded, Ordered, Excused
<1> QED BY <1>1, <1>2, <1>3, KindFacts

\* The quiet steps of a task keep it sound.
LEMMA QuietSound ==
  ASSUME RagInv, Grows, NEW w \in Workers, Quiet(w)
  PROVE  TasksInv'
<1>0. worker \in [Workers -> Tasks] /\ RagTypeOK /\ Sound(worker[w])
      /\ Message(w) \in Messages
  BY DEF RagInv, RagTypeOK, Tasks, TasksInv, Message, Messages
<1>1. PICK task \in Tasks : worker' = [worker EXCEPT ![w] = task]
  BY <1>0, QuietShape
<1>2. \A v \in Workers : v # w => Sound(worker[v])'
  <2>1. ASSUME NEW v \in Workers, v # w PROVE Sound(worker[v])'
    <3>1. worker'[v] = worker[v] /\ worker[v] \in Tasks /\ Sound(worker[v])
      BY <1>0, <1>1, <2>1 DEF RagInv, TasksInv
    <3> QED BY <3>1, SoundKept
  <2> QED BY <2>1
<1>3. Sound(worker[w])'
  <2>1. ASSUME NEW m \in Messages, Take(w, m) \/ LockTimeout(w, m)
        PROVE  Sound(worker[w])'
    <3>1. \/ worker'[w] = Task("waiting", m)
          \/ worker'[w] = Task("refused", m)
          \/ worker'[w] = [Task("failing", m) EXCEPT !.seen = status]
          \/ worker'[w] = Idle
      BY <1>0, <2>1 DEF Take, LockTimeout, TryToFail
    <3>2. /\ worker'[w].passed => worker'[w].stage = m[1] /\ m[2]
          /\ worker'[w].seen \in {status, NotRead}
          /\ worker'[w].phase \in {"idle", "waiting", "refused", "failing"}
      BY <3>1, RestTypes DEF Task
    <3>3. m[2] => Preceded(m[1])
      BY <2>1 DEF RagInv, QueueInv, Take, LockTimeout
    <3>4. worker'[w] \in Tasks
      BY <1>0, <1>1
    <3>5. worker'[w].passed => Preceded(worker'[w].stage)
      BY <3>2, <3>3
    <3>6. worker'[w].phase \notin Loaded \cup {"committed"}
      BY <3>2 DEF Loaded
    <3> QED BY <3>2, <3>4, <3>5, <3>6, PlainSound
  <2>2. CASE Begin(w) \/ Missing(w) \/ TimeLimit(w) \/ Continue(w) \/ Notify(w) \/ ReadToFail(w)
    <3>1. \/ worker'[w] = Idle
          \/ \E phase \in {"working", "refused"} :
               worker'[w] = [worker[w] EXCEPT !.phase = phase]
          \/ /\ worker[w].phase = "failing"
             /\ worker'[w] = [worker[w] EXCEPT !.seen = status]
          \/ worker'[w] = [Task("failing", Message(w)) EXCEPT !.seen = status]
      BY <1>0, <2>2
      DEF Begin, Missing, TimeLimit, Continue, Notify, ReadToFail, Set, Rest, TryToFail
    <3>2. /\ worker'[w].passed => worker[w].passed /\ worker'[w].stage = worker[w].stage
          /\ worker'[w].seen \in {worker[w].seen, status, NotRead}
          /\ worker'[w].phase \in {"idle", "working", "refused", "failing"}
      <4>1. CASE worker'[w] = Idle
        BY <4>1, RestTypes
      <4>2. CASE \E phase \in {"working", "refused"} :
                   worker'[w] = [worker[w] EXCEPT !.phase = phase]
        BY <1>0, <4>2 DEF Tasks
      <4>3. CASE /\ worker[w].phase = "failing"
                 /\ worker'[w] = [worker[w] EXCEPT !.seen = status]
        BY <1>0, <4>3 DEF Tasks
      <4>4. CASE worker'[w] = [Task("failing", Message(w)) EXCEPT !.seen = status]
        BY <4>4 DEF Task, Message
      <4> QED BY <3>1, <4>1, <4>2, <4>3, <4>4
    <3>3. worker'[w].passed => Preceded(worker'[w].stage)
      BY <1>0, <3>2 DEF Sound
    <3>4. worker'[w] \in Tasks /\ worker'[w].phase \notin Loaded \cup {"committed"}
      BY <1>0, <1>1, <3>2 DEF Loaded
    <3> QED BY <3>2, <3>3, <3>4, PlainSound
  <2>3. CASE Load(w)
    <3> DEFINE s == worker[w].stage
    <3>1. /\ worker'[w] = [worker[w] EXCEPT !.phase = IF NothingToIndex(s) THEN "empty"
                                                      ELSE "loaded"]
          /\ InputThere(s, worker[w].passed)
      BY <1>0, <2>3 DEF Load, Set
    <3>2. /\ s \in Stages /\ worker[w].passed \in BOOLEAN
          /\ worker[w].passed => Preceded(s)
      BY <1>0 DEF Sound, Tasks
    <3>3. /\ Grounded(s) /\ (s \in Embeds => Fresh)
          /\ ~NothingToIndex(s) => Ordered(s)
          /\ NothingToIndex(s) => s \in Indexes /\ Excused
      BY <3>1, <3>2, LoadFacts
    <3>4. /\ worker'[w].stage = s /\ worker'[w].passed = worker[w].passed
          /\ worker'[w].seen = worker[w].seen
          /\ worker'[w].phase = IF NothingToIndex(s) THEN "empty" ELSE "loaded"
      BY <1>0, <3>1 DEF Tasks
    <3>5. Backed(worker[w].seen)'
      BY <1>0, <3>4, Growth DEF Sound, Backed
    <3> QED BY <3>2, <3>3, <3>4, <3>5, Growth DEF Sound
  <2> QED BY <2>1, <2>2, <2>3 DEF Quiet
<1> QED BY <1>2, <1>3 DEF TasksInv

\* A task takes a message, and passes its result on when it has committed.
LEMMA QuietQueue ==
  ASSUME RagInv, Grows, NEW w \in Workers, Quiet(w)
  PROVE  QueueInv'
<1>0. /\ queue \in [Messages -> Nat] /\ worker[w] \in Tasks /\ Sound(worker[w])
      /\ \A m \in Messages : m[1] \in Stages
  BY DEF RagInv, RagTypeOK, Tasks, TasksInv, Messages
<1>1. CASE \/ \E m \in Messages : Take(w, m) \/ LockTimeout(w, m)
           \/ Begin(w) \/ Missing(w) \/ Load(w) \/ TimeLimit(w) \/ Notify(w) \/ ReadToFail(w)
  <2>1. \A m \in Messages : queue'[m] > 0 => queue[m] > 0
    BY <1>0, <1>1
    DEF Take, LockTimeout, Begin, Missing, Load, TimeLimit, Notify, ReadToFail
  <2> QED BY <1>0, <2>1, Growth DEF RagInv, QueueInv
<1>2. CASE Continue(w)
  <2>1. \A m \in Messages : queue'[m] > 0 /\ m[2] =>
                              queue[m] > 0 \/ m[1] \in Following(worker[w].stage)
    BY <1>0, <1>2 DEF Continue
  <2>2. \A s \in Following(worker[w].stage) : Preceded(s)
    BY <1>0, <1>2 DEF Continue, Sound
  <2> QED BY <1>0, <2>1, <2>2, Growth DEF RagInv, QueueInv
<1> QED BY <1>1, <1>2 DEF Quiet

\* Where the files are removed, only index finds something to read.
LEMMA QuietClean ==
  ASSUME RagInv, NEW w \in Workers, Quiet(w)
  PROVE  CleanInv'
<1>0. worker \in [Workers -> Tasks] /\ CleanInv /\ RagTypeOK
  BY DEF RagInv, RagTypeOK, Tasks
<1>1. stored' = stored /\ cleanup' = cleanup /\ raced' = raced
  BY <1>0, QuietShape DEF outputs, deletion
<1>2. \A v \in Workers : v # w => worker'[v] = worker[v]
  BY <1>0, QuietShape
<1>3. CASE Load(w)
  <2> DEFINE s == worker[w].stage
  <2>1. s \in Stages /\ InputThere(s, worker[w].passed) /\ worker'[w].stage = s
    BY <1>0, <1>3 DEF Load, Set, Tasks
  <2>2. stored \cap Files = {} => s \in Indexes
    <3>1. Upload \in Files /\ Pipeline \subseteq Files
      BY DEF Files
    <3> QED BY <2>1, <3>1, KindFacts DEF InputThere, Pipeline
  <2> QED BY <1>0, <1>1, <1>2, <2>1, <2>2 DEF CleanInv
<1>4. CASE ~Load(w)
  <2>1. worker'[w].phase = "loaded" => worker[w].phase = "loaded"
                                       /\ worker'[w].stage = worker[w].stage
    <3>1. ASSUME NEW m \in Messages, Take(w, m) \/ LockTimeout(w, m)
          PROVE  worker'[w].phase # "loaded"
      <4>1. \/ worker'[w] = Task("waiting", m)
            \/ worker'[w] = Task("refused", m)
            \/ worker'[w] = [Task("failing", m) EXCEPT !.seen = status]
            \/ worker'[w] = Idle
        BY <1>0, <3>1 DEF Take, LockTimeout, TryToFail
      <4> QED BY <4>1, RestTypes DEF Task
    <3>2. CASE Begin(w) \/ Missing(w) \/ TimeLimit(w) \/ Continue(w)
      BY <1>0, <3>2, RestTypes DEF Begin, Missing, TimeLimit, Continue, Set, Rest, Tasks
    <3>3. CASE Notify(w)
      <4>1. \/ worker'[w] = Idle
            \/ worker'[w] = [Task("failing", Message(w)) EXCEPT !.seen = status]
        BY <1>0, <3>3 DEF Notify, TryToFail
      <4> QED BY <4>1, RestTypes DEF Task
    <3>4. CASE ReadToFail(w)
      BY <1>0, <3>4 DEF ReadToFail, Tasks
    <3> QED BY <1>4, <3>1, <3>2, <3>3, <3>4 DEF Quiet
  <2> QED BY <1>0, <1>1, <1>2, <2>1 DEF CleanInv
<1> QED BY <1>3, <1>4

\* Quiet steps, and expiring locks, keep the invariant.
LEMMA QuietInv ==
  ASSUME RagInv, Grows,
         (\E w \in Workers : Quiet(w)) \/ (\E s \in LockStages : Expire(s))
  PROVE  RagInv'
<1>1. RagTypeOK'
  BY QuietTypes DEF RagInv
<1>2. UNCHANGED <<rows, outputs, deletion, handlers>>
  BY QuietShape DEF RagInv, Expire
<1>3. RowsInv'
  BY <1>2, Growth DEF RagInv, RowsInv, Backed, rows, handlers
<1>4. OutputInv'
  BY <1>2, OutputsKept DEF RagInv, outputs
<1>5. TasksInv' /\ QueueInv' /\ CleanInv'
  <2>1. ASSUME NEW w \in Workers, Quiet(w) PROVE TasksInv' /\ QueueInv' /\ CleanInv'
    BY <2>1, QuietSound, QuietQueue, QuietClean
  <2>2. ASSUME NEW s \in LockStages, Expire(s) PROVE TasksInv' /\ QueueInv' /\ CleanInv'
    <3>1. worker' = worker /\ queue' = queue
      BY <2>2 DEF Expire
    <3>2. worker \in [Workers -> Tasks] /\ \A m \in Messages : m[1] \in Stages
      BY DEF RagInv, RagTypeOK, Tasks, Messages
    <3>3. TasksInv'
      BY <3>1, <3>2, SoundKept DEF RagInv, TasksInv
    <3>4. QueueInv'
      BY <3>1, <3>2, Growth DEF RagInv, QueueInv
    <3>5. CleanInv'
      BY <1>2, <3>1 DEF RagInv, CleanInv, outputs, deletion
    <3> QED BY <3>3, <3>4, <3>5
  <2> QED BY <2>1, <2>2
<1> QED BY <1>1, <1>3, <1>4, <1>5 DEF RagInv

\* A task that ends has left outputs that it had the input for, or none; and a
\* result of chunk is cached with its rows, or the rows are lost.
LEMMA EndingEffect ==
  ASSUME RagTypeOK, NEW w \in Workers, Ending(w)
  PROVE  \/ UNCHANGED <<stored, recorded, cached>>
         \/ /\ Output(w)
            /\ worker[w].stage = Chunk /\ Chunk \in cached' =>
                 Chunk \in recorded' \/ lost' \/ Chunk \in cached
<1> DEFINE s == worker[w].stage
           Kept == s = Chunk /\ Chunk \in cached' =>
                     Chunk \in recorded' \/ lost' \/ Chunk \in cached
<1>1. CASE Finish(w) \/ Raise(w)
  <2>1. Chunk \notin Indexes
    BY KindFacts DEF LockStages, Pipeline
  <2>2. Output(w) /\ recorded' = recorded \cup ({s} \ Indexes)
    BY <1>1 DEF Finish, Raise
  <2> QED BY <2>1, <2>2
<1>2. CASE already_processed(w) \/ Fail(w)
  BY <1>2 DEF already_processed, Fail, outputs
<1>3. CASE Break(w)
  BY <1>3 DEF Break
<1>4. CASE Interrupted(w) \/ UNCHANGED outputs
  <2>1. CASE UNCHANGED outputs
    BY <2>1 DEF outputs
  <2>2. CASE Interrupted(w) /\ ~UNCHANGED outputs
    <3>1. /\ Output(w)
          /\ lost' = (lost \/ (s = Chunk /\ s \in cached' /\ s \notin recorded))
          /\ recorded' = recorded
      BY <2>2 DEF Interrupted
    <3> QED BY <3>1
  <2> QED BY <1>4, <2>1, <2>2
<1>5. CASE FailCommit(w) \/ Hang(w) \/ Crash(w)
  BY <1>4, <1>5 DEF FailCommit, Hang, Crash
<1> QED BY <1>1, <1>2, <1>3, <1>5 DEF Ending

\* What was made, where a task that has read its input writes its output.
LEMMA OutputMade ==
  ASSUME RagInv, Grows, NEW w \in Workers, Output(w), UNCHANGED cleanup
  PROVE  \A t \in Stages : t = worker[w].stage => Made(t)'
<1> DEFINE s == worker[w].stage
<1>0. s \in Stages /\ Sound(worker[w])
  BY DEF RagInv, RagTypeOK, TasksInv
<1>1. worker[w].phase \in Loaded /\ Grounded(s)
  BY <1>0 DEF Output, Loaded, Sound
<1>2. Uncleaned' => /\ Upstream(s) \ Embeds \subseteq stored'
                    /\ ~dropped' => Upstream(s) \subseteq stored'
  BY <1>1 DEF Grounded, Grows
<1>3. CASE worker[w].phase = "loaded"
  <2>1. dropped' \/ s \in stored'
    BY <1>3 DEF Output
  <2>2. ASSUME NEW t \in Stages, t = s PROVE Made(t)'
    BY <1>2, <2>1, <2>2 DEF Made, Upstream
  <2> QED BY <2>2
<1>4. CASE worker[w].phase = "empty"
  <2>1. s \in Indexes /\ Excused
    BY <1>0, <1>4 DEF Sound
  <2>2. Uncleaned' => dropped' \/ lost'
    BY <2>1 DEF Excused, Grows
  <2>3. ASSUME NEW t \in Stages, t = s PROVE Made(t)'
    BY <1>2, <2>1, <2>2, <2>3 DEF Made, Upstream
  <2> QED BY <2>3
<1> QED BY <1>1, <1>3, <1>4 DEF Loaded

\* The order of the outputs when a task ends.
LEMMA EndingOutputInv ==
  ASSUME RagInv, Grows, NEW w \in Workers, Ending(w)
  PROVE  OutputInv'
<1> DEFINE s == worker[w].stage
<1>0. s \in Stages /\ Sound(worker[w]) /\ RagTypeOK /\ OutputInv
  BY DEF RagInv, RagTypeOK, TasksInv
<1>1. CASE UNCHANGED <<stored, recorded, cached>>
  BY <1>0, <1>1, OutputsKept
<1>2. CASE /\ Output(w)
           /\ s = Chunk /\ Chunk \in cached' => Chunk \in recorded' \/ lost' \/ Chunk \in cached
  <2>1. /\ stored' = stored \/ stored' = stored \cup {s}
        /\ recorded' = recorded \/ recorded' = recorded \cup ({s} \ Indexes)
        /\ cached' = cached \/ cached' = cached \cup {s}
        /\ UNCHANGED cleanup
    BY <1>0, EndingOutputs DEF deletion
  <2>2. worker[w].phase = "loaded" \/ (worker[w].phase = "empty" /\ stored' = stored)
    BY <1>2 DEF Output
  <2>3. \A t \in Stages : t \in stored' => Ordered(t)'
    <3>1. worker[w].phase = "loaded" => Ordered(s)
      BY <1>0 DEF Sound
    <3> QED BY <1>0, <2>1, <2>2, <3>1, Growth DEF OutputInv
  <2>4. \A m \in Models : Embed(m) \in recorded' \cup stored' => Embedded(m)'
    <3>1. ASSUME NEW m \in Models, s = Embed(m) PROVE Embedded(m)'
      <4>1. s \in Embeds /\ s \notin Indexes
        BY <3>1, ModelFacts, KindFacts
      <4>2. worker[w].phase = "loaded" /\ Fresh /\ Ordered(s)
        BY <1>0, <2>2, <4>1 DEF Sound, Loaded
      <4>3. Fresh'
        BY <4>2, Growth
      <4>4. Uncleaned' => Pipeline \subseteq stored'
        BY <3>1, <4>2, UpstreamFacts DEF Ordered, Grows
      <4>5. dropped' \/ Embed(m) \in stored'
        BY <1>2, <3>1, <4>2 DEF Output
      <4> QED BY <4>3, <4>4, <4>5 DEF Embedded
    <3>2. ASSUME NEW m \in Models, s # Embed(m), Embed(m) \in recorded' \cup stored'
          PROVE  Embedded(m)'
      <4>1. Embed(m) \in recorded \cup stored
        BY <2>1, <3>2
      <4> QED BY <1>0, <4>1, Growth DEF OutputInv
    <3> QED BY <3>1, <3>2
  <2>5. Chunk \in cached' => Fresh'
    BY <1>0, <1>2, <2>1, Growth DEF OutputInv, Fresh
  <2>6. \A i \in Indexes : i \in cached' => Made(i)'
    <3>1. \A t \in Stages : t = s => Made(t)'
      BY <1>2, <2>1, OutputMade
    <3> QED BY <1>0, <2>1, <3>1, Growth, StageFacts DEF OutputInv
  <2> QED BY <2>3, <2>4, <2>5, <2>6 DEF OutputInv
<1> QED BY <1>0, <1>1, <1>2, EndingEffect

\* The rows that a task writes claim what was made.
LEMMA EndingRowsInv ==
  ASSUME RagInv, Grows, NEW w \in Workers, Ending(w)
  PROVE  RowsInv'
<1> DEFINE s == worker[w].stage
           seen == worker[w].seen
<1>0. /\ s \in Stages /\ Sound(worker[w]) /\ RagTypeOK /\ RowsInv /\ OutputInv
      /\ status \in [Stages -> StageStatus] /\ seen \in [Stages -> StageStatus]
      /\ status' \in [Stages -> StageStatus]
  BY EndingRows DEF RagInv, RagTypeOK, TasksInv
<1>1. request' = request /\ open' = open /\ UNCHANGED cleanup
  BY <1>0, EndingOutputs DEF handlers, deletion
<1>2. Backed(request.seen)' /\ Backed(open.row)' /\ (open.agg = "ready" => Indexed)'
  BY <1>0, <1>1, Growth DEF RowsInv, Backed
<1>3. Backed(status)' /\ (agg = "ready" => Indexed)'
  <2>1. CASE UNCHANGED rows
    BY <1>0, <2>1, Growth DEF RowsInv, Backed, rows
  <2>2. CASE /\ Finish(w) \/ already_processed(w)
             /\ status' = Completed(s)
             /\ agg' = calculate_aggregate_status(status')
    <3>1. \A t \in Stages : t = s => Made(t)'
      <4>1. CASE Finish(w)
        BY <1>1, <4>1, OutputMade DEF Finish
      <4>2. CASE already_processed(w)
        <5>1. s \in cached /\ (s \in Indexes \/ s \in stored)
          BY <4>2 DEF already_processed
        <5>2. CASE s \in Indexes
          BY <1>0, <5>1, <5>2, Growth DEF OutputInv
        <5>3. CASE s \in stored
          <6>1. Made(s)
            BY <1>0, <5>3 DEF OutputInv, Ordered, Made
          <6> QED BY <1>0, <6>1, Growth
        <5> QED BY <5>1, <5>2, <5>3
      <4> QED BY <2>2, <4>1, <4>2
    <3>2. \A t \in Stages : status'[t] = IF t = s THEN "completed" ELSE status[t]
      BY <1>0, <2>2 DEF Completed
    <3>3. \A t \in Stages : status'[t] # "processing" /\ (status'[t] = "completed" => Made(t)')
      BY <1>0, <3>1, <3>2, Growth DEF RowsInv, Backed
    <3>4. agg' = "ready" => \A i \in Indexes : status'[i] = "completed"
      BY <1>0, <2>2, AggregateFacts
    <3>5. agg' = "ready" => \A i \in Indexes : Made(i)'
      BY <3>3, <3>4, StageFacts
    <3>6. agg' = "ready" => Indexed'
      BY <3>5 DEF Made, Indexed
    <3> QED BY <3>3, <3>6 DEF Backed
  <2>3. CASE status' = Failing(status, s) /\ agg' = calculate_aggregate_status(status')
    <3>1. /\ Failing(status, s) \in [Stages -> StageStatus]
          /\ \A t \in Stages : Failing(status, s)[t] \in {status[t], "cancelled", "failed"}
      BY <1>0, CascadeFacts
    <3>2. Backed(Failing(status, s))
      BY <1>0, <3>1 DEF RowsInv, Backed
    <3>3. agg' = "ready" => Indexed
      BY <2>3, <3>1, <3>2, ReadyBacked
    <3> QED BY <2>3, <3>2, <3>3, Growth DEF Backed
  <2>4. CASE /\ status' = Overwrite(Failing(seen, s), seen, s)
             /\ agg' = calculate_aggregate_status(Failing(seen, s))
    <3>1. /\ Failing(seen, s) \in [Stages -> StageStatus]
          /\ \A t \in Stages : Failing(seen, s)[t] \in {seen[t], "cancelled", "failed"}
      BY <1>0, CascadeFacts
    <3>2. Backed(Failing(seen, s))
      BY <1>0, <3>1 DEF Sound, Backed
    <3>3. Backed(Overwrite(Failing(seen, s), seen, s))
      BY <1>0, <3>1, <3>2, OverwriteFacts DEF RowsInv
    <3>4. agg' = "ready" => Indexed
      BY <2>4, <3>1, <3>2, ReadyBacked
    <3> QED BY <2>4, <3>3, <3>4, Growth DEF Backed
  <2> QED BY <1>0, <2>1, <2>2, <2>3, <2>4, EndingRows
<1> QED BY <1>2, <1>3 DEF RowsInv

\* What a task that has committed passes on is there.
LEMMA CommittedFacts ==
  ASSUME RagInv, OutputInv', NEW w \in Workers, Finish(w) \/ already_processed(w)
  PROVE  \A f \in Following(worker[w].stage) : Preceded(f)'
<1> DEFINE s == worker[w].stage
<1>0. s \in Stages /\ \A t \in Pipeline : t \notin Embeds /\ t \notin Indexes
  BY KindFacts DEF RagInv, RagTypeOK, LockStages
<1>1. s \notin Indexes => s \in recorded' \cup stored'
  BY DEF Finish, already_processed, outputs
<1>2. s \in cached' \/ s \in recorded'
  BY DEF Finish, already_processed, outputs
<1>3. CASE s \in {Extract, Normalize}
  <2>1. Following(s) \subseteq Pipeline
    BY <1>3, ChainFacts DEF Pipeline
  <2> QED BY <1>0, <2>1 DEF Preceded
<1>4. CASE s = Chunk
  <2>1. Fresh'
    BY <1>2, <1>4 DEF OutputInv, Fresh
  <2>2. \A f \in Following(s) : f \in Embeds /\ f \notin Indexes
    BY <1>4, ChainFacts, KindFacts
  <2> QED BY <2>1, <2>2 DEF Preceded
<1>5. CASE s \in Embeds
  <2>1. PICK m \in Models : s = Embed(m)
    BY <1>5, ModelFacts
  <2>2. Following(s) = {Index(m)} /\ Index(m)[2] = m /\ Index(m) \notin Embeds /\ s \notin Indexes
    BY <1>5, <2>1, ChainFacts, ModelFacts, KindFacts
  <2>3. Embedded(m)'
    BY <1>1, <2>1, <2>2 DEF OutputInv
  <2>4. Preceded(Index(m))'
    BY <2>2, <2>3 DEF Preceded
  <2> QED BY <2>2, <2>4
<1>6. CASE s \in Indexes
  BY <1>6, ChainFacts
<1> QED BY <1>0, <1>3, <1>4, <1>5, <1>6, KindFacts DEF Pipeline

\* A task that ends leaves a file only if it had read its input.
LEMMA EndingStored ==
  ASSUME NEW w \in Workers, Ending(w)
  PROVE  \/ stored' = stored
         \/ worker[w].phase = "loaded" /\ stored' = stored \cup {worker[w].stage}
<1>1. Output(w) => \/ stored' = stored
                   \/ worker[w].phase = "loaded" /\ stored' = stored \cup {worker[w].stage}
  BY DEF Output
<1>2. Output(w) \/ stored' = stored
  BY DEF Ending, Finish, already_processed, Break, Raise, FailCommit, Hang, Fail, Crash,
         Interrupted, outputs
<1> QED BY <1>1, <1>2

\* A task that ends keeps the invariant.
LEMMA EndingInv ==
  ASSUME RagInv, Grows, NEW w \in Workers, Ending(w)
  PROVE  RagInv'
<1>0. /\ RagTypeOK /\ worker \in [Workers -> Tasks] /\ worker[w] \in Tasks
      /\ Sound(worker[w]) /\ QueueInv /\ CleanInv
  BY DEF RagInv, RagTypeOK, Tasks, TasksInv
<1>1. RagTypeOK' /\ RowsInv' /\ OutputInv'
  BY <1>0, EndingTypes, EndingRowsInv, EndingOutputInv
<1>2. \A v \in Workers : v # w => worker'[v] = worker[v]
  BY <1>0, EndingShape
<1>3. TasksInv'
  <2>1. ASSUME NEW v \in Workers, v # w PROVE Sound(worker[v])'
    <3>1. worker'[v] = worker[v] /\ worker[v] \in Tasks /\ Sound(worker[v])
      BY <1>0, <1>2, <2>1 DEF RagInv, TasksInv
    <3> QED BY <3>1, SoundKept
  <2>2. Sound(worker[w])'
    <3>1. CASE worker' = [worker EXCEPT ![w] = Idle]
      <4>1. worker'[w] = Idle
        BY <1>0, <3>1
      <4> QED BY <4>1, IdleSound DEF Sound, Backed
    <3>2. CASE /\ Finish(w) \/ already_processed(w)
               /\ worker' = [worker EXCEPT ![w] = [worker[w] EXCEPT !.phase = "committed"]]
      <4>1. /\ worker'[w].stage = worker[w].stage /\ worker'[w].passed = worker[w].passed
            /\ worker'[w].seen = worker[w].seen /\ worker'[w].phase = "committed"
            /\ worker[w].stage \in Stages
        BY <1>0, <3>2 DEF Tasks
      <4>2. \A f \in Following(worker[w].stage) : Preceded(f)'
        BY <1>1, <3>2, CommittedFacts
      <4>3. Backed(worker[w].seen)'
        BY <1>0, <4>1, Growth DEF Sound, Backed
      <4>4. (worker[w].passed => Preceded(worker[w].stage))'
        BY <1>0, <4>1, Growth DEF Sound
      <4> QED BY <4>1, <4>2, <4>3, <4>4 DEF Sound, Loaded
    <3>3. CASE \E phase \in {"refused", "stuck"} :
                 worker' = [worker EXCEPT ![w] = [worker[w] EXCEPT !.phase = phase]]
      <4>1. /\ worker'[w].stage = worker[w].stage /\ worker'[w].passed = worker[w].passed
            /\ worker'[w].seen = worker[w].seen /\ worker'[w].phase \in {"refused", "stuck"}
        BY <1>0, <3>3 DEF Tasks
      <4>2. worker'[w] \in Tasks
        BY <1>1 DEF RagTypeOK, Tasks
      <4>3. worker'[w].passed => Preceded(worker'[w].stage)
        BY <1>0, <4>1 DEF Sound
      <4>4. worker'[w].phase \notin Loaded \cup {"committed"}
        BY <4>1 DEF Loaded
      <4> QED BY <4>1, <4>2, <4>3, <4>4, PlainSound
    <3> QED BY <1>0, <3>1, <3>2, <3>3, EndingShape
  <2> QED BY <2>1, <2>2 DEF TasksInv
<1>4. QueueInv'
  <2>1. \A m \in Messages : queue'[m] > 0 => queue[m] > 0 \/ m = Message(w)
    BY <1>0, EndingShape DEF RagTypeOK
  <2>2. Message(w)[2] => Preceded(Message(w)[1])
    BY <1>0 DEF Message, Sound
  <2>3. \A m \in Messages : m[1] \in Stages
    BY DEF Messages
  <2> QED BY <1>0, <2>1, <2>2, <2>3, Growth DEF QueueInv
<1>5. CleanInv'
  <2>1. cleanup' = cleanup /\ raced' = raced
    BY <1>0, EndingOutputs DEF deletion
  <2>2. worker'[w].phase # "loaded"
    BY <1>0, EndingShape, RestTypes DEF Tasks
  <2>3. cleanup \in {"files", "done"} /\ ~raced => stored' \cap Files = {}
    BY <1>0, EndingStored, KindFacts DEF CleanInv
  <2> QED BY <1>0, <1>2, <2>1, <2>2, <2>3 DEF CleanInv
<1> QED BY <1>1, <1>3, <1>4, <1>5 DEF RagInv

\* The invariant holds in every state.
THEOREM RagInvariant == RagSpec => []RagInv
<1>1. ASSUME RagInv, [RagNext]_ragVars
      PROVE  RagInv'
  <2>1. CASE UNCHANGED ragVars
    <3>1. Grows
      BY <2>1 DEF ragVars, outputs, deletion, Grows, Uncleaned
    <3>2. RagTypeOK'
      BY <1>1, <2>1 DEF ragVars, rows, outputs, deletion, handlers, RagInv, RagTypeOK
    <3>3. RowsInv'
      BY <1>1, <2>1, <3>1, Growth DEF ragVars, rows, handlers, RagInv, RowsInv, Backed
    <3>4. OutputInv'
      BY <1>1, <2>1, <3>1, OutputsKept DEF ragVars, outputs, RagInv
    <3>5. worker \in [Workers -> Tasks] /\ \A m \in Messages : m[1] \in Stages
      BY <1>1 DEF RagInv, RagTypeOK, Tasks, Messages
    <3>6. TasksInv'
      BY <1>1, <2>1, <3>1, <3>5, SoundKept DEF ragVars, RagInv, TasksInv
    <3>7. QueueInv'
      BY <1>1, <2>1, <3>1, <3>5, Growth DEF ragVars, RagInv, QueueInv
    <3>8. CleanInv'
      BY <1>1, <2>1 DEF ragVars, outputs, deletion, RagInv, CleanInv
    <3> QED BY <3>2, <3>3, <3>4, <3>6, <3>7, <3>8 DEF RagInv
  <2>2. CASE RagNext
    <3>1. Grows
      BY <1>1, <2>2, StepGrows DEF RagInv
    <3>2. \/ \E op \in Ops, s \in Stages : Call(op, s)
          \/ ReadRows \/ Write \/ StopNothing \/ NotFound \/ Commit \/ LoseTransaction
          \/ \E w \in Workers : Quiet(w)
          \/ \E w \in Workers : Ending(w)
          \/ \E s \in LockStages : Expire(s)
          \/ ListFiles \/ CleanFiles \/ CleanVectors
      BY <2>2 DEF RagNext, Quiet, Ending
    <3> QED BY <1>1, <3>1, <3>2, HandlerInv, QuietInv, EndingInv, CleanStepInv
  <2> QED BY <1>1, <2>1, <2>2
<1> QED BY <1>1, InitInv, PTL DEF RagSpec

-----------------------------------------------------------------------------
(* The theorems.                                                           *)

\* Rows, messages, workers, locks and handlers keep their types.
THEOREM RagTypes == RagSpec => []RagTypeOK
<1>1. RagInv => RagTypeOK
  BY DEF RagInv
<1> QED BY <1>1, RagInvariant, PTL

\* A completed stage was made from what is stored, through retries, cached
\* results and lost transactions; what a silent failure of S3 or lost rows of
\* chunks may cost is its own output.
THEOREM RagCompletedHasInputs == RagSpec => []CompletedHasInputs
<1>1. RagInv => CompletedHasInputs
  BY DEF RagInv, RowsInv, Backed, Made, CompletedHasInputs
<1> QED BY <1>1, RagInvariant, PTL

\* A document reported ready has had the vectors of every model stored, unless S3
\* has failed silently or rows of chunks were lost.
THEOREM RagReadyIsIndexed == RagSpec => []ReadyIsIndexed
<1>1. RagInv => ReadyIsIndexed
  BY DEF RagInv, RowsInv, Indexed, ReadyIsIndexed
<1> QED BY <1>1, RagInvariant, PTL

\* The files that the clean-up has removed do not come back, unless a task was at
\* work on one: every stage starts from a file of the one before.
THEOREM RagCleanedStaysClean == RagSpec => []CleanedStaysClean
<1>1. RagInv => CleanedStaysClean
  BY DEF RagInv, CleanInv, CleanedStaysClean
<1> QED BY <1>1, RagInvariant, PTL

\* The tasks of one model leave the rows of the others alone: what they cascade to
\* is their own index stage, and what they overwrite are the rows that they change.
THEOREM RagOneModelAlone == RagSpec => OneModelFailsAlone
<1> DEFINE Alone(w, s) ==
      /\ worker[w].phase \in Working \cup {"failing"}
      /\ worker[w].stage \in LockStages
      /\ worker'[w] # worker[w]
      /\ s[2] # worker[w].stage[2]
      => status'[s] = status[s]
<1>1. ASSUME RagInv, [RagNext]_ragVars, NEW w \in Workers, NEW s \in LockStages,
             worker[w].stage \in LockStages, worker'[w] # worker[w],
             s[2] # worker[w].stage[2]
      PROVE  status'[s] = status[s]
  <2> DEFINE own == worker[w].stage
             seen == worker[w].seen
  <2>0. /\ RagTypeOK /\ s \in Stages /\ s # own /\ own \in Stages
        /\ status \in [Stages -> StageStatus] /\ seen \in [Stages -> StageStatus]
    BY <1>1, StageFacts DEF RagInv, RagTypeOK
  <2>1. s \notin Downstream(own)
    <3>1. CASE own \in Embeds
      <4>1. Downstream(own) = {Index(own[2])} /\ Index(own[2])[2] = own[2]
        BY <3>1 DEF Downstream, Embeds, Extract, Normalize, Chunk, Embed, Index
      <4> QED BY <1>1, <4>1
    <3>2. CASE own \in Indexes
      BY <3>2 DEF Downstream, Embeds, Indexes, Extract, Normalize, Chunk, Embed, Index
    <3> QED BY <1>1, <3>1, <3>2 DEF LockStages
  <2>2. ASSUME NEW row \in [Stages -> StageStatus] PROVE Failing(row, own)[s] = row[s]
    BY <2>0, <2>1 DEF Failing, cascade_cancel
  <2>3. worker' # worker
    BY <1>1
  <2>4. \E v \in Workers : Quiet(v) \/ Ending(v)
    BY <1>1, <2>3
    DEF ragVars, RagNext, Quiet, Ending, Call, ReadRows, Write, StopNothing, NotFound, Commit,
        LoseTransaction, Expire, ListFiles, CleanFiles, CleanVectors
  <2>5. ASSUME NEW v \in Workers, Quiet(v) PROVE status'[s] = status[s]
    BY <2>0, <2>5, QuietShape DEF rows
  <2>6. ASSUME NEW v \in Workers, Ending(v) PROVE status'[s] = status[s]
    <3>1. v = w
      <4>1. worker \in [Workers -> Tasks]
        BY <2>0 DEF RagTypeOK, Tasks
      <4> QED BY <1>1, <2>0, <2>6, <4>1, EndingShape
    <3>2. CASE UNCHANGED rows
      BY <3>2 DEF rows
    <3>3. CASE status' = Completed(own)
      BY <2>0, <3>3 DEF Completed
    <3>4. CASE status' = Failing(status, own)
      BY <2>0, <2>2, <3>4
    <3>5. CASE status' = Overwrite(Failing(seen, own), seen, own)
      BY <2>0, <2>2, <3>5 DEF Overwrite
    <3> QED BY <2>0, <2>6, <3>1, <3>2, <3>3, <3>4, <3>5, EndingRows
  <2> QED BY <2>4, <2>5, <2>6
<1>2. ASSUME RagInv, [RagNext]_ragVars
      PROVE  [\A w \in Workers, s \in LockStages : Alone(w, s)]_ragVars
  BY <1>1, <1>2
<1> QED BY <1>2, RagInvariant, PTL DEF RagSpec, OneModelFailsAlone
-----------------------------------------------------------------------------
(* Progress.                                                               *)

\* The measure of every phase.
LEMMA LeftPhases ==
  /\ LeftIn("waiting") = 6 /\ LeftIn("working") = 5
  /\ LeftIn("loaded") = 4 /\ LeftIn("empty") = 4
  /\ LeftIn("committed") = 3 /\ LeftIn("refused") = 2
  /\ LeftIn("failing") = 1 /\ LeftIn("stuck") = 1 /\ LeftIn("idle") = 0
BY DEF LeftIn, Loaded

\* A task at work has steps left.
LEMMA LeftBusy ==
  \A phase \in Phases : phase # "idle" => LeftIn(phase) \in 1..6
BY LeftPhases DEF Phases, Working, Loaded

\* A step of a task that is at work brings it closer to its end, except the
\* reading of the rows before its failure is written.
LEMMA TaskAdvances ==
  ASSUME RagTypeOK, NEW w \in Workers, worker[w].phase # "idle", Quiet(w) \/ Ending(w)
  PROVE  LeftIn(worker'[w].phase) < LeftIn(worker[w].phase) \/ ReadToFail(w)
<1> DEFINE phase == worker[w].phase
           next == worker'[w].phase
           Closer == LeftIn(next) < LeftIn(phase)
<1>0. worker \in [Workers -> Tasks] /\ worker[w] \in Tasks /\ phase \in Phases /\ phase # "idle"
  BY DEF RagTypeOK, Tasks
<1>1. LeftIn(phase) \in 1..6
  BY <1>0, LeftBusy
<1>2. next = "idle" => Closer
  BY <1>1, LeftPhases
<1>3. Rest(w) => next = "idle"
  BY <1>0 DEF Rest, Idle
<1>4. ASSUME NEW p, Set(w, p) PROVE next = p
  BY <1>0, <1>4 DEF Set, Tasks
<1>5. phase \in Working => LeftIn(phase) \in {4, 5}
  BY LeftPhases DEF Working, Loaded
<1>6. Output(w) => LeftIn(phase) = 4
  BY LeftPhases DEF Output
<1>7. CASE \E m \in Messages : Take(w, m) \/ LockTimeout(w, m)
  BY <1>0, <1>7 DEF Take, LockTimeout
<1>8. CASE Begin(w)
  <2>1. phase = "waiting" /\ next = "working"
    BY <1>4, <1>8 DEF Begin
  <2> QED BY <2>1, LeftPhases
<1>9. CASE Missing(w)
  <2>1. next = "idle" \/ (phase = "waiting" /\ next = "refused")
    BY <1>3, <1>4, <1>9 DEF Missing
  <2> QED BY <1>2, <2>1, LeftPhases
<1>10. CASE Load(w)
  <2>1. phase = "working" /\ next \in {"empty", "loaded"}
    BY <1>4, <1>10 DEF Load
  <2> QED BY <2>1, LeftPhases
<1>11. CASE Continue(w)
  <2>1. phase = "committed" /\ (next = "idle" \/ next = "refused")
    BY <1>3, <1>4, <1>11 DEF Continue
  <2> QED BY <1>2, <2>1, LeftPhases
<1>12. CASE Notify(w)
  <2>1. phase = "refused"
    BY <1>12 DEF Notify
  <2>2. \/ worker' = [worker EXCEPT ![w] = Idle]
        \/ worker' = [worker EXCEPT ![w] = [Task("failing", Message(w)) EXCEPT !.seen = status]]
    BY <1>12 DEF Notify, TryToFail
  <2>3. next = "idle" \/ next = "failing"
    BY <1>0, <2>2 DEF Idle, Task
  <2> QED BY <1>2, <2>1, <2>3, LeftPhases
<1>13. CASE Finish(w) \/ already_processed(w)
  <2>1. next = "committed"
    BY <1>4, <1>13 DEF Finish, already_processed
  <2>2. LeftIn(phase) \in {4, 5}
    BY <1>5, <1>6, <1>13 DEF Finish, already_processed, Working
  <2> QED BY <2>1, <2>2, LeftPhases
<1>14. CASE FailCommit(w) \/ Hang(w)
  <2>1. phase \in Working /\ (next = "refused" \/ next = "stuck")
    BY <1>4, <1>14 DEF FailCommit, Hang
  <2> QED BY <1>5, <2>1, LeftPhases
<1>15. CASE Break(w) \/ Raise(w) \/ Fail(w) \/ TimeLimit(w) \/ Crash(w)
  <2>1. Rest(w)
    BY <1>15 DEF Break, Raise, Fail, TimeLimit, Crash
  <2> QED BY <1>2, <1>3, <2>1
<1> QED
  BY <1>7, <1>8, <1>9, <1>10, <1>11, <1>12, <1>13, <1>14, <1>15 DEF Quiet, Ending

\* A step of a worker adds no messages, unless it is lost or sends the stages
\* that follow one that has committed.
LEMMA TaskSends ==
  ASSUME RagTypeOK, NEW w \in Workers, Quiet(w) \/ Ending(w),
         NEW m \in Messages, queue'[m] > queue[m]
  PROVE  \/ crashes' > crashes
         \/ worker[w].phase = "committed" /\ m[2] /\ m[1] \in Following(worker[w].stage)
<1>0. queue \in [Messages -> Nat] /\ queue[m] \in Nat /\ crashes \in Nat
  BY BoundsAssumption DEF RagTypeOK
<1>1. queue' # queue
  BY <1>0
<1>2. ASSUME NEW n \in Messages, Take(w, n) \/ LockTimeout(w, n) PROVE FALSE
  <2>1. queue' = [queue EXCEPT ![n] = @ - 1]
    BY <1>2 DEF Take, LockTimeout
  <2>2. queue'[m] \in {queue[m], queue[m] - 1}
    BY <1>0, <2>1
  <2> QED BY <1>0, <2>2
<1>3. CASE Continue(w)
  <2>1. worker[w].phase = "committed"
    BY <1>3 DEF Continue
  <2>2. queue' = [n \in Messages |->
          queue[n] + IF n[2] /\ n[1] \in Following(worker[w].stage) THEN 1 ELSE 0]
    BY <1>1, <1>3 DEF Continue
  <2>3. queue'[m] = queue[m] + IF m[2] /\ m[1] \in Following(worker[w].stage) THEN 1 ELSE 0
    BY <2>2
  <2>4. CASE ~(m[2] /\ m[1] \in Following(worker[w].stage))
    BY <1>0, <2>3, <2>4
  <2> QED BY <2>1, <2>4
<1>4. CASE Crash(w)
  BY <1>0, <1>4 DEF Crash
<1>5. CASE Quiet(w) /\ ~Continue(w)
  BY <1>1, <1>2, <1>5
  DEF Quiet, Begin, Missing, Load, TimeLimit, Notify, ReadToFail
<1>6. CASE Ending(w) /\ ~Crash(w)
  BY <1>1, <1>6 DEF Ending, Finish, already_processed, Break, Raise, FailCommit, Hang, Fail
<1> QED BY <1>3, <1>4, <1>5, <1>6

\* Every task comes closer to its end with every step that it takes, and messages
\* come only from requests, lost workers and committed stages: what IngestSettles
\* needs of the steps, for any number of workers, models, requests and crashes.
THEOREM RagTasksAdvance == RagSpec => TasksAdvance
<1> DEFINE Nearer(w) ==
             /\ worker[w].phase # "idle"
             /\ worker'[w] # worker[w]
             => LeftIn(worker'[w].phase) < LeftIn(worker[w].phase) \/ ReadToFail(w)
           Cause(m) == queue'[m] > queue[m] =>
             \/ request.op # "none" /\ request'.op = "none"
             \/ crashes' > crashes
             \/ \E w \in Workers :
                  worker[w].phase = "committed" /\ m[2] /\ m[1] \in Following(worker[w].stage)
<1>1. ASSUME RagTypeOK, [RagNext]_ragVars, NEW w \in Workers,
             worker[w].phase # "idle", worker'[w] # worker[w]
      PROVE  LeftIn(worker'[w].phase) < LeftIn(worker[w].phase) \/ ReadToFail(w)
  <2>1. worker' # worker
    BY <1>1
  <2>2. PICK v \in Workers : Quiet(v) \/ Ending(v)
    BY <1>1, <2>1
    DEF ragVars, RagNext, Quiet, Ending, Call, ReadRows, Write, StopNothing, NotFound, Commit,
        LoseTransaction, Expire, ListFiles, CleanFiles, CleanVectors
  <2>3. \E task : worker' = [worker EXCEPT ![v] = task]
    BY <1>1, <2>2, QuietShape, EndingShape
  <2>4. v = w
    BY <1>1, <2>3 DEF RagTypeOK
  <2> QED BY <1>1, <2>2, <2>4, TaskAdvances
<1>2. ASSUME RagTypeOK, [RagNext]_ragVars, NEW m \in Messages, queue'[m] > queue[m]
      PROVE  \/ request.op # "none" /\ request'.op = "none"
             \/ crashes' > crashes
             \/ \E w \in Workers :
                  worker[w].phase = "committed" /\ m[2] /\ m[1] \in Following(worker[w].stage)
  <2>1. queue[m] \in Nat
    BY <1>2 DEF RagTypeOK
  <2>2. queue' # queue
    BY <1>2, <2>1
  <2>3. Write \/ \E w \in Workers : Quiet(w) \/ Ending(w)
    BY <1>2, <2>2
    DEF ragVars, RagNext, Quiet, Ending, Call, ReadRows, StopNothing, NotFound, Commit,
        LoseTransaction, Expire, ListFiles, CleanFiles, CleanVectors
  <2>4. CASE Write
    BY <2>4 DEF Write, NoRequest
  <2>5. CASE \E w \in Workers : Quiet(w) \/ Ending(w)
    BY <1>2, <2>5, TaskSends
  <2> QED BY <2>3, <2>4, <2>5
<1>3. ASSUME RagInv, [RagNext]_ragVars
      PROVE  [(\A w \in Workers : Nearer(w)) /\ (\A m \in Messages : Cause(m))]_ragVars
  <2>1. RagTypeOK
    BY <1>3 DEF RagInv
  <2>2. \A w \in Workers : Nearer(w)
    BY <1>1, <1>3, <2>1
  <2>3. \A m \in Messages : Cause(m)
    BY <1>2, <1>3, <2>1
  <2> QED BY <2>2, <2>3
<1> QED BY <1>3, RagInvariant, PTL DEF RagSpec, TasksAdvance
=============================================================================
