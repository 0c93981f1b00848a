------------------------------- MODULE ChatTurn -------------------------------
(***************************************************************************)
(* Chat turns: the requests that send a message to a chat or resume a      *)
(* paused run, the sessions they work in, the durable rows of chat_turns   *)
(* and chat messages, and the answers cached in Redis.                     *)
(*                                                                         *)
(* A service method that flushes changes columns of the session only; the  *)
(* next commit of that session, by whichever service, makes all of them    *)
(* durable; a session that closes without a commit loses them (get_db).    *)
(*                                                                         *)
(* A request that sends a message starts at most one turn, which takes its *)
(* number; a request that resumes works on the turn of another one.  One   *)
(* chat and one user; texts are left out.  Steps of a request that no      *)
(* other request can see are taken together with the next one that others  *)
(* can.                                                                    *)
(***************************************************************************)
EXTENDS Integers, FiniteSets

CONSTANTS
    MaxRequests, \* requests that send a message or resume a paused run
    MaxTurns,   \* requests among them that may start a turn
    Keys,       \* values of the Idempotency-Key header
    Payloads,   \* request bodies, told apart by build_request_hash
    None        \* an absent key, body, turn, message or cached answer

\* Requests are numbered as they arrive.
Requests == 1 .. MaxRequests

ASSUME MaxRequestsAssumption == MaxRequests \in Nat
ASSUME NoneIsNothing == None \notin Keys \cup Requests \cup Payloads
ASSUME KeysAreNotTurns == Keys \cap Requests = {}

VARIABLES
    row,        \* durable columns of each turn; no columns: no row
    messages,   \* durable chat messages
    cache,      \* Redis: the message ids stored under each key
    pc,         \* where each request is
    key,        \* the key each request carries
    body,       \* the request body of each request that is served
    turn,       \* the turn each request works on
    flushed,    \* columns each request's session has flushed, not committed
    phase,      \* the ChatTurnState of each request
    started,    \* turns started so far: the clock behind started_at
    told,       \* messages and pauses named to clients
    pauses,     \* pauses committed so far (history)
    raced       \* keys and turns that two requests raced for (history)

session == <<key, body, turn>>
vars == <<row, messages, cache, pc, session, flushed, phase, started, told, pauses, raced>>

User(r) == <<r, "user">>
Assistant(r) == <<r, "assistant">>
Pause(r) == <<r, "pause">>

NoColumns == [c \in {} |-> None]

\* The columns of f over those of g.
Over(f, g) ==
    [c \in (DOMAIN f) \cup (DOMAIN g) |-> IF c \in DOMAIN f THEN f[c] ELSE g[c]]

Durable(t) == DOMAIN row[t] # {}

\* Where a request has passed its check and its turn is not durable yet.
Window == {"redis", "accepted", "turn_started"}

\* Where execute_turn works on a durable turn.
Executing == {"user_saved", "context", "running", "saved", "completing", "completed"}

\* Where a resume has read the pause and has not committed its decision.
Deciding == {"resuming", "cancelling"}

Active == Window \cup Executing \cup Deciding \cup {"paused"}

Init ==
    /\ row = [t \in Requests |-> NoColumns]
    /\ messages = {}
    /\ cache = [k \in Keys |-> None]
    /\ pc = [r \in Requests |-> "idle"]
    /\ key = [r \in Requests |-> None]
    /\ body = [r \in Requests |-> None]
    /\ turn = [r \in Requests |-> None]
    /\ flushed = [r \in Requests |-> NoColumns]
    /\ phase = [r \in Requests |-> "init"]
    /\ started = 0
    /\ told = {}
    /\ pauses = {}
    /\ raced = {}

-------------------------------------------------------------------------------
\* Sessions.

Goto(r, place) == pc' = [pc EXCEPT ![r] = place]

flush(r, columns) == flushed' = [flushed EXCEPT ![r] = Over(columns, @)]

\* The row after a commit of the session of r that flushes the columns first.
committed(r, columns) ==
    [row EXCEPT ![turn[r]] = Over(Over(columns, flushed[r]), @)]

commit(r, columns) ==
    /\ row' = committed(r, columns)
    /\ flushed' = [flushed EXCEPT ![r] = NoColumns]

\* The request is over: its session is closed and its objects are gone.
close(r) ==
    /\ Goto(r, "ended")
    /\ flushed' = [flushed EXCEPT ![r] = NoColumns]
    /\ body' = [body EXCEPT ![r] = None]
    /\ phase' = [phase EXCEPT ![r] = "init"]
    /\ UNCHANGED <<key, turn>>

transition(r, to) == phase' = [phase EXCEPT ![r] = to]

tell(things) == told' = told \cup things

-------------------------------------------------------------------------------
\* Sending a message: the idempotency checks.

TurnsOfKey(k) == {t \in Requests : Durable(t) /\ row[t].idempotency_key = k}

get_latest_by_idempotency_key(k) ==
    CHOOSE t \in TurnsOfKey(k) :
        \A u \in TurnsOfKey(k) : row[u].started_at <= row[t].started_at

\* Mutant: the body is compared only while the earlier turn is in flight.
has_payload_mismatch_in_flight(k, b) ==
    /\ TurnsOfKey(k) # {}
    /\ row[get_latest_by_idempotency_key(k)].status = "started"
    /\ row[get_latest_by_idempotency_key(k)].request_hash # b

has_payload_mismatch(k, b) ==
    TurnsOfKey(k) # {} /\ row[get_latest_by_idempotency_key(k)].request_hash # b

\* Mutant: only a completed turn stops a repeated request.
check_turn_idempotency_completed(k, b) ==
    LET latest == row[get_latest_by_idempotency_key(k)]
    IN  CASE k = None \/ TurnsOfKey(k) = {} -> "none"
          [] has_payload_mismatch(k, b) -> "conflict"
          [] latest.status = "completed" -> "completed"
          [] OTHER -> "none"

\* No row, or a row that is neither started nor completed: "none".
check_turn_idempotency(k, b) ==
    LET latest == row[get_latest_by_idempotency_key(k)]
    IN  CASE k = None \/ TurnsOfKey(k) = {} -> "none"
          [] has_payload_mismatch(k, b) -> "conflict"
          [] OTHER -> IF latest.status = "started" THEN "processing"
                      ELSE IF latest.status = "completed"
                                /\ None \notin {latest.user_message_id, latest.assistant_message_id}
                           THEN "completed" ELSE "none"

\* Requests with this key that have passed the check and whose turn is not
\* durable yet.
Unseen(k) == {s \in Requests : k # None /\ key[s] = k /\ pc[s] \in Window}

\* send_message_stream up to the end of the check in the database: the
\* request goes on ...
send_message_stream(r, k, b) ==
    /\ pc[r] = "idle"
    /\ Cardinality({s \in Requests : turn[s] = s}) < MaxTurns
    /\ check_turn_idempotency(k, b) = "none"
    /\ key' = [key EXCEPT ![r] = k]
    /\ body' = [body EXCEPT ![r] = b]
    /\ turn' = [turn EXCEPT ![r] = r]
    /\ raced' = IF Unseen(k) = {} THEN raced ELSE raced \cup {k}
    /\ Goto(r, IF k = None THEN "accepted" ELSE "redis")
    /\ UNCHANGED <<row, messages, cache, flushed, phase, started, told, pauses>>

\* ... or is answered at once: conflict, processing, or the ids of the turn.
send_refused(r, k, b) ==
    LET latest == row[get_latest_by_idempotency_key(k)]
    IN  /\ pc[r] = "idle"
        /\ check_turn_idempotency(k, b) # "none"
        /\ tell(IF check_turn_idempotency(k, b) = "completed"
                THEN {latest.user_message_id, latest.assistant_message_id} ELSE {})
        /\ Goto(r, "ended")
        /\ UNCHANGED <<row, messages, cache, session, flushed, phase, started, pauses, raced>>

\* The check in Redis: an entry is the answer ...
answer_from_cache(r) ==
    /\ pc[r] = "redis"
    /\ cache[key[r]] # None
    /\ tell(cache[key[r]])
    /\ close(r)
    /\ UNCHANGED <<row, messages, cache, started, pauses, raced>>

\* ... and no entry, or a failure of Redis, lets the request go on.
check_idempotency(r) ==
    /\ pc[r] = "redis"
    /\ Goto(r, "accepted")
    /\ UNCHANGED <<row, messages, cache, session, flushed, phase, started, told, pauses, raced>>

\* An entry expires after a day.
CacheExpires(k) ==
    /\ cache[k] # None
    /\ cache' = [cache EXCEPT ![k] = None]
    /\ UNCHANGED <<row, messages, pc, session, flushed, phase, started, told, pauses, raced>>

-------------------------------------------------------------------------------
\* execute_turn: the turn, the user's message and the context.

start_turn(r) ==
    /\ pc[r] = "accepted"
    /\ started' = started + 1
    /\ flush(r, [idempotency_key |-> key[r], request_hash |-> body[r],
                 started_at |-> started + 1, status |-> "started", pause_status |-> None,
                 user_message_id |-> None, assistant_message_id |-> None])
    /\ Goto(r, "turn_started")
    /\ UNCHANGED <<row, messages, cache, session, phase, told, pauses, raced>>

\* Commits the message with the turn; attach_user_message is flushed after it.
create_user_message(r) ==
    /\ pc[r] = "turn_started"
    /\ messages' = messages \cup {User(r)}
    /\ row' = committed(r, NoColumns)
    /\ flushed' = [flushed EXCEPT ![r] = [user_message_id |-> User(r)]]
    /\ transition(r, "user_persisted")
    /\ Goto(r, "user_saved")
    /\ UNCHANGED <<cache, session, started, told, pauses, raced>>

\* The user_message event, for a turn that is not resumed, and the context.
load_chat_context(r) ==
    /\ pc[r] = "user_saved"
    /\ tell(IF turn[r] = r THEN {User(r)} ELSE {})
    /\ transition(r, "context_loaded")
    /\ Goto(r, "context")
    /\ UNCHANGED <<row, messages, cache, session, flushed, started, pauses, raced>>

\* generate_chat_title commits the session when it names the chat.
start_execution(r) ==
    /\ pc[r] = "context"
    /\ commit(r, NoColumns) \/ UNCHANGED <<row, flushed>>
    /\ transition(r, "execution_started")
    /\ Goto(r, "running")
    /\ UNCHANGED <<messages, cache, session, started, told, pauses, raced>>

-------------------------------------------------------------------------------
\* The events of the pipeline, and what execute_turn does at their end.

delta(r) ==
    /\ pc[r] = "running"
    /\ phase[r] # "delta_streaming"
    /\ transition(r, "delta_streaming")
    /\ UNCHANGED <<row, messages, cache, pc, session, flushed, started, told, pauses, raced>>

\* FINAL with some text.
create_assistant_message(r) ==
    /\ pc[r] = "running"
    /\ messages' = messages \cup {Assistant(r)}
    /\ commit(r, NoColumns)
    /\ Goto(r, "saved")
    /\ UNCHANGED <<cache, session, phase, started, told, pauses, raced>>

\* Mutant: the answer is finished only once it is cached under its key.
complete_turn_cached(r) ==
    /\ pc[r] = "saved"
    /\ key[r] # None
    /\ cache' = [cache EXCEPT ![key[r]] = {User(r), Assistant(r)}]
    /\ flush(r, [status |-> "completed", pause_status |-> None,
                 assistant_message_id |-> Assistant(r)])
    /\ transition(r, "final_persisted")
    /\ Goto(r, "completing")
    /\ UNCHANGED <<row, messages, session, started, told, pauses, raced>>

\* store_idempotency, whose failure is logged only, and complete_turn, which
\* is flushed.
complete_turn(r) ==
    /\ pc[r] = "saved"
    /\ \/ key[r] # None /\ cache' = [cache EXCEPT ![key[r]] = {User(r), Assistant(r)}]
       \/ UNCHANGED cache
    /\ flush(r, [status |-> "completed", pause_status |-> None,
                 assistant_message_id |-> Assistant(r)])
    /\ transition(r, "final_persisted")
    /\ Goto(r, "completing")
    /\ UNCHANGED <<row, messages, session, started, told, pauses, raced>>

\* The final event.
final(r) ==
    /\ pc[r] = "completing"
    /\ tell({Assistant(r)})
    /\ transition(r, "completed")
    /\ Goto(r, "completed")
    /\ UNCHANGED <<row, messages, cache, session, flushed, started, pauses, raced>>

\* FINAL without text, whose fail_turn is flushed, and the end of a completed
\* stream: the session closes without a commit.
end_of_stream(r) ==
    /\ pc[r] \in {"running", "completed"}
    /\ close(r)
    /\ UNCHANGED <<row, messages, cache, started, told, pauses, raced>>

\* Mutant: the pause is flushed, and not committed before the stop event.
pause_turn_flushed(r) ==
    /\ pc[r] = "running"
    /\ phase[r] = "execution_started"
    /\ \E reason \in {"waiting_input", "waiting_confirmation"} :
           flush(r, [status |-> "paused", pause_status |-> reason])
    /\ transition(r, "paused")
    /\ Goto(r, "paused")
    /\ UNCHANGED <<row, messages, cache, session, started, told, pauses, raced>>

\* STOP, which comes before any text.
pause_turn(r) ==
    /\ pc[r] = "running"
    /\ phase[r] = "execution_started"
    /\ \E reason \in {"waiting_input", "waiting_confirmation"} :
           commit(r, [status |-> "paused", pause_status |-> reason])
    /\ pauses' = pauses \cup {Pause(r)}
    /\ transition(r, "paused")
    /\ Goto(r, "paused")
    /\ UNCHANGED <<messages, cache, session, started, told, raced>>

\* The stop event.
stop(r) ==
    /\ pc[r] = "paused"
    /\ tell({Pause(r)})
    /\ close(r)
    /\ UNCHANGED <<row, messages, cache, started, pauses, raced>>

\* Mutant: an error without partial text leaves no message.
fail_turn_silent(r) ==
    /\ pc[r] = "running"
    /\ messages' = IF phase[r] = "delta_streaming" THEN messages \cup {Assistant(r)}
                   ELSE messages
    /\ row' = committed(r, [status |-> "failed", pause_status |-> None])
    /\ close(r)
    /\ UNCHANGED <<cache, started, told, pauses, raced>>

\* ERROR: fail_turn, and the message with the partial text or the error, whose
\* commit covers both; attach_assistant_message is flushed only.
fail_turn(r) ==
    /\ pc[r] = "running"
    /\ messages' = messages \cup {Assistant(r)}
    /\ row' = committed(r, [status |-> "failed", pause_status |-> None])
    /\ close(r)
    /\ UNCHANGED <<cache, started, told, pauses, raced>>

-------------------------------------------------------------------------------
\* Resuming a paused run.

validate_action(pause_status, action) ==
    \/ pause_status = "waiting_input" /\ action \in {"input", "cancel"}
    \/ pause_status = "waiting_confirmation" /\ action \in {"confirm", "cancel"}

\* Requests that have read the same pause and have not committed yet.
Undecided(t) == {s \in Requests : turn[s] = t /\ pc[s] \in Deciding}

\* resume_run reads the paused turn and validates the action, without a lock;
\* a request that it refuses changes nothing.
resume_run(r, t, action) ==
    /\ pc[r] = "idle"
    /\ Durable(t)
    /\ row[t].status = "paused"
    /\ validate_action(row[t].pause_status, action)
    /\ turn' = [turn EXCEPT ![r] = t]
    /\ raced' = IF Undecided(t) = {} THEN raced ELSE raced \cup {t}
    /\ Goto(r, IF action = "cancel" THEN "cancelling" ELSE "resuming")
    /\ UNCHANGED <<row, messages, cache, key, body, flushed, phase, started, told, pauses>>

\* Mutant: the route does not commit before it streams.
resume_turn_flushed(r) ==
    /\ pc[r] = "resuming"
    /\ flush(r, [status |-> "resumed", pause_status |-> None])
    /\ transition(r, "user_persisted")
    /\ Goto(r, "user_saved")
    /\ UNCHANGED <<row, messages, cache, session, started, told, pauses, raced>>

\* Mutant: a resumed turn has no user message, and skips that phase.
resume_turn_in_init(r) ==
    /\ pc[r] = "resuming"
    /\ commit(r, [status |-> "resumed", pause_status |-> None])
    /\ Goto(r, "user_saved")
    /\ UNCHANGED <<messages, cache, session, phase, started, told, pauses, raced>>

\* Commits, and execute_turn starts without a user message.
resume_turn(r) ==
    /\ pc[r] = "resuming"
    /\ commit(r, [status |-> "resumed", pause_status |-> None])
    /\ transition(r, "user_persisted")
    /\ Goto(r, "user_saved")
    /\ UNCHANGED <<messages, cache, session, started, told, pauses, raced>>

cancel_turn(r) ==
    /\ pc[r] = "cancelling"
    /\ row' = committed(r, [status |-> "cancelled"])
    /\ close(r)
    /\ UNCHANGED <<messages, cache, started, told, pauses, raced>>

-------------------------------------------------------------------------------
\* The client disconnects, the process stops, a statement fails, or an early
\* return: no such chat or attachment, no plan to continue.
Abandon(r) ==
    /\ pc[r] \in Active
    /\ close(r)
    /\ UNCHANGED <<row, messages, cache, started, told, pauses, raced>>

\* What a client may do.
Arrive(r) ==
    /\ \A s \in 1 .. r - 1 : pc[s] # "idle"
    /\ \/ \E k \in Keys \cup {None}, b \in Payloads :
              send_message_stream(r, k, b) \/ send_refused(r, k, b)
       \/ \E t \in Requests, action \in {"input", "confirm", "cancel"} :
              resume_run(r, t, action)

\* What the server does for a request.
Serve(r) ==
    \/ answer_from_cache(r) \/ check_idempotency(r)
    \/ start_turn(r) \/ create_user_message(r) \/ load_chat_context(r) \/ start_execution(r)
    \/ delta(r) \/ create_assistant_message(r) \/ complete_turn(r) \/ final(r)
    \/ end_of_stream(r) \/ pause_turn(r) \/ stop(r) \/ fail_turn(r)
    \/ resume_turn(r) \/ cancel_turn(r)

Next ==
    \/ \E r \in Requests : Arrive(r) \/ Serve(r) \/ Abandon(r)
    \/ \E k \in Keys : CacheExpires(k)

ChatSafety == Init /\ [][Next]_vars

\* Each request is a coroutine of its own, and the pipeline it awaits ends
\* (GraphOrchestrator); clients need not send or resume anything.
Fairness == \A r \in Requests : WF_vars(Serve(r))

ChatSpec == ChatSafety /\ Fairness

-------------------------------------------------------------------------------
Columns == {"idempotency_key", "request_hash", "started_at", "status", "pause_status",
            "user_message_id", "assistant_message_id"}

Statuses == {"started", "completed", "paused", "resumed", "cancelled", "failed"}

Phases == {"init", "user_persisted", "context_loaded", "execution_started",
           "delta_streaming", "final_persisted", "paused", "completed"}

\* Columns whose turn is one of the first n, and whose messages are among ids.
ColumnsOK(f, ids, n) ==
    /\ DOMAIN f \subseteq Columns
    /\ "idempotency_key" \in DOMAIN f => f["idempotency_key"] \in Keys \cup {None}
    /\ "request_hash" \in DOMAIN f => f["request_hash"] \in Payloads
    /\ "started_at" \in DOMAIN f => f["started_at"] \in 1 .. n
    /\ "status" \in DOMAIN f => f["status"] \in Statuses
    /\ "user_message_id" \in DOMAIN f => f["user_message_id"] \in ids \cup {None}
    /\ "assistant_message_id" \in DOMAIN f => f["assistant_message_id"] \in ids \cup {None}

\* Every variable has its type.  A row is absent or complete, and rows, flushed
\* columns and Redis only refer to messages that are durable already.
TypeOK ==
    /\ \A t \in Requests : ColumnsOK(row[t], messages, started) /\ DOMAIN row[t] \in {{}, Columns}
    /\ messages \subseteq Requests \X {"user", "assistant"}
    /\ cache \in [Keys -> (SUBSET messages) \cup {None}]
    /\ pc \in [Requests -> Active \cup {"idle", "ended"}]
    /\ key \in [Requests -> Keys \cup {None}]
    /\ body \in [Requests -> Payloads \cup {None}]
    /\ turn \in [Requests -> Requests \cup {None}]
    /\ \A r \in Requests : ColumnsOK(flushed[r], messages, started)
    /\ phase \in [Requests -> Phases]
    /\ started \in Nat
    /\ pauses \subseteq Requests \X {"pause"}
    /\ raced \subseteq Keys \cup Requests

Promise == INSTANCE StoreBeforeTell WITH stored <- messages \cup pauses

\* Nothing is told before it is stored: the message ids of the user_message,
\* final and cached events and the paused run of the stop event are committed
\* in a step before the event (chat_turn_orchestrator, IdempotencyManager).
ToldIsStored == Promise!Spec

\* The turns of a key whose final event a client was told, be it by the request
\* that started the turn or by one that resumed it.
AnsweredTurns(k) ==
    {t \in TurnsOfKey(k) : \E r \in Requests : turn[r] = t /\ Assistant(r) \in told}

WasPaused(t) == \E r \in Requests : turn[r] = t /\ Pause(r) \in pauses

\* An idempotency key is answered by one turn.  An answered turn is followed by
\* another only if it was paused: check_turn_idempotency lets a repeated request
\* through while the earlier turn is paused or resumed, and both may be answered
\* then; or if two requests with that key were checked before the turn of either
\* was durable.
OneAnswerPerKey ==
    \A k \in Keys \ raced : \A t, u \in AnsweredTurns(k) :
        row[t].started_at < row[u].started_at => WasPaused(t)

\* An idempotency key stands for one request body: durable turns with one key
\* have one request hash, unless such a race happened (has_payload_mismatch).
OnePayloadPerKey ==
    \A k \in Keys \ raced : \A t, u \in TurnsOfKey(k) :
        row[t].request_hash = row[u].request_hash

\* A turn is worked on by one request at a time: two streams execute one
\* turn, and so one plan, only if two resumes read the same pause before
\* either of them committed (resume_run).
OneSegmentPerTurn ==
    \A r, s \in Requests :
        r # s /\ turn[r] = turn[s] /\ pc[r] \in Executing /\ pc[s] \in Executing
            => turn[r] \in raced

\* A turn as PausableRun sees it.
StoredState(t) ==
    CASE ~Durable(t) -> "none"
      [] Durable(t) /\ row[t].status \in {"started", "resumed"} -> "working"
      [] Durable(t) /\ row[t].status = "paused" -> "paused"
      [] OTHER -> "over"

HeldBy(t) == {r \in Requests : turn[r] = t /\ pc[r] \in Executing \cup Deciding}

Turn(t) ==
    INSTANCE PausableRun WITH
        Holders <- Requests,
        state <- StoredState(t),
        holders <- HeldBy(t),
        disturbed <- (t \in raced)

\* Every turn is a PausableRun: it becomes durable under the request that
\* opened it, is taken up only from a pause and by one request at a time, and
\* stays over once it is failed or cancelled; unless two resumes read the same
\* pause before either of them committed.
TurnsArePausable ==
    /\ \A t \in Requests : Turn(t)!Init
    /\ [][\A t \in Requests : Turn(t)!Step]_vars

\* A turn that is durably failed has left a message in the chat that says so
\* (fail_turn is committed with the message of the error branch).
FailureLeavesMessage ==
    \A t \in Requests : Durable(t) /\ row[t].status = "failed" =>
        \E r \in Requests : turn[r] = t /\ Assistant(r) \in messages

VALID_TRANSITIONS ==
    [p \in Phases |->
        CASE p = "init"              -> {"user_persisted"}
          [] p = "user_persisted"    -> {"context_loaded"}
          [] p = "context_loaded"    -> {"execution_started"}
          [] p \in {"execution_started", "delta_streaming"} ->
                 {"delta_streaming", "paused", "final_persisted"}
          [] p = "final_persisted"   -> {"completed"}
          [] OTHER                   -> {}]

\* No path through execute_turn makes a transition that ChatTurnState would
\* log as invalid and carry out all the same, while the stream is open.
PhasesAreValid ==
    [][\A r \in Requests : phase'[r] # phase[r] /\ pc'[r] # "ended" =>
           phase'[r] \in VALID_TRANSITIONS[phase[r]]]_vars

\* Every request that the server takes up ends its stream.
EveryRequestEnds == \A r \in Requests : pc[r] \in Active ~> pc[r] = "ended"

\* How many steps a request at a place and in a phase has left at most.
LeftAt(place, ph) ==
    CASE place = "redis" -> 10
      [] place = "accepted" -> 9
      [] place \in {"turn_started", "resuming"} -> 8
      [] place = "user_saved" -> 7
      [] place = "context" -> 6
      [] place = "running" -> IF ph = "delta_streaming" THEN 4 ELSE 5
      [] place = "saved" -> 3
      [] place = "completing" -> 2
      [] place \in {"completed", "paused", "cancelling"} -> 1
      [] OTHER -> 0

StepsLeft(r) == LeftAt(pc[r], phase[r])

\* A request never goes back: each step that the server takes for it brings it
\* closer to the end of its stream, and no other request, not even one that
\* works on the same turn, gives it more to do.
RequestsAdvance ==
    [][\A r \in Requests :
           /\ Serve(r) => StepsLeft(r)' < StepsLeft(r)
           /\ pc[r] \in Active => StepsLeft(r)' <= StepsLeft(r)]_vars
===============================================================================
