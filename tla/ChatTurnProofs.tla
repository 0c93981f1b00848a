---------------------------- MODULE ChatTurnProofs ----------------------------
(***************************************************************************)
(* Chat turns keep their promises for any number of requests, keys and     *)
(* request bodies: what clients are told is stored, a key is answered once *)
(* and stands for one body, a turn is worked on by one request, outside    *)
(* the two races that the code leaves open; failures are told, and phases  *)
(* follow VALID_TRANSITIONS.                                               *)
(***************************************************************************)
EXTENDS ChatTurn, WellFoundedInduction, TLAPS

\* Rows and flushed columns are functions of the turn and the request.
FunInv ==
    /\ row = [t \in Requests |-> row[t]]
    /\ flushed = [r \in Requests |-> flushed[r]]

\* A durable turn is that of the request that started it, with its key, and is
\* never durably completed.
RowInv ==
    \A t \in Requests : Durable(t) =>
        /\ turn[t] = t /\ pc[t] # "idle"
        /\ row[t].idempotency_key = key[t]
        /\ row[t].status # "completed"

\* What a request has flushed and which turn it works on, by where it is.
PcInv ==
    \A r \in Requests :
        /\ pc[r] = "idle" => turn[r] = None /\ key[r] = None
        /\ key[r] # None => turn[r] = r
        /\ pc[r] \in Window => turn[r] = r /\ ~Durable(r) /\ body[r] \in Payloads
        /\ pc[r] = "redis" => key[r] # None
        /\ pc[r] \in Executing \cup Deciding \cup {"paused"} =>
               turn[r] \in Requests /\ Durable(turn[r])
        /\ pc[r] \in Deciding => turn[r] # r
        /\ pc[r] \in {"idle", "redis", "accepted", "paused", "ended"} \cup Deciding =>
               DOMAIN flushed[r] = {}
        /\ pc[r] = "turn_started" =>
               /\ DOMAIN flushed[r] = Columns
               /\ flushed[r].idempotency_key = key[r]
               /\ flushed[r].request_hash = body[r]
               /\ flushed[r].status = "started"
        /\ pc[r] \in {"user_saved", "context", "running", "saved"} =>
               DOMAIN flushed[r] \subseteq {"user_message_id"}

\* The phase of a stream, by where it is.
PhaseInv ==
    \A r \in Requests :
        /\ pc[r] \in {"idle", "ended"} \cup Window \cup Deciding => phase[r] = "init"
        /\ pc[r] = "user_saved" => phase[r] = "user_persisted"
        /\ pc[r] = "context" => phase[r] = "context_loaded"
        /\ pc[r] \in {"running", "saved"} => phase[r] \in {"execution_started", "delta_streaming"}
        /\ pc[r] = "completing" => phase[r] = "final_persisted"

\* What the next event of a stream names is stored.
StoreInv ==
    /\ told \subseteq messages \cup pauses
    /\ \A r \in Requests :
        /\ pc[r] \in Executing /\ turn[r] = r => User(r) \in messages
        /\ pc[r] \in {"saved", "completing"} => Assistant(r) \in messages
        /\ pc[r] = "paused" => Pause(r) \in pauses

\* One request at a time works on a turn or decides on its pause, unless two
\* read the pause.  A turn that is durably started is still its own request's.
SegmentInv ==
    /\ \A r \in Requests : pc[r] \in Executing \cup Deciding /\ turn[r] # r =>
           row[turn[r]].status # "started"
    /\ \A r \in Requests : pc[r] \in Executing /\ turn[r] = r => row[r].status = "started"
    /\ \A r, s \in Requests :
           /\ turn[r] = turn[s] /\ r # s
           /\ pc[r] \in Executing \cup Deciding /\ pc[s] \in Executing \cup Deciding
           => turn[r] \in raced
    /\ \A r \in Requests :
           pc[r] \in Executing /\ row[turn[r]].status \notin {"started", "resumed"} =>
               turn[r] \in raced
    /\ \A r \in Requests : pc[r] \in Deciding /\ row[turn[r]].status # "paused" =>
           turn[r] \in raced

\* The turns of a key follow one another, unless two requests were checked at
\* once: only the last one may be durably started.
KeyInv ==
    \A k \in Keys \ raced :
        /\ \A r, s \in Requests :
               key[r] = k /\ key[s] = k /\ pc[r] \in Window /\ pc[s] \in Window => r = s
        /\ \A r, t \in Requests :
               key[r] = k /\ pc[r] \in Window /\ Durable(t) /\ row[t].idempotency_key = k =>
                   /\ row[t].request_hash = body[r]
                   /\ row[t].status # "started"
                   /\ pc[r] = "turn_started" => row[t].started_at < flushed[r].started_at
        /\ \A t, u \in Requests :
               /\ Durable(t) /\ row[t].idempotency_key = k
               /\ Durable(u) /\ row[u].idempotency_key = k
               => /\ row[t].request_hash = row[u].request_hash
                  /\ row[t].status = "started" /\ t # u => row[u].started_at < row[t].started_at

\* An answer of a request: saved, told or cached.
Answered(r) ==
    \/ pc[r] \in {"saved", "completing", "completed"}
    \/ Assistant(r) \in told
    \/ \E k \in Keys : cache[k] # None /\ Assistant(r) \in cache[k]

\* The turn of an answered request stays durably started for good.
AnswerInv ==
    \A r \in Requests : Answered(r) =>
        /\ pc[r] \in {"saved", "completing", "completed", "ended"}
        /\ key[r] # None => Durable(r) /\ row[r].status = "started"

\* A turn that is durably paused, or that another request works on, was paused.
PauseInv ==
    /\ \A t \in Requests : Durable(t) /\ row[t].status = "paused" => WasPaused(t)
    /\ \A r \in Requests : turn[r] \in Requests \ {r} => WasPaused(turn[r])

Base == TypeOK /\ FunInv /\ RowInv /\ PcInv

-------------------------------------------------------------------------------
\* Columns.

\* What the merged columns are.
LEMMA OverColumns ==
    ASSUME NEW f, NEW g
    PROVE  /\ DOMAIN Over(f, g) = (DOMAIN f) \cup (DOMAIN g)
           /\ \A c \in DOMAIN f : Over(f, g)[c] = f[c]
           /\ \A c \in (DOMAIN g) \ (DOMAIN f) : Over(f, g)[c] = g[c]
BY DEF Over

\* Columns merged with none.
LEMMA OverNothing ==
    ASSUME NEW f, NEW g, DOMAIN f = {}
    PROVE  /\ DOMAIN Over(f, g) = DOMAIN g /\ \A c \in DOMAIN g : Over(f, g)[c] = g[c]
           /\ DOMAIN Over(g, f) = DOMAIN g /\ \A c \in DOMAIN g : Over(g, f)[c] = g[c]
<1>1. (DOMAIN f) \cup (DOMAIN g) = DOMAIN g /\ (DOMAIN g) \cup (DOMAIN f) = DOMAIN g
    OBVIOUS
<1> QED BY <1>1 DEF Over

\* No columns.
LEMMA NoColumnsEmpty == DOMAIN NoColumns = {}
BY DEF NoColumns

\* Columns stay typed as messages and turns are added.
LEMMA ColumnsGrow ==
    ASSUME NEW f, NEW ids, NEW more, NEW n \in Nat, NEW m \in Nat,
           ColumnsOK(f, ids, n), ids \subseteq more, n <= m
    PROVE  ColumnsOK(f, more, m)
BY DEF ColumnsOK

\* The merged columns are typed.
LEMMA OverTyped ==
    ASSUME NEW f, NEW g, NEW ids, NEW n, ColumnsOK(f, ids, n), ColumnsOK(g, ids, n)
    PROVE  ColumnsOK(Over(f, g), ids, n)
<1> DEFINE h == Over(f, g)
<1>1. /\ DOMAIN h = (DOMAIN f) \cup (DOMAIN g)
      /\ \A c \in DOMAIN h :
             (c \in DOMAIN f /\ h[c] = f[c]) \/ (c \in DOMAIN g /\ h[c] = g[c])
    BY DEF Over
<1> HIDE DEF h
<1>2. ColumnsOK(h, ids, n)
    BY <1>1 DEF ColumnsOK
<1> QED BY <1>2 DEF h

\* No columns are columns of any type.
LEMMA NoColumnsTyped == ASSUME NEW ids, NEW n PROVE ColumnsOK(NoColumns, ids, n)
BY NoColumnsEmpty DEF ColumnsOK

\* The smallest of a set of numbers.
LEMMA LeastOf ==
    ASSUME NEW S \in SUBSET Nat, S # {}
    PROVE  \E x \in S : \A y \in S : x <= y
<1>1. PICK x \in S : \A y \in S : ~(<<y, x>> \in OpToRel(<, Nat))
    BY NatLessThanWellFounded, WFMin
<1>2. \A y \in S : ~(y < x)
    BY <1>1 DEF OpToRel
<1> QED BY <1>2

\* get_latest_by_idempotency_key finds a turn of the key when there is one.
LEMMA LatestIsOne ==
    ASSUME TypeOK, NEW k, TurnsOfKey(k) # {}
    PROVE  /\ get_latest_by_idempotency_key(k) \in TurnsOfKey(k)
           /\ \A u \in TurnsOfKey(k) :
                  row[u].started_at <= row[get_latest_by_idempotency_key(k)].started_at
<1> DEFINE Bounds == {n \in Nat : \A u \in TurnsOfKey(k) : row[u].started_at <= n}
<1>1. \A u \in TurnsOfKey(k) : row[u].started_at \in 1 .. started
    BY DEF TurnsOfKey, TypeOK, ColumnsOK, Durable, Columns
<1>2. started \in Bounds
    BY <1>1 DEF TypeOK
<1>3. PICK m \in Bounds : \A n \in Bounds : m <= n
    BY <1>2, LeastOf
<1>4. \E t \in TurnsOfKey(k) : row[t].started_at = m
    <2> SUFFICES ASSUME \A t \in TurnsOfKey(k) : row[t].started_at # m PROVE FALSE
        OBVIOUS
    <2>1. m \in Nat /\ m >= 1
        BY <1>1, <1>3
    <2>2. m - 1 \in Nat /\ \A u \in TurnsOfKey(k) : row[u].started_at <= m - 1
        BY <1>1, <1>3, <2>1
    <2> QED BY <1>3, <2>1, <2>2
<1>5. \E t \in TurnsOfKey(k) : \A u \in TurnsOfKey(k) : row[u].started_at <= row[t].started_at
    BY <1>3, <1>4
<1> QED BY <1>5 DEF get_latest_by_idempotency_key

\* A commit of request r rewrites the message id, the status and the pause of
\* its turn only; the status becomes st.
Rewritten(r, st) ==
    /\ turn[r] \in Requests /\ Durable(turn[r])
    /\ row' = [t \in Requests |-> row'[t]]
    /\ \A u \in Requests : DOMAIN row'[u] = DOMAIN row[u]
    /\ \A u \in Requests : Durable(u) =>
           /\ row'[u].idempotency_key = row[u].idempotency_key
           /\ row'[u].request_hash = row[u].request_hash
           /\ row'[u].started_at = row[u].started_at
    /\ \A u \in Requests \ {turn[r]} : row'[u] = row[u]
    /\ row'[turn[r]].status = st

\* The commits of a request after its turn was created.
LEMMA CommitRewrites ==
    ASSUME Base, NEW r \in Requests, pc[r] \in {"context", "running"} \cup Deciding,
           NEW columns, DOMAIN columns \subseteq {"status", "pause_status"},
           "status" \in DOMAIN columns => columns["status"] \in Statuses,
           row' = committed(r, columns), messages \subseteq messages', started' = started
    PROVE  /\ Rewritten(r, IF "status" \in DOMAIN columns THEN columns["status"]
                           ELSE row[turn[r]].status)
           /\ \A u \in Requests : ColumnsOK(row'[u], messages', started')
<1> DEFINE t == turn[r]
           new == Over(columns, flushed[r])
           next == Over(new, row[t])
<1>1. t \in Requests /\ Durable(t) /\ DOMAIN row[t] = Columns
    BY DEF Base, PcInv, TypeOK, Durable, Executing, Deciding
<1>2. DOMAIN flushed[r] \subseteq {"user_message_id"}
    BY DEF Base, PcInv, Deciding
<1>3. row' = [row EXCEPT ![t] = next]
    BY DEF committed
<1>4. /\ DOMAIN new = (DOMAIN columns) \cup (DOMAIN flushed[r])
      /\ \A c \in DOMAIN columns : new[c] = columns[c]
    BY OverColumns
<1> HIDE DEF new
<1>5. /\ DOMAIN next = (DOMAIN new) \cup Columns
      /\ \A c \in DOMAIN new : next[c] = new[c]
      /\ \A c \in Columns \ (DOMAIN new) : next[c] = row[t][c]
    BY <1>1, OverColumns
<1>6. ColumnsOK(next, messages', started')
    <2>1. ColumnsOK(columns, messages, started)
        BY DEF ColumnsOK, Columns
    <2>2. ColumnsOK(new, messages, started)
        BY <2>1, OverTyped DEF Base, TypeOK, new
    <2>3. ColumnsOK(next, messages, started)
        BY <1>1, <2>2, OverTyped DEF Base, TypeOK
    <2> HIDE DEF next
    <2> QED BY <2>3, ColumnsGrow DEF Base, TypeOK
<1> HIDE DEF next
<1>7. DOMAIN new \subseteq {"status", "pause_status", "user_message_id"}
    BY <1>2, <1>4
<1>8. DOMAIN next = Columns
    BY <1>5, <1>7 DEF Columns
<1>9. /\ next["idempotency_key"] = row[t]["idempotency_key"]
      /\ next["request_hash"] = row[t]["request_hash"]
      /\ next["started_at"] = row[t]["started_at"]
    BY <1>5, <1>7 DEF Columns
<1>10. next["status"] = IF "status" \in DOMAIN columns THEN columns["status"]
                        ELSE row[t]["status"]
    BY <1>2, <1>4, <1>5 DEF Columns
<1>11. /\ row' = [u \in Requests |-> row'[u]]
       /\ row'[t] = next
       /\ \A u \in Requests \ {t} : row'[u] = row[u]
    BY <1>1, <1>3 DEF Base, FunInv
<1>12. \A u \in Requests : ColumnsOK(row'[u], messages', started')
    <2>1. \A u \in Requests : ColumnsOK(row[u], messages', started')
        BY ColumnsGrow DEF Base, TypeOK
    <2> QED BY <1>6, <1>11, <2>1
<1> HIDE DEF t
<1>13. Rewritten(r, next["status"])
    BY <1>1, <1>8, <1>9, <1>11 DEF Rewritten, t
<1> QED BY <1>10, <1>12, <1>13 DEF t

-------------------------------------------------------------------------------
\* The basic invariant.

\* Columns stay typed when messages and turns are only added.
LEMMA ColumnsStay ==
    ASSUME TypeOK, messages \subseteq messages', started' \in Nat, started <= started'
    PROVE  \A u \in Requests : /\ ColumnsOK(row[u], messages', started')
                               /\ ColumnsOK(flushed[u], messages', started')
BY ColumnsGrow DEF TypeOK

\* Requests that are checked, whose session does not change.
Reading(r) ==
    \/ check_idempotency(r) \/ load_chat_context(r) \/ delta(r) \/ final(r)
    \/ start_execution(r) /\ UNCHANGED <<row, flushed>>
    \/ \E k \in Keys \cup {None}, b \in Payloads : send_refused(r, k, b)

\* Requests whose session closes without a commit.
Leaving(r) == answer_from_cache(r) \/ end_of_stream(r) \/ stop(r) \/ Abandon(r)

\* What the reading steps leave alone, and where they lead.
LEMMA ReadingFrame ==
    ASSUME Base, NEW r \in Requests, Reading(r)
    PROVE  /\ UNCHANGED <<row, messages, cache, session, flushed, started, pauses, raced>>
           /\ \/ pc[r] = "redis" /\ pc' = [pc EXCEPT ![r] = "accepted"]
              \/ pc[r] = "user_saved" /\ pc' = [pc EXCEPT ![r] = "context"]
              \/ pc[r] = "context" /\ pc' = [pc EXCEPT ![r] = "running"]
              \/ pc[r] = "running" /\ UNCHANGED pc
              \/ pc[r] = "completing" /\ pc' = [pc EXCEPT ![r] = "completed"]
              \/ pc[r] = "idle" /\ pc' = [pc EXCEPT ![r] = "ended"] /\ UNCHANGED phase
BY DEF Reading, check_idempotency, load_chat_context, start_execution, delta, final, send_refused,
       Goto

\* What the leaving steps leave alone.
LEMMA LeavingFrame ==
    ASSUME Base, NEW r \in Requests, Leaving(r)
    PROVE  /\ UNCHANGED <<row, messages, cache, key, turn, started, pauses, raced>>
           /\ pc[r] \in Active
           /\ close(r)
BY DEF Leaving, answer_from_cache, end_of_stream, stop, Abandon, close, Active, Window, Executing

\* The types of the steps that commit nothing.
LEMMA ReadingBase ==
    ASSUME Base, NEW r \in Requests, Reading(r)
    PROVE  Base'
<1>1. /\ UNCHANGED <<row, messages, cache, session, flushed, started, pauses, raced>>
      /\ \/ pc[r] = "redis" /\ pc' = [pc EXCEPT ![r] = "accepted"]
         \/ pc[r] = "user_saved" /\ pc' = [pc EXCEPT ![r] = "context"]
         \/ pc[r] = "context" /\ pc' = [pc EXCEPT ![r] = "running"]
         \/ pc[r] = "running" /\ UNCHANGED pc
         \/ pc[r] = "completing" /\ pc' = [pc EXCEPT ![r] = "completed"]
         \/ pc[r] = "idle" /\ pc' = [pc EXCEPT ![r] = "ended"]
    BY ReadingFrame
<1>2. phase' \in [Requests -> Phases]
    BY DEF Reading, check_idempotency, load_chat_context, start_execution, delta, final,
           send_refused, transition, Base, TypeOK, Phases
<1>3. pc' \in [Requests -> Active \cup {"idle", "ended"}]
    BY <1>1 DEF Base, TypeOK, Active, Window, Executing
<1>4. TypeOK'
    BY <1>1, <1>2, <1>3 DEF Base, TypeOK, session
<1>5. FunInv'
    BY <1>1 DEF Base, FunInv
<1>6. RowInv'
    BY <1>1 DEF Base, TypeOK, RowInv, Durable, session
<1>7. PcInv'
    BY <1>1 DEF Base, TypeOK, PcInv, Durable, session, Window, Executing, Deciding
<1> QED BY <1>4, <1>5, <1>6, <1>7 DEF Base

\* A request that leaves keeps its turn and its key.
LEMMA LeavingBase ==
    ASSUME Base, NEW r \in Requests, Leaving(r)
    PROVE  Base'
<1>1. /\ UNCHANGED <<row, messages, cache, key, turn, started, pauses, raced>>
      /\ pc[r] \in Active
      /\ pc' = [pc EXCEPT ![r] = "ended"]
      /\ flushed' = [flushed EXCEPT ![r] = NoColumns]
      /\ body' = [body EXCEPT ![r] = None]
      /\ phase' = [phase EXCEPT ![r] = "init"]
    BY LeavingFrame DEF close, Goto
<1>2. FunInv'
    BY <1>1 DEF Base, FunInv
<1>3. TypeOK'
    <2>1. \A u \in Requests : ColumnsOK(flushed'[u], messages', started')
        BY <1>1, NoColumnsTyped DEF Base, TypeOK, FunInv
    <2>2. pc' \in [Requests -> Active \cup {"idle", "ended"}]
        BY <1>1 DEF Base, TypeOK
    <2>3. phase' \in [Requests -> Phases] /\ body' \in [Requests -> Payloads \cup {None}]
        BY <1>1 DEF Base, TypeOK, Phases
    <2> QED BY <1>1, <2>1, <2>2, <2>3 DEF Base, TypeOK
<1>4. RowInv'
    BY <1>1 DEF Base, TypeOK, RowInv, Durable
<1>5. PcInv'
    BY <1>1, NoColumnsEmpty
       DEF Base, TypeOK, FunInv, PcInv, Durable, Window, Executing, Deciding, Active
<1> QED BY <1>2, <1>3, <1>4, <1>5 DEF Base

\* An entry that expires leaves the rows and the requests alone.
LEMMA ExpiresBase ==
    ASSUME Base, NEW k \in Keys, CacheExpires(k)
    PROVE  Base'
<1>1. /\ cache' = [cache EXCEPT ![k] = None]
      /\ UNCHANGED <<row, messages, pc, session, flushed, phase, started, told, pauses, raced>>
    BY DEF CacheExpires
<1>2. cache' \in [Keys -> (SUBSET messages) \cup {None}]
    BY <1>1 DEF Base, TypeOK
<1>3. TypeOK'
    BY <1>1, <1>2 DEF Base, TypeOK, session
<1> QED BY <1>1, <1>3 DEF Base, FunInv, RowInv, PcInv, Durable, session

\* A request that is let through works on a turn of its own.
LEMMA SendBase ==
    ASSUME Base, NEW r \in Requests, NEW k \in Keys \cup {None}, NEW b \in Payloads,
           send_message_stream(r, k, b)
    PROVE  Base'
<1>1. /\ pc[r] = "idle"
      /\ key' = [key EXCEPT ![r] = k] /\ body' = [body EXCEPT ![r] = b]
      /\ turn' = [turn EXCEPT ![r] = r]
      /\ raced' = IF Unseen(k) = {} THEN raced ELSE raced \cup {k}
      /\ pc' = [pc EXCEPT ![r] = IF k = None THEN "accepted" ELSE "redis"]
      /\ UNCHANGED <<row, messages, cache, flushed, phase, started, told, pauses>>
    BY DEF send_message_stream, Goto
<1>2. raced' \subseteq Keys \cup Requests
    BY <1>1 DEF Unseen, Base, TypeOK
<1>3. TypeOK'
    <2>1. /\ key' \in [Requests -> Keys \cup {None}] /\ body' \in [Requests -> Payloads \cup {None}]
          /\ turn' \in [Requests -> Requests \cup {None}]
        BY <1>1 DEF Base, TypeOK
    <2>2. pc' \in [Requests -> Active \cup {"idle", "ended"}]
        BY <1>1 DEF Base, TypeOK, Active, Window
    <2> QED BY <1>1, <1>2, <2>1, <2>2 DEF Base, TypeOK
<1>4. FunInv'
    BY <1>1 DEF Base, FunInv
<1>5. ~Durable(r)
    BY <1>1 DEF Base, RowInv
<1>6. RowInv'
    BY <1>1, <1>5 DEF Base, TypeOK, RowInv, Durable
<1>7. PcInv'
    BY <1>1, <1>5 DEF Base, TypeOK, PcInv, Durable, Window, Executing, Deciding
<1> QED BY <1>3, <1>4, <1>6, <1>7 DEF Base

\* A request that resumes works on the turn of another one.
LEMMA ResumeBase ==
    ASSUME Base, NEW r \in Requests, NEW t \in Requests, NEW action, resume_run(r, t, action)
    PROVE  Base'
<1>1. /\ pc[r] = "idle" /\ Durable(t)
      /\ turn' = [turn EXCEPT ![r] = t]
      /\ raced' = IF Undecided(t) = {} THEN raced ELSE raced \cup {t}
      /\ pc' = [pc EXCEPT ![r] = IF action = "cancel" THEN "cancelling" ELSE "resuming"]
      /\ UNCHANGED <<row, messages, cache, key, body, flushed, phase, started, told, pauses>>
    BY DEF resume_run, Goto
<1>2. r # t
    BY <1>1 DEF Base, RowInv
<1>3. TypeOK'
    <2>1. turn' \in [Requests -> Requests \cup {None}] /\ raced' \subseteq Keys \cup Requests
        BY <1>1 DEF Base, TypeOK
    <2>2. pc' \in [Requests -> Active \cup {"idle", "ended"}]
        BY <1>1 DEF Base, TypeOK, Active, Deciding
    <2> QED BY <1>1, <2>1, <2>2 DEF Base, TypeOK
<1>4. FunInv'
    BY <1>1 DEF Base, FunInv
<1>5. RowInv'
    BY <1>1 DEF Base, TypeOK, RowInv, Durable
<1>6. PcInv'
    BY <1>1, <1>2 DEF Base, TypeOK, PcInv, Durable, Window, Executing, Deciding
<1> QED BY <1>3, <1>4, <1>5, <1>6 DEF Base

\* The columns that start_turn flushes.
LEMMA StartTurnBase ==
    ASSUME Base, NEW r \in Requests, start_turn(r)
    PROVE  Base'
<1> DEFINE columns ==
        [idempotency_key |-> key[r], request_hash |-> body[r],
         started_at |-> started + 1, status |-> "started", pause_status |-> None,
         user_message_id |-> None, assistant_message_id |-> None]
           next == Over(columns, flushed[r])
<1>1. /\ pc[r] = "accepted" /\ started' = started + 1
      /\ flushed' = [flushed EXCEPT ![r] = next]
      /\ pc' = [pc EXCEPT ![r] = "turn_started"]
      /\ UNCHANGED <<row, messages, cache, session, phase, told, pauses, raced>>
    BY DEF start_turn, Goto, flush
<1>2. /\ DOMAIN columns = Columns
      /\ columns["idempotency_key"] = key[r] /\ columns["request_hash"] = body[r]
      /\ columns["started_at"] = started + 1 /\ columns["status"] = "started"
      /\ columns["user_message_id"] = None /\ columns["assistant_message_id"] = None
    BY DEF Columns
<1> HIDE DEF columns
<1>3. DOMAIN flushed[r] = {} /\ body[r] \in Payloads /\ ~Durable(r) /\ turn[r] = r
    BY <1>1 DEF Base, PcInv, Window
<1>4. /\ DOMAIN next = Columns
      /\ \A c \in Columns : next[c] = columns[c]
    <2> DEFINE old == flushed[r]
    <2>1. DOMAIN old = {}
        BY <1>3
    <2> HIDE DEF old
    <2>2. /\ DOMAIN Over(columns, old) = DOMAIN columns
          /\ \A c \in DOMAIN columns : Over(columns, old)[c] = columns[c]
        BY <2>1, OverNothing, Zenon
    <2> QED BY <1>2, <2>2 DEF old
<1> HIDE DEF next
<1>5. started' \in Nat /\ started <= started'
    BY <1>1 DEF Base, TypeOK
<1>6. ColumnsOK(next, messages', started')
    BY <1>1, <1>2, <1>3, <1>4, <1>5 DEF ColumnsOK, Columns, Statuses, Base, TypeOK
<1>7. \A u \in Requests : flushed'[u] = IF u = r THEN next ELSE flushed[u]
    BY <1>1 DEF Base, FunInv
<1>8. FunInv'
    BY <1>1, <1>7 DEF Base, FunInv
<1>9. TypeOK'
    <2>1. \A u \in Requests : /\ ColumnsOK(row'[u], messages', started')
                              /\ ColumnsOK(flushed'[u], messages', started')
        <3>1. \A u \in Requests : /\ ColumnsOK(row[u], messages', started')
                                  /\ ColumnsOK(flushed[u], messages', started')
            BY <1>1, <1>5, ColumnsStay DEF Base
        <3> QED BY <1>1, <1>6, <1>7, <3>1
    <2>2. pc' \in [Requests -> Active \cup {"idle", "ended"}]
        BY <1>1 DEF Base, TypeOK, Active, Window
    <2> QED BY <1>1, <1>5, <2>1, <2>2 DEF Base, TypeOK, session
<1>10. RowInv'
    BY <1>1 DEF Base, TypeOK, RowInv, Durable, session
<1>11. PcInv'
    <2>1. /\ DOMAIN next = Columns /\ next["idempotency_key"] = key[r]
          /\ next["request_hash"] = body[r] /\ next["status"] = "started"
        BY <1>2, <1>4 DEF Columns
    <2> QED BY <1>1, <1>3, <1>7, <2>1
            DEF Base, TypeOK, PcInv, Durable, session, Window, Executing, Deciding
<1> QED BY <1>8, <1>9, <1>10, <1>11 DEF Base

\* The first commit of a turn: the row is what start_turn has flushed.
LEMMA CreateRow ==
    ASSUME Base, NEW r \in Requests, create_user_message(r)
    PROVE  /\ pc[r] = "turn_started" /\ turn[r] = r /\ ~Durable(r)
           /\ row' = [t \in Requests |-> row'[t]]
           /\ \A u \in Requests \ {r} : row'[u] = row[u]
           /\ DOMAIN row'[r] = Columns
           /\ \A c \in Columns : row'[r][c] = flushed[r][c]
           /\ flushed' = [flushed EXCEPT ![r] = [user_message_id |-> User(r)]]
           /\ messages' = messages \cup {User(r)}
           /\ pc' = [pc EXCEPT ![r] = "user_saved"]
           /\ phase' = [phase EXCEPT ![r] = "user_persisted"]
           /\ UNCHANGED <<cache, session, started, told, pauses, raced>>
<1> DEFINE new == Over(NoColumns, flushed[r])
           next == Over(new, row[r])
<1>1. pc[r] = "turn_started"
    BY DEF create_user_message
<1>2. turn[r] = r /\ DOMAIN row[r] = {} /\ DOMAIN flushed[r] = Columns /\ ~Durable(r)
    BY <1>1 DEF Base, PcInv, Window, Durable
<1>3. DOMAIN new = Columns /\ \A c \in Columns : new[c] = flushed[r][c]
    <2> DEFINE old == flushed[r]
    <2>1. /\ DOMAIN Over(NoColumns, old) = DOMAIN old
          /\ \A c \in DOMAIN old : Over(NoColumns, old)[c] = old[c]
        BY OverNothing, NoColumnsEmpty, Zenon
    <2> QED BY <1>2, <2>1
<1> HIDE DEF new
<1>4. DOMAIN next = Columns /\ \A c \in Columns : next[c] = flushed[r][c]
    <2> DEFINE old == row[r]
    <2>1. DOMAIN old = {}
        BY <1>2
    <2> HIDE DEF old
    <2>2. DOMAIN Over(new, old) = DOMAIN new /\ \A c \in DOMAIN new : Over(new, old)[c] = new[c]
        BY <2>1, OverNothing, Zenon
    <2> QED BY <1>3, <2>2 DEF old
<1>5. row' = [row EXCEPT ![r] = next]
    BY <1>2 DEF create_user_message, committed, new
<1> HIDE DEF next
<1>6. /\ row' = [t \in Requests |-> row'[t]] /\ row'[r] = next
      /\ \A u \in Requests \ {r} : row'[u] = row[u]
    BY <1>5 DEF Base, FunInv
<1> QED BY <1>1, <1>2, <1>4, <1>6 DEF create_user_message, Goto, transition

\* create_user_message keeps the types: the row becomes complete and its message durable.
LEMMA CreateBase ==
    ASSUME Base, NEW r \in Requests, create_user_message(r)
    PROVE  Base'
<1> DEFINE id == [user_message_id |-> User(r)]
<1>1. /\ pc[r] = "turn_started" /\ turn[r] = r /\ ~Durable(r)
      /\ row' = [t \in Requests |-> row'[t]]
      /\ \A u \in Requests \ {r} : row'[u] = row[u]
      /\ DOMAIN row'[r] = Columns
      /\ \A c \in Columns : row'[r][c] = flushed[r][c]
      /\ flushed' = [flushed EXCEPT ![r] = id]
      /\ messages' = messages \cup {User(r)}
      /\ pc' = [pc EXCEPT ![r] = "user_saved"]
      /\ phase' = [phase EXCEPT ![r] = "user_persisted"]
      /\ UNCHANGED <<cache, session, started, told, pauses, raced>>
    BY CreateRow
<1>2. DOMAIN id = {"user_message_id"} /\ id["user_message_id"] = User(r)
    OBVIOUS
<1> HIDE DEF id
<1>3. \A u \in Requests : flushed'[u] = IF u = r THEN id ELSE flushed[u]
    BY <1>1 DEF Base, FunInv
<1>4. FunInv'
    BY <1>1, <1>3 DEF Base, FunInv
<1>5. /\ DOMAIN flushed[r] = Columns /\ flushed[r].idempotency_key = key[r]
      /\ flushed[r].status = "started"
    BY <1>1 DEF Base, PcInv
<1>6. TypeOK'
    <2>1. started' \in Nat /\ started <= started' /\ messages \subseteq messages'
        BY <1>1 DEF Base, TypeOK
    <2>2. \A u \in Requests : /\ ColumnsOK(row[u], messages', started')
                              /\ ColumnsOK(flushed[u], messages', started')
        BY <2>1, ColumnsStay DEF Base
    <2>3. ColumnsOK(row'[r], messages', started')
        BY <1>1, <1>5, <2>2 DEF ColumnsOK, Columns
    <2>4. ColumnsOK(id, messages', started')
        BY <1>1, <1>2 DEF ColumnsOK, Columns
    <2>5. \A u \in Requests : /\ ColumnsOK(row'[u], messages', started')
                              /\ ColumnsOK(flushed'[u], messages', started')
                              /\ DOMAIN row'[u] \in {{}, Columns}
        BY <1>1, <1>3, <2>2, <2>3, <2>4 DEF Base, TypeOK
    <2>6. messages' \subseteq Requests \X {"user", "assistant"}
        BY <1>1 DEF Base, TypeOK, User
    <2>7. cache' \in [Keys -> (SUBSET messages') \cup {None}]
        BY <1>1, <2>1 DEF Base, TypeOK
    <2>8. pc' \in [Requests -> Active \cup {"idle", "ended"}] /\ phase' \in [Requests -> Phases]
        BY <1>1 DEF Base, TypeOK, Active, Executing, Phases
    <2> QED BY <1>1, <2>5, <2>6, <2>7, <2>8 DEF Base, TypeOK, session
<1>7. RowInv'
    BY <1>1, <1>5 DEF Base, TypeOK, RowInv, Durable, session, Columns
<1>8. PcInv'
    BY <1>1, <1>2, <1>3 DEF Base, TypeOK, PcInv, Durable, session, Window, Executing, Deciding,
                            Columns
<1> QED BY <1>4, <1>6, <1>7, <1>8 DEF Base

\* complete_turn only flushes, and caches messages that are durable.
LEMMA CompleteBase ==
    ASSUME Base, StoreInv, NEW r \in Requests, complete_turn(r)
    PROVE  Base'
<1> DEFINE columns == [status |-> "completed", pause_status |-> None,
                       assistant_message_id |-> Assistant(r)]
           next == Over(columns, flushed[r])
<1>1. /\ pc[r] = "saved"
      /\ flushed' = [flushed EXCEPT ![r] = next]
      /\ pc' = [pc EXCEPT ![r] = "completing"]
      /\ phase' = [phase EXCEPT ![r] = "final_persisted"]
      /\ UNCHANGED <<row, messages, session, started, told, pauses, raced>>
    BY DEF complete_turn, Goto, transition, flush
<1>2. \/ key[r] # None /\ cache' = [cache EXCEPT ![key[r]] = {User(r), Assistant(r)}]
      \/ UNCHANGED cache
    BY DEF complete_turn
<1>3. Assistant(r) \in messages /\ (key[r] # None => User(r) \in messages)
    BY <1>1 DEF StoreInv, Base, PcInv, Executing
<1>4. cache' \in [Keys -> (SUBSET messages) \cup {None}]
    BY <1>2, <1>3 DEF Base, TypeOK
<1>5. ColumnsOK(next, messages, started)
    <2>1. DOMAIN columns = {"status", "pause_status", "assistant_message_id"}
          /\ columns["status"] = "completed" /\ columns["assistant_message_id"] = Assistant(r)
        OBVIOUS
    <2> HIDE DEF columns
    <2>2. ColumnsOK(columns, messages, started)
        BY <1>3, <2>1 DEF ColumnsOK, Columns, Statuses
    <2> QED BY <2>2, OverTyped DEF Base, TypeOK
<1> HIDE DEF next
<1>6. \A u \in Requests : flushed'[u] = IF u = r THEN next ELSE flushed[u]
    BY <1>1 DEF Base, FunInv
<1>7. FunInv'
    BY <1>1, <1>6 DEF Base, FunInv
<1>8. TypeOK'
    <2>1. \A u \in Requests : ColumnsOK(flushed'[u], messages', started')
        BY <1>1, <1>5, <1>6 DEF Base, TypeOK
    <2>2. pc' \in [Requests -> Active \cup {"idle", "ended"}] /\ phase' \in [Requests -> Phases]
        BY <1>1 DEF Base, TypeOK, Active, Executing, Phases
    <2> QED BY <1>1, <1>4, <2>1, <2>2 DEF Base, TypeOK, session
<1>9. RowInv'
    BY <1>1 DEF Base, TypeOK, RowInv, Durable, session
<1>10. PcInv'
    BY <1>1, <1>6 DEF Base, TypeOK, PcInv, Durable, session, Window, Executing, Deciding
<1> QED BY <1>7, <1>8, <1>9, <1>10 DEF Base

\* Request r commits its turn with status st, and goes on at the place to.
CommitsTo(r, to, st) ==
    /\ Rewritten(r, st)
    /\ pc' = [pc EXCEPT ![r] = to]
    /\ flushed' = [flushed EXCEPT ![r] = NoColumns]
    /\ body' \in {body, [body EXCEPT ![r] = None]}
    /\ messages' \in {messages, messages \cup {Assistant(r)}}
    /\ pauses' \in {pauses, pauses \cup {Pause(r)}}
    /\ UNCHANGED <<cache, key, turn, started, told, raced>>

\* The commits: a title is stored, the answer, the pause, the failure, and the
\* decision on a pause.
Commits(r) ==
    \/ /\ pc[r] = "context" /\ phase' = [phase EXCEPT ![r] = "execution_started"]
       /\ CommitsTo(r, "running", row[turn[r]].status)
    \/ /\ pc[r] = "running" /\ Assistant(r) \in messages' /\ UNCHANGED phase
       /\ CommitsTo(r, "saved", row[turn[r]].status)
    \/ /\ pc[r] = "running" /\ Pause(r) \in pauses' /\ phase' = [phase EXCEPT ![r] = "paused"]
       /\ phase[r] = "execution_started"
       /\ CommitsTo(r, "paused", "paused")
    \/ /\ pc[r] = "running" /\ Assistant(r) \in messages' /\ phase' = [phase EXCEPT ![r] = "init"]
       /\ CommitsTo(r, "ended", "failed")
    \/ /\ pc[r] = "resuming" /\ phase' = [phase EXCEPT ![r] = "user_persisted"]
       /\ CommitsTo(r, "user_saved", "resumed")
    \/ /\ pc[r] = "cancelling" /\ phase' = [phase EXCEPT ![r] = "init"]
       /\ CommitsTo(r, "ended", "cancelled")

\* Every committing action is one of them.
LEMMA CommitActions ==
    ASSUME Base, NEW r \in Requests,
           \/ start_execution(r) /\ commit(r, NoColumns)
           \/ create_assistant_message(r) \/ pause_turn(r) \/ fail_turn(r)
           \/ resume_turn(r) \/ cancel_turn(r)
    PROVE  Commits(r) /\ \A u \in Requests : ColumnsOK(row'[u], messages', started')
<1>1. CASE start_execution(r) /\ commit(r, NoColumns)
    <2>1. row' = committed(r, NoColumns) /\ pc[r] = "context" /\ messages' = messages
          /\ started' = started
        BY <1>1 DEF start_execution, commit
    <2>2. Rewritten(r, row[turn[r]].status) /\ \A u \in Requests : ColumnsOK(row'[u], messages', started')
        BY <2>1, CommitRewrites, NoColumnsEmpty
    <2> QED BY <1>1, <2>1, <2>2 DEF Commits, CommitsTo, start_execution, commit, session, Goto, transition
<1>2. CASE create_assistant_message(r)
    <2>1. row' = committed(r, NoColumns) /\ pc[r] = "running" /\ messages \subseteq messages'
          /\ started' = started /\ messages' = messages \cup {Assistant(r)}
        BY <1>2 DEF create_assistant_message, commit
    <2>2. Rewritten(r, row[turn[r]].status) /\ \A u \in Requests : ColumnsOK(row'[u], messages', started')
        BY <2>1, CommitRewrites, NoColumnsEmpty
    <2> QED BY <1>2, <2>1, <2>2 DEF Commits, CommitsTo, create_assistant_message, commit, session, Goto
<1>3. CASE pause_turn(r)
    <2>1. PICK reason \in {"waiting_input", "waiting_confirmation"} :
              row' = committed(r, [status |-> "paused", pause_status |-> reason])
        BY <1>3 DEF pause_turn, commit
    <2>2. pc[r] = "running" /\ messages' = messages /\ started' = started
        BY <1>3 DEF pause_turn
    <2> DEFINE columns == [status |-> "paused", pause_status |-> reason]
    <2>3. DOMAIN columns = {"status", "pause_status"} /\ columns["status"] = "paused"
        OBVIOUS
    <2> HIDE DEF columns
    <2>4. Rewritten(r, "paused") /\ \A u \in Requests : ColumnsOK(row'[u], messages', started')
        BY <2>1, <2>2, <2>3, CommitRewrites DEF columns, Statuses
    <2>5. flushed' = [flushed EXCEPT ![r] = NoColumns]
        BY <1>3 DEF pause_turn, commit
    <2> QED BY <1>3, <2>2, <2>4, <2>5 DEF Commits, CommitsTo, pause_turn, session, Goto, transition
<1>4. CASE fail_turn(r)
    <2> DEFINE columns == [status |-> "failed", pause_status |-> None]
    <2>1. pc[r] = "running" /\ messages' = messages \cup {Assistant(r)} /\ started' = started
          /\ row' = committed(r, columns)
        BY <1>4 DEF fail_turn
    <2>2. DOMAIN columns = {"status", "pause_status"} /\ columns["status"] = "failed"
        OBVIOUS
    <2> HIDE DEF columns
    <2>3. Rewritten(r, "failed") /\ \A u \in Requests : ColumnsOK(row'[u], messages', started')
        BY <2>1, <2>2, CommitRewrites DEF Statuses
    <2> QED BY <1>4, <2>1, <2>3 DEF Commits, CommitsTo, fail_turn, close, Goto
<1>5. CASE resume_turn(r)
    <2> DEFINE columns == [status |-> "resumed", pause_status |-> None]
    <2>1. pc[r] = "resuming" /\ messages' = messages /\ started' = started
          /\ row' = committed(r, columns)
        BY <1>5 DEF resume_turn, commit
    <2>2. DOMAIN columns = {"status", "pause_status"} /\ columns["status"] = "resumed"
        OBVIOUS
    <2> HIDE DEF columns
    <2>3. Rewritten(r, "resumed") /\ \A u \in Requests : ColumnsOK(row'[u], messages', started')
        BY <2>1, <2>2, CommitRewrites DEF Statuses, Deciding
    <2> QED BY <1>5, <2>1, <2>3 DEF Commits, CommitsTo, resume_turn, commit, session, Goto, transition
<1>6. CASE cancel_turn(r)
    <2> DEFINE columns == [status |-> "cancelled"]
    <2>1. pc[r] = "cancelling" /\ messages' = messages /\ started' = started
          /\ row' = committed(r, columns)
        BY <1>6 DEF cancel_turn
    <2>2. DOMAIN columns = {"status"} /\ columns["status"] = "cancelled"
        OBVIOUS
    <2> HIDE DEF columns
    <2>3. Rewritten(r, "cancelled") /\ \A u \in Requests : ColumnsOK(row'[u], messages', started')
        BY <2>1, <2>2, CommitRewrites DEF Statuses, Deciding
    <2> QED BY <1>6, <2>1, <2>3 DEF Commits, CommitsTo, cancel_turn, close, Goto
<1> QED BY <1>1, <1>2, <1>3, <1>4, <1>5, <1>6

\* A commit keeps rows complete, and requests on their turns.
LEMMA CommitBase ==
    ASSUME Base, NEW r \in Requests, Commits(r),
           \A u \in Requests : ColumnsOK(row'[u], messages', started')
    PROVE  Base'
<1>1. PICK to \in {"running", "saved", "paused", "ended", "user_saved"},
           st \in {row[turn[r]].status, "paused", "failed", "resumed", "cancelled"} :
          CommitsTo(r, to, st)
    BY DEF Commits
<1>2. /\ turn[r] \in Requests /\ Durable(turn[r])
      /\ row' = [t \in Requests |-> row'[t]]
      /\ \A u \in Requests : DOMAIN row'[u] = DOMAIN row[u]
      /\ \A u \in Requests : Durable(u) => row'[u].idempotency_key = row[u].idempotency_key
      /\ \A u \in Requests \ {turn[r]} : row'[u] = row[u]
      /\ row'[turn[r]].status = st
    BY <1>1 DEF CommitsTo, Rewritten
<1>3. /\ pc' = [pc EXCEPT ![r] = to]
      /\ flushed' = [flushed EXCEPT ![r] = NoColumns]
      /\ body' \in {body, [body EXCEPT ![r] = None]}
      /\ messages' \in {messages, messages \cup {Assistant(r)}}
      /\ pauses' \in {pauses, pauses \cup {Pause(r)}}
      /\ UNCHANGED <<cache, key, turn, started, told, raced>>
    BY <1>1 DEF CommitsTo
<1>4. pc[r] \in {"context", "running", "resuming", "cancelling"}
    BY DEF Commits
<1>5. FunInv'
    BY <1>2, <1>3 DEF Base, FunInv
<1>6. TypeOK'
    <2>1. \A u \in Requests : ColumnsOK(flushed'[u], messages', started')
        <3>1. started' \in Nat /\ started <= started' /\ messages \subseteq messages'
            BY <1>3 DEF Base, TypeOK
        <3>2. \A u \in Requests : ColumnsOK(flushed[u], messages', started')
            BY <3>1, ColumnsStay DEF Base
        <3> QED BY <1>3, <3>2, NoColumnsTyped DEF Base, FunInv
    <2>2. messages' \subseteq Requests \X {"user", "assistant"} /\ pauses' \subseteq Requests \X {"pause"}
        BY <1>3 DEF Base, TypeOK, Assistant, Pause
    <2>3. cache' \in [Keys -> (SUBSET messages') \cup {None}]
        BY <1>3 DEF Base, TypeOK
    <2>4. pc' \in [Requests -> Active \cup {"idle", "ended"}]
        BY <1>3 DEF Base, TypeOK, Active, Executing
    <2>5. phase' \in [Requests -> Phases]
        BY DEF Commits, Base, TypeOK, Phases
    <2>6. body' \in [Requests -> Payloads \cup {None}]
        BY <1>3 DEF Base, TypeOK
    <2>7. \A u \in Requests : DOMAIN row'[u] \in {{}, Columns}
        BY <1>2 DEF Base, TypeOK
    <2> QED BY <1>3, <2>1, <2>2, <2>3, <2>4, <2>5, <2>6, <2>7 DEF Base, TypeOK
<1>7. RowInv'
    <2>1. st # "completed"
        BY <1>2 DEF Base, RowInv
    <2> QED BY <1>2, <1>3, <2>1 DEF Base, TypeOK, RowInv, Durable
<1>8. PcInv'
    <2>1. \A u \in Requests : Durable(u)' <=> Durable(u)
        BY <1>2 DEF Durable
    <2>2. DOMAIN flushed'[r] = {} /\ \A u \in Requests \ {r} : flushed'[u] = flushed[u]
        BY <1>3, NoColumnsEmpty DEF Base, FunInv
    <2>3. \A u \in Requests \ {r} : pc'[u] = pc[u] /\ body'[u] = body[u]
        BY <1>3 DEF Base, TypeOK
    <2>4. pc'[r] = to
        BY <1>3 DEF Base, TypeOK
    <2> QED BY <1>2, <1>3, <1>4, <2>1, <2>2, <2>3, <2>4
            DEF Base, PcInv, Window, Executing, Deciding
<1> QED BY <1>5, <1>6, <1>7, <1>8 DEF Base

-------------------------------------------------------------------------------
\* The kinds of steps.
Kind(r) ==
    \/ Reading(r) \/ Leaving(r) \/ start_turn(r) \/ create_user_message(r) \/ complete_turn(r)
    \/ Commits(r) /\ \A u \in Requests : ColumnsOK(row'[u], messages', started')
    \/ \E k \in Keys \cup {None}, b \in Payloads : send_message_stream(r, k, b)
    \/ \E t \in Requests, action \in {"input", "confirm", "cancel"} : resume_run(r, t, action)

\* Every step is of one of the kinds that the invariants are shown to survive.
LEMMA StepKinds ==
    ASSUME Base, Next
    PROVE  (\E r \in Requests : Kind(r)) \/ (\E k \in Keys : CacheExpires(k))
<1>1. ASSUME NEW r \in Requests, Arrive(r) \/ Serve(r) \/ Abandon(r)
      PROVE  Kind(r)
    <2>1. CASE \/ start_execution(r) \/ create_assistant_message(r) \/ pause_turn(r)
               \/ fail_turn(r) \/ resume_turn(r) \/ cancel_turn(r)
        <3>1. CASE start_execution(r) /\ UNCHANGED <<row, flushed>>
            BY <3>1 DEF Kind, Reading
        <3>2. CASE ~(start_execution(r) /\ UNCHANGED <<row, flushed>>)
            BY <2>1, <3>2, CommitActions DEF Kind, start_execution
        <3> QED BY <3>1, <3>2
    <2>2. CASE Abandon(r) \/ answer_from_cache(r) \/ end_of_stream(r) \/ stop(r)
        BY <2>2 DEF Kind, Leaving
    <2>3. CASE check_idempotency(r) \/ load_chat_context(r) \/ delta(r) \/ final(r)
        BY <2>3 DEF Kind, Reading
    <2>4. CASE start_turn(r) \/ create_user_message(r) \/ complete_turn(r)
        BY <2>4 DEF Kind
    <2>5. CASE Arrive(r)
        BY <2>5 DEF Arrive, Kind, Reading
    <2> QED BY <1>1, <2>1, <2>2, <2>3, <2>4, <2>5 DEF Serve
<1> QED BY <1>1 DEF Next

\* The basic invariant is kept by every kind of step.
LEMMA BaseNext == Base /\ StoreInv /\ Next => Base'
<1> SUFFICES ASSUME Base, StoreInv, Next PROVE Base'
    OBVIOUS
<1>1. ASSUME NEW r \in Requests, Kind(r) PROVE Base'
    BY <1>1, ReadingBase, LeavingBase, StartTurnBase, CreateBase, CompleteBase, CommitBase,
       SendBase, ResumeBase DEF Kind
<1> QED BY <1>1, StepKinds, ExpiresBase

-------------------------------------------------------------------------------
\* Phases.

\* What a step of VALID_TRANSITIONS is.
PhaseStep ==
    \A r \in Requests : phase'[r] # phase[r] /\ pc'[r] # "ended" =>
        phase'[r] \in VALID_TRANSITIONS[phase[r]]

\* Every step keeps the phase of a request in line with its place.
LEMMA PhaseNext ==
    ASSUME Base, PhaseInv, Next
    PROVE  PhaseInv' /\ PhaseStep
<1> USE DEF Base, TypeOK
<1>1. ASSUME NEW r \in Requests, NEW to \in Active \cup {"ended"}, NEW p \in Phases,
             pc' = [pc EXCEPT ![r] = to], phase' = [phase EXCEPT ![r] = p],
             p # phase[r] /\ to # "ended" => p \in VALID_TRANSITIONS[phase[r]],
             /\ to \in {"ended"} \cup Window \cup Deciding => p = "init"
             /\ to = "user_saved" => p = "user_persisted"
             /\ to = "context" => p = "context_loaded"
             /\ to \in {"running", "saved"} => p \in {"execution_started", "delta_streaming"}
             /\ to = "completing" => p = "final_persisted"
      PROVE  PhaseInv' /\ PhaseStep
    <2>1. /\ \A s \in Requests \ {r} : pc'[s] = pc[s] /\ phase'[s] = phase[s]
          /\ pc'[r] = to /\ phase'[r] = p
        BY <1>1
    <2>2. to # "idle"
        BY DEF Active, Window, Executing, Deciding
    <2>3. PhaseInv'
        BY <1>1, <2>1, <2>2 DEF PhaseInv
    <2> QED BY <1>1, <2>1, <2>3 DEF PhaseStep
<1>2. ASSUME NEW r \in Requests, Kind(r) PROVE PhaseInv' /\ PhaseStep
    <2> USE DEF PhaseInv, Active, Window, Executing, Deciding, Phases, Goto, transition
    <2>1. CASE check_idempotency(r)
        <3>1. phase' = [phase EXCEPT ![r] = phase[r]] /\ phase[r] = "init"
              /\ pc' = [pc EXCEPT ![r] = "accepted"]
            BY <2>1 DEF check_idempotency
        <3> QED BY <1>1, <3>1
    <2>2. CASE load_chat_context(r)
        BY <1>1, <2>2 DEF load_chat_context, VALID_TRANSITIONS
    <2>3. CASE delta(r)
        <3>1. pc' = [pc EXCEPT ![r] = "running"] /\ phase' = [phase EXCEPT ![r] = "delta_streaming"]
              /\ phase[r] = "execution_started"
            BY <2>3 DEF delta
        <3> QED BY <1>1, <3>1 DEF VALID_TRANSITIONS
    <2>4. CASE final(r)
        BY <1>1, <2>4 DEF final, VALID_TRANSITIONS
    <2>5. CASE start_execution(r)
        BY <1>1, <2>5 DEF start_execution, VALID_TRANSITIONS
    <2>6. ASSUME NEW k \in Keys \cup {None}, NEW b \in Payloads, send_refused(r, k, b)
          PROVE  PhaseInv' /\ PhaseStep
        <3>1. phase' = [phase EXCEPT ![r] = phase[r]] /\ phase[r] = "init"
              /\ pc' = [pc EXCEPT ![r] = "ended"]
            BY <2>6 DEF send_refused
        <3> QED BY <1>1, <3>1
    <2>7. CASE Leaving(r)
        <3>1. phase' = [phase EXCEPT ![r] = "init"] /\ pc' = [pc EXCEPT ![r] = "ended"]
            BY <2>7, LeavingFrame DEF close
        <3> QED BY <1>1, <3>1
    <2>8. CASE start_turn(r)
        <3>1. phase' = [phase EXCEPT ![r] = phase[r]] /\ phase[r] = "init"
              /\ pc' = [pc EXCEPT ![r] = "turn_started"]
            BY <2>8 DEF start_turn
        <3> QED BY <1>1, <3>1
    <2>9. CASE create_user_message(r)
        BY <1>1, <2>9 DEF create_user_message, VALID_TRANSITIONS
    <2>10. CASE complete_turn(r)
        BY <1>1, <2>10 DEF complete_turn, VALID_TRANSITIONS
    <2>11. CASE Commits(r)
        <3>1. CASE /\ pc[r] = "running" /\ UNCHANGED phase
                   /\ CommitsTo(r, "saved", row[turn[r]].status)
            <4>1. phase' = [phase EXCEPT ![r] = phase[r]] /\ pc' = [pc EXCEPT ![r] = "saved"]
                  /\ phase[r] \in {"execution_started", "delta_streaming"}
                BY <3>1 DEF CommitsTo
            <4> QED BY <1>1, <4>1
        <3>2. CASE ~(/\ pc[r] = "running" /\ UNCHANGED phase
                     /\ CommitsTo(r, "saved", row[turn[r]].status))
            BY <1>1, <2>11, <3>2 DEF Commits, CommitsTo, VALID_TRANSITIONS
        <3> QED BY <3>1, <3>2
    <2>12. ASSUME NEW k \in Keys \cup {None}, NEW b \in Payloads, send_message_stream(r, k, b)
           PROVE  PhaseInv' /\ PhaseStep
        <3>1. /\ phase' = [phase EXCEPT ![r] = phase[r]] /\ phase[r] = "init"
              /\ pc' = [pc EXCEPT ![r] = IF k = None THEN "accepted" ELSE "redis"]
            BY <2>12 DEF send_message_stream
        <3> QED BY <1>1, <3>1
    <2>13. ASSUME NEW t \in Requests, NEW action, resume_run(r, t, action)
           PROVE  PhaseInv' /\ PhaseStep
        <3>1. /\ phase' = [phase EXCEPT ![r] = phase[r]] /\ phase[r] = "init"
              /\ pc' = [pc EXCEPT ![r] = IF action = "cancel" THEN "cancelling" ELSE "resuming"]
            BY <2>13 DEF resume_run
        <3> QED BY <1>1, <3>1
    <2> QED BY <1>2, <2>1, <2>2, <2>3, <2>4, <2>5, <2>6, <2>7, <2>8, <2>9, <2>10, <2>11, <2>12,
               <2>13 DEF Kind, Reading
<1>3. ASSUME NEW k \in Keys, CacheExpires(k) PROVE PhaseInv' /\ PhaseStep
    BY <1>3 DEF CacheExpires, PhaseInv, PhaseStep
<1> QED BY <1>2, <1>3, StepKinds

-------------------------------------------------------------------------------
\* Storing before telling.

\* What a refused request is told: the messages of a turn that is durable.
LEMMA RefusedTells ==
    ASSUME Base, NEW r \in Requests, NEW k \in Keys \cup {None}, NEW b \in Payloads,
           send_refused(r, k, b)
    PROVE  told' \subseteq told \cup messages /\ told \subseteq told'
<1> DEFINE l == get_latest_by_idempotency_key(k)
<1>1. CASE check_turn_idempotency(k, b) # "completed"
    BY <1>1 DEF send_refused, tell
<1>2. CASE check_turn_idempotency(k, b) = "completed"
    <2>1. TurnsOfKey(k) # {}
        BY <1>2 DEF check_turn_idempotency
    <2>2. l \in TurnsOfKey(k)
        BY <2>1, LatestIsOne DEF Base
    <2>3. row[l].user_message_id # None /\ row[l].assistant_message_id # None
        BY <1>2, <2>1 DEF check_turn_idempotency
    <2> HIDE DEF l
    <2>4. row[l].user_message_id \in messages /\ row[l].assistant_message_id \in messages
        BY <2>2, <2>3 DEF TurnsOfKey, Durable, Base, TypeOK, ColumnsOK, Columns
    <2>5. told' = told \cup {row[l].user_message_id, row[l].assistant_message_id}
        BY <1>2 DEF send_refused, tell, l
    <2> QED BY <2>4, <2>5
<1> QED BY <1>1, <1>2

\* Every step stores or tells, and keeps what the next event names stored.
LEMMA StoreNext ==
    ASSUME Base, StoreInv, Next
    PROVE  StoreInv' /\ [Promise!Next]_<<messages \cup pauses, told>>
<1> DEFINE stored == messages \cup pauses
           Stays == /\ messages \subseteq messages' /\ pauses \subseteq pauses'
                    /\ \/ told' = told
                       \/ /\ messages' = messages /\ pauses' = pauses
                          /\ told \subseteq told' /\ told' \subseteq stored
<1>1. ASSUME Stays
      PROVE  /\ [Promise!Next]_<<messages \cup pauses, told>>
             /\ told' \subseteq messages' \cup pauses'
    BY <1>1 DEF StoreInv, Promise!Next, Promise!Store, Promise!Tell
<1>2. ASSUME NEW r \in Requests, NEW to, Stays,
             pc' = [pc EXCEPT ![r] = to],
             \A s \in Requests \ {r} : turn'[s] = turn[s],
             to \in Executing /\ turn'[r] = r => User(r) \in messages',
             to \in {"saved", "completing"} => Assistant(r) \in messages',
             to = "paused" => Pause(r) \in pauses'
      PROVE  StoreInv'
    <2>1. pc'[r] = to /\ \A s \in Requests \ {r} : pc'[s] = pc[s]
        BY <1>2 DEF Base, TypeOK
    <2>2. messages \subseteq messages' /\ pauses \subseteq pauses' /\ told' \subseteq messages' \cup pauses'
        BY <1>1, <1>2
    <2> QED BY <1>2, <2>1, <2>2 DEF StoreInv
<1>3. ASSUME NEW r \in Requests, Kind(r) PROVE StoreInv' /\ Stays
    <2>1. CASE Reading(r)
        <3>1. /\ UNCHANGED <<row, messages, cache, session, flushed, started, pauses, raced>>
              /\ \/ pc[r] = "redis" /\ pc' = [pc EXCEPT ![r] = "accepted"]
                 \/ pc[r] = "user_saved" /\ pc' = [pc EXCEPT ![r] = "context"]
                 \/ pc[r] = "context" /\ pc' = [pc EXCEPT ![r] = "running"]
                 \/ pc[r] = "running" /\ UNCHANGED pc
                 \/ pc[r] = "completing" /\ pc' = [pc EXCEPT ![r] = "completed"]
                 \/ pc[r] = "idle" /\ pc' = [pc EXCEPT ![r] = "ended"]
            BY <2>1, ReadingFrame
        <3>2. told \subseteq told' /\ told' \subseteq stored
            <4>1. CASE check_idempotency(r) \/ delta(r) \/ start_execution(r)
                BY <4>1 DEF check_idempotency, delta, start_execution, StoreInv
            <4>2. CASE load_chat_context(r)
                BY <4>2 DEF load_chat_context, tell, StoreInv, Executing
            <4>3. CASE final(r)
                BY <4>3 DEF final, tell, StoreInv
            <4>4. ASSUME NEW k \in Keys \cup {None}, NEW b \in Payloads, send_refused(r, k, b)
                  PROVE  told \subseteq told' /\ told' \subseteq stored
                BY <4>4, RefusedTells DEF StoreInv
            <4> QED BY <2>1, <4>1, <4>2, <4>3, <4>4 DEF Reading
        <3>3. Stays
            BY <3>1, <3>2
        <3> HIDE DEF Stays
        <3>4. CASE pc[r] = "running" /\ UNCHANGED pc
            <4>1. told' \subseteq messages' \cup pauses'
                BY <3>1, <3>2
            <4> QED BY <3>1, <3>3, <3>4, <4>1 DEF StoreInv, session
        <3>5. ASSUME NEW to \in {"accepted", "context", "running", "completed", "ended"},
                     pc' = [pc EXCEPT ![r] = to],
                     to \in Executing => pc[r] \in Executing
              PROVE  StoreInv'
            BY <1>2, <3>1, <3>3, <3>5 DEF StoreInv, session
        <3> QED BY <3>1, <3>3, <3>4, <3>5 DEF Executing
    <2>2. CASE Leaving(r)
        <3>1. /\ UNCHANGED <<messages, turn, pauses>> /\ pc' = [pc EXCEPT ![r] = "ended"]
            BY <2>2, LeavingFrame DEF close, Goto
        <3>2. told \subseteq told' /\ told' \subseteq stored
            <4>1. CASE end_of_stream(r) \/ Abandon(r)
                BY <4>1 DEF end_of_stream, Abandon, StoreInv
            <4>2. CASE stop(r)
                BY <4>2 DEF stop, tell, StoreInv
            <4>3. CASE answer_from_cache(r)
                <5>1. key[r] \in Keys
                    BY <4>3 DEF answer_from_cache, Base, PcInv, TypeOK, Window
                <5>2. cache[key[r]] \subseteq messages
                    BY <4>3, <5>1 DEF answer_from_cache, Base, TypeOK
                <5> QED BY <4>3, <5>2 DEF answer_from_cache, tell, StoreInv
            <4> QED BY <2>2, <4>1, <4>2, <4>3 DEF Leaving
        <3>3. Stays
            BY <3>1, <3>2
        <3> HIDE DEF Stays
        <3> QED BY <1>2, <3>1, <3>3 DEF Executing
    <2>3. CASE start_turn(r)
        BY <1>2, <2>3 DEF start_turn, Goto, session, Executing
    <2>4. CASE create_user_message(r)
        BY <1>2, <2>4 DEF create_user_message, Goto, session
    <2>5. CASE complete_turn(r)
        BY <1>2, <2>5 DEF complete_turn, Goto, session, StoreInv, Executing
    <2>6. CASE Commits(r)
        <3>1. PICK to \in {"running", "saved", "paused", "ended", "user_saved"},
                   st \in {"paused", "failed", "resumed", "cancelled", row[turn[r]].status} :
                  /\ CommitsTo(r, to, st)
                  /\ pc[r] \in {"context", "running"} \/ pc[r] \in Deciding
                  /\ to = "user_saved" => pc[r] \in Deciding
                  /\ to \in {"running", "saved"} => pc[r] \in Executing
                  /\ to = "saved" => Assistant(r) \in messages'
                  /\ to = "paused" => Pause(r) \in pauses'
            BY <2>6 DEF Commits, Executing, Deciding
        <3>2. Stays /\ UNCHANGED turn /\ pc' = [pc EXCEPT ![r] = to]
            BY <3>1 DEF CommitsTo
        <3>3. to \in Executing /\ turn'[r] = r => User(r) \in messages'
            BY <3>1, <3>2 DEF StoreInv, Base, PcInv, Executing
        <3> HIDE DEF Stays
        <3> QED BY <1>2, <3>1, <3>2, <3>3
    <2>7. ASSUME NEW k \in Keys \cup {None}, NEW b \in Payloads, send_message_stream(r, k, b)
          PROVE  StoreInv' /\ Stays
        <3>1. /\ UNCHANGED <<messages, told, pauses>>
              /\ turn' = [turn EXCEPT ![r] = r]
              /\ pc' = [pc EXCEPT ![r] = IF k = None THEN "accepted" ELSE "redis"]
            BY <2>7 DEF send_message_stream, Goto
        <3>2. \A s \in Requests \ {r} : turn'[s] = turn[s]
            BY <3>1 DEF Base, TypeOK
        <3>3. Stays
            BY <3>1
        <3> HIDE DEF Stays
        <3>4. PICK to \in {"accepted", "redis"} : pc' = [pc EXCEPT ![r] = to]
            BY <3>1
        <3> QED BY <1>2, <3>2, <3>3, <3>4 DEF Executing
    <2>8. ASSUME NEW t \in Requests, NEW action, resume_run(r, t, action)
          PROVE  StoreInv' /\ Stays
        <3>1. /\ UNCHANGED <<messages, told, pauses>>
              /\ turn' = [turn EXCEPT ![r] = t]
              /\ pc' = [pc EXCEPT ![r] = IF action = "cancel" THEN "cancelling" ELSE "resuming"]
            BY <2>8 DEF resume_run, Goto
        <3>2. \A s \in Requests \ {r} : turn'[s] = turn[s]
            BY <3>1 DEF Base, TypeOK
        <3>3. Stays
            BY <3>1
        <3> HIDE DEF Stays
        <3>4. PICK to \in {"cancelling", "resuming"} : pc' = [pc EXCEPT ![r] = to]
            BY <3>1
        <3> QED BY <1>2, <3>2, <3>3, <3>4 DEF Executing
    <2> QED BY <1>3, <2>1, <2>2, <2>3, <2>4, <2>5, <2>6, <2>7, <2>8 DEF Kind
<1>4. ASSUME NEW k \in Keys, CacheExpires(k) PROVE StoreInv' /\ Stays
    BY <1>4 DEF CacheExpires, StoreInv, session
<1>5. StoreInv' /\ Stays
    BY <1>3, <1>4, StepKinds
<1> QED BY <1>1, <1>5

-------------------------------------------------------------------------------
\* One request at a time.

\* Steps after which nobody works on a turn who did not before.
LEMMA SegmentQuiet ==
    ASSUME SegmentInv, UNCHANGED row, raced \subseteq raced',
           \A s \in Requests :
               /\ pc'[s] \in Executing => pc[s] \in Executing
               /\ pc'[s] \in Deciding => pc[s] \in Deciding
               /\ pc'[s] \in Executing \cup Deciding => turn'[s] = turn[s]
    PROVE  SegmentInv'
BY DEF SegmentInv

\* The request that creates a turn is the first to work on it.
LEMMA SegmentCreate ==
    ASSUME Base, SegmentInv, NEW r \in Requests, create_user_message(r)
    PROVE  SegmentInv'
<1>1. /\ turn[r] = r /\ ~Durable(r)
      /\ \A u \in Requests \ {r} : row'[u] = row[u]
      /\ row'[r]["status"] = flushed[r]["status"]
      /\ pc' = [pc EXCEPT ![r] = "user_saved"]
      /\ UNCHANGED <<turn, raced>>
    BY CreateRow DEF session, Columns
<1>2. row'[r].status = "started"
    BY <1>1, CreateRow DEF Base, PcInv
<1>3. \A s \in Requests \ {r} : pc[s] \in Executing \cup Deciding =>
          turn[s] \in Requests \ {r}
    BY <1>1 DEF Base, PcInv
<1>4. pc'[r] = "user_saved" /\ \A s \in Requests \ {r} : pc'[s] = pc[s]
    BY <1>1 DEF Base, TypeOK
<1> QED BY <1>1, <1>2, <1>3, <1>4 DEF SegmentInv, Executing, Deciding

\* A commit by the one request that works on the turn, or among requests that
\* have raced for it.
LEMMA SegmentCommit ==
    ASSUME Base, SegmentInv, NEW r \in Requests, Commits(r)
    PROVE  SegmentInv'
<1> DEFINE t == turn[r]
<1>1. PICK to \in {"running", "saved", "paused", "ended", "user_saved"},
           st \in {"paused", "failed", "resumed", "cancelled", row[turn[r]].status} :
          /\ CommitsTo(r, to, st)
          /\ pc[r] \in Executing \cup Deciding
          /\ to \in Executing => st = "resumed" \/ (pc[r] \in Executing /\ st = row[t].status)
          /\ pc[r] \in Deciding => st # "started"
          /\ to \in Executing /\ pc[r] \in Executing => st = row[t].status
          /\ st # "started" \/ (to \in Executing /\ pc[r] \in Executing /\ st = row[t].status)
    BY DEF Commits, Executing, Deciding
<1>2. /\ t \in Requests
      /\ \A u \in Requests \ {t} : row'[u] = row[u]
      /\ row'[t].status = st
      /\ pc' = [pc EXCEPT ![r] = to]
      /\ UNCHANGED <<turn, raced>>
    BY <1>1 DEF CommitsTo, Rewritten
<1>3. pc'[r] = to /\ \A s \in Requests \ {r} : pc'[s] = pc[s]
    BY <1>2 DEF Base, TypeOK
<1>4. to \notin Deciding
    BY DEF Deciding
<1>5. pc[r] \in Deciding => r # t
    BY DEF Base, PcInv
<1>6. \A s \in Requests : pc[s] \in Executing \cup Deciding => turn[s] \in Requests
    BY DEF Base, PcInv
<1>7. \A s \in Requests \ {r} : pc[s] \in Executing \cup Deciding /\ turn[s] = t => t \in raced
    BY <1>1 DEF SegmentInv
<1> HIDE DEF t
<1>8. \A s \in Requests : pc'[s] \in Executing \cup Deciding /\ turn'[s] # s =>
          row'[turn'[s]].status # "started"
    BY <1>1, <1>2, <1>3, <1>4, <1>5, <1>6 DEF SegmentInv, t
<1>9. \A s \in Requests : pc'[s] \in Executing /\ turn'[s] = s => row'[s].status = "started"
    <2>1. ASSUME NEW s \in Requests, pc'[s] \in Executing, turn'[s] = s
          PROVE  row'[s].status = "started"
        <3>1. CASE s # t
            <4>1. s # r
                BY <1>2, <2>1, <3>1 DEF t
            <4> QED BY <1>2, <1>3, <2>1, <3>1, <4>1 DEF SegmentInv
        <3>2. CASE s = t /\ s # r
            <4>1. row[t].status = "started" /\ row[t].status # "started"
                BY <1>1, <1>2, <1>3, <2>1, <3>2 DEF SegmentInv, t
            <4> QED BY <4>1
        <3>3. CASE s = t /\ s = r
            BY <1>1, <1>2, <1>3, <1>5, <2>1, <3>3 DEF SegmentInv, t
        <3> QED BY <3>1, <3>2, <3>3
    <2> QED BY <2>1
<1>10. \A s, u \in Requests :
           /\ turn'[s] = turn'[u] /\ s # u
           /\ pc'[s] \in Executing \cup Deciding /\ pc'[u] \in Executing \cup Deciding
           => turn'[s] \in raced'
    BY <1>1, <1>2, <1>3 DEF SegmentInv
<1>11. \A s \in Requests :
           pc'[s] \in Executing /\ row'[turn'[s]].status \notin {"started", "resumed"} =>
               turn'[s] \in raced'
    BY <1>1, <1>2, <1>3, <1>6, <1>7 DEF SegmentInv, t
<1>12. \A s \in Requests : pc'[s] \in Deciding /\ row'[turn'[s]].status # "paused" =>
           turn'[s] \in raced'
    BY <1>1, <1>2, <1>3, <1>4, <1>6, <1>7 DEF SegmentInv, t
<1> QED BY <1>8, <1>9, <1>10, <1>11, <1>12 DEF SegmentInv

\* A resume joins nobody, or others that read the same pause.
LEMMA SegmentResume ==
    ASSUME Base, SegmentInv, NEW r \in Requests, NEW t \in Requests, NEW action,
           resume_run(r, t, action)
    PROVE  SegmentInv'
<1>1. /\ pc[r] = "idle" /\ Durable(t) /\ row[t].status = "paused"
      /\ turn' = [turn EXCEPT ![r] = t]
      /\ raced' = IF Undecided(t) = {} THEN raced ELSE raced \cup {t}
      /\ pc' = [pc EXCEPT ![r] = IF action = "cancel" THEN "cancelling" ELSE "resuming"]
      /\ UNCHANGED row
    BY DEF resume_run, Goto
<1>2. /\ pc'[r] \in Deciding /\ turn'[r] = t
      /\ \A s \in Requests \ {r} : pc'[s] = pc[s] /\ turn'[s] = turn[s]
    BY <1>1 DEF Base, TypeOK, Deciding
<1>3. pc'[r] \notin Executing
    BY <1>2 DEF Executing, Deciding
<1>4. \A s \in Requests \ {r} : pc[s] \in Executing \cup Deciding /\ turn[s] = t => t \in raced'
    BY <1>1 DEF SegmentInv, Undecided
<1>5. raced \subseteq raced'
    BY <1>1
<1> QED BY <1>1, <1>2, <1>3, <1>4, <1>5 DEF SegmentInv

\* Every step keeps at most one segment per turn, but for a raced resume.
LEMMA SegmentNext ==
    ASSUME Base, SegmentInv, Next
    PROVE  SegmentInv'
<1> USE DEF Executing, Deciding
<1>1. ASSUME NEW r \in Requests, Kind(r) PROVE SegmentInv'
    <2>1. CASE Reading(r)
        BY <2>1, ReadingFrame, SegmentQuiet DEF Base, TypeOK, session
    <2>2. CASE Leaving(r)
        BY <2>2, LeavingFrame, SegmentQuiet DEF Base, TypeOK, close, Goto
    <2>3. CASE start_turn(r) \/ complete_turn(r)
        BY <2>3, SegmentQuiet DEF start_turn, complete_turn, Base, TypeOK, session, Goto
    <2>4. ASSUME NEW k \in Keys \cup {None}, NEW b \in Payloads, send_message_stream(r, k, b)
          PROVE  SegmentInv'
        <3>1. /\ UNCHANGED row /\ raced \subseteq raced'
              /\ turn' = [turn EXCEPT ![r] = r]
              /\ pc' = [pc EXCEPT ![r] = IF k = None THEN "accepted" ELSE "redis"]
            BY <2>4 DEF send_message_stream, Goto
        <3> QED BY <3>1, SegmentQuiet DEF Base, TypeOK
    <2> QED BY <1>1, <2>1, <2>2, <2>3, <2>4, SegmentCreate, SegmentCommit, SegmentResume DEF Kind
<1>2. ASSUME NEW k \in Keys, CacheExpires(k) PROVE SegmentInv'
    BY <1>2, SegmentQuiet DEF CacheExpires, session
<1> QED BY <1>1, <1>2, StepKinds

-------------------------------------------------------------------------------
\* Idempotency keys.

\* Steps after which nobody is in the window who was not before, and every row
\* keeps its key, its hash and its clock, and is not started anew.
LEMMA KeyQuiet ==
    ASSUME KeyInv, UNCHANGED <<key, raced>>,
           \A t \in Requests : Durable(t)' =>
               /\ Durable(t)
               /\ row'[t].idempotency_key = row[t].idempotency_key
               /\ row'[t].request_hash = row[t].request_hash
               /\ row'[t].started_at = row[t].started_at
               /\ row'[t].status = "started" => row[t].status = "started",
           \A s \in Requests : pc'[s] \in Window =>
               /\ pc[s] \in Window /\ body'[s] = body[s]
               /\ pc'[s] = "turn_started" => pc[s] = "turn_started" /\ flushed'[s] = flushed[s]
    PROVE  KeyInv'
BY DEF KeyInv

\* A turn that is started is later than every durable one.
LEMMA KeyStartTurn ==
    ASSUME Base, KeyInv, NEW r \in Requests, start_turn(r)
    PROVE  KeyInv'
<1> DEFINE columns ==
        [idempotency_key |-> key[r], request_hash |-> body[r],
         started_at |-> started + 1, status |-> "started", pause_status |-> None,
         user_message_id |-> None, assistant_message_id |-> None]
<1>1. /\ pc[r] = "accepted"
      /\ flushed' = [flushed EXCEPT ![r] = Over(columns, flushed[r])]
      /\ pc' = [pc EXCEPT ![r] = "turn_started"]
      /\ UNCHANGED <<row, key, body, raced>>
    BY DEF start_turn, Goto, flush, session
<1>2. "started_at" \in DOMAIN columns /\ columns["started_at"] = started + 1
    OBVIOUS
<1> HIDE DEF columns
<1>3. flushed'[r].started_at = started + 1
    <2>1. Over(columns, flushed[r])["started_at"] = started + 1
        BY <1>2, OverColumns
    <2>2. flushed'[r] = Over(columns, flushed[r])
        BY <1>1 DEF Base, FunInv
    <2> QED BY <2>1, <2>2
<1>4. \A u \in Requests \ {r} : flushed'[u] = flushed[u] /\ pc'[u] = pc[u]
    BY <1>1 DEF Base, FunInv, TypeOK
<1>5. \A t \in Requests : Durable(t) => row[t].started_at \in 1 .. started
    BY DEF Base, TypeOK, ColumnsOK, Durable, Columns
<1>6. \A t \in Requests : Durable(t) => row[t].started_at < flushed'[r].started_at
    BY <1>3, <1>5 DEF Base, TypeOK
<1>7. pc'[r] = "turn_started" /\ \A s \in Requests : pc'[s] \in Window <=> pc[s] \in Window
    BY <1>1, <1>4 DEF Base, TypeOK, Window
<1>8. \A t \in Requests : Durable(t)' <=> Durable(t)
    BY <1>1 DEF Durable
<1> QED BY <1>1, <1>4, <1>6, <1>7, <1>8 DEF KeyInv

\* The turn that becomes durable was the only one of its key in the window.
LEMMA KeyCreate ==
    ASSUME Base, KeyInv, NEW r \in Requests, create_user_message(r)
    PROVE  KeyInv'
<1>1. /\ pc[r] = "turn_started" /\ ~Durable(r)
      /\ \A u \in Requests \ {r} : row'[u] = row[u]
      /\ DOMAIN row'[r] = Columns
      /\ row'[r]["idempotency_key"] = flushed[r]["idempotency_key"]
      /\ row'[r]["request_hash"] = flushed[r]["request_hash"]
      /\ row'[r]["started_at"] = flushed[r]["started_at"]
      /\ pc' = [pc EXCEPT ![r] = "user_saved"]
      /\ UNCHANGED <<key, body, raced>>
    BY CreateRow DEF session, Columns
<1>2. /\ row'[r].idempotency_key = key[r] /\ row'[r].request_hash = body[r]
    BY <1>1 DEF Base, PcInv
<1>3. \A s \in Requests \ {r} : pc'[s] = pc[s] /\ flushed'[s] = flushed[s]
    BY <1>1, CreateRow DEF Base, TypeOK, FunInv
<1>4. pc'[r] = "user_saved"
    BY <1>1 DEF Base, TypeOK
<1>5. pc[r] \in Window /\ pc'[r] \notin Window
    BY <1>1, <1>4 DEF Window
<1>6. \A u \in Requests \ {r} : Durable(u)' <=> Durable(u)
    BY <1>1 DEF Durable
<1> SUFFICES ASSUME NEW k \in Keys \ raced
             PROVE  /\ \A q, v \in Requests :
                           key'[q] = k /\ key'[v] = k /\ pc'[q] \in Window /\ pc'[v] \in Window => q = v
                    /\ \A q, t \in Requests :
                           /\ key'[q] = k /\ pc'[q] \in Window
                           /\ Durable(t)' /\ row'[t].idempotency_key = k
                           =>  /\ row'[t].request_hash = body'[q]
                               /\ row'[t].status # "started"
                               /\ pc'[q] = "turn_started" => row'[t].started_at < flushed'[q].started_at
                    /\ \A t, u \in Requests :
                           /\ Durable(t)' /\ row'[t].idempotency_key = k
                           /\ Durable(u)' /\ row'[u].idempotency_key = k
                           => /\ row'[t].request_hash = row'[u].request_hash
                              /\ row'[t].status = "started" /\ t # u =>
                                     row'[u].started_at < row'[t].started_at
    BY <1>1 DEF KeyInv
<1>7. \A q, v \in Requests :
          key'[q] = k /\ key'[v] = k /\ pc'[q] \in Window /\ pc'[v] \in Window => q = v
    BY <1>1, <1>3, <1>5 DEF KeyInv
<1>8. \A q, t \in Requests :
          key'[q] = k /\ pc'[q] \in Window /\ Durable(t)' /\ row'[t].idempotency_key = k =>
              /\ row'[t].request_hash = body'[q]
              /\ row'[t].status # "started"
              /\ pc'[q] = "turn_started" => row'[t].started_at < flushed'[q].started_at
    <2>1. ASSUME NEW q \in Requests, key'[q] = k, pc'[q] \in Window
          PROVE  key[q] = k /\ pc[q] \in Window /\ q # r /\ key[r] # k
        BY <1>1, <1>3, <1>5, <2>1 DEF KeyInv
    <2> QED BY <1>1, <1>2, <1>3, <1>6, <2>1 DEF KeyInv
<1>9. \A t, u \in Requests :
          /\ Durable(t)' /\ row'[t].idempotency_key = k
          /\ Durable(u)' /\ row'[u].idempotency_key = k
          => /\ row'[t].request_hash = row'[u].request_hash
             /\ row'[t].status = "started" /\ t # u => row'[u].started_at < row'[t].started_at
    <2> SUFFICES ASSUME NEW t \in Requests, NEW u \in Requests,
                        Durable(t)', row'[t].idempotency_key = k,
                        Durable(u)', row'[u].idempotency_key = k
                 PROVE  /\ row'[t].request_hash = row'[u].request_hash
                        /\ row'[t].status = "started" /\ t # u =>
                               row'[u].started_at < row'[t].started_at
        OBVIOUS
    <2>1. CASE t # r /\ u # r
        BY <1>1, <1>6, <2>1 DEF KeyInv
    <2>2. CASE t = r /\ u # r
        <3>1. Durable(u) /\ row[u].idempotency_key = k /\ key[r] = k
            BY <1>1, <1>2, <1>6, <2>2
        <3> QED BY <1>1, <1>2, <1>5, <2>2, <3>1 DEF KeyInv
    <2>3. CASE t # r /\ u = r
        <3>1. Durable(t) /\ row[t].idempotency_key = k /\ key[r] = k
            BY <1>1, <1>2, <1>6, <2>3
        <3> QED BY <1>1, <1>2, <1>5, <2>3, <3>1 DEF KeyInv
    <2> QED BY <2>1, <2>2, <2>3
<1> QED BY <1>7, <1>8, <1>9

\* A request that is let through has seen the last turn of its key, and every
\* earlier one agrees with it.
LEMMA KeySend ==
    ASSUME Base, KeyInv, NEW r \in Requests, NEW k \in Keys \cup {None}, NEW b \in Payloads,
           send_message_stream(r, k, b)
    PROVE  KeyInv'
<1>1. /\ pc[r] = "idle" /\ check_turn_idempotency(k, b) = "none"
      /\ key' = [key EXCEPT ![r] = k] /\ body' = [body EXCEPT ![r] = b]
      /\ raced' = IF Unseen(k) = {} THEN raced ELSE raced \cup {k}
      /\ pc' = [pc EXCEPT ![r] = IF k = None THEN "accepted" ELSE "redis"]
      /\ UNCHANGED <<row, flushed>>
    BY DEF send_message_stream, Goto
<1>2. /\ key'[r] = k /\ body'[r] = b /\ pc'[r] \in Window /\ pc'[r] # "turn_started"
      /\ \A s \in Requests \ {r} : key'[s] = key[s] /\ body'[s] = body[s] /\ pc'[s] = pc[s]
    BY <1>1 DEF Base, TypeOK, Window
<1>3. \A t \in Requests : Durable(t)' <=> Durable(t)
    BY <1>1 DEF Durable
<1>4. ASSUME k \in Keys, k \notin raced', NEW t \in Requests, Durable(t), row[t].idempotency_key = k
      PROVE  row[t].request_hash = b /\ row[t].status # "started"
    <2> DEFINE l == get_latest_by_idempotency_key(k)
    <2>1. k \notin raced /\ k # None
        BY <1>1, <1>4, NoneIsNothing
    <2>2. t \in TurnsOfKey(k)
        BY <1>4 DEF TurnsOfKey
    <2>3. l \in TurnsOfKey(k) /\ row[t].started_at <= row[l].started_at
        BY <2>2, LatestIsOne DEF Base
    <2>4. row[l].request_hash = b /\ row[l].status # "started"
        BY <1>1, <2>1, <2>2 DEF check_turn_idempotency, has_payload_mismatch
    <2> HIDE DEF l
    <2>5. l \in Requests /\ Durable(l) /\ row[l].idempotency_key = k
        BY <2>3 DEF TurnsOfKey
    <2>6. row[t].started_at \in Nat /\ row[l].started_at \in Nat
        BY <1>4, <2>5 DEF Base, TypeOK, ColumnsOK, Durable, Columns
    <2> QED BY <1>4, <2>1, <2>3, <2>4, <2>5, <2>6 DEF KeyInv
<1>5. k \in Keys /\ k \notin raced' => \A s \in Requests : key[s] = k => pc[s] \notin Window
    BY <1>1, NoneIsNothing DEF Unseen
<1>6. raced \subseteq raced'
    BY <1>1
<1> QED BY <1>1, <1>2, <1>3, <1>4, <1>5, <1>6 DEF KeyInv

\* Every step keeps the keys and hashes of durable and of coming turns apart.
LEMMA KeyNext ==
    ASSUME Base, KeyInv, Next
    PROVE  KeyInv'
<1>1. ASSUME NEW r \in Requests, Kind(r) PROVE KeyInv'
    <2>1. CASE Reading(r)
        BY <2>1, ReadingFrame, KeyQuiet DEF Base, TypeOK, session, Window, Durable
    <2>2. CASE Leaving(r)
        <3>1. /\ UNCHANGED <<row, key, raced>>
              /\ pc' = [pc EXCEPT ![r] = "ended"]
              /\ flushed' = [flushed EXCEPT ![r] = NoColumns]
              /\ body' = [body EXCEPT ![r] = None]
            BY <2>2, LeavingFrame DEF close, Goto
        <3> QED BY <3>1, KeyQuiet DEF Base, TypeOK, FunInv, Window, Durable
    <2>3. CASE complete_turn(r)
        <3>1. /\ UNCHANGED <<row, key, body, raced>>
              /\ pc' = [pc EXCEPT ![r] = "completing"]
              /\ \A s \in Requests \ {r} : flushed'[s] = flushed[s]
            BY <2>3 DEF complete_turn, session, Goto, flush, Base, FunInv
        <3> QED BY <3>1, KeyQuiet DEF Base, TypeOK, Window, Durable
    <2>4. CASE Commits(r)
        <3>1. PICK to \in {"running", "saved", "paused", "ended", "user_saved"},
                   st \in {"paused", "failed", "resumed", "cancelled", row[turn[r]].status} :
                  CommitsTo(r, to, st) /\ (st = "started" => st = row[turn[r]].status)
            BY <2>4 DEF Commits
        <3>2. /\ UNCHANGED <<key, raced>> /\ pc' = [pc EXCEPT ![r] = to]
              /\ \A s \in Requests \ {r} : flushed'[s] = flushed[s] /\ body'[s] = body[s]
            BY <3>1 DEF CommitsTo, Base, TypeOK, FunInv
        <3>3. \A t \in Requests : Durable(t)' =>
                  /\ Durable(t)
                  /\ row'[t].idempotency_key = row[t].idempotency_key
                  /\ row'[t].request_hash = row[t].request_hash
                  /\ row'[t].started_at = row[t].started_at
                  /\ row'[t].status = "started" => row[t].status = "started"
            BY <3>1 DEF CommitsTo, Rewritten, Durable
        <3> QED BY <3>2, <3>3, KeyQuiet DEF Base, TypeOK, Window
    <2>5. ASSUME NEW t \in Requests, NEW action, resume_run(r, t, action)
          PROVE  KeyInv'
        <3>1. /\ UNCHANGED <<row, key, body, flushed>>
              /\ pc' = [pc EXCEPT ![r] = IF action = "cancel" THEN "cancelling" ELSE "resuming"]
              /\ raced' \in {raced, raced \cup {t}}
            BY <2>5 DEF resume_run, Goto
        <3>2. \A s \in Requests : pc'[s] \in Window => pc'[s] = pc[s]
            BY <3>1 DEF Base, TypeOK, Window
        <3>3. \A u \in Requests : Durable(u)' <=> Durable(u)
            BY <3>1 DEF Durable
        <3>4. raced \subseteq raced'
            BY <3>1
        <3> QED BY <3>1, <3>2, <3>3, <3>4 DEF KeyInv
    <2> QED BY <1>1, <2>1, <2>2, <2>3, <2>4, <2>5, KeyStartTurn, KeyCreate, KeySend DEF Kind
<1>2. ASSUME NEW k \in Keys, CacheExpires(k) PROVE KeyInv'
    BY <1>2 DEF CacheExpires, session, KeyInv, Durable
<1> QED BY <1>1, <1>2, StepKinds

-------------------------------------------------------------------------------
\* Answers.

\* Steps that answer nothing new, or what r has saved: the rows of answered
\* requests stay, and no answered request but r moves.
LEMMA AnswerQuiet ==
    ASSUME Base, AnswerInv, NEW r \in Requests, NEW to \in Active \cup {"ended"},
           pc' = [pc EXCEPT ![r] = to],
           \A s \in Requests \ {r} : key'[s] = key[s],
           \A s \in Requests : Assistant(s) \in told' => Answered(s),
           \A s \in Requests, k \in Keys : cache'[k] # None /\ Assistant(s) \in cache'[k] => Answered(s),
           \A s \in Requests : Answered(s) /\ key'[s] # None => row'[s] = row[s],
           to \in {"saved", "completing", "completed"} => Answered(r),
           Answered(r) => key'[r] = key[r] /\ to \in {"saved", "completing", "completed", "ended"}
    PROVE  AnswerInv'
<1>1. pc'[r] = to /\ \A s \in Requests \ {r} : pc'[s] = pc[s]
    BY DEF Base, TypeOK
<1>2. ASSUME NEW s \in Requests, Answered(s)' PROVE Answered(s)
    BY <1>1, <1>2 DEF Answered, Assistant
<1> SUFFICES ASSUME NEW s \in Requests, Answered(s)'
             PROVE  /\ pc'[s] \in {"saved", "completing", "completed", "ended"}
                    /\ key'[s] # None => Durable(s)' /\ row'[s].status = "started"
    BY DEF AnswerInv
<1>3. Answered(s) /\ key'[s] = key[s]
    BY <1>2
<1>4. pc[s] \in {"saved", "completing", "completed", "ended"}
      /\ (key[s] # None => Durable(s) /\ row[s].status = "started")
    BY <1>3 DEF AnswerInv
<1>5. pc'[s] \in {"saved", "completing", "completed", "ended"}
    BY <1>1, <1>3, <1>4
<1>6. ASSUME key'[s] # None PROVE Durable(s)' /\ row'[s].status = "started"
    <2>1. row'[s] = row[s]
        BY <1>3, <1>6
    <2> QED BY <1>3, <1>4, <1>6, <2>1 DEF Durable
<1> QED BY <1>5, <1>6

\* The messages are told apart by the request and the role.
LEMMA MessagesDiffer ==
    ASSUME NEW r \in Requests, NEW s \in Requests
    PROVE  /\ Assistant(s) # User(r) /\ Assistant(s) # Pause(r)
           /\ Assistant(s) = Assistant(r) => s = r
BY DEF Assistant, User, Pause

\* A refused request is told nothing, since no turn is durably completed.
LEMMA RefusedSilent ==
    ASSUME Base, NEW r \in Requests, NEW k \in Keys \cup {None}, NEW b \in Payloads,
           send_refused(r, k, b)
    PROVE  told' = told
<1> DEFINE l == get_latest_by_idempotency_key(k)
<1>1. CASE check_turn_idempotency(k, b) # "completed"
    BY <1>1 DEF send_refused, tell
<1>2. CASE check_turn_idempotency(k, b) = "completed"
    <2>1. TurnsOfKey(k) # {} /\ row[l].status = "completed"
        BY <1>2 DEF check_turn_idempotency
    <2>2. l \in TurnsOfKey(k)
        BY <2>1, LatestIsOne DEF Base
    <2> HIDE DEF l
    <2> QED BY <2>1, <2>2 DEF TurnsOfKey, Base, RowInv
<1> QED BY <1>1, <1>2

\* Every step keeps one answer per key, but for a raced check.
LEMMA AnswerNext ==
    ASSUME Base, SegmentInv, AnswerInv, Next
    PROVE  AnswerInv'
<1> USE DEF Active, Window, Executing, Deciding
<1>1. /\ \A s \in Requests : Assistant(s) \in told => Answered(s)
      /\ \A s \in Requests, k \in Keys : cache[k] # None /\ Assistant(s) \in cache[k] => Answered(s)
      /\ \A s \in Requests : pc[s] \in {"saved", "completing", "completed"} => Answered(s)
      /\ \A s \in Requests : Answered(s) => pc[s] \in {"saved", "completing", "completed", "ended"}
      /\ \A s \in Requests : Answered(s) /\ key[s] # None => row[s].status = "started"
    BY DEF Answered, AnswerInv
<1>2. ASSUME NEW r \in Requests, Kind(r) PROVE AnswerInv'
    <2>1. CASE Reading(r)
        <3>1. UNCHANGED <<row, cache, key>>
            BY <2>1, ReadingFrame DEF session
        <3>2. CASE check_idempotency(r) \/ load_chat_context(r) \/ start_execution(r)
            <4>1. PICK to \in {"accepted", "context", "running"} : pc' = [pc EXCEPT ![r] = to]
                BY <3>2 DEF check_idempotency, load_chat_context, start_execution, Goto
            <4>2. told' \subseteq told \cup {User(r)} /\ pc[r] \in {"redis", "user_saved", "context"}
                BY <3>2 DEF check_idempotency, load_chat_context, start_execution, tell
            <4> QED BY <1>1, <3>1, <4>1, <4>2, AnswerQuiet, MessagesDiffer
        <3>3. CASE delta(r)
            <4>1. pc' = [pc EXCEPT ![r] = "running"] /\ told' = told /\ pc[r] = "running"
                BY <3>3 DEF delta, Base, TypeOK
            <4> QED BY <1>1, <3>1, <4>1, AnswerQuiet
        <3>4. CASE final(r)
            <4>1. /\ pc' = [pc EXCEPT ![r] = "completed"] /\ told' = told \cup {Assistant(r)}
                  /\ pc[r] = "completing"
                BY <3>4 DEF final, tell, Goto
            <4> QED BY <1>1, <3>1, <4>1, AnswerQuiet, MessagesDiffer
        <3>5. ASSUME NEW k \in Keys \cup {None}, NEW b \in Payloads, send_refused(r, k, b)
              PROVE  AnswerInv'
            <4>1. pc' = [pc EXCEPT ![r] = "ended"] /\ told' = told /\ pc[r] = "idle"
                BY <3>5, RefusedSilent DEF send_refused, Goto
            <4> QED BY <1>1, <3>1, <4>1, AnswerQuiet
        <3> QED BY <2>1, <3>2, <3>3, <3>4, <3>5 DEF Reading
    <2>2. CASE Leaving(r)
        <3>1. UNCHANGED <<row, cache, key>> /\ pc' = [pc EXCEPT ![r] = "ended"]
            BY <2>2, LeavingFrame DEF close, Goto
        <3>2. \A s \in Requests : Assistant(s) \in told' => Answered(s)
            <4>1. CASE end_of_stream(r) \/ Abandon(r)
                BY <1>1, <4>1 DEF end_of_stream, Abandon
            <4>2. CASE stop(r)
                BY <1>1, <4>2, MessagesDiffer DEF stop, tell
            <4>3. CASE answer_from_cache(r)
                <5>1. key[r] \in Keys /\ cache[key[r]] # None /\ told' = told \cup cache[key[r]]
                    BY <4>3 DEF answer_from_cache, Base, PcInv, TypeOK, tell
                <5> QED BY <1>1, <5>1
            <4> QED BY <2>2, <4>1, <4>2, <4>3 DEF Leaving
        <3> QED BY <1>1, <3>1, <3>2, AnswerQuiet
    <2>3. CASE start_turn(r)
        <3>1. UNCHANGED <<row, cache, key, told>> /\ pc' = [pc EXCEPT ![r] = "turn_started"]
              /\ pc[r] = "accepted"
            BY <2>3 DEF start_turn, Goto, session
        <3> QED BY <1>1, <3>1, AnswerQuiet
    <2>4. CASE create_user_message(r)
        <3>1. /\ UNCHANGED <<cache, key, told>> /\ pc' = [pc EXCEPT ![r] = "user_saved"]
              /\ pc[r] = "turn_started" /\ \A u \in Requests \ {r} : row'[u] = row[u]
            BY <2>4, CreateRow DEF session
        <3> QED BY <1>1, <3>1, AnswerQuiet
    <2>5. CASE complete_turn(r)
        <3>1. UNCHANGED <<row, key, told>> /\ pc' = [pc EXCEPT ![r] = "completing"] /\ pc[r] = "saved"
            BY <2>5 DEF complete_turn, Goto, session
        <3>2. \A s \in Requests, k \in Keys :
                  cache'[k] # None /\ Assistant(s) \in cache'[k] => Answered(s)
            <4>1. CASE cache' = [cache EXCEPT ![key[r]] = {User(r), Assistant(r)}]
                BY <1>1, <3>1, <4>1, MessagesDiffer DEF Base, TypeOK
            <4>2. CASE UNCHANGED cache
                BY <1>1, <4>2
            <4> QED BY <2>5, <4>1, <4>2 DEF complete_turn
        <3> QED BY <1>1, <3>1, <3>2, AnswerQuiet
    <2>6. CASE Commits(r)
        <3>1. PICK to \in {"running", "saved", "paused", "ended", "user_saved"},
                   st \in {"paused", "failed", "resumed", "cancelled", row[turn[r]].status} :
                  /\ CommitsTo(r, to, st)
                  /\ pc[r] \in {"context", "running", "resuming", "cancelling"}
                  /\ to = "saved" => pc[r] = "running" /\ st = row[turn[r]].status
            BY <2>6 DEF Commits
        <3>2. /\ UNCHANGED <<cache, key, turn, told>> /\ pc' = [pc EXCEPT ![r] = to]
              /\ turn[r] \in Requests /\ Durable(turn[r])
              /\ \A u \in Requests \ {turn[r]} : row'[u] = row[u]
              /\ \A u \in Requests : DOMAIN row'[u] = DOMAIN row[u]
              /\ row'[turn[r]].status = st
            BY <3>1 DEF CommitsTo, Rewritten
        <3>3. \A s \in Requests : Answered(s) /\ key[s] # None => s # turn[r]
            <4> SUFFICES ASSUME NEW s \in Requests, Answered(s), key[s] # None, s = turn[r]
                         PROVE  FALSE
                OBVIOUS
            <4>1. s # r
                BY <1>1, <3>1
            <4> QED BY <1>1, <3>1, <4>1 DEF SegmentInv
        <3>4. CASE to # "saved"
            BY <1>1, <3>1, <3>2, <3>3, <3>4, AnswerQuiet
        <3>5. CASE to = "saved"
            <4>1. pc'[r] = "saved" /\ \A s \in Requests \ {r} : pc'[s] = pc[s]
                BY <3>2, <3>5 DEF Base, TypeOK
            <4>2. key[r] # None => Durable(r)' /\ row'[r].status = "started"
                BY <3>1, <3>2, <3>5 DEF Base, PcInv, SegmentInv, Durable
            <4>3. \A s \in Requests \ {r} : Answered(s)' => Answered(s)
                BY <3>2, <4>1 DEF Answered, Assistant
            <4>4. \A s \in Requests \ {r} : Answered(s) =>
                      /\ pc'[s] \in {"saved", "completing", "completed", "ended"}
                      /\ key'[s] # None => Durable(s)' /\ row'[s].status = "started"
                BY <3>2, <3>3, <4>1 DEF AnswerInv, Durable
            <4> QED BY <3>2, <4>1, <4>2, <4>3, <4>4 DEF AnswerInv
        <3> QED BY <3>4, <3>5
    <2>7. ASSUME NEW k \in Keys \cup {None}, NEW b \in Payloads, send_message_stream(r, k, b)
          PROVE  AnswerInv'
        <3>1. /\ UNCHANGED <<row, cache, told>> /\ pc[r] = "idle" /\ key' = [key EXCEPT ![r] = k]
              /\ pc' = [pc EXCEPT ![r] = IF k = None THEN "accepted" ELSE "redis"]
            BY <2>7 DEF send_message_stream, Goto
        <3>2. PICK to \in {"accepted", "redis"} : pc' = [pc EXCEPT ![r] = to]
            BY <3>1
        <3>3. \A s \in Requests \ {r} : key'[s] = key[s]
            BY <3>1 DEF Base, TypeOK
        <3> QED BY <1>1, <3>1, <3>2, <3>3, AnswerQuiet
    <2>8. ASSUME NEW t \in Requests, NEW action, resume_run(r, t, action)
          PROVE  AnswerInv'
        <3>1. UNCHANGED <<row, cache, told, key>> /\ pc[r] = "idle"
            BY <2>8 DEF resume_run
        <3>2. PICK to \in {"cancelling", "resuming"} : pc' = [pc EXCEPT ![r] = to]
            BY <2>8 DEF resume_run, Goto
        <3> QED BY <1>1, <3>1, <3>2, AnswerQuiet
    <2> QED BY <1>2, <2>1, <2>2, <2>3, <2>4, <2>5, <2>6, <2>7, <2>8 DEF Kind
<1>3. ASSUME NEW k \in Keys, CacheExpires(k) PROVE AnswerInv'
    <2>1. cache' = [cache EXCEPT ![k] = None] /\ UNCHANGED <<row, pc, key, told>>
        BY <1>3 DEF CacheExpires, session
    <2>2. \A s \in Requests : Answered(s)' => Answered(s)
        BY <2>1 DEF Answered, Base, TypeOK, Assistant
    <2> QED BY <2>1, <2>2 DEF AnswerInv, Durable
<1> QED BY <1>2, <1>3, StepKinds

-------------------------------------------------------------------------------
\* A failed turn keeps the request that failed it, and its message.
LEMMA FailureNext ==
    ASSUME Base, FailureLeavesMessage, Next
    PROVE  FailureLeavesMessage'
<1>1. ASSUME messages \subseteq messages',
             \A s \in Requests : pc[s] # "idle" => turn'[s] = turn[s],
             \A t \in Requests : Durable(t)' /\ row'[t].status = "failed" =>
                 \/ Durable(t) /\ row[t].status = "failed"
                 \/ \E s \in Requests : turn'[s] = t /\ Assistant(s) \in messages'
      PROVE  FailureLeavesMessage'
    <2>1. \A s \in Requests : turn[s] \in Requests => pc[s] # "idle"
        BY NoneIsNothing DEF Base, PcInv
    <2> QED BY <1>1, <2>1 DEF FailureLeavesMessage
<1>2. ASSUME NEW r \in Requests, Kind(r) PROVE FailureLeavesMessage'
    <2>1. CASE Reading(r)
        BY <1>1, <2>1, ReadingFrame DEF session, Durable
    <2>2. CASE Leaving(r)
        BY <1>1, <2>2, LeavingFrame DEF Durable
    <2>3. CASE start_turn(r)
        BY <1>1, <2>3 DEF start_turn, session, Durable
    <2>4. CASE complete_turn(r)
        BY <1>1, <2>4 DEF complete_turn, session, Durable
    <2>5. CASE create_user_message(r)
        <3>1. /\ UNCHANGED turn /\ messages \subseteq messages'
              /\ \A u \in Requests \ {r} : row'[u] = row[u]
              /\ row'[r]["status"] = flushed[r]["status"] /\ pc[r] = "turn_started"
            BY <2>5, CreateRow DEF session, Columns
        <3>2. row'[r].status = "started"
            BY <3>1 DEF Base, PcInv
        <3> QED BY <1>1, <3>1, <3>2 DEF Durable
    <2>6. CASE Commits(r)
        <3>1. PICK to, st :
                  /\ CommitsTo(r, to, st)
                  /\ st = "failed" => st = row[turn[r]].status \/ Assistant(r) \in messages'
            BY <2>6 DEF Commits
        <3>2. /\ UNCHANGED turn /\ messages \subseteq messages'
              /\ \A u \in Requests : DOMAIN row'[u] = DOMAIN row[u]
              /\ \A u \in Requests \ {turn[r]} : row'[u] = row[u]
              /\ row'[turn[r]].status = st
            BY <3>1 DEF CommitsTo, Rewritten
        <3> QED BY <1>1, <3>1, <3>2 DEF Durable
    <2>7. ASSUME NEW k \in Keys \cup {None}, NEW b \in Payloads, send_message_stream(r, k, b)
          PROVE  FailureLeavesMessage'
        <3>1. UNCHANGED <<row, messages>> /\ turn' = [turn EXCEPT ![r] = r] /\ pc[r] = "idle"
            BY <2>7 DEF send_message_stream
        <3> QED BY <1>1, <3>1 DEF Durable, Base, TypeOK
    <2>8. ASSUME NEW t \in Requests, NEW action, resume_run(r, t, action)
          PROVE  FailureLeavesMessage'
        <3>1. UNCHANGED <<row, messages>> /\ turn' = [turn EXCEPT ![r] = t] /\ pc[r] = "idle"
            BY <2>8 DEF resume_run
        <3> QED BY <1>1, <3>1 DEF Durable, Base, TypeOK
    <2> QED BY <1>2, <2>1, <2>2, <2>3, <2>4, <2>5, <2>6, <2>7, <2>8 DEF Kind
<1>3. ASSUME NEW k \in Keys, CacheExpires(k) PROVE FailureLeavesMessage'
    BY <1>1, <1>3 DEF CacheExpires, session, Durable
<1> QED BY <1>2, <1>3, StepKinds

-------------------------------------------------------------------------------
\* Only a pause makes a turn paused, and only a paused turn is taken up by
\* another request.
LEMMA PauseNext ==
    ASSUME Base, PauseInv, Next
    PROVE  PauseInv'
<1>1. ASSUME pauses \subseteq pauses',
             \A s \in Requests : pc[s] # "idle" => turn'[s] = turn[s],
             \A s \in Requests : pc[s] = "idle" /\ turn'[s] \in Requests \ {s} =>
                 Durable(turn'[s]) /\ row[turn'[s]].status = "paused",
             \A t \in Requests : Durable(t)' /\ row'[t].status = "paused" =>
                 \/ Durable(t) /\ row[t].status = "paused"
                 \/ \E s \in Requests : turn'[s] = t /\ Pause(s) \in pauses'
      PROVE  PauseInv'
    <2>1. \A s \in Requests : turn[s] \in Requests => pc[s] # "idle"
        BY NoneIsNothing DEF Base, PcInv
    <2>2. \A t \in Requests : WasPaused(t) => WasPaused(t)'
        BY <1>1, <2>1 DEF WasPaused, Pause
    <2>3. ASSUME NEW t \in Requests, Durable(t)', row'[t].status = "paused" PROVE WasPaused(t)'
        BY <1>1, <2>2, <2>3 DEF PauseInv, WasPaused, Pause
    <2>4. ASSUME NEW s \in Requests, turn'[s] \in Requests \ {s} PROVE WasPaused(turn[s])'
        <3> DEFINE t == turn'[s]
        <3>1. WasPaused(t)
            BY <1>1, <2>4 DEF PauseInv
        <3>2. PICK u \in Requests : turn[u] = t /\ Pause(u) \in pauses
            BY <3>1 DEF WasPaused
        <3>3. turn'[u] = turn'[s] /\ Pause(u) \in pauses'
            BY <1>1, <2>1, <2>4, <3>2
        <3> QED BY <3>3 DEF WasPaused, Pause
    <2> QED BY <2>3, <2>4 DEF PauseInv
<1>2. ASSUME NEW r \in Requests, Kind(r) PROVE PauseInv'
    <2> USE NoneIsNothing
    <2>1. \A s \in Requests : pc[s] = "idle" => turn[s] \notin Requests
        BY DEF Base, PcInv
    <2>2. CASE Reading(r)
        BY <1>1, <2>1, <2>2, ReadingFrame DEF session, Durable
    <2>3. CASE Leaving(r)
        BY <1>1, <2>1, <2>3, LeavingFrame DEF Durable
    <2>4. CASE start_turn(r)
        BY <1>1, <2>1, <2>4 DEF start_turn, session, Durable
    <2>5. CASE complete_turn(r)
        BY <1>1, <2>1, <2>5 DEF complete_turn, session, Durable
    <2>6. CASE create_user_message(r)
        <3>1. /\ UNCHANGED <<turn, pauses>>
              /\ \A u \in Requests \ {r} : row'[u] = row[u]
              /\ row'[r]["status"] = flushed[r]["status"] /\ pc[r] = "turn_started"
            BY <2>6, CreateRow DEF session, Columns
        <3>2. row'[r].status = "started"
            BY <3>1 DEF Base, PcInv
        <3> QED BY <1>1, <2>1, <3>1, <3>2 DEF Durable
    <2>7. CASE Commits(r)
        <3>1. PICK to, st :
                  /\ CommitsTo(r, to, st)
                  /\ st = "paused" => st = row[turn[r]].status \/ Pause(r) \in pauses'
            BY <2>7 DEF Commits
        <3>2. /\ UNCHANGED turn /\ pauses \subseteq pauses'
              /\ \A u \in Requests : DOMAIN row'[u] = DOMAIN row[u]
              /\ \A u \in Requests \ {turn[r]} : row'[u] = row[u]
              /\ row'[turn[r]].status = st
            BY <3>1 DEF CommitsTo, Rewritten
        <3> QED BY <1>1, <2>1, <3>1, <3>2 DEF Durable
    <2>8. ASSUME NEW k \in Keys \cup {None}, NEW b \in Payloads, send_message_stream(r, k, b)
          PROVE  PauseInv'
        <3>1. UNCHANGED <<row, pauses>> /\ turn' = [turn EXCEPT ![r] = r] /\ pc[r] = "idle"
            BY <2>8 DEF send_message_stream
        <3> QED BY <1>1, <2>1, <3>1 DEF Durable, Base, TypeOK
    <2>9. ASSUME NEW t \in Requests, NEW action, resume_run(r, t, action)
          PROVE  PauseInv'
        <3>1. /\ UNCHANGED <<row, pauses>> /\ turn' = [turn EXCEPT ![r] = t] /\ pc[r] = "idle"
              /\ Durable(t) /\ row[t].status = "paused"
            BY <2>9 DEF resume_run
        <3> QED BY <1>1, <2>1, <3>1 DEF Durable, Base, TypeOK
    <2> QED BY <1>2, <2>2, <2>3, <2>4, <2>5, <2>6, <2>7, <2>8, <2>9 DEF Kind
<1>3. ASSUME NEW k \in Keys, CacheExpires(k) PROVE PauseInv'
    <2>1. \A s \in Requests : pc[s] = "idle" => turn[s] \notin Requests
        BY NoneIsNothing DEF Base, PcInv
    <2> QED BY <1>1, <1>3, <2>1 DEF CacheExpires, session, Durable
<1> QED BY <1>2, <1>3, StepKinds

-------------------------------------------------------------------------------
\* The inductive invariant.
Inv ==
    /\ Base /\ PhaseInv /\ StoreInv /\ SegmentInv /\ KeyInv /\ AnswerInv
    /\ PauseInv /\ FailureLeavesMessage

\* The invariant holds before the first request.
LEMMA InitInv == Init => Inv
<1> SUFFICES ASSUME Init PROVE Inv
    OBVIOUS
<1>1. \A t \in Requests : /\ row[t] = NoColumns /\ flushed[t] = NoColumns /\ ~Durable(t)
                          /\ pc[t] = "idle" /\ turn[t] = None /\ key[t] = None
                          /\ phase[t] = "init"
    BY NoColumnsEmpty DEF Init, Durable
<1>2. TypeOK
    <2>1. \A t \in Requests : /\ ColumnsOK(row[t], messages, started)
                              /\ ColumnsOK(flushed[t], messages, started)
                              /\ DOMAIN row[t] = {}
        BY <1>1, NoColumnsTyped, NoColumnsEmpty
    <2> QED BY <2>1 DEF Init, TypeOK, Phases
<1>3. FunInv
    BY <1>1 DEF Init, FunInv
<1>4. RowInv /\ PcInv /\ PhaseInv
    BY <1>1, NoColumnsEmpty DEF RowInv, PcInv, PhaseInv, Window, Executing, Deciding
<1>5. StoreInv /\ SegmentInv
    BY <1>1 DEF Init, StoreInv, SegmentInv, Executing, Deciding
<1>6. KeyInv /\ AnswerInv /\ FailureLeavesMessage
    BY <1>1 DEF Init, KeyInv, AnswerInv, Answered, FailureLeavesMessage, Window
<1>7. PauseInv
    BY <1>1, NoneIsNothing DEF PauseInv
<1> QED BY <1>2, <1>3, <1>4, <1>5, <1>6, <1>7 DEF Inv, Base

\* Every step keeps the invariant.
LEMMA InvInductive == Inv /\ [Next]_vars => Inv'
<1> SUFFICES ASSUME Inv, [Next]_vars PROVE Inv'
    OBVIOUS
<1>1. CASE Next
    BY <1>1, BaseNext, PhaseNext, StoreNext, SegmentNext, KeyNext, AnswerNext, PauseNext,
       FailureNext DEF Inv
<1>2. CASE UNCHANGED vars
    <2>1. TypeOK' /\ FunInv' /\ RowInv' /\ PcInv'
        BY <1>2 DEF Inv, Base, TypeOK, FunInv, RowInv, PcInv, vars, session, Durable
    <2>2. PhaseInv' /\ StoreInv' /\ SegmentInv'
        BY <1>2 DEF Inv, PhaseInv, StoreInv, SegmentInv, vars, session
    <2>3. KeyInv' /\ AnswerInv' /\ FailureLeavesMessage'
        BY <1>2 DEF Inv, KeyInv, AnswerInv, Answered, FailureLeavesMessage, vars, session, Durable
    <2>4. PauseInv'
        BY <1>2 DEF Inv, PauseInv, WasPaused, vars, session, Durable
    <2> QED BY <2>1, <2>2, <2>3, <2>4 DEF Inv, Base
<1> QED BY <1>1, <1>2

\* The invariant always holds.
LEMMA InvAlways == ChatSafety => []Inv
BY InitInv, InvInductive, PTL DEF ChatSafety

\* Every variable has its type, rows are complete, and nothing refers to a
\* message that is not durable.
THEOREM ChatTypes == ChatSafety => []TypeOK
<1>1. Inv => TypeOK
    BY DEF Inv, Base
<1> QED BY <1>1, InvAlways, PTL

\* Chat turns implement StoreBeforeTell: every event names what an earlier
\* step has committed.
THEOREM ChatTold == ChatSafety => ToldIsStored
<1>1. Init => Promise!Init
    BY DEF Init, Promise!Init
<1>2. Inv /\ [Next]_vars => [Promise!Next]_<<messages \cup pauses, told>>
    <2> SUFFICES ASSUME Inv, [Next]_vars PROVE [Promise!Next]_<<messages \cup pauses, told>>
        OBVIOUS
    <2>1. CASE Next
        BY <2>1, StoreNext DEF Inv
    <2>2. CASE UNCHANGED vars
        BY <2>2 DEF vars
    <2> QED BY <2>1, <2>2
<1> QED BY <1>1, <1>2, InvAlways, PTL DEF ChatSafety, ToldIsStored, Promise!Spec

\* Of the turns of a key, resumed ones included, one is answered for good: an
\* earlier answered turn was paused on its way, unless two requests with the key
\* were checked at once.
THEOREM ChatOneAnswer == ChatSafety => []OneAnswerPerKey
<1>1. Inv => OneAnswerPerKey
    <2> SUFFICES ASSUME Inv, NEW k \in Keys \ raced,
                        NEW t \in AnsweredTurns(k), NEW u \in AnsweredTurns(k),
                        row[t].started_at < row[u].started_at
                 PROVE  WasPaused(t)
        BY DEF OneAnswerPerKey
    <2>1. /\ t \in Requests /\ Durable(t) /\ row[t].idempotency_key = k
          /\ u \in Requests /\ Durable(u) /\ row[u].idempotency_key = k
        BY DEF AnsweredTurns, TurnsOfKey
    <2>2. PICK r \in Requests : turn[r] = t /\ Assistant(r) \in told
        BY DEF AnsweredTurns
    <2>3. CASE r # t
        BY <2>1, <2>2, <2>3 DEF Inv, PauseInv
    <2>4. CASE r = t
        <3>1. key[t] = k /\ k # None
            BY <2>1, NoneIsNothing DEF Inv, Base, RowInv
        <3>2. row[t].status = "started"
            BY <2>2, <2>4, <3>1 DEF Inv, AnswerInv, Answered
        <3>3. row[t].started_at \in Nat /\ row[u].started_at \in Nat
            BY <2>1 DEF Inv, Base, TypeOK, ColumnsOK, Durable, Columns
        <3>4. t # u
            BY <3>3
        <3>5. row[u].started_at < row[t].started_at
            BY <2>1, <3>2, <3>4 DEF Inv, KeyInv
        <3> QED BY <3>3, <3>5
    <2> QED BY <2>3, <2>4
<1> QED BY <1>1, InvAlways, PTL

\* A key stands for one request body, unless two requests with it were checked
\* at once.
THEOREM ChatOnePayload == ChatSafety => []OnePayloadPerKey
<1>1. Inv => OnePayloadPerKey
    BY DEF Inv, KeyInv, OnePayloadPerKey, TurnsOfKey
<1> QED BY <1>1, InvAlways, PTL

\* A turn is worked on by one request, unless two resumes read its pause.
THEOREM ChatOneSegment == ChatSafety => []OneSegmentPerTurn
<1>1. Inv => OneSegmentPerTurn
    BY DEF Inv, SegmentInv, OneSegmentPerTurn
<1> QED BY <1>1, InvAlways, PTL

\* A failed turn has left a message.
THEOREM ChatFailure == ChatSafety => []FailureLeavesMessage
<1>1. Inv => FailureLeavesMessage
    BY DEF Inv
<1> QED BY <1>1, InvAlways, PTL

\* No transition of an open stream is one that ChatTurnState calls invalid.
THEOREM ChatPhases == ChatSafety => PhasesAreValid
<1>1. Inv /\ [Next]_vars => [PhaseStep]_vars
    BY PhaseNext DEF Inv
<1> QED BY <1>1, InvAlways, PTL DEF ChatSafety, PhasesAreValid, PhaseStep

-------------------------------------------------------------------------------
\* The refinement of PausableRun by every turn.

\* What PausableRun sees of the row of a turn.
LEMMA StoredIs ==
    ASSUME NEW t \in Requests
    PROVE  /\ ~Durable(t) => StoredState(t) = "none"
           /\ Durable(t) /\ row[t].status \in {"started", "resumed"} => StoredState(t) = "working"
           /\ Durable(t) /\ row[t].status = "paused" => StoredState(t) = "paused"
           /\ Durable(t) /\ row[t].status \in {"failed", "cancelled"} => StoredState(t) = "over"
    BY DEF StoredState

\* The same after the step.
LEMMA StoredBecomes ==
    ASSUME NEW t \in Requests, DOMAIN row'[t] # {}
    PROVE  /\ row'[t].status \in {"started", "resumed"} => StoredState(t)' = "working"
           /\ row'[t].status = "paused" => StoredState(t)' = "paused"
           /\ row'[t].status \in {"failed", "cancelled"} => StoredState(t)' = "over"
<1>1. Durable(t)'
    BY DEF Durable
<1> QED BY <1>1 DEF StoredState

\* A step that leaves the status of the turn and who is on it.
LEMMA TurnStays ==
    ASSUME NEW t \in Requests,
           DOMAIN row'[t] = DOMAIN row[t],
           Durable(t) => row'[t].status = row[t].status,
           \A s \in Requests :
               turn'[s] = t /\ pc'[s] \in Executing \cup Deciding
                   <=> turn[s] = t /\ pc[s] \in Executing \cup Deciding
    PROVE  StoredState(t)' = StoredState(t) /\ HeldBy(t)' = HeldBy(t)
<1>1. HeldBy(t)' = HeldBy(t)
    BY DEF HeldBy
<1>2. Durable(t)' <=> Durable(t)
    BY DEF Durable
<1>3. StoredState(t)' = StoredState(t)
    BY <1>2 DEF StoredState
<1> QED BY <1>1, <1>3

\* Nobody else holds an unraced turn.
LEMMA HolderAlone ==
    ASSUME SegmentInv, NEW t \in Requests, t \notin raced,
           NEW r \in Requests, turn[r] = t, pc[r] \in Executing \cup Deciding
    PROVE  HeldBy(t) = {r}
    BY DEF SegmentInv, HeldBy

\* A holder that moves on keeps the turn, one that leaves frees it.
LEMMA HolderMoves ==
    ASSUME NEW t, NEW r \in Requests, HeldBy(t) \in {{}, {r}}, turn'[r] = t,
           \A s \in Requests \ {r} : pc'[s] = pc[s] /\ turn'[s] = turn[s]
    PROVE  /\ pc'[r] \in Executing \cup Deciding => HeldBy(t)' = {r}
           /\ pc'[r] \notin Executing \cup Deciding => HeldBy(t)' = {}
    BY DEF HeldBy

\* What a step does to an unraced turn that stays unraced.
TurnStep(t) ==
    \/ \E h \in Requests : \/ Turn(t)!Open(h) \/ Turn(t)!Claim(h) \/ Turn(t)!Resume(h)
                           \/ Turn(t)!Settle(h) \/ Turn(t)!Lose(h)
    \/ StoredState(t)' = StoredState(t) /\ HeldBy(t)' = HeldBy(t)

\* The request whose session closes without a commit leaves the turn as it is.
LEMMA LeavingTurn ==
    ASSUME Base, SegmentInv, NEW t \in Requests, t \notin raced,
           NEW r \in Requests, Leaving(r)
    PROVE  TurnStep(t)
<1>1. UNCHANGED <<row, turn>> /\ pc' = [pc EXCEPT ![r] = "ended"]
    BY LeavingFrame DEF close, Goto
<1>2. pc'[r] = "ended" /\ \A s \in Requests \ {r} : pc'[s] = pc[s]
    BY <1>1 DEF Base, TypeOK
<1>3. "ended" \notin Executing \cup Deciding
    BY DEF Executing, Deciding
<1>4. CASE turn[r] = t /\ pc[r] \in Executing \cup Deciding
    <2>1. HeldBy(t) = {r}
        BY <1>4, HolderAlone
    <2>2. HeldBy(t)' = {}
        BY <1>1, <1>2, <1>3, <1>4, <2>1, HolderMoves
    <2>3. StoredState(t)' = StoredState(t)
        BY <1>1 DEF StoredState, Durable
    <2>4. Turn(t)!Lose(r)
        BY <2>1, <2>2, <2>3 DEF Turn!Lose
    <2> QED BY <2>4 DEF TurnStep
<1>5. CASE ~(turn[r] = t /\ pc[r] \in Executing \cup Deciding)
    BY <1>1, <1>2, <1>3, <1>5, TurnStays DEF TurnStep
<1> QED BY <1>4, <1>5

\* The request that creates a turn opens it.
LEMMA CreateTurn ==
    ASSUME Base, SegmentInv, NEW t \in Requests, t \notin raced,
           NEW r \in Requests, create_user_message(r)
    PROVE  TurnStep(t)
<1>1. /\ turn[r] = r /\ ~Durable(r) /\ pc[r] = "turn_started"
      /\ \A u \in Requests \ {r} : row'[u] = row[u]
      /\ DOMAIN row'[r] # {} /\ row'[r]["status"] = flushed[r]["status"]
      /\ UNCHANGED turn
    BY CreateRow DEF session, Columns
<1>2. row'[r].status = "started"
    BY <1>1 DEF Base, PcInv
<1>3. pc'[r] = "user_saved" /\ \A s \in Requests \ {r} : pc'[s] = pc[s]
    BY CreateRow DEF Base, TypeOK
<1>4. pc'[r] \in Executing /\ pc[r] \notin Executing \cup Deciding
    BY <1>1, <1>3 DEF Executing, Deciding
<1>5. CASE t = r
    <2>1. HeldBy(t) = {}
        BY <1>1, <1>5 DEF HeldBy, Base, PcInv
    <2>2. HeldBy(t)' = {r}
        BY <1>1, <1>3, <1>4, <1>5, <2>1, HolderMoves
    <2>3. StoredState(t) = "none" /\ StoredState(t)' = "working"
        BY <1>1, <1>2, <1>5, StoredIs, StoredBecomes
    <2>4. Turn(t)!Open(r)
        BY <2>1, <2>2, <2>3 DEF Turn!Open
    <2> QED BY <2>4 DEF TurnStep
<1>6. CASE t # r
    BY <1>1, <1>3, <1>6, TurnStays DEF TurnStep
<1> QED BY <1>5, <1>6

\* A resume claims the pause that it reads.
LEMMA ResumeTurn ==
    ASSUME Base, SegmentInv, NEW t \in Requests, t \notin raced',
           NEW r \in Requests, NEW u \in Requests, NEW action, resume_run(r, u, action)
    PROVE  TurnStep(t)
<1>1. /\ pc[r] = "idle" /\ Durable(u) /\ row[u].status = "paused"
      /\ turn' = [turn EXCEPT ![r] = u]
      /\ raced' = IF Undecided(u) = {} THEN raced ELSE raced \cup {u}
      /\ pc' = [pc EXCEPT ![r] = IF action = "cancel" THEN "cancelling" ELSE "resuming"]
      /\ UNCHANGED row
    BY DEF resume_run, Goto
<1>2. /\ pc'[r] \in Deciding /\ turn'[r] = u
      /\ \A s \in Requests \ {r} : pc'[s] = pc[s] /\ turn'[s] = turn[s]
    BY <1>1 DEF Base, TypeOK, Deciding
<1>3. CASE t = u
    <2>1. Undecided(t) = {} /\ t \notin raced
        BY <1>1, <1>3
    <2>2. HeldBy(t) = {}
        BY <1>1, <1>3, <2>1 DEF HeldBy, SegmentInv, Undecided
    <2>3. HeldBy(t)' = {r}
        BY <1>2, <1>3, <2>2, HolderMoves
    <2>4. StoredState(t) = "paused" /\ StoredState(t)' = StoredState(t)
        BY <1>1, <1>3, StoredIs DEF StoredState, Durable
    <2>5. Turn(t)!Claim(r)
        BY <2>2, <2>3, <2>4 DEF Turn!Claim
    <2> QED BY <2>5 DEF TurnStep
<1>4. CASE t # u
    <2>1. pc[r] \notin Executing \cup Deciding
        BY <1>1 DEF Executing, Deciding
    <2> QED BY <1>1, <1>2, <1>4, <2>1, TurnStays DEF TurnStep
<1> QED BY <1>3, <1>4

\* A commit by the holder of the turn takes it up, settles it, or leaves it.
LEMMA CommitTurn ==
    ASSUME Base, SegmentInv, NEW t \in Requests, t \notin raced,
           NEW r \in Requests, Commits(r)
    PROVE  TurnStep(t)
<1>1. PICK to \in {"running", "saved", "paused", "ended", "user_saved"},
           st \in {"paused", "failed", "resumed", "cancelled", row[turn[r]].status} :
          /\ CommitsTo(r, to, st)
          /\ \/ pc[r] \in Executing /\ to \in Executing /\ st = row[turn[r]].status
             \/ pc[r] \in Executing /\ to \notin Executing /\ st \in {"paused", "failed"}
             \/ pc[r] \in Deciding /\ to \in Executing /\ st = "resumed"
             \/ pc[r] \in Deciding /\ to \notin Executing /\ st = "cancelled"
    BY DEF Commits, Executing, Deciding
<1>2. /\ turn[r] \in Requests /\ Durable(turn[r])
      /\ \A u \in Requests : DOMAIN row'[u] = DOMAIN row[u]
      /\ \A u \in Requests \ {turn[r]} : row'[u] = row[u]
      /\ row'[turn[r]].status = st
      /\ pc' = [pc EXCEPT ![r] = to]
      /\ UNCHANGED turn
    BY <1>1 DEF CommitsTo, Rewritten
<1>3. pc'[r] = to /\ \A s \in Requests \ {r} : pc'[s] = pc[s]
    BY <1>2 DEF Base, TypeOK
<1>4. to \notin Deciding
    BY DEF Deciding
<1>5. CASE turn[r] # t
    BY <1>2, <1>3, <1>5, TurnStays DEF TurnStep
<1>6. CASE turn[r] = t
    <2>1. HeldBy(t) = {r}
        BY <1>1, <1>6, HolderAlone
    <2>2. /\ to \in Executing => HeldBy(t)' = {r}
          /\ to \notin Executing => HeldBy(t)' = {}
        BY <1>2, <1>3, <1>4, <1>6, <2>1, HolderMoves
    <2>3. DOMAIN row'[t] # {}
        BY <1>2, <1>6 DEF Durable
    <2>4. CASE pc[r] \in Executing /\ to \in Executing /\ st = row[turn[r]].status
        BY <1>2, <1>3, <1>6, <2>4, TurnStays DEF TurnStep
    <2>5. CASE pc[r] \in Executing /\ to \notin Executing /\ st \in {"paused", "failed"}
        <3>1. StoredState(t) = "working"
            BY <1>2, <1>6, <2>5, StoredIs DEF SegmentInv
        <3>2. StoredState(t)' \in {"paused", "over"}
            BY <1>2, <1>6, <2>3, <2>5, StoredBecomes
        <3>3. Turn(t)!Settle(r)
            BY <2>1, <2>2, <2>5, <3>1, <3>2 DEF Turn!Settle
        <3> QED BY <3>3 DEF TurnStep
    <2>6. CASE pc[r] \in Deciding
        <3>1. StoredState(t) = "paused"
            BY <1>2, <1>6, <2>6, StoredIs DEF SegmentInv
        <3>2. CASE to \in Executing /\ st = "resumed"
            <4>1. StoredState(t)' = "working"
                BY <1>2, <1>6, <2>3, <3>2, StoredBecomes
            <4>2. Turn(t)!Resume(r)
                BY <2>1, <2>2, <3>1, <3>2, <4>1 DEF Turn!Resume
            <4> QED BY <4>2 DEF TurnStep
        <3>3. CASE to \notin Executing /\ st = "cancelled"
            <4>1. StoredState(t)' = "over"
                BY <1>2, <1>6, <2>3, <3>3, StoredBecomes
            <4>2. Turn(t)!Settle(r)
                BY <2>1, <2>2, <3>1, <3>3, <4>1 DEF Turn!Settle
            <4> QED BY <4>2 DEF TurnStep
        <3>4. pc[r] \notin Executing
            BY <2>6 DEF Executing, Deciding
        <3> QED BY <1>1, <3>2, <3>3, <3>4
    <2> QED BY <1>1, <2>4, <2>5, <2>6
<1> QED BY <1>5, <1>6

\* Every step is one of the promise for every turn that is not raced.
LEMMA TurnNext ==
    ASSUME Base, SegmentInv, Next, NEW t \in Requests, t \notin raced'
    PROVE  t \notin raced /\ TurnStep(t)
<1> USE DEF Executing, Deciding
<1>1. ASSUME NEW r \in Requests, Kind(r) PROVE t \notin raced /\ TurnStep(t)
    <2>1. CASE Reading(r)
        BY <2>1, ReadingFrame, TurnStays DEF Base, TypeOK, session, TurnStep
    <2>2. CASE Leaving(r)
        BY <2>2, LeavingFrame, LeavingTurn
    <2>3. CASE start_turn(r) \/ complete_turn(r)
        BY <2>3, TurnStays
        DEF start_turn, complete_turn, Base, TypeOK, session, Goto, TurnStep
    <2>4. ASSUME NEW k \in Keys \cup {None}, NEW b \in Payloads, send_message_stream(r, k, b)
          PROVE  t \notin raced /\ TurnStep(t)
        <3>1. /\ UNCHANGED row /\ raced \subseteq raced'
              /\ pc[r] = "idle"
              /\ turn' = [turn EXCEPT ![r] = r]
              /\ pc' = [pc EXCEPT ![r] = IF k = None THEN "accepted" ELSE "redis"]
            BY <2>4 DEF send_message_stream, Goto
        <3> QED BY <3>1, TurnStays DEF Base, TypeOK, TurnStep
    <2>5. CASE create_user_message(r)
        <3>1. raced' = raced
            BY <2>5 DEF create_user_message
        <3> QED BY <2>5, <3>1, CreateTurn
    <2>6. CASE Commits(r)
        <3>1. raced' = raced
            BY <2>6 DEF Commits, CommitsTo
        <3> QED BY <2>6, <3>1, CommitTurn
    <2>7. ASSUME NEW u \in Requests, NEW action, resume_run(r, u, action)
          PROVE  t \notin raced /\ TurnStep(t)
        <3>1. t \notin raced
            BY <2>7 DEF resume_run
        <3> QED BY <2>7, <3>1, ResumeTurn
    <2> QED BY <1>1, <2>1, <2>2, <2>3, <2>4, <2>5, <2>6, <2>7 DEF Kind
<1>2. ASSUME NEW k \in Keys, CacheExpires(k) PROVE t \notin raced /\ TurnStep(t)
    BY <1>2, TurnStays DEF CacheExpires, session, TurnStep
<1> QED BY <1>1, <1>2, StepKinds

\* Every chat turn is a PausableRun, for any number of requests: one request
\* works on it at a time, it is taken up only from a pause, and what is failed
\* or cancelled stays so, unless two resumes read the same pause.
THEOREM ChatTurnsArePausable == ChatSafety => TurnsArePausable
<1>1. Init => \A t \in Requests : Turn(t)!Init
    <2> SUFFICES ASSUME Init, NEW t \in Requests PROVE Turn(t)!Init
        OBVIOUS
    <2>1. StoredState(t) = "none"
        BY NoColumnsEmpty, StoredIs DEF Init, Durable
    <2>2. HeldBy(t) = {}
        BY DEF Init, HeldBy, Executing, Deciding
    <2>3. (t \in raced) = FALSE
        BY DEF Init
    <2> QED BY <2>1, <2>2, <2>3 DEF Turn!Init
<1>2. Inv /\ [Next]_vars => [\A t \in Requests : Turn(t)!Step]_vars
    <2> SUFFICES ASSUME Inv, Next, NEW t \in Requests PROVE Turn(t)!Step
        OBVIOUS
    <2>1. CASE t \in raced'
        <3>1. (t \in raced)' = TRUE
            BY <2>1
        <3> QED BY <3>1 DEF Turn!Step, Turn!Next
    <2>2. CASE t \notin raced'
        <3>1. t \notin raced /\ TurnStep(t)
            BY <2>2, TurnNext DEF Inv
        <3>2. (t \in raced)' = (t \in raced)
            BY <2>2, <3>1
        <3> QED BY <3>1, <3>2 DEF TurnStep, Turn!Step, Turn!Next, Turn!Quiet
    <2> QED BY <2>1, <2>2
<1> QED BY <1>1, <1>2, InvAlways, PTL DEF ChatSafety, TurnsArePausable

-------------------------------------------------------------------------------
\* What is left at each place.
LEMMA LeftPlaces ==
    ASSUME NEW ph
    PROVE  /\ LeftAt("redis", ph) = 10 /\ LeftAt("accepted", ph) = 9
           /\ LeftAt("turn_started", ph) = 8 /\ LeftAt("resuming", ph) = 8
           /\ LeftAt("user_saved", ph) = 7 /\ LeftAt("context", ph) = 6
           /\ LeftAt("running", ph) = IF ph = "delta_streaming" THEN 4 ELSE 5
           /\ LeftAt("saved", ph) = 3 /\ LeftAt("completing", ph) = 2
           /\ LeftAt("completed", ph) = 1 /\ LeftAt("paused", ph) = 1
           /\ LeftAt("cancelling", ph) = 1 /\ LeftAt("ended", ph) = 0
           /\ LeftAt("idle", ph) = 0
<1>1. LeftAt("redis", ph) = 10 /\ LeftAt("accepted", ph) = 9 /\ LeftAt("turn_started", ph) = 8
    BY DEF LeftAt
<1>2. LeftAt("resuming", ph) = 8 /\ LeftAt("user_saved", ph) = 7 /\ LeftAt("context", ph) = 6
    BY DEF LeftAt
<1>3. LeftAt("running", ph) = IF ph = "delta_streaming" THEN 4 ELSE 5
    BY DEF LeftAt
<1>4. LeftAt("saved", ph) = 3 /\ LeftAt("completing", ph) = 2 /\ LeftAt("completed", ph) = 1
    BY DEF LeftAt
<1>5. LeftAt("paused", ph) = 1 /\ LeftAt("cancelling", ph) = 1 /\ LeftAt("ended", ph) = 0
    BY DEF LeftAt
<1>6. LeftAt("idle", ph) = 0
    BY DEF LeftAt
<1> QED BY <1>1, <1>2, <1>3, <1>4, <1>5, <1>6

\* It is a small number at each of them.
LEMMA LeftBounded ==
    ASSUME NEW place \in Active \cup {"idle", "ended"}, NEW ph
    PROVE  /\ LeftAt(place, ph) \in 0 .. 10
           /\ place \in Active => LeftAt(place, ph) > 0
    BY LeftPlaces DEF Active, Window, Executing, Deciding

\* Where a step that the server takes leads its request.
LEMMA ServeMoves ==
    ASSUME TypeOK, NEW r \in Requests, Serve(r)
    PROVE  \/ pc[r] \in Active /\ pc'[r] = "ended"
           \/ pc[r] = "redis" /\ pc'[r] = "accepted"
           \/ pc[r] = "accepted" /\ pc'[r] = "turn_started"
           \/ pc[r] \in {"turn_started", "resuming"} /\ pc'[r] = "user_saved"
           \/ pc[r] = "user_saved" /\ pc'[r] = "context"
           \/ pc[r] = "context" /\ pc'[r] = "running"
           \/ /\ pc[r] = "running" /\ pc'[r] = "running"
              /\ phase[r] # "delta_streaming" /\ phase'[r] = "delta_streaming"
           \/ pc[r] = "running" /\ pc'[r] \in {"saved", "paused"}
           \/ pc[r] = "saved" /\ pc'[r] = "completing"
           \/ pc[r] = "completing" /\ pc'[r] = "completed"
<1>1. DOMAIN pc = Requests /\ DOMAIN phase = Requests
    BY DEF TypeOK
<1> USE DEF Goto, close
<1>2. CASE answer_from_cache(r) \/ end_of_stream(r) \/ stop(r) \/ fail_turn(r) \/ cancel_turn(r)
    BY <1>1, <1>2 DEF answer_from_cache, end_of_stream, stop, fail_turn, cancel_turn, Active,
                      Window, Executing, Deciding
<1>3. CASE check_idempotency(r) \/ start_turn(r) \/ create_user_message(r)
    BY <1>1, <1>3 DEF check_idempotency, start_turn, create_user_message
<1>4. CASE load_chat_context(r) \/ start_execution(r)
    BY <1>1, <1>4 DEF load_chat_context, start_execution
<1>5. CASE delta(r)
    BY <1>1, <1>5 DEF delta, transition
<1>6. CASE create_assistant_message(r) \/ pause_turn(r)
    BY <1>1, <1>6 DEF create_assistant_message, pause_turn
<1>7. CASE complete_turn(r) \/ final(r) \/ resume_turn(r)
    BY <1>1, <1>7 DEF complete_turn, final, resume_turn
<1> QED BY <1>2, <1>3, <1>4, <1>5, <1>6, <1>7 DEF Serve

\* A step of one request moves no other.
LEMMA OthersStay ==
    ASSUME TypeOK, NEW r \in Requests, NEW s \in Requests, r # s,
           Arrive(s) \/ Serve(s) \/ Abandon(s)
    PROVE  pc'[r] = pc[r] /\ phase'[r] = phase[r]
<1>1. pc \in [Requests -> Active \cup {"idle", "ended"}] /\ phase \in [Requests -> Phases]
    BY DEF TypeOK
<1> USE DEF Goto, close, transition
<1>2. CASE Arrive(s)
    BY <1>1, <1>2 DEF Arrive, send_message_stream, send_refused, resume_run
<1>3. CASE Abandon(s)
    BY <1>1, <1>3 DEF Abandon
<1>4. CASE answer_from_cache(s) \/ end_of_stream(s) \/ stop(s) \/ fail_turn(s) \/ cancel_turn(s)
    BY <1>1, <1>4 DEF answer_from_cache, end_of_stream, stop, fail_turn, cancel_turn
<1>5. CASE check_idempotency(s) \/ start_turn(s) \/ create_user_message(s)
    BY <1>1, <1>5 DEF check_idempotency, start_turn, create_user_message
<1>6. CASE load_chat_context(s) \/ start_execution(s) \/ delta(s)
    BY <1>1, <1>6 DEF load_chat_context, start_execution, delta
<1>7. CASE create_assistant_message(s) \/ pause_turn(s)
    BY <1>1, <1>7 DEF create_assistant_message, pause_turn
<1>8. CASE complete_turn(s) \/ final(s) \/ resume_turn(s)
    BY <1>1, <1>8 DEF complete_turn, final, resume_turn
<1> QED BY <1>2, <1>3, <1>4, <1>5, <1>6, <1>7, <1>8 DEF Serve

\* The server takes at most ten steps for a request, whatever other requests
\* do: each of them leaves it fewer, and nothing gives it new ones.
THEOREM ChatRequestsAdvance == ChatSafety => RequestsAdvance
<1> DEFINE Advance ==
        \A r \in Requests :
            /\ Serve(r) => StepsLeft(r)' < StepsLeft(r)
            /\ pc[r] \in Active => StepsLeft(r)' <= StepsLeft(r)
<1>1. ASSUME Inv, Next PROVE Advance
    <2> SUFFICES ASSUME NEW r \in Requests
                 PROVE  /\ Serve(r) => StepsLeft(r)' < StepsLeft(r)
                        /\ pc[r] \in Active => StepsLeft(r)' <= StepsLeft(r)
        OBVIOUS
    <2>1. TypeOK
        BY <1>1 DEF Inv, Base
    <2>2. StepsLeft(r) \in 0 .. 10 /\ StepsLeft(r)' \in 0 .. 10
        <3>1. /\ pc[r] \in Active \cup {"idle", "ended"}
              /\ pc'[r] \in Active \cup {"idle", "ended"}
            BY <1>1, <2>1, InvInductive DEF Inv, Base, TypeOK
        <3> QED BY <3>1, LeftBounded DEF StepsLeft
    <2>3. ASSUME pc[r] \in Active, pc'[r] = "ended" PROVE StepsLeft(r)' < StepsLeft(r)
        <3>1. StepsLeft(r)' = 0
            BY <2>3, LeftPlaces DEF StepsLeft
        <3>2. StepsLeft(r) > 0
            BY <2>3, LeftBounded DEF StepsLeft
        <3> QED BY <2>2, <3>1, <3>2
    <2>4. ASSUME Serve(r) PROVE StepsLeft(r)' < StepsLeft(r)
        BY <2>1, <2>3, <2>4, ServeMoves, LeftPlaces DEF StepsLeft
    <2>5. ASSUME pc'[r] = pc[r], phase'[r] = phase[r] PROVE StepsLeft(r)' = StepsLeft(r)
        BY <2>5 DEF StepsLeft
    <2>6. ASSUME pc[r] \in Active PROVE StepsLeft(r)' <= StepsLeft(r)
        <3>1. ASSUME NEW s \in Requests, Arrive(s) \/ Serve(s) \/ Abandon(s), s # r
              PROVE  StepsLeft(r)' = StepsLeft(r)
            BY <2>1, <2>5, <3>1, OthersStay
        <3>2. CASE Serve(r)
            BY <2>2, <2>4, <3>2
        <3>3. ~Arrive(r)
            BY <2>6 DEF Arrive, send_message_stream, send_refused, resume_run, Active, Window,
                        Executing, Deciding
        <3>4. CASE Abandon(r)
            <4>1. pc'[r] = "ended"
                BY <2>1, <3>4 DEF Abandon, close, Goto, TypeOK
            <4> QED BY <2>2, <2>3, <2>6, <4>1
        <3>5. ASSUME NEW k \in Keys, CacheExpires(k) PROVE StepsLeft(r)' = StepsLeft(r)
            BY <2>5, <3>5 DEF CacheExpires
        <3> QED BY <1>1, <2>2, <3>1, <3>2, <3>3, <3>4, <3>5 DEF Next
    <2> QED BY <2>4, <2>6
<1>2. Inv /\ [Next]_vars => [Advance]_vars
    BY <1>1
<1> QED BY <1>2, InvAlways, PTL DEF ChatSafety, RequestsAdvance
===============================================================================
