------------------------------- MODULE ToolLoop -------------------------------
(***************************************************************************)
(* The loop in which an agent executes one task: it asks the model, makes  *)
(* the operation calls of the answer and asks again, within its budgets    *)
(* (AgentToolRuntime); the checks before an operation runs: the gate that  *)
(* collection.info opens, the confirmation token, the reuse of an earlier  *)
(* result (OperationExecutionFacade); and the tokens' single use           *)
(* (ConfirmationService).                                                  *)
(*                                                                         *)
(* A segment is what one chat request executes: several tasks, one after   *)
(* the other, that share a ledger of results and the tokens of the         *)
(* request.  Every answer of the model and every result of an operation    *)
(* may happen.  One collection; arguments are left out.                    *)
(***************************************************************************)
EXTENDS Integers, Sequences, FiniteSets

CONSTANTS
    Operations,     \* the published operations of the agent
    Info,           \* collection.info, one of them
    Gated,          \* operations of the collection
    Confirmed,      \* operations with requires_confirmation
    Unknown,        \* a name that is not published
    max_llm_calls, max_tool_calls_total, max_retries,   \* the policy
    max_steps_without_success,
    MAX_FALLBACK_NONCE_STORE_SIZE,
    Processes,      \* API processes, each with its fallback store
    MaxCalls,       \* bound: operation calls in one answer of the model
    MaxTokens,      \* bound: tokens that the user's confirmations issue
    MaxExecutions   \* bound: tasks executed

Tokens == 1 .. MaxTokens

ASSUME OperationsAssumption ==
    /\ Info \in Operations /\ Unknown \notin Operations
    /\ Gated \subseteq Operations \ {Info} /\ Confirmed \subseteq Operations
ASSUME PolicyAssumption ==
    /\ max_llm_calls \in Nat \ {0} /\ max_tool_calls_total \in Nat
    /\ max_retries \in Nat /\ max_steps_without_success \in Nat \ {0}
    /\ MAX_FALLBACK_NONCE_STORE_SIZE \in Nat \ {0}
ASSUME BoundsAssumption == MaxTokens \in Nat /\ MaxCalls \in Nat

VARIABLES
    pc,         \* where the loop is
    fail_fast,  \* the platform's fail_fast_invalid_operation_calls
    native,     \* native tool calling is used
    step,       \* model calls made in this execution
    retry_count, steps_without, tool_calls_total,   \* AgentLoopState
    outputs,    \* tool_outputs is not empty; failed results count
    active,     \* active_collection_operation_slugs
    opened,     \* the collection is in opened_collections
    calls,      \* calls of the last answer that are still to be made
    succeeded,  \* a call of this answer succeeded
    fatal,      \* a call of this answer failed for good
    event,      \* the last event: FINAL, ERROR or CONFIRMATION_REQUIRED
    finished,   \* the status run_session.finish was called with
    asked,      \* the operation that a confirmation was required for
    ledger,     \* operations with a successful result in the segment's ledger
    listed,     \* operations that its result of collection.info lists
    foreign,    \* its result of collection.info names another collection
    process,    \* the process that serves the segment
    tokens,     \* confirmation_tokens of the segment
    issued,     \* the operation that each token was issued for
    expired,    \* tokens that have expired
    nonces,     \* Redis: tokens that were used
    fallback,   \* per process: tokens used while Redis failed
    degraded,   \* Redis failed at some verification (history)
    shown,      \* operations that collection.info listed in the segment (history)
    ran,        \* operations run by the executor in this execution (history)
    confirmed_runs, \* runs of each operation with requires_confirmation (history)
    executions  \* tasks executed so far

control == <<pc, event, finished, native, step, retry_count, steps_without>>
answer == <<calls, succeeded, fatal>>
results == <<tool_calls_total, outputs, active, opened>>
kept == <<ledger, listed, foreign, shown>>
segment == <<fail_fast, asked, kept, process, tokens, executions>>
service == <<issued, expired, nonces, fallback, degraded>>
history == <<ran, confirmed_runs>>
vars == <<control, answer, results, segment, service, history>>

None == "none"

Init ==
    /\ pc = "idle"
    /\ fail_fast \in BOOLEAN
    /\ native = FALSE
    /\ step = 0 /\ retry_count = 0 /\ steps_without = 0 /\ tool_calls_total = 0
    /\ outputs = FALSE
    /\ active = {} /\ opened = FALSE
    /\ calls = <<>> /\ succeeded = FALSE /\ fatal = FALSE
    /\ event = None /\ finished = None /\ asked = Unknown
    /\ ledger = {} /\ listed = {} /\ foreign = FALSE /\ shown = {}
    /\ process \in Processes
    /\ tokens = {}
    /\ issued = [t \in Tokens |-> Unknown]
    /\ expired = {} /\ nonces = {}
    /\ fallback = [p \in Processes |-> {}]
    /\ degraded = FALSE
    /\ ran = {} /\ confirmed_runs = [o \in Confirmed |-> 0]
    /\ executions = 0

-------------------------------------------------------------------------------
\* Executions.

Issued == {t \in Tokens : issued[t] # Unknown}

\* Mutant: the activated operations are kept from one execution to the next.
begin_keeping_active ==
    /\ pc' = "deciding"
    /\ executions < MaxExecutions
    /\ executions' = executions + 1
    /\ native' \in BOOLEAN
    /\ step' = 0 /\ retry_count' = 0 /\ steps_without' = 0 /\ tool_calls_total' = 0
    /\ outputs' = FALSE
    /\ opened' = FALSE
    /\ calls' = <<>> /\ succeeded' = FALSE /\ fatal' = FALSE
    /\ event' = None /\ finished' = None /\ asked' = Unknown
    /\ ran' = {}
    /\ UNCHANGED active

\* AgentLoopState() and run_session.start.
begin ==
    /\ pc' = "deciding"
    /\ executions < MaxExecutions
    /\ executions' = executions + 1
    /\ native' \in BOOLEAN
    /\ step' = 0 /\ retry_count' = 0 /\ steps_without' = 0 /\ tool_calls_total' = 0
    /\ outputs' = FALSE
    /\ active' = {} /\ opened' = FALSE
    /\ calls' = <<>> /\ succeeded' = FALSE /\ fatal' = FALSE
    /\ event' = None /\ finished' = None /\ asked' = Unknown
    /\ ran' = {}

\* The next task of the segment, whether the last one succeeded or failed.
execute_next ==
    /\ pc = "idle"
    /\ event \in {"final", "error"}
    /\ begin
    /\ UNCHANGED <<fail_fast, kept, process, tokens, service, confirmed_runs>>

\* A new request, with tokens of its client's choice, which may be used ones.
execute_new ==
    /\ pc = "idle"
    /\ begin
    /\ ledger' = {} /\ listed' = {} /\ foreign' = FALSE /\ shown' = {}
    /\ process' \in Processes
    /\ tokens' \in SUBSET Issued
    /\ UNCHANGED <<fail_fast, service, confirmed_runs>>

\* The user confirms: resume_run issues a token for the operation asked for.
\* Tokens are numbered as they are issued, and live equally long.
issue(t) ==
    /\ pc = "idle"
    /\ event = "confirmation"
    /\ Issued = 1 .. t - 1
    /\ begin
    /\ issued' = [issued EXCEPT ![t] = asked]
    /\ tokens' = {t}
    /\ ledger' = {} /\ listed' = {} /\ foreign' = FALSE /\ shown' = {}
    /\ process' \in Processes
    /\ UNCHANGED <<fail_fast, expired, nonces, fallback, degraded, confirmed_runs>>

\* What the loop keeps of the last answer is gone.
Clear == calls' = <<>> /\ succeeded' = FALSE /\ fatal' = FALSE

\* The end of the loop, with the event that is yielded last.
End(last, status) ==
    /\ pc' = "idle"
    /\ event' = last /\ finished' = status
    /\ native' = FALSE
    /\ step' = 0 /\ retry_count' = 0 /\ steps_without' = 0
    /\ Clear

fail == End("error", "failed")

\* continue, and what follows the loop when it was the last step.
Continue(retries, without) ==
    /\ step' = step + 1
    /\ pc' = IF step + 1 < max_llm_calls THEN "deciding" ELSE "exhausted"
    /\ retry_count' = retries /\ steps_without' = without
    /\ Clear
    /\ UNCHANGED <<event, finished>>

-------------------------------------------------------------------------------
\* One step of the loop: the model answers.

\* Wall time, a request that is too large, an error that cannot be retried,
\* or an exception of the loop.
llm_fails ==
    /\ pc # "idle"
    /\ fail
    /\ UNCHANGED <<results, segment, service, history>>

tool_calling_unsupported ==
    /\ pc = "deciding"
    /\ native /\ native' = FALSE
    /\ Continue(retry_count, steps_without)
    /\ UNCHANGED <<results, segment, service, history>>

transport_error ==
    /\ pc = "deciding"
    /\ IF retry_count < max_retries
       THEN Continue(retry_count + 1, steps_without) /\ UNCHANGED native
       ELSE fail
    /\ UNCHANGED <<results, segment, service, history>>

\* An answer without calls before any operation was called.
no_tool_call_before_answer ==
    /\ pc = "deciding"
    /\ ~outputs
    /\ IF steps_without + 1 >= max_steps_without_success \/ step + 1 >= max_llm_calls
       THEN fail
       ELSE Continue(retry_count + 1, steps_without + 1) /\ UNCHANGED native
    /\ UNCHANGED <<results, segment, service, history>>

\* An answer without calls is the final one; without text it is synthesized.
final_answer ==
    /\ pc = "deciding"
    /\ outputs
    /\ End("final", "completed")
    /\ UNCHANGED <<results, segment, service, history>>

\* Names that are not published, which the platform refuses before any call.
invalid_operation_slug ==
    /\ pc = "deciding"
    /\ fail_fast
    /\ Continue(retry_count + 1, steps_without)
    /\ UNCHANGED <<native, results, segment, service, history>>

tool_calls ==
    /\ pc = "deciding"
    /\ pc' = "calling"
    /\ \E n \in 1 .. MaxCalls :
           calls' \in [1 .. n -> IF fail_fast THEN Operations ELSE Operations \cup {Unknown}]
    /\ UNCHANGED <<event, finished, native, step, retry_count, steps_without, succeeded, fatal,
                   results, segment, service, history>>

\* Mutant: an answer is synthesized from nothing, too.
synthesize_answer_always ==
    /\ pc = "exhausted"
    /\ End("final", "completed")
    /\ UNCHANGED <<results, segment, service, history>>

\* The last step is over: the answer is synthesized from what there is.
synthesize_answer ==
    /\ pc = "exhausted"
    /\ IF outputs THEN End("final", "completed") ELSE fail
    /\ UNCHANGED <<results, segment, service, history>>

-------------------------------------------------------------------------------
\* Confirmation tokens.

\* The store as it is tested: expired tokens are dropped, and at the limit
\* the one that expires first.
Kept(p) ==
    LET live == fallback[p] \ expired
    IN  IF Cardinality(live) >= MAX_FALLBACK_NONCE_STORE_SIZE
        THEN live \ {CHOOSE t \in live : \A u \in live : t <= u}
        ELSE live

\* Mutant: verify is called without consume.
unused_by_signature(t, redis) == TRUE

\* The token may be used: Redis decides, and while it fails the process does.
unused(t, redis) == IF redis THEN t \notin nonces ELSE t \notin Kept(process)

\* verify up to the nonce: signature, expiry, user, chat and fingerprint.
valid(t, o) == issued[t] = o /\ t \notin expired

consume_nonce(t, redis) ==
    /\ unused(t, redis)
    /\ IF redis
       THEN nonces' = nonces \cup {t} /\ UNCHANGED <<fallback, degraded>>
       ELSE /\ fallback' = [fallback EXCEPT ![process] = Kept(process) \cup {t}]
            /\ degraded' = TRUE
            /\ UNCHANGED nonces

\* No token of the request is accepted; a rejected one leaves no trace, but
\* what the store dropped to test it.
Rejected(o) ==
    /\ \A t \in tokens : valid(t, o) => \E redis \in BOOLEAN : ~unused(t, redis)
    /\ \/ UNCHANGED <<fallback, degraded>>
       \/ /\ \E t \in tokens : valid(t, o) /\ ~unused(t, FALSE)
          /\ fallback' = [fallback EXCEPT ![process] = Kept(process)]
          /\ degraded' = TRUE
    /\ UNCHANGED nonces

Accepted(o) == \E t \in tokens, redis \in BOOLEAN : valid(t, o) /\ consume_nonce(t, redis)

\* The token expires, and its nonce in Redis with it.
Expire(t) ==
    /\ t \in Issued \ expired
    /\ expired' = expired \cup {t}
    /\ nonces' = nonces \ {t}
    /\ UNCHANGED <<control, answer, results, segment, issued, fallback, degraded, history>>

-------------------------------------------------------------------------------
\* One step of the loop: the calls of the answer.

Called == Head(calls)

\* Mutant: one call too many.
BudgetLeft_inclusive == tool_calls_total <= max_tool_calls_total

\* The budget of the execution has room for the next call.
BudgetLeft == tool_calls_total < max_tool_calls_total

\* OperationExecutionFacade finds the operation and lets it pass the gate.
Admitted(o) == o \in Operations /\ (o \in Gated => o \in active)

\* No confirmation is needed, or it is there.  The path for an execution
\* without a chat, which asks a set that nothing fills, is left out.
ensure_confirmation(o) ==
    IF o \in Confirmed THEN Accepted(o) ELSE UNCHANGED <<nonces, fallback, degraded>>

\* The result is appended to the outputs, and to those of this answer.
Append_result(success, for_good) ==
    /\ outputs' = TRUE
    /\ calls' = Tail(calls)
    /\ succeeded' = (succeeded \/ success)
    /\ fatal' = (fatal \/ for_good)
    /\ UNCHANGED <<control, fail_fast, asked, process, tokens, executions>>

\* Mutant: every operation of the collection is activated.
activate_collection_tools_unfiltered(o, tools, mine) ==
    IF o = Info /\ mine THEN opened' = TRUE /\ active' = Gated
    ELSE UNCHANGED <<active, opened>>

\* collection.info opens its collection and activates the operations that it
\* returns in invoke_as, unless it answers about another collection.
activate_collection_tools(o, tools, mine) ==
    IF o = Info /\ mine THEN opened' = TRUE /\ active' = active \cup tools
    ELSE UNCHANGED <<active, opened>>

\* register_result: the ledger keeps the data of the event, which is a preview
\* that names no collection and lists nothing when the data are long.
register_result(o, tools, mine) ==
    /\ ledger' = ledger \cup {o}
    /\ IF o = Info
       THEN /\ shown' = (IF mine THEN shown \cup tools ELSE shown)
            /\ \/ listed' = (IF mine THEN tools ELSE {}) /\ foreign' = ~mine
               \/ listed' = {} /\ foreign' = FALSE
       ELSE UNCHANGED <<listed, foreign, shown>>

\* The limit and the confirmation end the loop at the event: the caller
\* returns, and the finish that follows the event is never reached.
max_tool_calls_exceeded ==
    /\ pc = "calling" /\ calls # <<>>
    /\ ~BudgetLeft
    /\ End("error", None)
    /\ UNCHANGED <<results, segment, service, history>>

confirmation_required ==
    /\ pc = "calling" /\ calls # <<>>
    /\ BudgetLeft
    /\ Admitted(Called)
    /\ Called \in Confirmed
    /\ Rejected(Called)
    /\ End("confirmation", None)
    /\ asked' = Called
    /\ UNCHANGED <<results, fail_fast, kept, process, tokens, executions, issued, expired,
                   history>>

\* Not found, not activated, or wrong arguments.
call_refused ==
    /\ pc = "calling" /\ calls # <<>>
    /\ BudgetLeft
    /\ Append_result(FALSE, Called = Unknown)
    /\ tool_calls_total' = tool_calls_total + 1
    /\ UNCHANGED <<active, opened, kept, service, history>>

\* A result of the segment is used again; it is registered anew as it is.
reuse_result ==
    /\ pc = "calling" /\ calls # <<>>
    /\ BudgetLeft
    /\ Admitted(Called)
    /\ ensure_confirmation(Called)
    /\ Called \in ledger
    /\ Append_result(TRUE, FALSE)
    /\ activate_collection_tools(Called, listed, ~foreign)
    /\ UNCHANGED <<tool_calls_total, kept, issued, expired, history>>

\* The executor runs the operation: no result to use again, or one that is
\* older than five minutes.  What collection.info lists is for its handler to
\* say; a failure leaves an earlier success in the ledger.
run_operation ==
    /\ pc = "calling" /\ calls # <<>>
    /\ BudgetLeft
    /\ Admitted(Called)
    /\ ensure_confirmation(Called)
    /\ tool_calls_total' = tool_calls_total + 1
    /\ ran' = ran \cup {Called}
    /\ confirmed_runs' = [o \in Confirmed |-> confirmed_runs[o] + (IF o = Called THEN 1 ELSE 0)]
    /\ \/ /\ Append_result(TRUE, FALSE)
          /\ \E tools \in SUBSET Gated, mine \in BOOLEAN :
                 /\ activate_collection_tools(Called, tools, mine)
                 /\ register_result(Called, tools, mine)
       \/ /\ \E for_good \in BOOLEAN : Append_result(FALSE, for_good)
          /\ UNCHANGED <<active, opened, kept>>
    /\ UNCHANGED <<issued, expired>>

\* Mutant: a step with a successful result does not count.
step_done_uncounted ==
    /\ pc = "calling" /\ calls = <<>>
    /\ IF succeeded THEN /\ pc' = "deciding" /\ Clear /\ steps_without' = 0
                         /\ UNCHANGED <<event, finished, native, step, retry_count>>
       ELSE fail
    /\ UNCHANGED <<results, segment, service, history>>

\* Every call of the answer was made.
step_done ==
    LET without == IF succeeded THEN 0 ELSE steps_without + 1
    IN  /\ pc = "calling" /\ calls = <<>>
        /\ IF (fail_fast /\ fatal /\ ~succeeded) \/ without >= max_steps_without_success
           THEN fail
           ELSE Continue(retry_count, without) /\ UNCHANGED native
        /\ UNCHANGED <<results, segment, service, history>>

\* The request is cancelled, or its process stops: nothing is yielded.
Cancel ==
    /\ pc # "idle"
    /\ End(None, None)
    /\ UNCHANGED <<results, segment, service, history>>

-------------------------------------------------------------------------------
Step ==
    \/ llm_fails \/ tool_calling_unsupported \/ transport_error
    \/ no_tool_call_before_answer \/ final_answer \/ invalid_operation_slug \/ tool_calls
    \/ synthesize_answer
    \/ max_tool_calls_exceeded \/ confirmation_required \/ call_refused \/ reuse_result
    \/ run_operation \/ step_done

Next ==
    \/ execute_next \/ execute_new \/ \E t \in Tokens : issue(t)
    \/ Step \/ Cancel
    \/ \E t \in Tokens : Expire(t)

LoopSafety == Init /\ [][Next]_vars

\* The model, the operations (wait_for) and the loop itself go on.
LoopSpec == LoopSafety /\ WF_vars(Step)

-------------------------------------------------------------------------------
\* Every variable has its type; the model calls, the calls of operations and
\* the steps without a success stay within the policy.  The retries need not:
\* retry_count is compared with max_retries after an error of the transport
\* only, and an answer without calls or with names that are not published adds
\* to it unchecked, so that the steps of the loop are all that bounds it.
TypeOK ==
    /\ pc \in {"idle", "deciding", "calling", "exhausted"}
    /\ fail_fast \in BOOLEAN /\ native \in BOOLEAN
    /\ step \in 0 .. max_llm_calls
    /\ retry_count \in 0 .. step
    /\ steps_without \in 0 .. max_steps_without_success
    /\ tool_calls_total \in 0 .. max_tool_calls_total
    /\ outputs \in BOOLEAN
    /\ active \subseteq Gated /\ opened \in BOOLEAN
    /\ calls \in Seq(Operations \cup {Unknown})
    /\ succeeded \in BOOLEAN /\ fatal \in BOOLEAN
    /\ event \in {None, "final", "error", "confirmation"}
    /\ finished \in {None, "completed", "failed"}
    /\ asked \in Confirmed \cup {Unknown}
    /\ ledger \subseteq Operations /\ listed \subseteq Gated /\ foreign \in BOOLEAN
    /\ shown \subseteq Gated
    /\ process \in Processes
    /\ tokens \subseteq Issued
    /\ issued \in [Tokens -> Confirmed \cup {Unknown}]
    /\ expired \subseteq Issued /\ nonces \subseteq Issued \ expired
    /\ fallback \in [Processes -> SUBSET Issued]
    /\ degraded \in BOOLEAN
    /\ ran \subseteq Operations /\ confirmed_runs \in [Confirmed -> Nat]
    /\ executions \in Nat

\* An operation of a collection runs only in an execution in which
\* collection.info was answered before (validate_collection_interaction).
GateHolds == ran \cap Gated # {} => opened

\* No operation of a collection is active that collection.info has not returned
\* to a task of this segment; and once the collection is opened in an execution,
\* the operations that the segment's stored answer returns are active, whether
\* this task got that answer or an earlier one did (activate_collection_tools).
\* A stored preview returns none, and opens the collection all the same.
ActiveAsReturned ==
    /\ active \subseteq shown
    /\ opened => listed \subseteq active

\* An execution ends with a final answer only if an operation was called in
\* it, on whichever of its ways out (no_tool_call_before_answer).
FinalRestsOnCalls == event = "final" => outputs

IssuedFor(o) == {t \in Tokens : issued[t] = o}

\* An operation that needs a confirmation runs at most as often as the user has
\* confirmed that operation, over all requests and processes, unless Redis
\* failed while a token was verified (ConfirmationService).
RunsAreConfirmed ==
    ~degraded => \A o \in Confirmed : confirmed_runs[o] <= Cardinality(IssuedFor(o))

\* Every execution ends with its event or is cancelled, however the model and
\* the operations answer.
ExecutionEnds == pc # "idle" ~> pc = "idle"

\* How much of an execution is left at most: the answers of the model, and the
\* calls of the last one.
Work ==
    IF pc = "idle" THEN 0
    ELSE (max_llm_calls - step) * (MaxCalls + 3)
             + CASE pc = "deciding"  -> MaxCalls + 2
                 [] pc = "calling"   -> Len(calls) + 1
                 [] pc = "exhausted" -> 1

\* Every step of an execution uses up some of its bounded work, and nothing
\* that happens beside it gives it more: however the model and the operations
\* answer, the loop never goes round in a circle (AgentToolRuntime).
LoopAdvances == [][(Step => Work' < Work) /\ (pc # "idle" => Work' <= Work)]_vars
===============================================================================
