---------------------------- MODULE ToolLoopProofs ----------------------------
(***************************************************************************)
(* The loop keeps to its policy, the gate and the confirmations hold, for  *)
(* every set of operations, every policy and any number of tokens and      *)
(* processes.                                                              *)
(***************************************************************************)
EXTENDS ToolLoop, FiniteSetTheorems, TLAPS

\* A further step is begun only within the limit, and a confirmation is asked
\* for an operation that needs one.
LoopInv ==
    /\ pc \in {"deciding", "calling"} => step < max_llm_calls
    /\ event = "confirmation" => asked \in Confirmed

\* Only collection.info activates operations, and an operation of the
\* collection runs when it is active; what the ledger lists was returned.
GateInv ==
    /\ active # {} => opened
    /\ GateHolds
    /\ ActiveAsReturned
    /\ listed \subseteq shown
    /\ FinalRestsOnCalls

\* Tokens that can no longer be used.  While Redis answers, every run has
\* taken one that was issued for its operation; counting issued tokens alone
\* is not inductive.
Spent == nonces \cup expired

SpentFor(o) == {t \in Spent : issued[t] = o}

SpentInv ==
    ~degraded => \A o \in Confirmed : confirmed_runs[o] <= Cardinality(SpentFor(o))

Inv == TypeOK /\ LoopInv /\ GateInv /\ SpentInv

Steps ==
    \/ llm_fails \/ tool_calling_unsupported \/ transport_error
    \/ no_tool_call_before_answer \/ final_answer \/ invalid_operation_slug
    \/ synthesize_answer \/ max_tool_calls_exceeded \/ step_done \/ Cancel

\* The steps that end or continue the loop without an operation.
LEMMA StepsQuiet ==
    Steps => UNCHANGED <<results, segment, service, history>>
BY DEF Steps, llm_fails, tool_calling_unsupported, transport_error,
       no_tool_call_before_answer, final_answer, invalid_operation_slug, synthesize_answer,
       max_tool_calls_exceeded, step_done, Cancel

-------------------------------------------------------------------------------
\* The initial state satisfies the invariant.
LEMMA InitInv == Init => Inv
<1> SUFFICES ASSUME Init PROVE Inv
    OBVIOUS
<1> USE PolicyAssumption, BoundsAssumption, OperationsAssumption DEF Init, None
<1>1. Issued = {}
    BY DEF Issued
<1>2. /\ fail_fast \in BOOLEAN /\ native \in BOOLEAN /\ outputs \in BOOLEAN /\ opened \in BOOLEAN
      /\ foreign \in BOOLEAN /\ succeeded \in BOOLEAN /\ fatal \in BOOLEAN /\ degraded \in BOOLEAN
    BY Zenon
<1>3. /\ step \in 0 .. max_llm_calls /\ retry_count \in 0 .. step
      /\ steps_without \in 0 .. max_steps_without_success
      /\ tool_calls_total \in 0 .. max_tool_calls_total
      /\ confirmed_runs \in [Confirmed -> Nat] /\ executions \in Nat
    OBVIOUS
<1>4. calls \in Seq(Operations \cup {Unknown})
    OBVIOUS
<1>5. /\ ledger \subseteq Operations /\ listed \subseteq Gated /\ shown \subseteq Gated
      /\ issued \in [Tokens -> Confirmed \cup {Unknown}]
      /\ fallback \in [Processes -> SUBSET Issued]
    OBVIOUS
<1>6. TypeOK
    BY <1>1, <1>2, <1>3, <1>4, <1>5 DEF TypeOK
<1>7. LoopInv /\ GateInv
    BY DEF LoopInv, GateInv, GateHolds, ActiveAsReturned, FinalRestsOnCalls
<1>8. SpentInv
    <2>1. \A o \in Confirmed : SpentFor(o) = {}
        BY DEF Spent, SpentFor
    <2>2. \A o \in Confirmed : confirmed_runs[o] = 0
        OBVIOUS
    <2>3. Cardinality({}) = 0
        BY FS_EmptySet
    <2>4. \A o \in Confirmed : Cardinality(SpentFor(o)) = 0
        BY <2>1, <2>3
    <2> QED BY <2>2, <2>4 DEF SpentInv
<1> QED BY <1>6, <1>7, <1>8 DEF Inv

-------------------------------------------------------------------------------
\* Any set of tokens is finite.
LEMMA TokensFinite ==
    ASSUME NEW S \in SUBSET Tokens
    PROVE  IsFiniteSet(S) /\ Cardinality(S) \in Nat
<1>1. IsFiniteSet(Tokens)
    BY BoundsAssumption, FS_Interval DEF Tokens
<1> QED BY <1>1, FS_Subset, FS_CardinalityType

\* The tokens that cannot be used again are finite in number.
LEMMA SpentFinite ==
    ASSUME TypeOK, NEW o
    PROVE  /\ IsFiniteSet(SpentFor(o)) /\ Cardinality(SpentFor(o)) \in Nat
           /\ IsFiniteSet(IssuedFor(o)) /\ SpentFor(o) \subseteq IssuedFor(o)
<1>1. IssuedFor(o) \subseteq Tokens /\ SpentFor(o) \subseteq IssuedFor(o)
    BY DEF IssuedFor, Issued, Spent, SpentFor, TypeOK
<1> QED BY <1>1, TokensFinite

\* A step keeps the count of an operation if it runs it only as it spends a
\* token that was issued for it.
LEMMA SpentSteps ==
    ASSUME TypeOK, TypeOK', SpentInv, ~degraded' => ~degraded,
           \A o \in Confirmed : ~degraded' =>
               /\ SpentFor(o) \subseteq SpentFor(o)'
               /\ \/ confirmed_runs'[o] = confirmed_runs[o]
                  \/ /\ confirmed_runs'[o] = confirmed_runs[o] + 1
                     /\ SpentFor(o) # SpentFor(o)'
    PROVE  SpentInv'
<1> SUFFICES ASSUME ~degraded', NEW o \in Confirmed
             PROVE  confirmed_runs'[o] <= Cardinality(SpentFor(o)')
    BY DEF SpentInv
<1> DEFINE before == SpentFor(o)
           after == SpentFor(o)'
<1>1. /\ IsFiniteSet(before) /\ IsFiniteSet(after) /\ before \subseteq after
      /\ Cardinality(before) \in Nat /\ Cardinality(after) \in Nat
    <2>1. before \subseteq Tokens /\ after \subseteq Tokens /\ before \subseteq after
        BY DEF SpentFor, Spent, Issued, TypeOK
    <2> QED BY <2>1, TokensFinite
<1>2. confirmed_runs[o] \in Nat /\ confirmed_runs[o] <= Cardinality(before)
    BY DEF SpentInv, TypeOK
<1>3. \/ confirmed_runs'[o] = confirmed_runs[o]
      \/ confirmed_runs'[o] = confirmed_runs[o] + 1 /\ before # after
    OBVIOUS
<1> HIDE DEF before, after
<1>4. Cardinality(before) <= Cardinality(after) /\ (before # after => Cardinality(before) < Cardinality(after))
    BY <1>1, FS_Subset
<1> SUFFICES confirmed_runs'[o] <= Cardinality(after)
    BY DEF after
<1> QED BY <1>1, <1>2, <1>3, <1>4

\* Types of the loop's own state.
ControlTypes ==
    /\ pc \in {"idle", "deciding", "calling", "exhausted"}
    /\ native \in BOOLEAN
    /\ step \in 0 .. max_llm_calls
    /\ retry_count \in 0 .. step
    /\ steps_without \in 0 .. max_steps_without_success
    /\ calls \in Seq(Operations \cup {Unknown})
    /\ succeeded \in BOOLEAN /\ fatal \in BOOLEAN
    /\ event \in {None, "final", "error", "confirmation"}
    /\ finished \in {None, "completed", "failed"}

\* The end of an execution is well typed, whatever it is.
LEMMA EndTypes ==
    ASSUME NEW last \in {None, "final", "error", "confirmation"},
           NEW st \in {None, "completed", "failed"}, End(last, st)
    PROVE  ControlTypes' /\ event' = last /\ pc' = "idle"
<1> USE PolicyAssumption
<1>1. native' \in BOOLEAN /\ succeeded' \in BOOLEAN /\ fatal' \in BOOLEAN
    BY Zenon DEF End, Clear
<1>2. calls' \in Seq(Operations \cup {Unknown})
    BY DEF End, Clear
<1>3. event' = last /\ pc' = "idle"
    BY DEF End
<1> QED BY <1>1, <1>2, <1>3 DEF End, ControlTypes

\* A further step stays within the policy.
LEMMA ContinueTypes ==
    ASSUME TypeOK, LoopInv, pc \in {"deciding", "calling"},
           NEW retries \in 0 .. step + 1, NEW without \in 0 .. max_steps_without_success,
           native' \in BOOLEAN, Continue(retries, without)
    PROVE  /\ ControlTypes' /\ UNCHANGED event
           /\ pc' \in {"deciding", "calling"} => step' < max_llm_calls
<1> USE PolicyAssumption
<1>1. succeeded' \in BOOLEAN /\ fatal' \in BOOLEAN
    BY Zenon DEF Continue, Clear
<1>2. calls' \in Seq(Operations \cup {Unknown})
    BY DEF Continue, Clear
<1>3. /\ step' \in 0 .. max_llm_calls /\ retry_count' \in 0 .. step'
      /\ steps_without' \in 0 .. max_steps_without_success
      /\ pc' \in {"deciding", "exhausted"}
      /\ pc' = "deciding" => step' < max_llm_calls
    BY DEF Continue, TypeOK, LoopInv
<1>4. UNCHANGED <<event, finished>>
    BY DEF Continue
<1> QED BY <1>1, <1>2, <1>3, <1>4 DEF ControlTypes, TypeOK

\* The steps without an operation keep the invariant.
LEMMA StepsPreserve == Inv /\ Steps => Inv'
<1> SUFFICES ASSUME Inv, Steps PROVE Inv'
    OBVIOUS
<1> USE PolicyAssumption DEF Inv
<1>1. UNCHANGED <<results, segment, service, history>>
    BY StepsQuiet
<1>2. /\ ControlTypes' /\ (event' = "confirmation" => event = "confirmation")
      /\ event' = "final" => outputs \/ event = "final"
      /\ pc' \in {"deciding", "calling"} => step' < max_llm_calls
    <2> USE DEF fail
    <2>1. CASE llm_fails \/ Cancel \/ max_tool_calls_exceeded
        BY <2>1, EndTypes DEF llm_fails, Cancel, max_tool_calls_exceeded, None
    <2>2. CASE tool_calling_unsupported
        <3>1. native' \in BOOLEAN
            BY <2>2, Zenon DEF tool_calling_unsupported
        <3>2. retry_count \in 0 .. step + 1
            BY DEF TypeOK
        <3> QED BY <2>2, <3>1, <3>2, ContinueTypes DEF tool_calling_unsupported, TypeOK
    <2>3. CASE transport_error
        <3>1. retry_count + 1 \in 0 .. step + 1
            BY DEF TypeOK
        <3>2. CASE retry_count < max_retries
            BY <2>3, <3>1, <3>2, ContinueTypes DEF transport_error, TypeOK
        <3>3. CASE ~(retry_count < max_retries)
            BY <2>3, <3>3, EndTypes DEF transport_error, None
        <3> QED BY <3>2, <3>3
    <2>4. CASE no_tool_call_before_answer
        <3>1. retry_count + 1 \in 0 .. step + 1
            BY DEF TypeOK
        <3>2. CASE steps_without + 1 >= max_steps_without_success \/ step + 1 >= max_llm_calls
            BY <2>4, <3>2, EndTypes DEF no_tool_call_before_answer, None
        <3>3. CASE ~(steps_without + 1 >= max_steps_without_success \/ step + 1 >= max_llm_calls)
            <4>1. steps_without + 1 \in 0 .. max_steps_without_success
                BY <3>3 DEF TypeOK
            <4>2. Continue(retry_count + 1, steps_without + 1) /\ UNCHANGED native
                  /\ pc = "deciding"
                BY <2>4, <3>3 DEF no_tool_call_before_answer
            <4> QED BY <3>1, <4>1, <4>2, ContinueTypes DEF TypeOK
        <3> QED BY <3>2, <3>3
    <2>5. CASE final_answer
        BY <2>5, EndTypes DEF final_answer, None
    <2>6. CASE invalid_operation_slug
        <3>1. retry_count + 1 \in 0 .. step + 1
            BY DEF TypeOK
        <3> QED BY <2>6, <3>1, ContinueTypes DEF invalid_operation_slug, TypeOK
    <2>7. CASE synthesize_answer
        BY <2>7, EndTypes DEF synthesize_answer, None
    <2>8. CASE step_done
        <3> DEFINE without == IF succeeded THEN 0 ELSE steps_without + 1
        <3>1. CASE (fail_fast /\ fatal /\ ~succeeded) \/ without >= max_steps_without_success
            <4>1. fail
                BY <2>8, <3>1 DEF step_done
            <4> QED BY <4>1, EndTypes DEF None
        <3>2. CASE ~((fail_fast /\ fatal /\ ~succeeded) \/ without >= max_steps_without_success)
            <4>1. Continue(retry_count, without) /\ UNCHANGED native /\ pc = "calling"
                BY <2>8, <3>2 DEF step_done
            <4>2. without \in 0 .. max_steps_without_success /\ retry_count \in 0 .. step + 1
                BY <3>2 DEF TypeOK
            <4> HIDE DEF without
            <4> QED BY <4>1, <4>2, ContinueTypes DEF TypeOK
        <3> QED BY <3>1, <3>2
    <2> QED BY <2>1, <2>2, <2>3, <2>4, <2>5, <2>6, <2>7, <2>8 DEF Steps
<1>3. Issued' = Issued /\ Spent' = Spent
    BY <1>1 DEF Issued, Spent, service
<1>4. TypeOK'
    BY <1>1, <1>2, <1>3 DEF TypeOK, ControlTypes, results, segment, kept, service, history
<1>5. LoopInv' /\ GateInv'
    BY <1>1, <1>2 DEF LoopInv, GateInv, GateHolds, ActiveAsReturned, FinalRestsOnCalls, results,
                      segment, kept, service, history
<1>6. SpentInv'
    BY <1>1, <1>3 DEF SpentInv, SpentFor, service, history
<1> QED BY <1>4, <1>5, <1>6

-------------------------------------------------------------------------------
\* A new execution starts from nothing.
LEMMA BeginTypes ==
    ASSUME TypeOK, begin
    PROVE  /\ ControlTypes' /\ step' < max_llm_calls
           /\ tool_calls_total' \in 0 .. max_tool_calls_total
           /\ outputs' \in BOOLEAN /\ active' = {} /\ opened' = FALSE /\ ran' = {}
           /\ event' = None /\ asked' = Unknown /\ executions' \in Nat
<1> USE PolicyAssumption
<1>1. native' \in BOOLEAN /\ succeeded' \in BOOLEAN /\ fatal' \in BOOLEAN
      /\ outputs' \in BOOLEAN
    BY Zenon DEF begin
<1>2. calls' \in Seq(Operations \cup {Unknown})
    BY DEF begin
<1>3. opened' = FALSE /\ active' = {} /\ ran' = {}
    BY Zenon DEF begin
<1>4. executions' \in Nat
    BY DEF begin, TypeOK
<1> QED BY <1>1, <1>2, <1>3, <1>4 DEF begin, ControlTypes

\* The tasks that follow in a segment, and new requests, keep the invariant.
LEMMA ExecutePreserve == Inv /\ (execute_next \/ execute_new) => Inv'
<1> SUFFICES ASSUME Inv, execute_next \/ execute_new PROVE Inv'
    OBVIOUS
<1> USE DEF Inv
<1>1. /\ begin
      /\ UNCHANGED <<fail_fast, service, confirmed_runs>>
    BY DEF execute_next, execute_new
<1>2. Issued' = Issued /\ Spent' = Spent
    BY <1>1 DEF Issued, Spent, service
<1>3. /\ ledger' \subseteq Operations /\ listed' \subseteq Gated /\ shown' \subseteq Gated
      /\ foreign' \in BOOLEAN /\ listed' \subseteq shown'
    <2>1. CASE execute_next
        BY <2>1 DEF execute_next, TypeOK, GateInv, kept
    <2>2. CASE execute_new
        BY <2>2, Zenon DEF execute_new
    <2> QED BY <2>1, <2>2
<1>4. process' \in Processes /\ tokens' \subseteq Issued
    BY DEF execute_next, execute_new, TypeOK
<1>5. TypeOK'
    BY <1>1, <1>2, <1>3, <1>4, BeginTypes DEF TypeOK, ControlTypes, service
<1>6. LoopInv' /\ GateInv'
    BY <1>1, <1>3, BeginTypes
       DEF LoopInv, GateInv, GateHolds, ActiveAsReturned, FinalRestsOnCalls, None
<1>7. SpentInv'
    BY <1>1, <1>2 DEF SpentInv, SpentFor, service
<1> QED BY <1>5, <1>6, <1>7

\* A confirmation issues one token more.
LEMMA IssuePreserves ==
    ASSUME Inv, NEW t \in Tokens, issue(t)
    PROVE  Inv'
<1> USE OperationsAssumption DEF Inv
<1>1. /\ begin /\ asked \in Confirmed
      /\ UNCHANGED <<fail_fast, expired, nonces, fallback, degraded, confirmed_runs>>
    BY DEF issue, LoopInv
<1>2. issued' \in [Tokens -> Confirmed \cup {Unknown}]
    BY <1>1 DEF issue, TypeOK
<1>3. Issued' = Issued \cup {t} /\ Spent' = Spent
    BY <1>1 DEF issue, Issued, TypeOK, Spent
<1>4. /\ ledger' \subseteq Operations /\ listed' \subseteq Gated /\ shown' \subseteq Gated
      /\ foreign' \in BOOLEAN /\ listed' \subseteq shown'
    BY Zenon DEF issue
<1>5. process' \in Processes /\ tokens' \subseteq Issued'
    BY <1>3 DEF issue
<1>6. fallback' \in [Processes -> SUBSET Issued']
    BY <1>1, <1>3 DEF TypeOK
<1>7. t \notin Issued
    BY DEF issue, Tokens
<1>8. TypeOK'
    <2>1. expired' \subseteq Issued' /\ nonces' \subseteq Issued' \ expired'
        BY <1>1, <1>3 DEF TypeOK
    <2> QED BY <1>1, <1>2, <1>4, <1>5, <1>6, <2>1, BeginTypes DEF TypeOK, ControlTypes
<1>9. LoopInv' /\ GateInv'
    BY <1>1, <1>4, BeginTypes
       DEF LoopInv, GateInv, GateHolds, ActiveAsReturned, FinalRestsOnCalls, None
<1>10. SpentInv'
    <2>1. ASSUME NEW u \in Spent PROVE issued'[u] = issued[u]
        <3>1. u \in Issued /\ u # t /\ u \in Tokens
            BY <1>7 DEF Spent, Issued, TypeOK
        <3> QED BY <3>1 DEF issue, TypeOK
    <2>2. \A o \in Confirmed : SpentFor(o) \subseteq SpentFor(o)'
        BY <1>3, <2>1 DEF SpentFor
    <2> QED BY <1>1, <1>8, <2>2, SpentSteps
<1> QED BY <1>8, <1>9, <1>10

\* The answer of the model names calls.
LEMMA ToolCallsPreserve == Inv /\ tool_calls => Inv'
<1> SUFFICES ASSUME Inv, tool_calls PROVE Inv'
    OBVIOUS
<1> USE DEF Inv
<1>1. UNCHANGED <<event, finished, native, step, retry_count, steps_without, succeeded, fatal,
                  results, segment, service, history>>
    BY DEF tool_calls
<1>2. calls' \in Seq(Operations \cup {Unknown})
    <2>1. PICK n \in 1 .. MaxCalls :
              calls' \in [1 .. n -> IF fail_fast THEN Operations ELSE Operations \cup {Unknown}]
        BY DEF tool_calls
    <2>2. calls' \in [1 .. n -> Operations \cup {Unknown}]
        BY <2>1
    <2> QED BY <2>2, BoundsAssumption
<1>3. pc = "deciding" /\ pc' = "calling"
    BY DEF tool_calls
<1>4. Issued' = Issued /\ Spent' = Spent
    BY <1>1 DEF Issued, Spent, service
<1>5. TypeOK'
    BY <1>1, <1>2, <1>3, <1>4 DEF TypeOK, results, segment, kept, service, history
<1>6. LoopInv' /\ GateInv'
    BY <1>1, <1>3 DEF LoopInv, GateInv, GateHolds, ActiveAsReturned, FinalRestsOnCalls, results,
                      segment, kept, service, history
<1>7. SpentInv'
    BY <1>1, <1>4 DEF SpentInv, SpentFor, service, history
<1> QED BY <1>5, <1>6, <1>7

-------------------------------------------------------------------------------
\* What a process keeps in its store are issued tokens.
LEMMA KeptIssued ==
    ASSUME TypeOK, NEW p \in Processes
    PROVE  Kept(p) \subseteq Issued
BY DEF Kept, TypeOK

\* A confirmation that is accepted spends a token, while Redis answers.
LEMMA ConfirmationSpends ==
    ASSUME TypeOK, NEW o, ensure_confirmation(o), UNCHANGED <<issued, expired>>
    PROVE  /\ nonces' \subseteq Issued \ expired /\ fallback' \in [Processes -> SUBSET Issued]
           /\ degraded' \in BOOLEAN
           /\ ~degraded' =>
                  /\ ~degraded
                  /\ IF o \in Confirmed
                     THEN \E t \in Issued : issued[t] = o /\ t \notin Spent /\ Spent' = Spent \cup {t}
                     ELSE Spent' = Spent
<1>1. CASE o \notin Confirmed
    BY <1>1 DEF ensure_confirmation, TypeOK, Spent
<1>2. CASE o \in Confirmed
    <2>1. PICK t \in tokens, redis \in BOOLEAN : valid(t, o) /\ consume_nonce(t, redis)
        BY <1>2 DEF ensure_confirmation, Accepted
    <2>2. t \in Issued \ expired
        BY <2>1 DEF valid, TypeOK
    <2>3. CASE redis
        <3>1. t \notin nonces /\ nonces' = nonces \cup {t} /\ UNCHANGED <<fallback, degraded>>
            BY <2>1, <2>3 DEF consume_nonce, unused
        <3>2. issued[t] = o /\ t \notin Spent /\ Spent' = Spent \cup {t}
            BY <2>1, <2>2, <3>1 DEF Spent, valid
        <3>3. degraded' \in BOOLEAN /\ (~degraded' => ~degraded)
            BY <3>1 DEF TypeOK
        <3>4. nonces' \subseteq Issued \ expired /\ fallback' \in [Processes -> SUBSET Issued]
            BY <2>2, <3>1 DEF TypeOK
        <3> QED BY <1>2, <2>2, <3>2, <3>3, <3>4
    <2>4. CASE ~redis
        <3>1. /\ fallback' = [fallback EXCEPT ![process] = Kept(process) \cup {t}]
              /\ degraded' = TRUE /\ UNCHANGED nonces
            BY <2>1, <2>4 DEF consume_nonce
        <3>2. process \in Processes
            BY DEF TypeOK
        <3>3. Kept(process) \cup {t} \subseteq Issued
            BY <2>2, <3>2, KeptIssued
        <3>4. fallback' \in [Processes -> SUBSET Issued]
            BY <3>1, <3>2, <3>3 DEF TypeOK
        <3> QED BY <3>1, <3>4 DEF TypeOK
    <2> QED BY <2>3, <2>4
<1> QED BY <1>1, <1>2

\* A token that is refused spends nothing.
LEMMA RejectedTypes ==
    ASSUME TypeOK, NEW o, Rejected(o), UNCHANGED <<issued, expired>>
    PROVE  /\ fallback' \in [Processes -> SUBSET Issued] /\ degraded' \in BOOLEAN
           /\ UNCHANGED nonces /\ (~degraded' => ~degraded) /\ Spent' = Spent
<1>1. UNCHANGED nonces /\ Spent' = Spent
    BY DEF Rejected, Spent
<1>2. CASE UNCHANGED <<fallback, degraded>>
    BY <1>1, <1>2 DEF TypeOK
<1>3. CASE fallback' = [fallback EXCEPT ![process] = Kept(process)] /\ degraded' = TRUE
    BY <1>1, <1>3, KeptIssued DEF TypeOK
<1> QED BY <1>1, <1>2, <1>3 DEF Rejected

-------------------------------------------------------------------------------
\* The confirmation that is asked for is one for the operation called.
LEMMA ConfirmationRequiredPreserves == Inv /\ confirmation_required => Inv'
<1> SUFFICES ASSUME Inv, confirmation_required PROVE Inv'
    OBVIOUS
<1> USE DEF Inv
<1>1. /\ End("confirmation", None) /\ asked' = Called /\ Called \in Confirmed
      /\ Rejected(Called)
      /\ UNCHANGED <<results, fail_fast, kept, process, tokens, executions, issued, expired,
                     history>>
    BY DEF confirmation_required
<1>2. ControlTypes' /\ event' = "confirmation" /\ pc' = "idle"
    BY <1>1, EndTypes
<1>3. /\ fallback' \in [Processes -> SUBSET Issued] /\ degraded' \in BOOLEAN
      /\ UNCHANGED nonces /\ (~degraded' => ~degraded) /\ Spent' = Spent
    BY <1>1, RejectedTypes
<1>4. Issued' = Issued
    BY <1>1 DEF Issued
<1>5. TypeOK'
    BY <1>1, <1>2, <1>3, <1>4 DEF TypeOK, ControlTypes, results, kept, history
<1>6. LoopInv' /\ GateInv'
    BY <1>1, <1>2 DEF LoopInv, GateInv, GateHolds, ActiveAsReturned, FinalRestsOnCalls, results,
                      kept, history
<1>7. SpentInv'
    BY <1>1, <1>3 DEF SpentInv, SpentFor, history
<1> QED BY <1>5, <1>6, <1>7

\* A result that is appended leaves the calls that follow it.
LEMMA AppendTypes ==
    ASSUME TypeOK, calls # <<>>, NEW success \in BOOLEAN, NEW for_good \in BOOLEAN,
           Append_result(success, for_good)
    PROVE  /\ calls' \in Seq(Operations \cup {Unknown})
           /\ succeeded' \in BOOLEAN /\ fatal' \in BOOLEAN
           /\ outputs' \in BOOLEAN /\ outputs'
           /\ UNCHANGED <<control, fail_fast, asked, process, tokens, executions>>
<1>1. calls' \in Seq(Operations \cup {Unknown})
    BY DEF Append_result, TypeOK
<1>2. succeeded' \in BOOLEAN /\ fatal' \in BOOLEAN /\ outputs' \in BOOLEAN /\ outputs'
    BY Zenon DEF Append_result
<1> QED BY <1>1, <1>2 DEF Append_result

\* A refused call changes nothing but the counter.
LEMMA CallRefusedPreserves == Inv /\ call_refused => Inv'
<1> SUFFICES ASSUME Inv, call_refused PROVE Inv'
    OBVIOUS
<1> USE PolicyAssumption DEF Inv
<1>1. /\ calls # <<>> /\ BudgetLeft /\ Append_result(FALSE, Called = Unknown)
      /\ tool_calls_total' = tool_calls_total + 1
      /\ UNCHANGED <<active, opened, kept, service, history>>
    BY DEF call_refused
<1>2. /\ calls' \in Seq(Operations \cup {Unknown})
      /\ succeeded' \in BOOLEAN /\ fatal' \in BOOLEAN
      /\ outputs' \in BOOLEAN /\ outputs'
      /\ UNCHANGED <<control, fail_fast, asked, process, tokens, executions>>
    <2>1. (Called = Unknown) \in BOOLEAN
        BY Zenon
    <2> HIDE DEF Inv
    <2> QED BY <1>1, <2>1, AppendTypes DEF Inv
<1>3. Issued' = Issued /\ Spent' = Spent
    BY <1>1 DEF Issued, Spent, service
<1>4. tool_calls_total' \in 0 .. max_tool_calls_total
    BY <1>1 DEF TypeOK, BudgetLeft
<1>5. TypeOK'
    BY <1>1, <1>2, <1>3, <1>4 DEF TypeOK, control, kept, service, history
<1>6. LoopInv' /\ GateInv'
    BY <1>1, <1>2 DEF LoopInv, GateInv, GateHolds, ActiveAsReturned, FinalRestsOnCalls, control,
                      kept, service, history
<1>7. SpentInv'
    BY <1>1, <1>3 DEF SpentInv, SpentFor, service, history
<1> QED BY <1>5, <1>6, <1>7

\* A result that is used again opens the collection, and activates what the
\* ledger lists.
LEMMA ReuseResultPreserves == Inv /\ reuse_result => Inv'
<1> SUFFICES ASSUME Inv, reuse_result PROVE Inv'
    OBVIOUS
<1> USE PolicyAssumption DEF Inv
<1>1. /\ calls # <<>> /\ Admitted(Called) /\ ensure_confirmation(Called)
      /\ Append_result(TRUE, FALSE)
      /\ activate_collection_tools(Called, listed, ~foreign)
      /\ UNCHANGED <<tool_calls_total, kept, issued, expired, history>>
    BY DEF reuse_result
<1>2. /\ calls' \in Seq(Operations \cup {Unknown})
      /\ succeeded' \in BOOLEAN /\ fatal' \in BOOLEAN
      /\ outputs' \in BOOLEAN /\ outputs'
      /\ UNCHANGED <<control, fail_fast, asked, process, tokens, executions>>
    BY <1>1, AppendTypes
<1>3. Issued' = Issued
    BY <1>1 DEF Issued
<1>4. /\ nonces' \subseteq Issued \ expired /\ fallback' \in [Processes -> SUBSET Issued]
      /\ degraded' \in BOOLEAN
      /\ ~degraded' => /\ ~degraded
                       /\ \/ Spent' = Spent
                          \/ \E t \in Issued : t \notin Spent /\ Spent' = Spent \cup {t}
    BY <1>1, ConfirmationSpends
<1>5. active' \subseteq Gated /\ opened' \in BOOLEAN
    BY <1>1 DEF activate_collection_tools, TypeOK
<1>6. TypeOK'
    BY <1>1, <1>2, <1>3, <1>4, <1>5 DEF TypeOK, control, kept, history
<1>7. LoopInv'
    BY <1>2 DEF LoopInv, control
<1>8. GateInv'
    <2>1. (active' # {} => opened') /\ GateHolds'
        BY <1>1 DEF GateInv, GateHolds, activate_collection_tools, history
    <2>2. ActiveAsReturned'
        BY <1>1 DEF GateInv, ActiveAsReturned, activate_collection_tools, kept
    <2>3. FinalRestsOnCalls'
        BY <1>2 DEF FinalRestsOnCalls
    <2>4. (listed \subseteq shown)'
        BY <1>1 DEF GateInv, kept
    <2> QED BY <2>1, <2>2, <2>3, <2>4 DEF GateInv
<1>9. SpentInv'
    <2>1. ~degraded' => \A o \in Confirmed : SpentFor(o) \subseteq SpentFor(o)'
        BY <1>1, <1>4 DEF SpentFor
    <2>2. UNCHANGED confirmed_runs /\ (~degraded' => ~degraded)
        BY <1>1, <1>4 DEF history
    <2> QED BY <1>6, <2>1, <2>2, SpentSteps
<1> QED BY <1>6, <1>7, <1>8, <1>9

\* An operation that runs has passed the gate, and has spent a token if it
\* needs a confirmation.
LEMMA RunOperationPreserves == Inv /\ run_operation => Inv'
<1> SUFFICES ASSUME Inv, run_operation PROVE Inv'
    OBVIOUS
<1> USE PolicyAssumption, OperationsAssumption DEF Inv
<1>1. /\ calls # <<>> /\ BudgetLeft /\ Admitted(Called) /\ ensure_confirmation(Called)
      /\ tool_calls_total' = tool_calls_total + 1
      /\ ran' = ran \cup {Called}
      /\ confirmed_runs' = [o \in Confirmed |-> confirmed_runs[o] + (IF o = Called THEN 1 ELSE 0)]
      /\ UNCHANGED <<issued, expired>>
    BY DEF run_operation
<1>2. \/ /\ Append_result(TRUE, FALSE)
         /\ \E tools \in SUBSET Gated, mine \in BOOLEAN :
                /\ activate_collection_tools(Called, tools, mine)
                /\ register_result(Called, tools, mine)
      \/ /\ \E for_good \in BOOLEAN : Append_result(FALSE, for_good)
         /\ UNCHANGED <<active, opened, kept>>
    BY DEF run_operation
<1>3. /\ calls' \in Seq(Operations \cup {Unknown})
      /\ succeeded' \in BOOLEAN /\ fatal' \in BOOLEAN
      /\ outputs' \in BOOLEAN /\ outputs'
      /\ UNCHANGED <<control, fail_fast, asked, process, tokens, executions>>
    BY <1>1, <1>2, AppendTypes
<1>4. Issued' = Issued
    BY <1>1 DEF Issued
<1>5. /\ nonces' \subseteq Issued \ expired /\ fallback' \in [Processes -> SUBSET Issued]
      /\ degraded' \in BOOLEAN
      /\ ~degraded' =>
             /\ ~degraded
             /\ IF Called \in Confirmed
                THEN \E t \in Issued : issued[t] = Called /\ t \notin Spent /\ Spent' = Spent \cup {t}
                ELSE Spent' = Spent
    BY <1>1, ConfirmationSpends
<1>6. /\ active' \subseteq Gated /\ opened' \in BOOLEAN
      /\ ledger' \subseteq Operations /\ listed' \subseteq Gated /\ shown' \subseteq Gated
      /\ foreign' \in BOOLEAN
    <2>1. CASE UNCHANGED <<active, opened, kept>>
        BY <2>1 DEF kept, TypeOK
    <2>2. ASSUME NEW tools \in SUBSET Gated, NEW mine \in BOOLEAN,
                 activate_collection_tools(Called, tools, mine),
                 register_result(Called, tools, mine)
          PROVE  <1>6
        BY <1>1, <2>2 DEF activate_collection_tools, register_result, Admitted, TypeOK
    <2> QED BY <1>2, <2>1, <2>2
<1>7. (active' # {} => opened') /\ (opened => opened') /\ ActiveAsReturned'
      /\ listed' \subseteq shown'
    <2>1. CASE UNCHANGED <<active, opened, kept>>
        BY <2>1 DEF kept, GateInv, ActiveAsReturned
    <2>2. ASSUME NEW tools \in SUBSET Gated, NEW mine \in BOOLEAN,
                 activate_collection_tools(Called, tools, mine),
                 register_result(Called, tools, mine)
          PROVE  <1>7
        BY <2>2 DEF activate_collection_tools, register_result, GateInv, ActiveAsReturned
    <2> QED BY <1>2, <2>1, <2>2
<1>8. tool_calls_total' \in 0 .. max_tool_calls_total /\ ran' \subseteq Operations
      /\ confirmed_runs' \in [Confirmed -> Nat]
    BY <1>1 DEF TypeOK, BudgetLeft, Admitted
<1>9. TypeOK'
    BY <1>1, <1>3, <1>4, <1>5, <1>6, <1>8 DEF TypeOK, control
<1>10. LoopInv'
    BY <1>3 DEF LoopInv, control
<1>11. GateInv'
    <2>1. GateHolds'
        BY <1>1, <1>7 DEF GateInv, GateHolds, Admitted
    <2>2. FinalRestsOnCalls'
        BY <1>3 DEF FinalRestsOnCalls
    <2> QED BY <1>7, <2>1, <2>2 DEF GateInv
<1>12. SpentInv'
    <2>1. ASSUME NEW o \in Confirmed, ~degraded', o # Called
          PROVE  confirmed_runs'[o] = confirmed_runs[o] /\ SpentFor(o) \subseteq SpentFor(o)'
        BY <1>1, <1>5, <2>1 DEF SpentFor, TypeOK
    <2>2. ASSUME NEW o \in Confirmed, ~degraded', o = Called
          PROVE  /\ confirmed_runs'[o] = confirmed_runs[o] + 1
                 /\ SpentFor(o) \subseteq SpentFor(o)'
                 /\ SpentFor(o) # SpentFor(o)'
        <3>1. PICK t \in Issued : issued[t] = o /\ t \notin Spent /\ Spent' = Spent \cup {t}
            BY <1>5, <2>2
        <3> QED BY <1>1, <2>2, <3>1 DEF SpentFor
    <2>3. ~degraded' => ~degraded
        BY <1>5
    <2> QED BY <1>9, <2>1, <2>2, <2>3, SpentSteps
<1> QED BY <1>9, <1>10, <1>11, <1>12

\* A token that expires is spent, whether it was used or not.
LEMMA ExpirePreserves ==
    ASSUME Inv, NEW t \in Tokens, Expire(t)
    PROVE  Inv'
<1> USE DEF Inv
<1>1. /\ t \in Issued \ expired /\ expired' = expired \cup {t} /\ nonces' = nonces \ {t}
      /\ UNCHANGED <<control, answer, results, segment, issued, fallback, degraded, history>>
    BY DEF Expire
<1>2. Issued' = Issued /\ Spent' = Spent \cup {t}
    BY <1>1 DEF Issued, Spent
<1>3. TypeOK'
    BY <1>1, <1>2 DEF TypeOK, control, answer, results, segment, kept, history
<1>4. LoopInv' /\ GateInv'
    BY <1>1 DEF LoopInv, GateInv, GateHolds, ActiveAsReturned, FinalRestsOnCalls, control, answer,
                results, segment, kept, history
<1>5. SpentInv'
    <2>1. \A o \in Confirmed : SpentFor(o) \subseteq SpentFor(o)'
        BY <1>1, <1>2 DEF SpentFor
    <2>2. UNCHANGED <<confirmed_runs, degraded>>
        BY <1>1 DEF history
    <2> QED BY <1>3, <2>1, <2>2, SpentSteps
<1> QED BY <1>3, <1>4, <1>5

-------------------------------------------------------------------------------
\* Every step of the specification keeps the invariant.
LEMMA InvInductive == Inv /\ [Next]_vars => Inv'
<1> SUFFICES ASSUME Inv, [Next]_vars PROVE Inv'
    OBVIOUS
<1>1. CASE UNCHANGED vars
    <2>1. Issued' = Issued /\ Spent' = Spent
        BY <1>1 DEF Issued, Spent, vars, service
    <2>2. TypeOK'
        BY <1>1, <2>1 DEF Inv, TypeOK, vars, control, answer, results, segment, kept, service, history
    <2>3. LoopInv' /\ GateInv' /\ SpentInv'
        BY <1>1, <2>1 DEF Inv, LoopInv, GateInv, GateHolds, ActiveAsReturned, FinalRestsOnCalls,
                          SpentInv, SpentFor, vars, control, answer, results, segment, kept, service, history
    <2> QED BY <2>2, <2>3 DEF Inv
<1>2. CASE Steps
    BY <1>2, StepsPreserve
<1>3. CASE execute_next \/ execute_new
    BY <1>3, ExecutePreserve
<1>4. CASE \E t \in Tokens : issue(t)
    BY <1>4, IssuePreserves
<1>5. CASE tool_calls
    BY <1>5, ToolCallsPreserve
<1>6. CASE confirmation_required
    BY <1>6, ConfirmationRequiredPreserves
<1>7. CASE call_refused
    BY <1>7, CallRefusedPreserves
<1>8. CASE reuse_result
    BY <1>8, ReuseResultPreserves
<1>9. CASE run_operation
    BY <1>9, RunOperationPreserves
<1>10. CASE \E t \in Tokens : Expire(t)
    BY <1>10, ExpirePreserves
<1> QED BY <1>1, <1>2, <1>3, <1>4, <1>5, <1>6, <1>7, <1>8, <1>9, <1>10 DEF Next, Step, Steps

\* The invariant always holds.
LEMMA InvAlways == LoopSafety => []Inv
BY InitInv, InvInductive, PTL DEF LoopSafety

\* The model calls, the calls of operations and the steps without a success of
\* every execution stay within the policy; the retries only within the steps.
THEOREM LoopTypes == LoopSafety => []TypeOK
<1>1. Inv => TypeOK
    BY DEF Inv
<1> QED BY <1>1, InvAlways, PTL

\* The gate of a collection holds, in every execution of any number of tasks.
THEOREM LoopGate == LoopSafety => []GateHolds
<1>1. Inv => GateHolds
    BY DEF Inv, GateInv
<1> QED BY <1>1, InvAlways, PTL

\* For any number of tasks that share the ledger, nothing is active that
\* collection.info has not returned, and what the stored answer returns is active
\* as soon as the collection is opened.
THEOREM LoopReturned == LoopSafety => []ActiveAsReturned
<1>1. Inv => ActiveAsReturned
    BY DEF Inv, GateInv
<1> QED BY <1>1, InvAlways, PTL

\* No way out of the loop yields a final answer before an operation was called.
THEOREM LoopFinal == LoopSafety => []FinalRestsOnCalls
<1>1. Inv => FinalRestsOnCalls
    BY DEF Inv, GateInv
<1> QED BY <1>1, InvAlways, PTL

\* While Redis answers, a confirmation is good for one run of the operation it
\* was given for, for any number of tokens, requests and processes.
THEOREM LoopConfirmed == LoopSafety => []RunsAreConfirmed
<1>1. Inv => RunsAreConfirmed
    <2> SUFFICES ASSUME Inv, ~degraded, NEW o \in Confirmed
                 PROVE  confirmed_runs[o] <= Cardinality(IssuedFor(o))
        BY DEF RunsAreConfirmed
    <2>1. /\ IsFiniteSet(SpentFor(o)) /\ Cardinality(SpentFor(o)) \in Nat
          /\ IsFiniteSet(IssuedFor(o)) /\ SpentFor(o) \subseteq IssuedFor(o)
        BY SpentFinite DEF Inv
    <2>2. Cardinality(SpentFor(o)) <= Cardinality(IssuedFor(o))
        BY <2>1, FS_Subset
    <2>3. /\ Cardinality(IssuedFor(o)) \in Nat
          /\ confirmed_runs[o] \in Nat /\ confirmed_runs[o] <= Cardinality(SpentFor(o))
        BY <2>1, FS_CardinalityType DEF Inv, SpentInv, TypeOK
    <2> QED BY <2>1, <2>2, <2>3
<1> QED BY <1>1, InvAlways, PTL

-------------------------------------------------------------------------------
\* The answers of the model that are left.
LEMMA AnswersLeft ==
    ASSUME NEW n \in 0 .. max_llm_calls
    PROVE  max_llm_calls - n \in Nat
BY PolicyAssumption

\* What is left of an execution, by the place it is at.
LEMMA WorkIs ==
    ASSUME TypeOK
    PROVE  /\ (max_llm_calls - step) * (MaxCalls + 3) \in Nat /\ Len(calls) \in Nat
           /\ pc = "idle" => Work = 0
           /\ pc = "deciding" => Work = (max_llm_calls - step) * (MaxCalls + 3) + MaxCalls + 2
           /\ pc = "calling" => Work = (max_llm_calls - step) * (MaxCalls + 3) + Len(calls) + 1
           /\ pc = "exhausted" => Work = (max_llm_calls - step) * (MaxCalls + 3) + 1
           /\ Work \in Nat /\ (pc # "idle" => Work > 0)
<1> DEFINE left == (max_llm_calls - step) * (MaxCalls + 3)
<1>1. max_llm_calls - step \in Nat /\ MaxCalls + 3 \in Nat /\ MaxCalls \in Nat
    BY PolicyAssumption, BoundsAssumption DEF TypeOK
<1>2. left \in Nat
    BY <1>1
<1>3. Len(calls) \in Nat /\ pc \in {"idle", "deciding", "calling", "exhausted"}
    BY DEF TypeOK
<1>4. Work = IF pc = "idle" THEN 0
             ELSE left + CASE pc = "deciding"  -> MaxCalls + 2
                           [] pc = "calling"   -> Len(calls) + 1
                           [] pc = "exhausted" -> 1
    BY DEF Work
<1> HIDE DEF left
<1> SUFFICES /\ left \in Nat /\ Len(calls) \in Nat
             /\ pc = "idle" => Work = 0
             /\ pc = "deciding" => Work = left + MaxCalls + 2
             /\ pc = "calling" => Work = left + Len(calls) + 1
             /\ pc = "exhausted" => Work = left + 1
             /\ Work \in Nat /\ (pc # "idle" => Work > 0)
    BY DEF left
<1>5. CASE pc = "idle"
    BY <1>2, <1>3, <1>4, <1>5
<1>6. CASE pc = "deciding"
    BY <1>1, <1>2, <1>3, <1>4, <1>6
<1>7. CASE pc = "calling"
    BY <1>1, <1>2, <1>3, <1>4, <1>7
<1>8. CASE pc = "exhausted"
    BY <1>1, <1>2, <1>3, <1>4, <1>8
<1> QED BY <1>3, <1>5, <1>6, <1>7, <1>8

\* The same in the next state.
LEMMA WorkBecomes ==
    ASSUME TypeOK'
    PROVE  /\ (max_llm_calls - step') * (MaxCalls + 3) \in Nat /\ Len(calls') \in Nat
           /\ pc' = "idle" => Work' = 0
           /\ pc' = "deciding" => Work' = (max_llm_calls - step') * (MaxCalls + 3) + MaxCalls + 2
           /\ pc' = "calling" => Work' = (max_llm_calls - step') * (MaxCalls + 3) + Len(calls') + 1
           /\ pc' = "exhausted" => Work' = (max_llm_calls - step') * (MaxCalls + 3) + 1
           /\ Work' \in Nat /\ (pc' # "idle" => Work' > 0)
<1> DEFINE left == (max_llm_calls - step') * (MaxCalls + 3)
<1>1. max_llm_calls - step' \in Nat /\ MaxCalls + 3 \in Nat /\ MaxCalls \in Nat
    <2>1. step' \in 0 .. max_llm_calls
        BY DEF TypeOK
    <2>2. max_llm_calls \in Nat /\ MaxCalls \in Nat
        BY PolicyAssumption, BoundsAssumption
    <2>3. max_llm_calls - step' \in Nat
        BY <2>1, AnswersLeft
    <2>4. MaxCalls + 3 \in Nat
        BY <2>2
    <2> QED BY <2>2, <2>3, <2>4
<1>2. left \in Nat
    BY <1>1
<1>3. Len(calls') \in Nat /\ pc' \in {"idle", "deciding", "calling", "exhausted"}
    BY DEF TypeOK
<1>4. Work' = IF pc' = "idle" THEN 0
             ELSE left + CASE pc' = "deciding"  -> MaxCalls + 2
                           [] pc' = "calling"   -> Len(calls') + 1
                           [] pc' = "exhausted" -> 1
    BY DEF Work
<1> HIDE DEF left
<1> SUFFICES /\ left \in Nat /\ Len(calls') \in Nat
             /\ pc' = "idle" => Work' = 0
             /\ pc' = "deciding" => Work' = left + MaxCalls + 2
             /\ pc' = "calling" => Work' = left + Len(calls') + 1
             /\ pc' = "exhausted" => Work' = left + 1
             /\ Work' \in Nat /\ (pc' # "idle" => Work' > 0)
    BY DEF left
<1>5. CASE pc' = "idle"
    BY <1>2, <1>3, <1>4, <1>5
<1>6. CASE pc' = "deciding"
    BY <1>1, <1>2, <1>3, <1>4, <1>6
<1>7. CASE pc' = "calling"
    BY <1>1, <1>2, <1>3, <1>4, <1>7
<1>8. CASE pc' = "exhausted"
    BY <1>1, <1>2, <1>3, <1>4, <1>8
<1> QED BY <1>3, <1>5, <1>6, <1>7, <1>8

\* How a step of the loop moves: it ends the execution, goes on to the next
\* answer of the model, takes up the calls of an answer, or makes one of them.
Ends == pc # "idle" /\ pc' = "idle"

GoesOn ==
    /\ pc \in {"deciding", "calling"} /\ pc' \in {"deciding", "exhausted"}
    /\ step' = step + 1

TakesUp ==
    /\ pc = "deciding" /\ pc' = "calling"
    /\ step' = step /\ Len(calls') <= MaxCalls

Makes ==
    /\ pc = "calling" /\ pc' = "calling"
    /\ step' = step /\ Len(calls') < Len(calls)

\* Every step of the loop moves in one of these ways.
LEMMA StepMoves ==
    ASSUME TypeOK, Step
    PROVE  Ends \/ GoesOn \/ TakesUp \/ Makes
<1>1. ASSUME NEW last, NEW st, pc # "idle", End(last, st)
      PROVE  Ends
    BY <1>1 DEF End, Ends
<1>2. ASSUME NEW retries, NEW without, pc \in {"deciding", "calling"},
             Continue(retries, without)
      PROVE  GoesOn
    BY <1>2 DEF Continue, GoesOn
<1>3. ASSUME NEW success, NEW for_good, pc = "calling", calls # <<>>,
             Append_result(success, for_good)
      PROVE  Makes
    <2>1. Len(Tail(calls)) < Len(calls)
        BY <1>3 DEF TypeOK
    <2> QED BY <1>3, <2>1 DEF Append_result, control, Makes
<1> USE DEF fail
<1>4. CASE \/ llm_fails \/ final_answer \/ synthesize_answer \/ max_tool_calls_exceeded
           \/ confirmation_required
    BY <1>1, <1>4 DEF llm_fails, final_answer, synthesize_answer, max_tool_calls_exceeded,
                      confirmation_required
<1>5. CASE tool_calling_unsupported \/ invalid_operation_slug
    BY <1>2, <1>5 DEF tool_calling_unsupported, invalid_operation_slug
<1>6. CASE transport_error
    BY <1>1, <1>2, <1>6 DEF transport_error
<1>7. CASE no_tool_call_before_answer
    BY <1>1, <1>2, <1>7 DEF no_tool_call_before_answer
<1>8. CASE step_done
    <2> DEFINE without == IF succeeded THEN 0 ELSE steps_without + 1
    <2>1. pc = "calling" /\ (fail \/ Continue(retry_count, without))
        BY <1>8, Zenon DEF step_done
    <2> HIDE DEF without
    <2> QED BY <1>1, <1>2, <2>1
<1>9. CASE call_refused \/ reuse_result \/ run_operation
    BY <1>3, <1>9 DEF call_refused, reuse_result, run_operation
<1>10. CASE tool_calls
    <2>1. PICK n \in 1 .. MaxCalls :
              calls' \in [1 .. n -> IF fail_fast THEN Operations ELSE Operations \cup {Unknown}]
        BY <1>10 DEF tool_calls
    <2>2. Len(calls') = n
        BY <2>1, BoundsAssumption
    <2> QED BY <1>10, <2>1, <2>2, BoundsAssumption DEF tool_calls, TakesUp
<1> QED BY <1>4, <1>5, <1>6, <1>7, <1>8, <1>9, <1>10 DEF Step

\* Each of these ways uses up some of what is left.
LEMMA MovesAdvance ==
    ASSUME TypeOK, TypeOK', Ends \/ GoesOn \/ TakesUp \/ Makes
    PROVE  Work' < Work
<1> DEFINE width == MaxCalls + 3
           a == max_llm_calls - step
           b == max_llm_calls - step'
<1>1. a \in Nat /\ b \in Nat /\ width \in Nat /\ MaxCalls \in Nat
    <2>1. step \in 0 .. max_llm_calls /\ step' \in 0 .. max_llm_calls
        BY DEF TypeOK
    <2>2. max_llm_calls \in Nat /\ MaxCalls \in Nat
        BY PolicyAssumption, BoundsAssumption
    <2>3. a \in Nat
        BY <2>1, AnswersLeft
    <2>4. b \in Nat
        BY <2>1, AnswersLeft
    <2>5. width \in Nat
        BY <2>2
    <2> HIDE DEF a, b, width
    <2> QED BY <2>2, <2>3, <2>4, <2>5
<1>2. /\ a * width \in Nat /\ Len(calls) \in Nat
      /\ pc = "deciding" => Work = a * width + MaxCalls + 2
      /\ pc = "calling" => Work = a * width + Len(calls) + 1
      /\ Work \in Nat /\ (pc # "idle" => Work > 0)
    BY WorkIs
<1>3. /\ b * width \in Nat /\ Len(calls') \in Nat
      /\ pc' = "idle" => Work' = 0
      /\ pc' = "deciding" => Work' = b * width + MaxCalls + 2
      /\ pc' = "calling" => Work' = b * width + Len(calls') + 1
      /\ pc' = "exhausted" => Work' = b * width + 1
    BY WorkBecomes
<1>4. CASE Ends
    BY <1>2, <1>3, <1>4 DEF Ends
<1>5. CASE GoesOn
    <2>1. a = b + 1
        BY <1>5, PolicyAssumption DEF GoesOn, TypeOK
    <2>2. a * width = b * width + width
        BY <1>1, <2>1
    <2>3. width = MaxCalls + 3
        OBVIOUS
    <2> DEFINE more == a * width
               less == b * width
    <2> HIDE DEF more, less, width, a, b
    <2>4. more = less + MaxCalls + 3 /\ more \in Nat /\ less \in Nat
        BY <1>1, <1>2, <1>3, <2>2, <2>3 DEF more, less
    <2>5. Work >= more + 1
        BY <1>1, <1>2, <1>5, <2>4 DEF GoesOn, more
    <2>6. Work' <= less + MaxCalls + 2
        BY <1>1, <1>3, <1>5, <2>4 DEF GoesOn, less
    <2>7. Work' \in Nat
        BY <1>1, <1>3, <1>5, <2>4 DEF GoesOn, less
    <2> QED BY <1>1, <1>2, <2>4, <2>5, <2>6, <2>7
<1>6. CASE TakesUp \/ Makes
    <2>1. a = b
        BY <1>6 DEF TakesUp, Makes
    <2> DEFINE same == a * width
    <2> HIDE DEF width, a, b
    <2>2. same = b * width /\ same \in Nat
        BY <1>2, <2>1 DEF same
    <2>3. pc' = "calling" /\ Work' = same + Len(calls') + 1
        BY <1>3, <1>6, <2>2 DEF TakesUp, Makes
    <2>4. \/ Work = same + MaxCalls + 2 /\ Len(calls') <= MaxCalls
          \/ Work = same + Len(calls) + 1 /\ Len(calls') < Len(calls)
        BY <1>2, <1>6 DEF TakesUp, Makes, same
    <2> HIDE DEF same
    <2> QED BY <1>1, <1>2, <1>3, <2>2, <2>3, <2>4
<1> QED BY <1>4, <1>5, <1>6

\* An execution takes at most (max_llm_calls + 1) * (MaxCalls + 3) - 1 steps,
\* for every policy, every set of operations and whatever the model and the
\* operations answer: what is left of it is a natural number, every step of the
\* loop uses some of it up, and no expiry and no other request adds to it.
THEOREM LoopTerminates == LoopSafety => [](Work \in Nat) /\ LoopAdvances
<1> DEFINE Advance == (Step => Work' < Work) /\ (pc # "idle" => Work' <= Work)
<1>1. Inv => Work \in Nat
    BY WorkIs DEF Inv
<1>2. Inv /\ Inv' /\ [Next]_vars => [Advance]_vars
    <2> SUFFICES ASSUME TypeOK, TypeOK', Next PROVE Advance
        BY DEF Inv
    <2>1. Step => Work' < Work
        BY StepMoves, MovesAdvance
    <2>2. Work \in Nat /\ Work' \in Nat
        BY WorkIs, WorkBecomes
    <2>3. ASSUME pc # "idle" PROVE Work' <= Work
        <3>1. CASE Step
            BY <2>1, <2>2, <3>1
        <3>2. CASE Cancel
            <4>1. Ends
                BY <3>2 DEF Cancel, End, Ends
            <4> QED BY <2>2, <4>1, MovesAdvance
        <3>3. CASE \E t \in Tokens : Expire(t)
            <4>1. UNCHANGED <<pc, step, calls>>
                BY <3>3 DEF Expire, control, answer
            <4>2. Work' = Work
                BY <4>1 DEF Work
            <4> QED BY <2>2, <4>2
        <3> QED BY <2>3, <3>1, <3>2, <3>3 DEF Next, execute_next, execute_new, issue
    <2> QED BY <2>1, <2>3
<1> QED BY <1>1, <1>2, InvAlways, PTL DEF LoopSafety, LoopAdvances
===============================================================================
