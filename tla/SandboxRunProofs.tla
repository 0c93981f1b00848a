--------------------------- MODULE SandboxRunProofs ---------------------------
(***************************************************************************)
(* A sandbox run has one runner, is marked complete after its effects, is  *)
(* quiet when it is settled, and is a PausableRun, for every number of     *)
(* requests and of processes.                                              *)
(***************************************************************************)
EXTENDS SandboxRun, TLAPS

\* A runner that is going to store "completed" has committed its effects.
CompletionInv ==
    \A p \in Processes :
        task[p] = "closing" /\ outcome[p] = "completed" => segment[p] \in effects

\* The run is held by at most one request or runner.  Nothing in the row says
\* so: the argument is that a status which lets a second one in is only
\* stored by the holder, in the step in which it lets go.
HeldOnce ==
    /\ \A q1, q2 \in Requests : pc[q1] \in Claiming /\ pc[q2] \in Claiming => q1 = q2
    /\ \A p1, p2 \in Processes : task[p1] \in Live /\ task[p2] \in Live => p1 = p2
    /\ \A q \in Requests, p \in Processes : ~(pc[q] \in Claiming /\ task[p] \in Live)

\* The statuses at which nobody works on the run.
HeldByNone ==
    /\ \A q \in Requests : pc[q] # "starting"
    /\ \A p \in Processes : task[p] \notin Live

HolderInv ==
    /\ ~raced => HeldOnce
    /\ ~raced /\ status = "none" => \A q \in Requests : pc[q] \notin Claiming
    /\ ~raced /\ status \in {"none", "waiting"} => HeldByNone
    /\ ~raced /\ "sweep" \notin overwritten /\ status \in Settled => HeldByNone
    /\ ~raced /\ overwritten = {} =>
           \A q \in Requests : pc[q] \in {"resuming", "dropping"} => status = "waiting"

\* Every task executes a segment of its own.
SegmentInv == \A p \in Processes : task[p] # "none" => segment[p] # 0

Inv == TypeOK /\ SegmentInv /\ EffectsBeforeCompletion /\ CompletionInv /\ HolderInv

-------------------------------------------------------------------------------
\* The initial state satisfies the invariant.
LEMMA InitInv == Init => Inv
<1> SUFFICES ASSUME Init PROVE Inv
    OBVIOUS
<1> USE DEF Init
<1>1. TypeOK
    <2>1. raced \in BOOLEAN /\ overwritten \subseteq {"sweep", "cancel"}
        BY Zenon
    <2>2. segments \in Nat /\ segment \in [Processes -> 0 .. segments] /\ writer \in 0 .. segments
        OBVIOUS
    <2>3. /\ status \in Settled \cup {"none", "running", "cancelling"}
          /\ pc \in [Requests -> Serving \cup {"idle", "ended"}]
          /\ task \in [Processes -> Live \cup {"none", "leaving"}]
          /\ outcome \in [Processes -> {"completed", "failed", "cancelled"}]
        OBVIOUS
    <2>4. signals \in [Processes -> SUBSET {"interrupt", "bus"}]
        OBVIOUS
    <2>5. paused \subseteq {p \in Processes : task[p] # "none"} /\ effects \subseteq 1 .. segments
        OBVIOUS
    <2> QED BY <2>1, <2>2, <2>3, <2>4, <2>5 DEF TypeOK
<1>2. HolderInv
    BY DEF HolderInv, HeldOnce, HeldByNone, Claiming, Settled, Live
<1>3. SegmentInv /\ CompletionInv /\ EffectsBeforeCompletion
    BY DEF SegmentInv, CompletionInv, EffectsBeforeCompletion
<1> QED BY <1>1, <1>2, <1>3 DEF Inv

\* Requests and runners keep the types.
LEMMA TypePreserved == TypeOK /\ SegmentInv /\ [Next]_vars => TypeOK' /\ SegmentInv'
<1> SUFFICES ASSUME TypeOK, SegmentInv, [Next]_vars PROVE TypeOK' /\ SegmentInv'
    OBVIOUS
<1> USE DEF TypeOK, SegmentInv, Settled, Live, Serving, Goto, write, runner
<1>1. ASSUME NEW q \in Requests, Arrive(q) PROVE TypeOK' /\ SegmentInv'
    <2>1. raced' \in BOOLEAN
        BY <1>1, Zenon DEF Arrive, run_sandbox, resume_sandbox_run, cancel_sandbox_run
    <2>2. pc' \in [Requests -> Serving \cup {"idle", "ended"}]
        BY <1>1 DEF Arrive, run_sandbox, resume_sandbox_run, cancel_sandbox_run
    <2>3. /\ status' \in Settled \cup {"none", "running", "cancelling"}
          /\ writer' \in 0 .. segments
        BY <1>1 DEF Arrive, run_sandbox, resume_sandbox_run, cancel_sandbox_run
    <2>4. UNCHANGED <<runner, overwritten>>
        BY <1>1 DEF Arrive, run_sandbox, resume_sandbox_run, cancel_sandbox_run
    <2> QED BY <2>1, <2>2, <2>3, <2>4
<1>2. ASSUME NEW q \in Requests, NEW p \in Processes, start(q, p) PROVE TypeOK' /\ SegmentInv'
    <2>1. segments' \in Nat /\ segments <= segments'
        BY <1>2 DEF start
    <2>2. segment' \in [Processes -> 0 .. segments'] /\ SegmentInv'
        BY <1>2, <2>1 DEF start
    <2>3. task' \in [Processes -> Live \cup {"none", "leaving"}]
          /\ paused' \subseteq {r \in Processes : task'[r] # "none"}
        BY <1>2 DEF start
    <2>4. effects' \subseteq 1 .. segments' /\ writer' \in 0 .. segments'
        BY <1>2, <2>1 DEF start
    <2>5. outcome' \in [Processes -> {"completed", "failed", "cancelled"}]
        BY <1>2 DEF start
    <2> QED BY <1>2, <2>1, <2>2, <2>3, <2>4, <2>5 DEF start
<1>3. ASSUME NEW q \in Requests, NEW p \in Processes, cancel_local(q, p)
      PROVE  TypeOK' /\ SegmentInv'
    BY <1>3 DEF cancel_local
<1>4. ASSUME NEW q \in Requests, publish_cancel(q) PROVE TypeOK' /\ SegmentInv'
    BY <1>4 DEF publish_cancel
<1>5. ASSUME NEW q \in Requests,
             \/ resume_cancel(q) \/ resume_run(q) \/ agent_unresolved(q)
             \/ request_cancel(q) \/ Abandon(q)
      PROVE  TypeOK' /\ SegmentInv'
    <2>1. raced' = raced /\ overwritten' \subseteq {"sweep", "cancel"} /\ UNCHANGED runner
        BY <1>5 DEF resume_cancel, resume_run, agent_unresolved, request_cancel, Abandon
    <2>2. /\ status' \in Settled \cup {"none", "running", "cancelling"}
          /\ writer' \in 0 .. segments
        BY <1>5 DEF resume_cancel, resume_run, agent_unresolved, request_cancel, Abandon
    <2>3. pc' \in [Requests -> Serving \cup {"idle", "ended"}]
        BY <1>5 DEF resume_cancel, resume_run, agent_unresolved, request_cancel, Abandon
    <2> QED BY <2>1, <2>2, <2>3
<1>6. ASSUME fail_stale_runs PROVE TypeOK' /\ SegmentInv'
    BY <1>6 DEF fail_stale_runs
<1>7. ASSUME NEW p \in Processes, load(p) \/ stop_event(p) PROVE TypeOK' /\ SegmentInv'
    BY <1>7 DEF load, stop_event, Close
<1>8. ASSUME NEW p \in Processes, pipeline_ends(p) PROVE TypeOK' /\ SegmentInv'
    <2>1. segment[p] \in 1 .. segments
        BY <1>8 DEF pipeline_ends
    <2> QED BY <1>8, <2>1 DEF pipeline_ends, Close
<1>9. ASSUME NEW p \in Processes, pipeline_raises(p) \/ cancelled(p)
      PROVE  TypeOK' /\ SegmentInv'
    BY <1>9 DEF pipeline_raises, cancelled, Close
<1>10. ASSUME NEW p \in Processes, _persist_terminal(p) PROVE TypeOK' /\ SegmentInv'
    BY <1>10 DEF _persist_terminal
<1>11. ASSUME NEW p \in Processes, task_done(p) \/ Crash(p) PROVE TypeOK' /\ SegmentInv'
    <2>1. Done(p) /\ UNCHANGED <<status, pc, segments, effects, writer, raced, overwritten>>
        BY <1>11 DEF task_done, Crash
    <2>2. /\ task' \in [Processes -> Live \cup {"none", "leaving"}]
          /\ outcome' \in [Processes -> {"completed", "failed", "cancelled"}]
          /\ signals' \in [Processes -> SUBSET {"interrupt", "bus"}]
        BY <2>1 DEF Done
    <2>3. segment' \in [Processes -> 0 .. segments] /\ SegmentInv'
        BY <2>1 DEF Done
    <2>4. paused' \subseteq {r \in Processes : task'[r] # "none"}
        BY <2>1 DEF Done
    <2> QED BY <2>1, <2>2, <2>3, <2>4
<1>12. CASE UNCHANGED vars
    BY <1>12 DEF vars
<1> QED BY <1>1, <1>2, <1>3, <1>4, <1>5, <1>6, <1>7, <1>8, <1>9, <1>10, <1>11, <1>12
        DEF Next, Serve, Execute

\* What a runner stores as complete it has committed.
LEMMA CompletionPreserved ==
    TypeOK /\ SegmentInv /\ EffectsBeforeCompletion /\ CompletionInv /\ [Next]_vars
        => EffectsBeforeCompletion' /\ CompletionInv'
<1> SUFFICES ASSUME TypeOK, EffectsBeforeCompletion, CompletionInv, [Next]_vars
             PROVE  EffectsBeforeCompletion' /\ CompletionInv'
    OBVIOUS
<1> USE DEF TypeOK, EffectsBeforeCompletion, CompletionInv, Goto, write, runner
<1>1. ASSUME NEW q \in Requests,
             \/ Arrive(q) \/ resume_cancel(q) \/ resume_run(q) \/ agent_unresolved(q)
             \/ request_cancel(q) \/ publish_cancel(q) \/ Abandon(q)
      PROVE  EffectsBeforeCompletion' /\ CompletionInv'
    BY <1>1 DEF Arrive, run_sandbox, resume_sandbox_run, cancel_sandbox_run, resume_cancel,
                resume_run, agent_unresolved, request_cancel, publish_cancel, Abandon
<1>2. ASSUME NEW q \in Requests, NEW p \in Processes, start(q, p) \/ cancel_local(q, p)
      PROVE  EffectsBeforeCompletion' /\ CompletionInv'
    BY <1>2 DEF start, cancel_local
<1>3. ASSUME fail_stale_runs PROVE EffectsBeforeCompletion' /\ CompletionInv'
    BY <1>3 DEF fail_stale_runs
<1>4. ASSUME NEW p \in Processes,
             load(p) \/ stop_event(p) \/ pipeline_ends(p) \/ pipeline_raises(p) \/ cancelled(p)
      PROVE  EffectsBeforeCompletion' /\ CompletionInv'
    BY <1>4 DEF load, stop_event, pipeline_ends, pipeline_raises, cancelled, Close
<1>5. ASSUME NEW p \in Processes, _persist_terminal(p)
      PROVE  EffectsBeforeCompletion' /\ CompletionInv'
    BY <1>5 DEF _persist_terminal
<1>6. ASSUME NEW p \in Processes, task_done(p) \/ Crash(p)
      PROVE  EffectsBeforeCompletion' /\ CompletionInv'
    BY <1>6 DEF task_done, Crash, Done
<1>7. CASE UNCHANGED vars
    BY <1>7 DEF vars
<1> QED BY <1>1, <1>2, <1>3, <1>4, <1>5, <1>6, <1>7 DEF Next, Serve, Execute

\* Nobody enters while the run is held, and the holder lets go as it stores a
\* status that others may act on.
LEMMA HolderPreserved == TypeOK /\ HolderInv /\ [Next]_vars => HolderInv'
<1> SUFFICES ASSUME TypeOK, HolderInv, [Next]_vars PROVE HolderInv'
    OBVIOUS
<1> USE DEF TypeOK, HolderInv, HeldOnce, HeldByNone, Claiming, Settled, Live, Goto, write, runner
<1>1. ASSUME NEW q \in Requests, run_sandbox(q) \/ cancel_sandbox_run(q) PROVE HolderInv'
    BY <1>1 DEF run_sandbox, cancel_sandbox_run
<1>2. ASSUME NEW q \in Requests, resume_sandbox_run(q) PROVE HolderInv'
    <2>1. CASE raced \/ \E s \in Requests : pc[s] \in {"resuming", "dropping"}
        BY <1>2, <2>1 DEF resume_sandbox_run
    <2>2. CASE ~raced /\ \A s \in Requests : pc[s] \notin {"resuming", "dropping"}
        <3>1. \A s \in Requests : pc[s] \notin Claiming
            BY <1>2, <2>2 DEF resume_sandbox_run
        <3>2. \A s \in Requests : s # q => pc'[s] = pc[s]
            BY <1>2 DEF resume_sandbox_run
        <3>3. pc'[q] # "starting"
            BY <1>2 DEF resume_sandbox_run
        <3> QED BY <1>2, <2>2, <3>1, <3>2, <3>3 DEF resume_sandbox_run
    <2> QED BY <2>1, <2>2
<1>3. ASSUME NEW q \in Requests,
             resume_cancel(q) \/ resume_run(q) \/ agent_unresolved(q)
      PROVE  HolderInv'
    BY <1>3 DEF resume_cancel, resume_run, agent_unresolved
<1>4. ASSUME NEW q \in Requests, request_cancel(q) \/ publish_cancel(q) \/ Abandon(q)
      PROVE  HolderInv'
    BY <1>4 DEF request_cancel, publish_cancel, Abandon
<1>5. ASSUME NEW q \in Requests, NEW p \in Processes, start(q, p) PROVE HolderInv'
    BY <1>5 DEF start
<1>6. ASSUME NEW q \in Requests, NEW p \in Processes, cancel_local(q, p) PROVE HolderInv'
    BY <1>6 DEF cancel_local
<1>7. ASSUME fail_stale_runs PROVE HolderInv'
    BY <1>7 DEF fail_stale_runs
<1>8. ASSUME NEW p \in Processes,
             load(p) \/ stop_event(p) \/ pipeline_ends(p) \/ pipeline_raises(p) \/ cancelled(p)
      PROVE  HolderInv'
    BY <1>8 DEF load, stop_event, pipeline_ends, pipeline_raises, cancelled, Close
<1>9. ASSUME NEW p \in Processes, _persist_terminal(p) PROVE HolderInv'
    BY <1>9 DEF _persist_terminal
<1>10. ASSUME NEW p \in Processes, task_done(p) \/ Crash(p) PROVE HolderInv'
    BY <1>10 DEF task_done, Crash, Done
<1>11. CASE UNCHANGED vars
    BY <1>11 DEF vars
<1> QED BY <1>1, <1>2, <1>3, <1>4, <1>5, <1>6, <1>7, <1>8, <1>9, <1>10, <1>11
        DEF Next, Arrive, Serve, Execute

\* The invariant is inductive.
LEMMA InvInductive == SandboxSafety => []Inv
<1>1. Inv /\ [Next]_vars => Inv'
    BY TypePreserved, CompletionPreserved, HolderPreserved DEF Inv
<1> QED BY <1>1, InitInv, PTL DEF SandboxSafety

-------------------------------------------------------------------------------
\* Status, requests, tasks, signals and segments keep their types, and a
\* process without a task keeps nothing of an earlier one.
THEOREM SandboxTypes == SandboxSafety => []TypeOK
<1>1. Inv => TypeOK
    BY DEF Inv
<1> QED BY <1>1, InvInductive, PTL

\* A run is never marked complete before the effects of the segment that
\* marks it are committed, whatever is cancelled, crashes or races.
THEOREM SandboxEffects == SandboxSafety => []EffectsBeforeCompletion
<1>1. Inv => EffectsBeforeCompletion
    BY DEF Inv
<1> QED BY <1>1, InvInductive, PTL

\* Over all processes there is one runner, unless two resumes read one pause.
THEOREM SandboxOneRunner == SandboxSafety => []OneRunner
<1>1. Inv => OneRunner
    BY DEF Inv, TypeOK, HolderInv, HeldOnce, OneRunner
<1> QED BY <1>1, InvInductive, PTL

\* A run that is paused or over has no runner that could still write to it,
\* unless two resumes read one pause or a live run was failed as stale.
THEOREM SandboxQuiet == SandboxSafety => []SettledIsQuiet
<1>1. Inv => SettledIsQuiet
    BY DEF Inv, TypeOK, HolderInv, HeldByNone, SettledIsQuiet
<1> QED BY <1>1, InvInductive, PTL

-------------------------------------------------------------------------------
\* The refinement of PausableRun.

Holders == ({"request"} \X Requests) \cup ({"task"} \X Processes)
Disturbed == raced \/ overwritten # {}

\* Who holds the run, given where its requests and its tasks are.
LEMMA HolderIs ==
    ASSUME NEW at, NEW work,
           \A q1, q2 \in Requests : at[q1] \in Claiming /\ at[q2] \in Claiming => q1 = q2,
           \A p1, p2 \in Processes : work[p1] \in Live /\ work[p2] \in Live => p1 = p2,
           \A q \in Requests, p \in Processes : ~(at[q] \in Claiming /\ work[p] \in Live),
           NEW H, H = ({"request"} \X {q \in Requests : at[q] \in Claiming})
                          \cup ({"task"} \X {p \in Processes : work[p] \in Live})
    PROVE  /\ \A q \in Requests : at[q] \in Claiming => H = {<<"request", q>>}
           /\ \A p \in Processes : work[p] \in Live => H = {<<"task", p>>}
           /\ (\A q \in Requests : at[q] \notin Claiming)
                  /\ (\A p \in Processes : work[p] \notin Live) => H = {}
    OBVIOUS

\* Initially there is no run and nobody holds it.
LEMMA PromiseInit == Init => Promise!Init
<1> SUFFICES ASSUME Init PROVE Promise!Init
    OBVIOUS
<1>1. StoredState = "none"
    BY DEF Init, StoredState
<1>2. HeldBy = {}
    BY DEF Init, HeldBy, Claiming, Live
<1>3. (raced \/ overwritten # {}) = FALSE
    BY DEF Init
<1> QED BY <1>1, <1>2, <1>3 DEF Promise!Init

\* What PausableRun sees of a status.
LEMMA StoredIs ==
    /\ status = "none" => StoredState = "none"
    /\ status \in {"running", "cancelling"} => StoredState = "working"
    /\ status = "waiting" => StoredState = "paused"
    /\ status \in {"completed", "failed", "cancelled"} => StoredState = "over"
    BY DEF StoredState

\* The same after the step.
LEMMA StoredBecomes ==
    /\ status' = "none" => StoredState' = "none"
    /\ status' \in {"running", "cancelling"} => StoredState' = "working"
    /\ status' = "waiting" => StoredState' = "paused"
    /\ status' \in {"completed", "failed", "cancelled"} => StoredState' = "over"
    /\ status' = status => StoredState' = StoredState
    BY DEF StoredState

\* Every step of an undisturbed run that stays undisturbed is a step of the
\* promise: the request or runner that takes it is the only holder.
LEMMA QuietSteps ==
    ASSUME Inv, Inv', Next, ~Disturbed, ~Disturbed'
    PROVE  Promise!Quiet \/ (StoredState' = StoredState /\ HeldBy' = HeldBy)
<1> DEFINE Goal == Promise!Quiet \/ (StoredState' = StoredState /\ HeldBy' = HeldBy)
<1>0. HeldOnce /\ HeldOnce' /\ ~raced /\ overwritten = {} /\ overwritten' = {}
    BY DEF Inv, HolderInv, Disturbed
<1>1. /\ \A q \in Requests : pc[q] \in Claiming => HeldBy = {<<"request", q>>}
      /\ \A p \in Processes : task[p] \in Live => HeldBy = {<<"task", p>>}
      /\ (\A q \in Requests : pc[q] \notin Claiming)
             /\ (\A p \in Processes : task[p] \notin Live) => HeldBy = {}
    BY <1>0, HolderIs DEF HeldOnce, HeldBy
<1>2. /\ \A q \in Requests : pc'[q] \in Claiming => HeldBy' = {<<"request", q>>}
      /\ \A p \in Processes : task'[p] \in Live => HeldBy' = {<<"task", p>>}
      /\ (\A q \in Requests : pc'[q] \notin Claiming)
             /\ (\A p \in Processes : task'[p] \notin Live) => HeldBy' = {}
    BY <1>0, HolderIs DEF HeldOnce, HeldBy
<1>3. /\ \A q \in Requests : pc[q] \in Claiming =>
             /\ \A r \in Requests : r # q => pc[r] \notin Claiming
             /\ \A p \in Processes : task[p] \notin Live
      /\ \A p \in Processes : task[p] \in Live =>
             /\ \A q \in Requests : pc[q] \notin Claiming
             /\ \A r \in Processes : r # p => task[r] \notin Live
    BY <1>0 DEF HeldOnce
<1>4. /\ \A q \in Requests : pc[q] = "starting" => status \in {"running", "cancelling"}
      /\ \A q \in Requests : pc[q] \in {"resuming", "dropping"} => status = "waiting"
      /\ \A p \in Processes : task[p] \in Live => status \in {"running", "cancelling"}
    BY <1>0 DEF Inv, TypeOK, HolderInv, HeldByNone, Settled
<1>5. /\ pc \in [Requests -> Serving \cup {"idle", "ended"}]
      /\ task \in [Processes -> Live \cup {"none", "leaving"}]
      /\ outcome \in [Processes -> {"completed", "failed", "cancelled"}]
    BY DEF Inv, TypeOK
<1>6. /\ \A q \in Requests : <<"request", q>> \in Holders
      /\ \A p \in Processes : <<"task", p>> \in Holders
    BY DEF Holders
<1>7. ASSUME pc' = pc, task' = task PROVE HeldBy' = HeldBy
    BY <1>7 DEF HeldBy
<1>8. ASSUME NEW h \in Holders,
             \/ Promise!Open(h) \/ Promise!Claim(h) \/ Promise!Resume(h)
             \/ Promise!Settle(h) \/ Promise!Lose(h)
             \/ \E g \in Holders : Promise!HandOver(h, g)
      PROVE  Goal
    BY <1>8 DEF Promise!Quiet, Holders
<1> HIDE DEF Goal
<1> USE DEF Goto, write, runner
<1>9. ASSUME NEW q \in Requests, run_sandbox(q) PROVE Goal
    <2>1. (\A r \in Requests : pc[r] \notin Claiming) /\ \A p \in Processes : task[p] \notin Live
        BY <1>0, <1>9 DEF run_sandbox, Inv, HolderInv, HeldByNone
    <2>2. pc'[q] \in Claiming
        BY <1>5, <1>9 DEF run_sandbox, Claiming
    <2>3. StoredState = "none" /\ StoredState' = "working"
        BY <1>9, StoredIs, StoredBecomes DEF run_sandbox
    <2>4. Promise!Open(<<"request", q>>)
        BY <1>1, <1>2, <2>1, <2>2, <2>3 DEF Promise!Open
    <2> QED BY <1>6, <1>8, <2>4
<1>10. ASSUME NEW q \in Requests, resume_sandbox_run(q) PROVE Goal
    <2>1. (\A r \in Requests : pc[r] \notin Claiming) /\ \A p \in Processes : task[p] \notin Live
        <3>1. \A r \in Requests : pc[r] \notin {"resuming", "dropping"}
            BY <1>10 DEF resume_sandbox_run, Disturbed
        <3>2. HeldByNone
            BY <1>0, <1>10 DEF resume_sandbox_run, Inv, HolderInv
        <3> QED BY <3>1, <3>2 DEF HeldByNone, Claiming
    <2>2. pc'[q] \in Claiming
        BY <1>5, <1>10 DEF resume_sandbox_run, Claiming
    <2>3. StoredState = "paused" /\ StoredState' = StoredState
        BY <1>10, StoredIs, StoredBecomes DEF resume_sandbox_run
    <2>4. Promise!Claim(<<"request", q>>)
        BY <1>1, <1>2, <2>1, <2>2, <2>3 DEF Promise!Claim
    <2> QED BY <1>6, <1>8, <2>4
<1>11. ASSUME NEW q \in Requests, resume_run(q) PROVE Goal
    <2>1. pc[q] \in Claiming /\ pc'[q] \in Claiming
        BY <1>5, <1>11 DEF resume_run, Claiming
    <2>2. StoredState = "paused" /\ StoredState' = "working"
        BY <1>4, <1>11, StoredIs, StoredBecomes DEF resume_run
    <2>3. Promise!Resume(<<"request", q>>)
        BY <1>1, <1>2, <2>1, <2>2 DEF Promise!Resume
    <2> QED BY <1>6, <1>8, <2>3
<1>12. ASSUME NEW q \in Requests, resume_cancel(q) \/ agent_unresolved(q) PROVE Goal
    <2>1. pc[q] \in Claiming /\ (\A r \in Requests : pc'[r] \notin Claiming) /\ task' = task
        BY <1>3, <1>5, <1>12 DEF resume_cancel, agent_unresolved, Claiming
    <2>2. HeldBy' = {}
        BY <1>2, <1>3, <2>1
    <2>3. StoredState \in {"paused", "working"} /\ StoredState' = "over"
        BY <1>4, <1>12, StoredIs, StoredBecomes DEF resume_cancel, agent_unresolved
    <2>4. Promise!Settle(<<"request", q>>)
        BY <1>1, <2>1, <2>2, <2>3 DEF Promise!Settle
    <2> QED BY <1>6, <1>8, <2>4
<1>13. ASSUME NEW q \in Requests, NEW p \in Processes, start(q, p) PROVE Goal
    <2>1. pc[q] \in Claiming /\ (\A r \in Requests : pc'[r] \notin Claiming)
        BY <1>3, <1>5, <1>13 DEF start, Claiming
    <2>2. StoredState = "working" /\ StoredState' = StoredState
        BY <1>4, <1>13, StoredIs, StoredBecomes DEF start
    <2>3. CASE task[p] = "none"
        <3>1. task'[p] \in Live
            BY <1>5, <1>13, <2>3 DEF start, Live
        <3>2. Promise!HandOver(<<"request", q>>, <<"task", p>>)
            BY <1>1, <1>2, <2>1, <2>2, <3>1 DEF Promise!HandOver
        <3> QED BY <1>6, <1>8, <3>2
    <2>4. CASE task[p] # "none"
        <3>1. HeldBy' = {}
            BY <1>2, <1>3, <1>13, <2>1, <2>4 DEF start
        <3>2. Promise!Lose(<<"request", q>>)
            BY <1>1, <2>1, <2>2, <3>1 DEF Promise!Lose
        <3> QED BY <1>6, <1>8, <3>2
    <2> QED BY <2>3, <2>4
<1>14. ASSUME NEW q \in Requests,
              \/ cancel_sandbox_run(q) \/ request_cancel(q) \/ publish_cancel(q)
              \/ \E p \in Processes : cancel_local(q, p)
       PROVE  Goal
    <2>1. \A r \in Requests : pc'[r] \in Claiming <=> pc[r] \in Claiming
        BY <1>5, <1>14
        DEF cancel_sandbox_run, request_cancel, publish_cancel, cancel_local, Claiming
    <2>2. task' = task
        BY <1>14 DEF cancel_sandbox_run, request_cancel, publish_cancel, cancel_local
    <2>3. HeldBy' = HeldBy
        BY <2>1, <2>2 DEF HeldBy
    <2>4. status' = status \/ (request_cancel(q) /\ status \in {"running", "cancelling"})
        BY <1>0, <1>14
        DEF cancel_sandbox_run, request_cancel, publish_cancel, cancel_local
    <2>5. StoredState' = StoredState
        BY <2>4, StoredIs, StoredBecomes DEF request_cancel
    <2> QED BY <2>3, <2>5 DEF Goal
<1>15. ASSUME NEW q \in Requests, Abandon(q) PROVE Goal
    <2>1. StoredState' = StoredState /\ task' = task
        BY <1>15, StoredBecomes DEF Abandon
    <2>2. CASE pc[q] \in Claiming
        <3>1. \A r \in Requests : pc'[r] \notin Claiming
            BY <1>3, <1>5, <1>15, <2>2 DEF Abandon, Claiming
        <3>2. Promise!Lose(<<"request", q>>)
            BY <1>1, <1>2, <1>3, <2>1, <2>2, <3>1 DEF Promise!Lose
        <3> QED BY <1>6, <1>8, <3>2
    <2>3. CASE pc[q] \notin Claiming
        <3>1. \A r \in Requests : pc'[r] \in Claiming <=> pc[r] \in Claiming
            BY <1>5, <1>15, <2>3 DEF Abandon, Claiming
        <3> QED BY <2>1, <3>1 DEF HeldBy, Goal
    <2> QED BY <2>2, <2>3
<1>16. ASSUME fail_stale_runs PROVE Goal
    BY <1>0, <1>16 DEF fail_stale_runs
<1>17. ASSUME NEW p \in Processes,
              load(p) \/ stop_event(p) \/ pipeline_ends(p) \/ pipeline_raises(p) \/ cancelled(p)
       PROVE  Goal
    <2>1. pc' = pc /\ status' = status
        BY <1>17 DEF load, stop_event, pipeline_ends, pipeline_raises, cancelled
    <2>2. \A r \in Processes : task'[r] \in Live <=> task[r] \in Live
        BY <1>5, <1>17
        DEF load, stop_event, pipeline_ends, pipeline_raises, cancelled, Close, Live
    <2> QED BY <2>1, <2>2, StoredBecomes DEF HeldBy, Goal
<1>18. ASSUME NEW p \in Processes, _persist_terminal(p) PROVE Goal
    <2>1. task[p] \in Live /\ (\A r \in Processes : task'[r] \notin Live) /\ pc' = pc
        BY <1>3, <1>5, <1>18 DEF _persist_terminal, Live
    <2>2. HeldBy' = {}
        BY <1>2, <1>3, <2>1
    <2>3. StoredState = "working"
        BY <1>4, <2>1, StoredIs
    <2>4. status' \in {"waiting", "completed", "failed", "cancelled"}
        BY <1>5, <1>18 DEF _persist_terminal
    <2>5. StoredState' \in {"paused", "over"}
        BY <2>4, StoredBecomes
    <2>6. Promise!Settle(<<"task", p>>)
        BY <1>1, <2>1, <2>2, <2>3, <2>5 DEF Promise!Settle
    <2> QED BY <1>6, <1>8, <2>6
<1>19. ASSUME NEW p \in Processes, task_done(p) \/ Crash(p) PROVE Goal
    <2>1. StoredState' = StoredState /\ pc' = pc
        BY <1>19, StoredBecomes DEF task_done, Crash
    <2>2. CASE task[p] \in Live
        <3>1. \A r \in Processes : task'[r] \notin Live
            BY <1>3, <1>5, <1>19, <2>2 DEF task_done, Crash, Done, Live
        <3>2. Promise!Lose(<<"task", p>>)
            BY <1>1, <1>2, <1>3, <2>1, <2>2, <3>1 DEF Promise!Lose
        <3> QED BY <1>6, <1>8, <3>2
    <2>3. CASE task[p] \notin Live
        <3>1. \A r \in Processes : task'[r] \in Live <=> task[r] \in Live
            BY <1>5, <1>19, <2>3 DEF task_done, Crash, Done, Live
        <3> QED BY <2>1, <3>1 DEF HeldBy, Goal
    <2> QED BY <2>2, <2>3
<1>20. Goal
    BY <1>9, <1>10, <1>11, <1>12, <1>13, <1>14, <1>15, <1>16, <1>17, <1>18, <1>19
    DEF Next, Arrive, Serve, Execute
<1> QED BY <1>20 DEF Goal

\* Once disturbed, a run stays disturbed.
LEMMA StaysDisturbed == Next /\ Disturbed => Disturbed'
<1> SUFFICES ASSUME Next, Disturbed PROVE Disturbed'
    OBVIOUS
<1>1. raced => raced'
    BY Zenon DEF Next, Arrive, Serve, Execute, Abandon, run_sandbox, resume_sandbox_run,
        cancel_sandbox_run, resume_cancel, resume_run, agent_unresolved, start, request_cancel,
        cancel_local, publish_cancel, fail_stale_runs, load, stop_event, pipeline_ends,
        pipeline_raises, cancelled, _persist_terminal, task_done, Crash
<1>2. overwritten \subseteq overwritten'
    BY DEF Next, Arrive, Serve, Execute, Abandon, run_sandbox, resume_sandbox_run,
        cancel_sandbox_run, resume_cancel, resume_run, agent_unresolved, start, request_cancel,
        cancel_local, publish_cancel, fail_stale_runs, load, stop_event, pipeline_ends,
        pipeline_raises, cancelled, _persist_terminal, task_done, Crash
<1> QED BY <1>1, <1>2 DEF Disturbed

\* A sandbox run is a PausableRun, for every number of requests and of
\* processes: it is opened once, held by one request or runner at a time,
\* resumed only from a pause, and stays over, unless one of the races that the
\* row has no lock against has happened.
THEOREM SandboxIsPausable == SandboxSafety => RunIsPausable
<1>1. Inv /\ Inv' /\ [Next]_vars
          => [Promise!Next]_<<StoredState, HeldBy, (raced \/ overwritten # {})>>
    <2> SUFFICES ASSUME Inv, Inv', [Next]_vars
                 PROVE  [Promise!Next]_<<StoredState, HeldBy, (raced \/ overwritten # {})>>
        OBVIOUS
    <2>1. CASE UNCHANGED vars
        <3>1. UNCHANGED <<StoredState, HeldBy>>
            BY <2>1, StoredBecomes DEF vars, runner, HeldBy
        <3>2. UNCHANGED (raced \/ overwritten # {})
            BY <2>1 DEF vars
        <3> QED BY <3>1, <3>2
    <2>2. CASE Next /\ Disturbed'
        <3>1. (raced \/ overwritten # {})' = TRUE
            BY <2>2 DEF Disturbed
        <3> QED BY <3>1 DEF Promise!Next
    <2>3. CASE Next /\ ~Disturbed'
        <3>1. ~Disturbed
            BY <2>3, StaysDisturbed
        <3>2. (raced \/ overwritten # {})' = (raced \/ overwritten # {})
            BY <2>3, <3>1 DEF Disturbed
        <3>3. Promise!Quiet \/ (StoredState' = StoredState /\ HeldBy' = HeldBy)
            BY <2>3, <3>1, QuietSteps
        <3> QED BY <3>2, <3>3 DEF Promise!Next
    <2> QED BY <2>1, <2>2, <2>3
<1> QED BY <1>1, PromiseInit, InvInductive, PTL
        DEF SandboxSafety, RunIsPausable, Promise!Spec

-------------------------------------------------------------------------------
\* What a runner has left, by where it is.
LEMMA LeftIs ==
    ASSUME NEW p \in Processes
    PROVE  /\ task[p] = "loading" => StepsLeft(p) = 5
           /\ task[p] = "running" => StepsLeft(p) = IF p \in paused THEN 3 ELSE 4
           /\ task[p] = "closing" => StepsLeft(p) = 2
           /\ task[p] = "leaving" => StepsLeft(p) = 1
           /\ task[p] = "none" => StepsLeft(p) = 0
           /\ StepsLeft(p) \in 0 .. 5
    BY DEF StepsLeft

\* The same after the step.
LEMMA LeftBecomes ==
    ASSUME NEW p \in Processes
    PROVE  /\ task'[p] = "loading" => StepsLeft(p)' = 5
           /\ task'[p] = "running" => StepsLeft(p)' = IF p \in paused' THEN 3 ELSE 4
           /\ task'[p] = "closing" => StepsLeft(p)' = 2
           /\ task'[p] = "leaving" => StepsLeft(p)' = 1
           /\ task'[p] = "none" => StepsLeft(p)' = 0
           /\ StepsLeft(p)' \in 0 .. 5
    BY DEF StepsLeft

\* A step of a runner brings it closer to its end, and leaves the others alone.
LEMMA ExecuteAdvances ==
    ASSUME TypeOK, NEW p \in Processes, Execute(p) \/ Crash(p)
    PROVE  /\ StepsLeft(p)' < StepsLeft(p)
           /\ \A r \in Processes : r # p => StepsLeft(r)' = StepsLeft(r)
<1> USE DEF Close, Done
<1>1. task \in [Processes -> Live \cup {"none", "leaving"}]
    BY DEF TypeOK
<1>2. \A r \in Processes : r # p => task'[r] = task[r] /\ (r \in paused' <=> r \in paused)
    BY <1>1 DEF Execute, load, stop_event, pipeline_ends, pipeline_raises, cancelled,
                _persist_terminal, task_done, Crash
<1>3. \A r \in Processes : r # p => StepsLeft(r)' = StepsLeft(r)
    BY <1>2 DEF StepsLeft
<1>4. \/ task[p] = "loading" /\ task'[p] \in {"running", "closing"}
      \/ task[p] = "running" /\ task'[p] = "running" /\ p \notin paused /\ p \in paused'
      \/ task[p] \in {"loading", "running"} /\ task'[p] = "closing"
      \/ task[p] = "closing" /\ task'[p] = "leaving"
      \/ task[p] # "none" /\ task'[p] = "none"
    <2>1. CASE load(p)
        BY <1>1, <2>1 DEF load
    <2>2. CASE stop_event(p)
        BY <1>1, <2>2 DEF stop_event
    <2>3. CASE pipeline_ends(p) \/ pipeline_raises(p)
        BY <1>1, <2>3 DEF pipeline_ends, pipeline_raises
    <2>4. CASE cancelled(p)
        BY <1>1, <2>4 DEF cancelled
    <2>5. CASE _persist_terminal(p)
        BY <1>1, <2>5 DEF _persist_terminal
    <2>6. CASE task_done(p) \/ Crash(p)
        BY <1>1, <2>6 DEF task_done, Crash
    <2> QED BY <2>1, <2>2, <2>3, <2>4, <2>5, <2>6 DEF Execute
<1>5. task[p] \in {"loading", "running", "closing", "leaving", "none"}
    BY <1>1 DEF Live
<1>6. StepsLeft(p)' < StepsLeft(p)
    BY <1>4, <1>5, LeftIs, LeftBecomes
<1> QED BY <1>3, <1>6

\* A runner takes at most five steps, whatever is requested, signalled or
\* crashes meanwhile: each of them leaves it fewer, and only a start on a free
\* process gives it new ones.
THEOREM SandboxRunnersAdvance == SandboxSafety => RunnersAdvance
<1> DEFINE Advance ==
        \A p \in Processes :
            /\ Execute(p) => StepsLeft(p)' < StepsLeft(p)
            /\ task[p] # "none" => StepsLeft(p)' <= StepsLeft(p)
<1>1. ASSUME Inv, Next PROVE Advance
    <2> SUFFICES ASSUME NEW p \in Processes
                 PROVE  /\ Execute(p) => StepsLeft(p)' < StepsLeft(p)
                        /\ task[p] # "none" => StepsLeft(p)' <= StepsLeft(p)
        OBVIOUS
    <2>1. Execute(p) => StepsLeft(p)' < StepsLeft(p)
        BY <1>1, ExecuteAdvances DEF Inv
    <2>2. StepsLeft(p) \in 0 .. 5 /\ StepsLeft(p)' \in 0 .. 5
        BY LeftIs, LeftBecomes
    <2>3. ASSUME task[p] # "none" PROVE StepsLeft(p)' <= StepsLeft(p)
        <3>1. ASSUME NEW r \in Processes, Execute(r) \/ Crash(r)
              PROVE  StepsLeft(p)' <= StepsLeft(p)
            BY <1>1, <2>2, <3>1, ExecuteAdvances DEF Inv
        <3>2. ASSUME NEW q \in Requests, Arrive(q) \/ Serve(q) \/ Abandon(q)
              PROVE  UNCHANGED paused /\ task'[p] = task[p]
            BY <1>1, <2>3, <3>2 DEF Inv, TypeOK, Arrive, Serve, Abandon, run_sandbox,
                   resume_sandbox_run, cancel_sandbox_run, resume_cancel, resume_run,
                   agent_unresolved, start, cancel_local, request_cancel, publish_cancel, runner
        <3>3. ASSUME UNCHANGED paused, task'[p] = task[p] PROVE StepsLeft(p)' = StepsLeft(p)
            BY <3>3 DEF StepsLeft
        <3>4. fail_stale_runs => StepsLeft(p)' = StepsLeft(p)
            BY <3>3 DEF fail_stale_runs, runner
        <3> QED BY <1>1, <2>2, <3>1, <3>2, <3>3, <3>4 DEF Next
    <2> QED BY <2>1, <2>3
<1>2. Inv /\ [Next]_vars => [Advance]_vars
    BY <1>1
<1> QED BY <1>2, InvInductive, PTL DEF SandboxSafety, RunnersAdvance
===============================================================================
