------------------------------ MODULE SandboxRun ------------------------------
(***************************************************************************)
(* One sandbox run: the requests that start, resume and cancel it, the     *)
(* runner tasks of the API processes that execute it, and its durable row. *)
(*                                                                         *)
(* A runner executes one segment of the run, from a start or a resume to   *)
(* its end or the next pause.  The row is written by requests and by the   *)
(* runner, each in a session of its own and without a lock; a session that *)
(* has loaded the row keeps seeing the status it loaded (identity map).    *)
(* The two kinds of pause and the validation of a resume against them are  *)
(* those of ChatTurn; here both are "waiting".                             *)
(***************************************************************************)
EXTENDS Integers

CONSTANTS
    MaxRequests,  \* requests for this run
    Processes     \* API processes, each with its SandboxRuntimeRunner

\* Requests are numbered as they arrive.
Requests == 1 .. MaxRequests

ASSUME RequestsAssumption == MaxRequests \in Nat

VARIABLES
    status,     \* the durable status of the run; "none": no row yet
    pc,         \* where each request is
    task,       \* where the runner task of each process is
    outcome,    \* the final status each runner will store
    paused,     \* processes whose runner holds a pause payload
    signals,    \* per process: cancellation by task.cancel or by Redis, pending
    segment,    \* the segment each runner executes
    segments,   \* segments started so far
    effects,    \* segments whose execution session was committed
    writer,     \* the segment whose runner stored the status; 0: a request did
    raced,      \* two resumes have read the same pause (history)
    overwritten \* a stale "sweep" or a late "cancel" has written over the
                \* status that others work on (history)

runner == <<task, outcome, paused, signals, segment, segments, effects>>
vars == <<status, pc, runner, writer, raced, overwritten>>

Settled == {"waiting", "completed", "failed", "cancelled"}

\* Where a task has not stored its outcome yet.
Live == {"loading", "running", "closing"}

\* Where a request has work to do.
Serving == {"starting", "resuming", "dropping", "cancelling", "signalling", "publishing"}

Init ==
    /\ status = "none"
    /\ pc = [q \in Requests |-> "idle"]
    /\ task = [p \in Processes |-> "none"]
    /\ outcome = [p \in Processes |-> "completed"]
    /\ paused = {}
    /\ signals = [p \in Processes |-> {}]
    /\ segment = [p \in Processes |-> 0]
    /\ segments = 0
    /\ effects = {}
    /\ writer = 0
    /\ raced = FALSE
    /\ overwritten = {}

-------------------------------------------------------------------------------
\* Requests.

Goto(q, place) == pc' = [pc EXCEPT ![q] = place]

\* A request commits a new status.
write(new) == status' = new /\ writer' = 0

\* prepare_run and its commit.
run_sandbox(q) ==
    /\ pc[q] = "idle"
    /\ status = "none"
    /\ write("running")
    /\ Goto(q, "starting")
    /\ UNCHANGED <<runner, raced, overwritten>>

\* Mutant: a run that is not over can be resumed.
resume_sandbox_run_unvalidated(q) ==
    /\ pc[q] = "idle"
    /\ status \in {"running", "waiting"}
    /\ \E decision \in {"resuming", "dropping"} : Goto(q, decision)
    /\ raced' = (raced \/ \E s \in Requests : pc[s] \in {"resuming", "dropping"})
    /\ UNCHANGED <<status, runner, writer, overwritten>>

\* resume_sandbox_run validates the status it reads, without a lock.
resume_sandbox_run(q) ==
    /\ pc[q] = "idle"
    /\ status = "waiting"
    /\ \E decision \in {"resuming", "dropping"} : Goto(q, decision)
    /\ raced' = (raced \/ \E s \in Requests : pc[s] \in {"resuming", "dropping"})
    /\ UNCHANGED <<status, runner, writer, overwritten>>

\* The action is cancel: finish_run.
resume_cancel(q) ==
    /\ pc[q] = "dropping"
    /\ write("cancelled")
    /\ Goto(q, "ended")
    /\ UNCHANGED <<runner, raced, overwritten>>

\* The checkpoint is built, and the pause is cleared.
resume_run(q) ==
    /\ pc[q] = "resuming"
    /\ write("running")
    /\ Goto(q, "starting")
    /\ UNCHANGED <<runner, raced, overwritten>>

\* The agent cannot be resolved: finish_run.
agent_unresolved(q) ==
    /\ pc[q] = "starting"
    /\ write("failed")
    /\ Goto(q, "ended")
    /\ UNCHANGED <<runner, raced, overwritten>>

\* SandboxRuntimeRunner.start on the process that serves the request; a task
\* that is not done is returned instead of a new one.
start(q, p) ==
    /\ pc[q] = "starting"
    /\ Goto(q, "ended")
    /\ IF task[p] = "none"
       THEN /\ task' = [task EXCEPT ![p] = "loading"]
            /\ segment' = [segment EXCEPT ![p] = segments + 1]
            /\ segments' = segments + 1
            /\ outcome' = [outcome EXCEPT ![p] = "completed"]
       ELSE UNCHANGED <<task, segment, segments, outcome>>
    /\ UNCHANGED <<status, paused, signals, effects, writer, raced, overwritten>>

\* cancel_sandbox_run reads the status ...
cancel_sandbox_run(q) ==
    /\ pc[q] = "idle"
    /\ status = "running"
    /\ Goto(q, "cancelling")
    /\ UNCHANGED <<status, runner, writer, raced, overwritten>>

\* ... request_cancel tests the status that this session has loaded before ...
request_cancel(q) ==
    /\ pc[q] = "cancelling"
    /\ write("cancelling")
    /\ overwritten' = IF status \in {"running", "cancelling"} THEN overwritten
                      ELSE overwritten \cup {"cancel"}
    /\ Goto(q, "signalling")
    /\ UNCHANGED <<runner, raced>>

\* ... and the request interrupts a task of its own process ...
cancel_local(q, p) ==
    /\ pc[q] = "signalling"
    /\ signals' = IF task[p] = "none" THEN signals
                  ELSE [signals EXCEPT ![p] = @ \cup {"interrupt"}]
    /\ Goto(q, "publishing")
    /\ UNCHANGED <<status, task, outcome, paused, segment, segments, effects, writer, raced,
                   overwritten>>

\* ... and signals the tasks that have subscribed, as far as Redis delivers.
publish_cancel(q) ==
    /\ pc[q] = "publishing"
    /\ \E reached \in SUBSET {p \in Processes : task[p] \in {"loading", "running"}} :
           signals' = [p \in Processes |->
               IF p \in reached THEN signals[p] \cup {"bus"} ELSE signals[p]]
    /\ Goto(q, "ended")
    /\ UNCHANGED <<status, task, outcome, paused, segment, segments, effects, writer, raced,
                   overwritten>>

\* The client disconnects, the process stops, a statement fails, or an early
\* return: attachment or branch not found.
Abandon(q) ==
    /\ pc[q] \in Serving
    /\ Goto(q, "ended")
    /\ UNCHANGED <<status, runner, writer, raced, overwritten>>

\* fail_stale_runs, when a later run of the session starts more than five
\* minutes after this one has.
fail_stale_runs ==
    /\ status \in {"running", "cancelling"}
    /\ write("failed")
    /\ overwritten' = overwritten \cup {"sweep"}
    /\ UNCHANGED <<pc, runner, raced>>

-------------------------------------------------------------------------------
\* The runner task.

\* A cancelled task raises CancelledError where it awaits next.
Undisturbed(p) == "interrupt" \notin signals[p]

Close(p, final) ==
    /\ task' = [task EXCEPT ![p] = "closing"]
    /\ outcome' = [outcome EXCEPT ![p] = final]

\* The subscription fails, or the run is loaded into the execution session.
load(p) ==
    /\ task[p] = "loading" /\ Undisturbed(p)
    /\ \/ Close(p, "failed")
       \/ status = "cancelling" /\ Close(p, "cancelled")
       \/ status # "cancelling" /\ task' = [task EXCEPT ![p] = "running"] /\ UNCHANGED outcome
    /\ UNCHANGED <<status, pc, paused, signals, segment, segments, effects, writer, raced,
                   overwritten>>

\* Mutant: the pause is stored where it is published.
stop_event_stored(p) ==
    /\ task[p] = "running" /\ Undisturbed(p)
    /\ p \notin paused
    /\ paused' = paused \cup {p}
    /\ status' = "waiting" /\ writer' = segment[p]
    /\ UNCHANGED <<pc, task, outcome, signals, segment, segments, effects, raced, overwritten>>

\* STOP: the pause is published on the tail bus, and kept for the end.
stop_event(p) ==
    /\ task[p] = "running" /\ Undisturbed(p)
    /\ p \notin paused
    /\ paused' = paused \cup {p}
    /\ UNCHANGED <<status, pc, task, outcome, signals, segment, segments, effects, writer, raced,
                   overwritten>>

\* Mutant: the outcome is stored without a commit of the execution session.
pipeline_ends_uncommitted(p) ==
    /\ task[p] = "running" /\ Undisturbed(p)
    /\ \E final \in {"completed", "failed"} : Close(p, final)
    /\ UNCHANGED <<status, pc, paused, signals, segment, segments, effects, writer, raced,
                   overwritten>>

\* The events end, with FINAL or a terminal planner event or after STOP, and
\* the execution session is committed.
pipeline_ends(p) ==
    /\ task[p] = "running" /\ Undisturbed(p)
    /\ \E final \in {"completed", "failed"} : Close(p, final)
    /\ effects' = effects \cup {segment[p]}
    /\ UNCHANGED <<status, pc, paused, signals, segment, segments, writer, raced, overwritten>>

\* An exception of the pipeline or of the commit.
pipeline_raises(p) ==
    /\ task[p] = "running" /\ Undisturbed(p)
    /\ Close(p, "failed")
    /\ UNCHANGED <<status, pc, paused, signals, segment, segments, effects, writer, raced,
                   overwritten>>

\* The signal from Redis, or task.cancel: no commit, and no pause.
cancelled(p) ==
    /\ \/ task[p] = "running" /\ "bus" \in signals[p]
       \/ task[p] \in {"loading", "running"} /\ "interrupt" \in signals[p]
    /\ Close(p, "cancelled")
    /\ paused' = paused \ {p}
    /\ signals' = [signals EXCEPT ![p] = {}]
    /\ UNCHANGED <<status, pc, segment, segments, effects, writer, raced, overwritten>>

Done(p) ==
    /\ task' = [task EXCEPT ![p] = "none"]
    /\ outcome' = [outcome EXCEPT ![p] = "completed"]
    /\ segment' = [segment EXCEPT ![p] = 0]
    /\ signals' = [signals EXCEPT ![p] = {}]
    /\ paused' = paused \ {p}

\* pause_run if there is a pause payload, else finish_run; a fresh session
\* writes over whatever the status has become.
_persist_terminal(p) ==
    /\ task[p] = "closing"
    /\ status' = IF p \in paused THEN "waiting" ELSE outcome[p]
    /\ writer' = segment[p]
    /\ task' = [task EXCEPT ![p] = "leaving"]
    /\ UNCHANGED <<pc, outcome, paused, signals, segment, segments, effects, raced, overwritten>>

\* Mutant: a task that is interrupted while it ends waits for the signal again.
task_done_undisturbed(p) ==
    /\ task[p] = "leaving" /\ Undisturbed(p)
    /\ Done(p)
    /\ UNCHANGED <<status, pc, segments, effects, writer, raced, overwritten>>

\* The task is done: after its outcome is stored, or without storing it when
\* storing fails or task.cancel interrupts the end of the task.
task_done(p) ==
    /\ task[p] \in {"closing", "leaving"}
    /\ Done(p)
    /\ UNCHANGED <<status, pc, segments, effects, writer, raced, overwritten>>

\* The process stops.
Crash(p) ==
    /\ task[p] # "none"
    /\ Done(p)
    /\ UNCHANGED <<status, pc, segments, effects, writer, raced, overwritten>>

-------------------------------------------------------------------------------
Arrive(q) ==
    /\ \A s \in 1 .. q - 1 : pc[s] # "idle"
    /\ run_sandbox(q) \/ resume_sandbox_run(q) \/ cancel_sandbox_run(q)

Serve(q) ==
    \/ resume_cancel(q) \/ resume_run(q) \/ agent_unresolved(q)
    \/ \E p \in Processes : start(q, p) \/ cancel_local(q, p)
    \/ request_cancel(q) \/ publish_cancel(q)

Execute(p) ==
    \/ load(p) \/ stop_event(p) \/ pipeline_ends(p) \/ pipeline_raises(p) \/ cancelled(p)
    \/ _persist_terminal(p) \/ task_done(p)

Next ==
    \/ \E q \in Requests : Arrive(q) \/ Serve(q) \/ Abandon(q)
    \/ fail_stale_runs
    \/ \E p \in Processes : Execute(p) \/ Crash(p)

SandboxSafety == Init /\ [][Next]_vars

\* Runner tasks are coroutines of a running event loop; requests may stop.
Fairness == \A p \in Processes : WF_vars(Execute(p))

SandboxSpec == SandboxSafety /\ Fairness

-------------------------------------------------------------------------------
\* Every variable has its type, and a process without a task has no trace of
\* an earlier one (clear_finished).
TypeOK ==
    /\ status \in Settled \cup {"none", "running", "cancelling"}
    /\ pc \in [Requests -> Serving \cup {"idle", "ended"}]
    /\ task \in [Processes -> Live \cup {"none", "leaving"}]
    /\ outcome \in [Processes -> {"completed", "failed", "cancelled"}]
    /\ paused \subseteq {p \in Processes : task[p] # "none"}
    /\ signals \in [Processes -> SUBSET {"interrupt", "bus"}]
    /\ segments \in Nat
    /\ segment \in [Processes -> 0 .. segments]
    /\ effects \subseteq 1 .. segments
    /\ writer \in 0 .. segments
    /\ raced \in BOOLEAN /\ overwritten \subseteq {"sweep", "cancel"}

\* A run is marked complete only after the effects of the segment that marks
\* it are committed (resume_sandbox_run: "visible before the run is marked
\* complete").
EffectsBeforeCompletion == status = "completed" => writer \in effects

\* At most one runner works on the run or has still to store its outcome,
\* whichever process it is in, unless two resumes read the same pause.
OneRunner ==
    \A p1, p2 \in Processes :
        p1 # p2 /\ task[p1] \in Live /\ task[p2] \in Live => raced

\* A run that is paused or over is quiet: no runner works on it or is about to
\* write over its status, unless two resumes read the same pause or a live run
\* was failed as stale.
SettledIsQuiet ==
    status \in Settled /\ ~raced /\ "sweep" \notin overwritten =>
        \A p \in Processes : task[p] \notin Live

\* Where a request holds the run: it will start a runner or end the run.
Claiming == {"starting", "resuming", "dropping"}

\* The run as PausableRun sees it: cancelling is still work.
StoredState ==
    CASE status = "none" -> "none"
      [] status \in {"running", "cancelling"} -> "working"
      [] status = "waiting" -> "paused"
      [] OTHER -> "over"

HeldBy ==
    ({"request"} \X {q \in Requests : pc[q] \in Claiming})
        \cup ({"task"} \X {p \in Processes : task[p] \in Live})

Promise ==
    INSTANCE PausableRun WITH
        Holders <- ({"request"} \X Requests) \cup ({"task"} \X Processes),
        state <- StoredState,
        holders <- HeldBy,
        disturbed <- (raced \/ overwritten # {})

\* The run is a PausableRun: it is opened once, works under one request or
\* runner from there to its next pause or its end, is resumed only from a
\* pause, and stays over; unless two resumes read the same pause, a live run is
\* failed as stale, or a cancellation writes over an outcome that was stored
\* since it was checked.
RunIsPausable == Promise!Spec

\* Every runner ends, cancelled or not, and leaves its process free to start
\* the next segment.
RunnersEnd == \A p \in Processes : task[p] # "none" ~> task[p] = "none"

\* How many steps the runner of a process has left at most.
StepsLeft(p) ==
    CASE task[p] = "loading" -> 5
      [] task[p] = "running" -> IF p \in paused THEN 3 ELSE 4
      [] task[p] = "closing" -> 2
      [] task[p] = "leaving" -> 1
      [] OTHER -> 0

\* A runner never goes back: each of its steps brings it closer to its end, and
\* no signal, request or other runner gives it more to do; only a start does,
\* and only on a process without a runner.
RunnersAdvance ==
    [][\A p \in Processes :
           /\ Execute(p) => StepsLeft(p)' < StepsLeft(p)
           /\ task[p] # "none" => StepsLeft(p)' <= StepsLeft(p)]_vars
===============================================================================
