----------------------------- MODULE ToolBatch -----------------------------
(***************************************************************************)
(* The execution of one turn's tool calls (agent/exec.go): the gate, then  *)
(* a walker goroutine that goes through the calls in order, settles the    *)
(* denied ones, hands parallel tools to worker goroutines and runs serial  *)
(* tools itself, and that alone emits events to a consumer that may stop.  *)
(*                                                                         *)
(* A result's content is left out; what remains of it is whether the call  *)
(* was denied, cancelled, skipped (no such tool) or executed, and whether  *)
(* it asks to terminate the run.                                           *)
(***************************************************************************)
EXTENDS Naturals, Sequences, FiniteSets

CONSTANTS
    CallCount,      \* calls of the model's response
    ParallelTools,  \* WithParallelTools: workers at once
    ProgressBuffer, \* progressBuffer, 32 in the code
    MaxReports      \* bound: progress reports of the tools

ASSUME BatchAssumption ==
    /\ CallCount \in Nat \ {0} /\ ParallelTools \in Nat \ {0}
    /\ ProgressBuffer \in Nat \ {0} /\ MaxReports \in Nat

Calls == 1..CallCount

VARIABLES
    kind,      \* of each call's tool: "serial", "parallel" or "unknown"
    pc, idx,   \* the walker: what it does, with which call
    runnable,  \* the gate let the first runnable calls through
    denied,    \* calls the gate denied
    worker,    \* where runTool is, for each call
    outcome,   \* batchExec.outcomes
    done,      \* channel of finished workers, as long as the batch
    progress,  \* channel of progress reports, bounded
    inflight,  \* workers dispatched and not yet booked
    stopped,   \* the consumer has stopped
    cancelled, \* the run's context has ended
    life,      \* of each call, what the consumer has been told
    reports    \* progress reports so far

vars == <<kind, pc, idx, runnable, denied, worker, outcome, done, progress,
          inflight, stopped, cancelled, life, reports>>

-----------------------------------------------------------------------------
Init ==
    /\ kind \in [Calls -> {"serial", "parallel", "unknown"}]
    /\ pc = "gate" /\ idx = 1
    /\ runnable = 0 /\ denied = {}
    /\ worker = [i \in Calls |-> "idle"]
    /\ outcome = [i \in Calls |-> "none"]
    /\ done = <<>> /\ progress = <<>> /\ inflight = 0
    /\ stopped = FALSE /\ cancelled = FALSE
    /\ life = [i \in Calls |-> "none"]
    /\ reports = 0

\* Variant with a fault: a consumer that stops cancels nothing.
EmitUncancelled(seen) ==
    \/ stopped /\ UNCHANGED <<life, stopped, cancelled>>
    \/ /\ ~stopped /\ life' = seen
       /\ stopped' \in BOOLEAN /\ UNCHANGED cancelled

\* emit: the consumer sees an event, and may stop at it, which cancels the run.
Emit(seen) ==
    \/ stopped /\ UNCHANGED <<life, stopped, cancelled>>
    \/ /\ ~stopped /\ life' = seen
       /\ stopped' \in BOOLEAN /\ cancelled' = (cancelled \/ stopped')

\* settle: a result without an execution, with its two events.
Settle(i, o) ==
    /\ outcome' = [outcome EXCEPT ![i] = o]
    /\ \/ Emit([life EXCEPT ![i] = "completed"])
       \/ ~stopped /\ Emit([life EXCEPT ![i] = "started"]) /\ stopped'

\* finalize: the hook may change an executed result, then it is announced.
Complete(i) ==
    /\ IF outcome[i] \in {"result", "terminate"}
       THEN \E o \in {"result", "terminate"} : outcome' = [outcome EXCEPT ![i] = o]
       ELSE UNCHANGED outcome
    /\ Emit([life EXCEPT ![i] = "completed"])

Walk(i) == pc' = "step" /\ idx' = i

-----------------------------------------------------------------------------
(* The gate, consulted for each call in order before anything executes.    *)

\* The verdict on the last call asked for ends the gate.
Gated(n, refused) ==
    /\ runnable' = n /\ denied' = refused
    /\ Walk(1)

Gate ==
    /\ pc = "gate"
    /\ \/ \E refused \in {denied, denied \cup {idx}} : \* allow, deny
             IF idx = CallCount THEN Gated(CallCount, refused)
             ELSE denied' = refused /\ idx' = idx + 1 /\ UNCHANGED <<pc, runnable>>
       \/ Gated(CallCount, Calls)   \* deny the batch
       \/ Gated(idx - 1, denied)    \* pause
    /\ UNCHANGED <<kind, worker, outcome, done, progress, inflight, stopped,
                   cancelled, life, reports>>

-----------------------------------------------------------------------------
(* The walker.                                                             *)

Step ==
    /\ pc = "step" /\ idx <= runnable
    /\ IF cancelled \/ idx \in denied
       THEN /\ Settle(idx, IF idx \in denied THEN "denied" ELSE "cancelled")
            /\ Walk(idx + 1)
       ELSE /\ pc' = IF kind[idx] = "parallel" THEN "dispatch" ELSE "barrier"
            /\ UNCHANGED <<idx, outcome, life, stopped, cancelled>>
    /\ UNCHANGED <<kind, runnable, denied, worker, done, progress, inflight, reports>>

\* The walker waits for workers in dispatch and in await.
Waiting == pc = "dispatch" \/ (pc \in {"barrier", "final"} /\ inflight > 0)

\* It forwards progress while it waits and when it drains.
Forward ==
    /\ Waiting \/ pc \in {"drain", "flush"}
    /\ progress # <<>> /\ progress' = Tail(progress)
    /\ Emit(life)
    /\ UNCHANGED <<kind, pc, idx, runnable, denied, worker, outcome, done, inflight, reports>>

\* Variant with a fault: a cancelled batch books its workers silently.
FinishQuiet ==
    /\ Waiting /\ done # <<>> /\ done' = Tail(done)
    /\ inflight' = inflight - 1
    /\ IF cancelled THEN UNCHANGED <<outcome, life, stopped, cancelled>>
                    ELSE Complete(Head(done))
    /\ UNCHANGED <<kind, pc, idx, runnable, denied, worker, progress, reports>>

\* finish: it books a finished worker.
Finish ==
    /\ Waiting /\ done # <<>> /\ done' = Tail(done)
    /\ inflight' = inflight - 1
    /\ Complete(Head(done))
    /\ UNCHANGED <<kind, pc, idx, runnable, denied, worker, progress, reports>>

\* Workers that hold a slot of the semaphore.
Slots == {i \in Calls : kind[i] = "parallel" /\ worker[i] \in {"started", "executing", "returned"}}

Dispatch ==
    /\ pc = "dispatch" /\ Cardinality(Slots) < ParallelTools
    /\ Emit([life EXCEPT ![idx] = "started"])
    /\ worker' = [worker EXCEPT ![idx] = "started"] /\ inflight' = inflight + 1
    /\ Walk(idx + 1)
    /\ UNCHANGED <<kind, runnable, denied, outcome, done, progress, reports>>

\* Variant with a fault: a serial tool does not wait for the workers.
BarrierOpen ==
    /\ pc = "barrier"
    /\ IF cancelled
       THEN Settle(idx, "cancelled") /\ Walk(idx + 1) /\ UNCHANGED worker
       ELSE /\ Emit([life EXCEPT ![idx] = "started"])
            /\ worker' = [worker EXCEPT ![idx] = "started"]
            /\ pc' = "serial" /\ UNCHANGED <<idx, outcome>>
    /\ UNCHANGED <<kind, runnable, denied, done, progress, inflight, reports>>

\* After the barrier a serial tool starts, unless the context ended meanwhile.
Barrier ==
    /\ pc = "barrier" /\ inflight = 0
    /\ IF cancelled
       THEN Settle(idx, "cancelled") /\ Walk(idx + 1) /\ UNCHANGED worker
       ELSE /\ Emit([life EXCEPT ![idx] = "started"])
            /\ worker' = [worker EXCEPT ![idx] = "started"]
            /\ pc' = "serial" /\ UNCHANGED <<idx, outcome>>
    /\ UNCHANGED <<kind, runnable, denied, done, progress, inflight, reports>>

\* Its tool has returned.
Serial ==
    /\ pc = "serial" /\ worker[idx] = "returned" /\ pc' = "drain"
    /\ UNCHANGED <<kind, idx, runnable, denied, worker, outcome, done, progress,
                   inflight, stopped, cancelled, life, reports>>

Drained ==
    /\ pc = "drain" /\ progress = <<>>
    /\ Complete(idx)
    /\ worker' = [worker EXCEPT ![idx] = "exited"]
    /\ Walk(idx + 1)
    /\ UNCHANGED <<kind, runnable, denied, done, progress, inflight, reports>>

\* Variant with a fault: the results of a cancelled batch are overwritten.
EndOverwrites ==
    /\ \/ pc = "step" /\ idx > runnable /\ pc' = "final"
       \/ pc = "final" /\ inflight = 0 /\ pc' = "flush"
       \/ pc = "flush" /\ progress = <<>> /\ pc' = "done"
    /\ outcome' = [i \in Calls |-> IF cancelled /\ i <= runnable THEN "cancelled" ELSE outcome[i]]
    /\ UNCHANGED <<kind, idx, runnable, denied, worker, done, progress,
                   inflight, stopped, cancelled, life, reports>>

\* Past the last call it awaits the workers and drains the progress.
End ==
    /\ \/ pc = "step" /\ idx > runnable /\ pc' = "final"
       \/ pc = "final" /\ inflight = 0 /\ pc' = "flush"
       \/ pc = "flush" /\ progress = <<>> /\ pc' = "done"
    /\ UNCHANGED <<kind, idx, runnable, denied, worker, outcome, done, progress,
                   inflight, stopped, cancelled, life, reports>>

-----------------------------------------------------------------------------
(* runTool, on a worker goroutine or, for a serial tool, on the walker's.  *)

Return(i, o) ==
    /\ worker' = [worker EXCEPT ![i] = "returned"]
    /\ outcome' = [outcome EXCEPT ![i] = o]

RunTool(i) ==
    /\ worker[i] = "started"
    /\ IF kind[i] = "unknown" THEN Return(i, "skipped")
       ELSE IF cancelled THEN Return(i, "cancelled")
       ELSE worker' = [worker EXCEPT ![i] = "executing"] /\ UNCHANGED outcome
    /\ UNCHANGED <<kind, pc, idx, runnable, denied, done, progress, inflight, stopped,
                   cancelled, life, reports>>

\* Variant with a fault: a report is queued whatever the buffer holds.
ReportUnbounded(i) ==
    /\ worker[i] = "executing" /\ reports < MaxReports
    /\ reports' = reports + 1
    /\ progress' = Append(progress, i)
    /\ UNCHANGED <<kind, pc, idx, runnable, denied, worker, outcome, done, inflight,
                   stopped, cancelled, life>>

\* ReportProgress: a full buffer drops the report.
Report(i) ==
    /\ worker[i] = "executing" /\ reports < MaxReports
    /\ reports' = reports + 1
    /\ progress' = IF Len(progress) < ProgressBuffer THEN Append(progress, i) ELSE progress
    /\ UNCHANGED <<kind, pc, idx, runnable, denied, worker, outcome, done, inflight,
                   stopped, cancelled, life>>

\* Exec returns, fails, panics or times out.
ExecReturns(i) ==
    /\ worker[i] = "executing"
    /\ \E o \in {"result", "terminate"} : Return(i, o)
    /\ UNCHANGED <<kind, pc, idx, runnable, denied, done, progress, inflight, stopped,
                   cancelled, life, reports>>

\* A worker's deferred function: first the slot, then the channel.
Worker(i) ==
    /\ kind[i] = "parallel"
    /\ \/ /\ worker[i] = "returned" /\ worker' = [worker EXCEPT ![i] = "released"]
          /\ UNCHANGED done
       \/ /\ worker[i] = "released" /\ worker' = [worker EXCEPT ![i] = "exited"]
          /\ done' = Append(done, i)
    /\ UNCHANGED <<kind, pc, idx, runnable, denied, outcome, progress, inflight, stopped,
                   cancelled, life, reports>>

\* The caller's context ends.
Cancel ==
    /\ ~cancelled /\ pc # "done" /\ cancelled' = TRUE
    /\ UNCHANGED <<kind, pc, idx, runnable, denied, worker, outcome, done, progress,
                   inflight, stopped, life, reports>>

Walker ==
    \/ Gate \/ Step \/ Forward \/ Finish \/ Dispatch \/ Barrier \/ Serial
    \/ Drained \/ End

Next ==
    \/ Walker \/ Cancel
    \/ \E i \in Calls : RunTool(i) \/ Report(i) \/ ExecReturns(i) \/ Worker(i)
    \/ pc = "done" /\ UNCHANGED vars

Spec == Init /\ [][Next]_vars

\* Goroutines are scheduled, and a tool returns once its context has ended.
Fairness ==
    /\ WF_vars(Walker)
    /\ \A i \in Calls :
          /\ WF_vars(RunTool(i)) /\ WF_vars(Worker(i))
          /\ WF_vars(cancelled /\ ExecReturns(i))

FairSpec == Spec /\ Fairness

-----------------------------------------------------------------------------
(* Properties.                                                             *)

\* Every variable has its type, the channels their capacity.
TypeOK ==
    /\ kind \in [Calls -> {"serial", "parallel", "unknown"}]
    /\ pc \in {"gate", "step", "dispatch", "barrier", "serial", "drain", "final", "flush", "done"}
    /\ idx \in 1..(CallCount + 1) /\ runnable \in 0..CallCount /\ denied \subseteq Calls
    /\ worker \in [Calls -> {"idle", "started", "executing", "returned", "released", "exited"}]
    /\ outcome \in [Calls -> {"none", "denied", "cancelled", "skipped", "result", "terminate"}]
    /\ done \in Seq(Calls) /\ Len(done) <= CallCount
    /\ progress \in Seq(Calls) /\ Len(progress) <= ProgressBuffer
    /\ inflight \in 0..CallCount
    /\ stopped \in BOOLEAN /\ cancelled \in BOOLEAN
    /\ life \in [Calls -> {"none", "started", "completed"}]
    /\ reports \in 0..MaxReports

\* When the batch returns, every call the gate let through has its result and,
\* for a consumer that stayed, its two events; the others have neither: the
\* session's pending calls are exactly those left.
EveryCallAnswered ==
    pc = "done" =>
        \A i \in Calls :
            /\ outcome[i] # "none" <=> i <= runnable
            /\ ~stopped => (life[i] = "completed" <=> i <= runnable)
            /\ i > runnable => life[i] = "none"

\* The result that ToolCompleted announced is the result the session gets,
\* whatever the after-tool hook and a late cancellation do.
AnnouncedResultIsFinal ==
    [][\A i \in Calls : life[i] = "completed" =>
          outcome[i] # "none" /\ outcome'[i] = outcome[i]]_vars

\* A batch whose context has ended, or whose consumer has stopped, returns.
BatchEnds == stopped \/ cancelled ~> pc = "done"

Turn == INSTANCE ToolTurn WITH
    parallel <- {i \in Calls : kind[i] = "parallel"},
    answers <- 1..runnable,
    allowed <- (1..runnable) \ denied,
    executing <- {i \in Calls : worker[i] = "executing"},
    answered <- {i \in Calls : outcome[i] # "none"},
    ended <- pc = "done"

\* The walker, its workers and the semaphore keep the promises of ToolTurn:
\* serial tools are barriers, slots are bounded, denied calls never execute.
ImplementsTurn == Turn!Spec

\* What agent/event.go says and the code does not do: ToolCompleted closes the
\* lifecycle of a call, so no update follows it.
UpdatesBeforeCompletion ==
    [][~stopped /\ progress # <<>> /\ progress' = Tail(progress)
          => life[Head(progress)] = "started"]_vars
=============================================================================
