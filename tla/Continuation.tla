---------------------------- MODULE Continuation ----------------------------
(***************************************************************************)
(* The durable continuation engine of agent/continuation: one execution,  *)
(* its latest stored record, the in-memory slot of its active stage, and   *)
(* the goroutines ("callers") that run the engine's operations on it.      *)
(* Executions never touch one another (the store and the slot are keyed by *)
(* ID), so one execution is the general case.                              *)
(*                                                                         *)
(* An operation of the code is a sequence of steps here: one per access to *)
(* the store or to the slot, which are the points where another goroutine  *)
(* can run.  ContinuationRecords says what they write.                     *)
(***************************************************************************)
EXTENDS ContinuationRecords

CONSTANTS
    Callers,            \* goroutines that call the engine
    NoCaller,           \* the free slot
    Requests,           \* bound: the operations the callers request
    WorkTurns,          \* turn counts a Worker may report
    MaxReconciliations, \* maxControlReconciliations, 16 in the code
    MaxTransitions,     \* StoreLimits.MaxTransitions: the length of a full journal
    MaxFaults,          \* bound: failed store writes
    MaxCrashes          \* bound: process crashes

ASSUME ConstantsAssumption ==
    /\ NoCaller \notin Callers
    /\ Requests \subseteq Operations /\ WorkTurns \subseteq Nat
    /\ MaxReconciliations \in Nat \ 0..4 /\ MaxTransitions \in Nat \ {0}
    /\ MaxFaults \in Nat /\ MaxCrashes \in Nat

VARIABLES
    rec,        \* the latest durable record
    deliveries, \* how many records of the history are the delivery of each signal
    active,     \* Engine.active[id]: the caller whose stage holds the slot
    call,       \* the frame of each caller
    expired,    \* the deadline has passed
    faults,     \* failed store writes so far
    crashes     \* crashes so far

vars == <<rec, deliveries, active, call, expired, faults, crashes>>

-----------------------------------------------------------------------------
(* The frame of a caller: where it is in its operation, the revision it was *)
(* given, the record it loaded last, what its handler returned, how often   *)
(* finishStage has loaded, whether its stage's context has been cancelled,  *)
(* and what the operation answers.                                          *)

NoRecord == [Created EXCEPT !.rev = 0]

NoOutcome == [of |-> "work", verdict |-> "ok", turns |-> 0, wait |-> {}]

WorkOutcomes == [of : {"work"}, verdict : {"ok", "error"}, turns : WorkTurns, wait : {{}}]

DecisionOutcomes ==
    [of : {"decision"}, verdict : {"continue", "block", "complete", "fail", "cancel", "error"},
     turns : {0}, wait : {{}}]
    \cup [of : {"decision"}, verdict : {"wait"}, turns : {0}, wait : Wait \ {{}}]

Answers == {"ok", "conflict", "busy", "refused", "failed", "invalid"}

Idle(answer) == [pc |-> "idle", op |-> "Get", expected |-> 0, cur |-> NoRecord,
                 outcome |-> NoOutcome, tries |-> 0, cancelled |-> FALSE,
                 answer |-> answer]

\* Steps between reserve and release: the caller's stage holds the slot.
Holding == {"start", "stage", "finish", "commit", "settle", "handoff", "release"}

\* Steps of a stage whose start is durable and whose outcome is not.
Executing == {"stage", "finish", "commit"}

Goto(c, pc) == call' = [call EXCEPT ![c].pc = pc]

Return(c, answer) == call' = [call EXCEPT ![c] = Idle(answer)]

\* Leave the stage: the deferred release, then the answer.
Leave(c, answer) == call' = [call EXCEPT ![c].pc = "release", ![c].answer = answer]

\* Variant with a fault: the journal grows past its bound.
VerdictUnbounded(c, next) ==
    IF ~ValidRecord(next) THEN "invalid"
    ELSE IF rec.rev # call[c].cur.rev THEN "conflict" ELSE "ok"

\* What a CompareAndSwap of next against the record c loaded comes to: the
\* record is validated, then its revision, then the journal's length.
Verdict(c, next) ==
    IF ~ValidRecord(next) THEN "invalid"
    ELSE IF rec.rev # call[c].cur.rev THEN "conflict"
    ELSE IF rec.rev >= MaxTransitions THEN "failed"
    ELSE "ok"

Stamped(next) == [next EXCEPT !.rev = rec.rev + 1]

\* A write may also fail before the record is written (an I/O error, a done
\* context) or after (the append succeeds and fsync fails).
CAS(c, next, answer) ==
    \/ /\ answer = Verdict(c, next)
       /\ rec' = IF answer = "ok" THEN Stamped(next) ELSE rec
       /\ UNCHANGED faults
    \/ /\ answer = "failed" /\ faults < MaxFaults
       /\ faults' = faults + 1
       /\ \/ UNCHANGED rec
          \/ Verdict(c, next) = "ok" /\ rec' = Stamped(next)

-----------------------------------------------------------------------------
Init ==
    /\ rec = Created
    /\ deliveries = [s \in SignalIds |-> 0]
    /\ active = NoCaller
    /\ call = [c \in Callers |-> Idle("ok")]
    /\ expired = FALSE
    /\ faults = 0
    /\ crashes = 0

At(c, pc) == call[c].pc = pc

\* A caller has read the latest record and starts an operation on it.
Begin(c, op) ==
    /\ At(c, "idle")
    /\ call' = [call EXCEPT ![c] =
                  [Idle("ok") EXCEPT !.op = op, !.expected = rec.rev,
                                     !.pc = CASE op = "Advance" -> "admit"
                                              [] op \in SignalIds -> "dedupe"
                                              [] OTHER -> "load"]]
    /\ UNCHANGED <<rec, deliveries, active, expired, faults, crashes>>

\* prepareAdvance first looks whether a stage is active.
Admit(c) ==
    /\ At(c, "admit")
    /\ IF active # NoCaller THEN Return(c, "busy") ELSE Goto(c, "load")
    /\ UNCHANGED <<rec, deliveries, active, expired, faults, crashes>>

\* Variant with a fault: Signal does not look.
DedupeBlind(c) ==
    /\ At(c, "dedupe")
    /\ Goto(c, "load")
    /\ UNCHANGED <<rec, deliveries, active, expired, faults, crashes>>

\* Signal first looks for its ID in the history.
Dedupe(c) ==
    /\ At(c, "dedupe")
    /\ IF deliveries[call[c].op] > 0 THEN Return(c, "ok") ELSE Goto(c, "load")
    /\ UNCHANGED <<rec, deliveries, active, expired, faults, crashes>>

\* The operation's own checks on the record r it loaded.
Proceed(c, r) ==
    LET op == call[c].op
        go(pc) == call' = [call EXCEPT ![c].cur = r, ![c].pc = pc]
    IN  CASE op = "Get" -> Return(c, "ok")
          [] op = "Advance" ->
                IF r.status = "ready" THEN go("limit") ELSE Return(c, "refused")
          [] OTHER ->
                IF AlreadyDone(op, r) THEN Return(c, "ok")
                ELSE IF Permitted(op, r) THEN go("write")
                ELSE Return(c, "refused")

\* loadExpected, and the beginning of recover: an active status leads to the
\* look at the slot, which another goroutine may change meanwhile.
Load(c) ==
    /\ At(c, "load")
    /\ IF call[c].op # "Get" /\ rec.rev # call[c].expected
       THEN Return(c, "conflict")
       ELSE IF rec.status \in ActiveStatus
       THEN call' = [call EXCEPT ![c].cur = rec, ![c].pc = "orphan"]
       ELSE Proceed(c, rec)
    /\ UNCHANGED <<rec, deliveries, active, expired, faults, crashes>>

\* Variant with a fault: recover does not look at the slot.
OrphanBlind(c) ==
    /\ At(c, "orphan")
    /\ Goto(c, "recover")
    /\ UNCHANGED <<rec, deliveries, active, expired, faults, crashes>>

Orphan(c) ==
    /\ At(c, "orphan")
    /\ IF active = NoCaller THEN Goto(c, "recover") ELSE Proceed(c, call[c].cur)
    /\ UNCHANGED <<rec, deliveries, active, expired, faults, crashes>>

\* A recovered record has a new revision, so only Get is content with it.
Recover(c) ==
    /\ At(c, "recover")
    /\ \E answer \in Answers :
          /\ CAS(c, Recovered(call[c].cur), answer)
          /\ Return(c, IF answer \notin {"ok", "conflict"} THEN answer
                       ELSE IF call[c].op = "Get" THEN "ok" ELSE "conflict")
    /\ UNCHANGED <<deliveries, active, expired, crashes>>

\* applyLimit before a stage.
Limit(c) ==
    /\ At(c, "limit")
    /\ IF OverLimit(call[c].cur, expired)
       THEN \E answer \in Answers :
               CAS(c, Limited(call[c].cur), answer) /\ Return(c, answer)
       ELSE Goto(c, "reserve") /\ UNCHANGED <<rec, faults>>
    /\ UNCHANGED <<deliveries, active, expired, crashes>>

\* Variant with a fault: a stage takes the slot from another.
ReserveTaken(c) ==
    /\ At(c, "reserve")
    /\ active' = c
    /\ call' = [call EXCEPT ![c].pc = "start", ![c].cancelled = FALSE]
    /\ UNCHANGED <<rec, deliveries, expired, faults, crashes>>

\* A decision needs durable work; then the stage takes the free slot.
Reserve(c) ==
    /\ At(c, "reserve")
    /\ IF call[c].cur.phase = "decision" /\ call[c].cur.attempt.work = "none"
       THEN Return(c, "invalid") /\ UNCHANGED active
       ELSE IF active # NoCaller
       THEN Return(c, "busy") /\ UNCHANGED active
       ELSE /\ active' = c
            /\ call' = [call EXCEPT ![c].pc = "start", ![c].cancelled = FALSE]
    /\ UNCHANGED <<rec, deliveries, expired, faults, crashes>>

Start(c) ==
    /\ At(c, "start")
    /\ \E answer \in Answers :
          /\ CAS(c, Started(call[c].cur), answer)
          /\ IF answer = "ok"
             THEN call' = [call EXCEPT ![c].pc = "stage", ![c].cur = rec',
                                       ![c].tries = 0]
             ELSE Leave(c, answer)
    /\ UNCHANGED <<deliveries, active, expired, crashes>>

\* Worker.Run or Controller.Decide returns.
Stage(c) ==
    /\ At(c, "stage")
    /\ \E o \in IF call[c].cur.phase = "work" THEN WorkOutcomes ELSE DecisionOutcomes :
          call' = [call EXCEPT ![c].pc = "finish", ![c].outcome = o]
    /\ UNCHANGED <<rec, deliveries, active, expired, faults, crashes>>

\* Variant with a fault: finishStage goes on with the record it started from.
FinishStale(c) ==
    /\ At(c, "finish")
    /\ IF call[c].tries >= MaxReconciliations THEN Leave(c, "conflict")
       ELSE call' = [call EXCEPT ![c].pc = "commit", ![c].tries = @ + 1]
    /\ UNCHANGED <<rec, deliveries, active, expired, faults, crashes>>

\* One round of finishStage: load the latest record, then write the outcome.
Finish(c) ==
    /\ At(c, "finish")
    /\ IF call[c].tries >= MaxReconciliations THEN Leave(c, "conflict")
       ELSE IF Terminal(rec)
       THEN Leave(c, IF call[c].outcome.verdict = "error" THEN "failed" ELSE "ok")
       ELSE call' = [call EXCEPT ![c].pc = "commit", ![c].cur = rec,
                                 ![c].tries = @ + 1]
    /\ UNCHANGED <<rec, deliveries, active, expired, faults, crashes>>

Outcome(r, o) ==
    IF o.of = "work" THEN WorkOutcome(r, o) ELSE DecisionOutcome(r, o)

\* After a durable outcome, completed work is handed to a decision stage and
\* a decision that made the execution ready is held against the limits.
Commit(c) ==
    /\ At(c, "commit")
    /\ LET o == call[c].outcome
           next == Outcome(call[c].cur, o)
           answered == IF o.verdict = "error" THEN "failed" ELSE "ok"
           after == CASE o.verdict = "error" -> "release"
                      [] o.verdict # "error" /\ o.of = "work"
                         /\ next.status = "ready" /\ next.phase = "decision" -> "handoff"
                      [] o.verdict # "error" /\ o.of = "decision"
                         /\ next.status = "ready" -> "settle"
                      [] OTHER -> "release"
       IN  \E answer \in Answers :
              /\ CAS(c, next, answer)
              /\ CASE answer = "ok" ->
                        call' = [call EXCEPT
                            ![c].pc = after, ![c].cur = rec', ![c].answer = answered]
                   [] answer = "conflict" -> Goto(c, "finish")
                   [] OTHER -> Leave(c, answer)
    /\ UNCHANGED <<deliveries, active, expired, crashes>>

\* applyLimit after a decision, still in the slot.
Settle(c) ==
    /\ At(c, "settle")
    /\ IF OverLimit(call[c].cur, expired)
       THEN \E answer \in Answers :
               CAS(c, Limited(call[c].cur), answer) /\ Leave(c, answer)
       ELSE Leave(c, "ok") /\ UNCHANGED <<rec, faults>>
    /\ UNCHANGED <<deliveries, active, expired, crashes>>

\* advanceWork releases the slot and goes on to the decision, which reserves
\* it again: another caller may take it in between.
Handoff(c) ==
    /\ At(c, "handoff")
    /\ active' = NoCaller
    /\ call' = [call EXCEPT ![c].pc = "limit", ![c].tries = 0, ![c].outcome = NoOutcome,
                            ![c].cancelled = FALSE]
    /\ UNCHANGED <<rec, deliveries, expired, faults, crashes>>

Release(c) ==
    /\ At(c, "release")
    /\ active' = NoCaller
    /\ Return(c, call[c].answer)
    /\ UNCHANGED <<rec, deliveries, expired, faults, crashes>>

\* A control operation writes its record.
Write(c) ==
    /\ At(c, "write")
    /\ LET op == call[c].op
       IN  \E answer \in Answers :
              /\ CAS(c, Applied(op, call[c].cur), answer)
              /\ deliveries' = IF op \in SignalIds /\ rec'.rev # rec.rev
                               THEN [deliveries EXCEPT ![op] = @ + 1] ELSE deliveries
              /\ IF answer = "ok" /\ op \in {"Pause", "Cancel", "Fail"}
                 THEN Goto(c, "cancelActive")
                 ELSE IF answer = "conflict" /\ op \in SignalIds
                 THEN Goto(c, "recheck")
                 ELSE Return(c, answer)
    /\ UNCHANGED <<active, expired, crashes>>

\* Variant with a fault: nobody cancels the stage.
CancelActiveNever(c) ==
    /\ At(c, "cancelActive")
    /\ Return(c, "ok")
    /\ UNCHANGED <<rec, deliveries, active, expired, faults, crashes>>

\* cancelActive cancels whatever stage holds the slot by now.
CancelActive(c) ==
    /\ At(c, "cancelActive")
    /\ call' = [d \in Callers |->
                  IF d = c THEN Idle("ok")
                  ELSE IF d = active THEN [call[d] EXCEPT !.cancelled = TRUE]
                  ELSE call[d]]
    /\ UNCHANGED <<rec, deliveries, active, expired, faults, crashes>>

\* signalConflict looks for the signal in the history once more.
Recheck(c) ==
    /\ At(c, "recheck")
    /\ Return(c, IF deliveries[call[c].op] > 0 THEN "ok" ELSE "conflict")
    /\ UNCHANGED <<rec, deliveries, active, expired, faults, crashes>>

\* The process dies and a new Engine opens the store.
Crash ==
    /\ crashes < MaxCrashes
    /\ crashes' = crashes + 1
    /\ active' = NoCaller
    /\ call' = [c \in Callers |-> Idle("ok")]
    /\ UNCHANGED <<rec, deliveries, expired, faults>>

DeadlinePasses ==
    /\ HasDeadline /\ ~expired
    /\ expired' = TRUE
    /\ UNCHANGED <<rec, deliveries, active, call, faults, crashes>>

\* The engine's own steps: all but the start of an operation and the return of
\* a handler.
Step(c) ==
    \/ Admit(c) \/ Dedupe(c) \/ Load(c) \/ Orphan(c) \/ Recover(c)
    \/ Limit(c) \/ Reserve(c) \/ Start(c) \/ Finish(c) \/ Commit(c)
    \/ Settle(c) \/ Handoff(c) \/ Release(c)
    \/ Write(c) \/ CancelActive(c) \/ Recheck(c)

Next ==
    \/ \E c \in Callers : Step(c) \/ Stage(c) \/ \E op \in Requests : Begin(c, op)
    \/ Crash
    \/ DeadlinePasses

Spec == Init /\ [][Next]_vars

\* Goroutines are scheduled, and a handler whose context has been cancelled
\* returns; a handler left alone may run for ever.
Fairness == \A c \in Callers :
    WF_vars(Step(c)) /\ WF_vars(Stage(c) /\ call[c].cancelled)

FairSpec == Spec /\ Fairness

-----------------------------------------------------------------------------
(* Properties.                                                             *)

PC == {"idle", "admit", "dedupe", "load", "orphan", "recover", "limit", "reserve",
       "write", "cancelActive", "recheck"} \cup Holding

Frame == [pc : PC, op : Operations, expected : Nat, cur : Record,
          outcome : WorkOutcomes \cup DecisionOutcomes \cup {NoOutcome}, tries : Nat,
          cancelled : BOOLEAN, answer : Answers]

\* Every variable has its type, and the journal stays within its bound.
TypeOK ==
    /\ rec \in Record /\ rec.rev \in 1..MaxTransitions
    /\ deliveries \in [SignalIds -> Nat]
    /\ active \in Callers \cup {NoCaller}
    /\ call \in [Callers -> Frame]
    /\ expired \in BOOLEAN
    /\ faults \in Nat /\ crashes \in Nat

\* No transition the engine computes, on any record it may load, is one the
\* store's validateRecord refuses: a refused outcome would strand the stage.
NoRecordRefused == \A c \in Callers : call[c].answer # "invalid"

\* While a stage executes, the slot is its caller's and the durable record is
\* still its attempt, in its phase, and not settled by anyone but Fail: an
\* outcome can never be written into a state its stage did not start from.
StageOwnsRecord ==
    \A c \in Callers : call[c].pc \in Executing =>
        /\ active = c
        /\ rec.attempt.num = rec.attempts /\ rec.attempt.num = call[c].cur.attempt.num
        /\ rec.phase = call[c].cur.phase /\ rec.attempt.phase = rec.phase
        /\ rec.status \in ActiveStatus \cup {"failed"}

\* Pause and cancel requests can make finishStage reload only so often: it
\* never gives up for control contention and drops a stage's outcome.
FewReconciliations == \A c \in Callers : call[c].tries <= 4

\* The Controller only judges complete work: evidence that came with an error,
\* which the record also keeps, never reaches a decision stage.
FailedWorkNotJudged ==
    rec.status \in ActiveStatus \cup {"ready"} /\ rec.phase = "decision"
        => rec.attempt.work = "full"

\* However many callers advance, no more attempts start than the limit allows.
AttemptsWithinLimit == MaxAttempts > 0 => rec.attempts <= MaxAttempts

\* One signal ID wakes the execution at most once in its whole history.
SignalOnce == \A s \in SignalIds : deliveries[s] <= 1

\* A persisted intent is final: after cancel_requested only cancelled (or
\* Fail) can follow, after pause_requested only the pause or a stronger
\* intent, after a terminal status nothing.
IntentHonoured ==
    [][/\ Terminal(rec) => UNCHANGED rec
       /\ rec.status = "cancel_requested" =>
              rec'.status \in {"cancel_requested", "cancelled", "failed"}
       /\ rec.status = "pause_requested" =>
              rec'.status \in {"pause_requested", "paused", "cancel_requested", "failed"}
      ]_vars

\* An attempt is left behind only by the decision on its complete work or by
\* an explicit RetryWork: pausing, resuming and recovering never rerun work
\* that may have had effects.
NoSilentRerun ==
    [][rec.attempt.num # 0 /\ rec'.attempt.num # rec.attempt.num =>
          \/ rec'.cause = "controller_action" /\ rec.attempt.work = "full"
          \/ rec'.cause = "retry_work" /\ rec.phase = "work"]_vars

\* The turns of an attempt are charged in the very step that stores its first
\* result, and a stored result is never withdrawn: no crash, retry or late
\* outcome charges work twice.
WorkChargedOnce ==
    [][/\ rec'.turns # rec.turns =>
              /\ rec.attempt.work = "none" /\ rec'.attempt.work # "none"
              /\ rec'.attempt.num = rec.attempt.num
       /\ rec'.attempt.num = rec.attempt.num /\ rec.attempt.work # "none" =>
              rec'.attempt.work = rec.attempt.work]_vars

\* A wakeup reaches a Worker that returns.  It leaves the record only with the
\* execution itself or into the attempt whose Worker is given it; and while no
\* write has failed and no process died, that attempt is not left behind before
\* its Worker's result is stored.  A start that is stored but reported as
\* failed runs no Worker: the wakeup then stays with the attempt, which nothing
\* but an explicit RetryWork discards.
WakeupReachesWorker ==
    [][/\ rec.activation # "none" /\ rec'.activation # rec.activation =>
              \/ Terminal(rec')
              \/ rec'.cause = "stage_start" /\ rec'.attempt.activation = rec.activation
       /\ rec.attempt.num # 0 /\ rec.attempt.activation # "none"
          /\ rec.attempt.work = "none" /\ rec'.attempt.num # rec.attempt.num =>
              rec'.cause = "retry_work" /\ faults + crashes > 0]_vars

\* A requested pause or cancellation ends the stage: the status leaves the
\* active ones, unless the journal is full.
RequestSettles ==
    rec.status \in {"pause_requested", "cancel_requested"} ~>
        rec.status \notin ActiveStatus \/ rec.rev >= MaxTransitions

\* The stage whose handler runs, and the execution as its host sees it.
RunningStage ==
    IF active \in Callers /\ call[active].pc \in Executing
    THEN call[active].cur.phase ELSE "none"

Lifecycle == INSTANCE ContinuationLifecycle WITH
    status <- rec.status, phase <- rec.phase, evidence <- rec.attempt.work,
    resume <- [status |-> rec.suspension.status, phase |-> rec.suspension.phase,
               retry |-> rec.suspension.retry],
    stage <- RunningStage

\* The engine implements the documented life cycle: in particular it never
\* reconciles, limits or starts anything while a handler runs.
ImplementsLifecycle == Lifecycle!Spec

-----------------------------------------------------------------------------
(* What the documentation says and the code does not do.                   *)

\* docs/agent/orchestration-continuation.md, on limits: after the n-th work
\* its decision is still made, and only the next work is prevented.
DecisionFollowsWork ==
    [][rec'.cause = "limit" /\ rec.cause # "limit" =>
          ~(rec.phase = "decision" /\ rec.attempt.work = "full")]_vars

\* The same document, on control: the engine first persists the request, then
\* cancels the context of the active stage.
StageCancelledOnRequest ==
    \A c \in Callers : call[c].pc = "stage" /\ call[c].cancelled =>
        rec.status \in {"pause_requested", "cancel_requested", "failed"}

\* Signal's comment and the same document: delivering an ID again is
\* idempotent, so a signal in the history is never answered with a conflict.
SignalIdempotent ==
    [][\A c \in Callers :
          /\ call[c].op \in SignalIds /\ call[c].pc # "idle"
          /\ call'[c].pc = "idle" /\ call'[c].answer = "conflict"
          => deliveries[call[c].op] = 0]_vars
=============================================================================
