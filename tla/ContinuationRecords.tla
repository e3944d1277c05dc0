------------------------ MODULE ContinuationRecords ------------------------
(***************************************************************************)
(* The durable record of a continuation execution (agent/continuation):    *)
(* its fields, what a store demands of it, and the record each operation   *)
(* of the engine writes, as a function of the record it loaded.            *)
(*                                                                         *)
(* Payloads, reasons, timestamps and token counts are left out.  A wait is *)
(* the set of things that may end it; a key that does not match is a       *)
(* signal the wait does not accept.  An absent attempt or suspension is    *)
(* NoAttempt or NoSuspension.                                              *)
(***************************************************************************)
EXTENDS Naturals

CONSTANTS
    SignalIds,   \* IDs of the signals callers deliver
    MaxAttempts, \* Limits.MaxAttempts; 0 stands for unlimited (-1 in the code)
    MaxTurns,    \* Limits.MaxTurns; 0 is unset, as in the code
    HasDeadline  \* whether Limits.Deadline is set

Control == {"Pause", "Resume", "RetryWork", "RetryDecision", "ResolveBlock",
            "ResumeDue", "Cancel", "Fail"}

Operations == Control \cup SignalIds \cup {"Advance", "Get"}

ASSUME RecordsAssumption ==
    /\ SignalIds \cap (Control \cup {"Advance", "Get"}) = {}
    /\ MaxAttempts \in Nat /\ MaxTurns \in Nat /\ HasDeadline \in BOOLEAN

-----------------------------------------------------------------------------
TerminalStatus == {"completed", "failed", "cancelled", "limited"}

\* Statuses of an execution whose stage has an owner.
ActiveStatus == {"running", "pause_requested", "cancel_requested"}

Status == TerminalStatus \cup ActiveStatus
          \cup {"ready", "waiting", "paused", "blocked", "interrupted"}

Phase == {"work", "decision"}

Activation == {"none", "initial", "time", "signal", "block"}

Wait == SUBSET {"time", "signal"}

NoSuspension == [status |-> "none", phase |-> "work", wait |-> {},
                 block |-> FALSE, retry |-> FALSE]

NoAttempt == [num |-> 0, phase |-> "work", work |-> "none", activation |-> "none"]

\* work: no result yet, a result returned with an error, a complete result.
Attempt == [num : Nat, phase : Phase, work : {"none", "partial", "full"},
            activation : Activation]

Suspension == [status : Status \cup {"none"}, phase : Phase, wait : Wait,
               block : BOOLEAN, retry : BOOLEAN]

Cause == {"create", "stage_start", "work_complete", "stage_interrupted",
          "controller_action", "pause_requested", "pause", "resume", "retry_work",
          "retry_decision", "signal", "time_wake", "block_resolved",
          "cancel_requested", "cancel", "fail", "limit", "recovery"}

Record == [rev : Nat, status : Status, phase : Phase, activation : Activation,
           wait : Wait, block : BOOLEAN, suspension : Suspension,
           attempt : Attempt, attempts : Nat, turns : Nat, cause : Cause]

Created == [rev |-> 1, status |-> "ready", phase |-> "work",
            activation |-> "initial", wait |-> {}, block |-> FALSE,
            suspension |-> NoSuspension, attempt |-> NoAttempt,
            attempts |-> 0, turns |-> 0, cause |-> "create"]

Terminal(r) == r.status \in TerminalStatus

ValidSuspension(s) ==
    /\ s.status \in {"ready", "waiting", "blocked", "interrupted"}
    /\ s.status \in {"ready", "interrupted"} => s.wait = {} /\ ~s.block
    /\ s.status = "waiting" => s.wait # {}
    /\ s.status = "blocked" => s.block
    /\ s.retry => s.phase = "work"

\* What validateRecord demands before a store writes a record.
ValidRecord(r) ==
    /\ r.status \in Status
    /\ r.suspension # NoSuspension => ValidSuspension(r.suspension)
    /\ r.attempt.num <= r.attempts
    /\ r.status = "ready" =>
           /\ r.wait = {} /\ ~r.block /\ r.suspension = NoSuspension
           /\ r.phase = "decision" => r.attempt.num # 0 /\ r.attempt.work # "none"
    /\ r.status \in ActiveStatus =>
           /\ r.attempt.num # 0 /\ r.attempt.phase = r.phase
           /\ r.phase = "decision" => r.attempt.work # "none"
    /\ r.status = "waiting" => r.wait # {} /\ r.phase = "work"
    /\ r.status = "blocked" => r.block /\ r.phase = "work"
    /\ r.status = "paused" => r.suspension # NoSuspension
    /\ r.status = "interrupted" => r.attempt.num # 0

\* Variant with a fault: the limit is compared one attempt too late.
OverLimitLate(r, expired) ==
    \/ r.phase = "work" /\ MaxAttempts > 0 /\ r.attempts > MaxAttempts
    \/ MaxTurns > 0 /\ r.turns >= MaxTurns
    \/ HasDeadline /\ expired

\* The limits already exhausted when a stage of r's phase would start.
OverLimit(r, expired) ==
    \/ r.phase = "work" /\ MaxAttempts > 0 /\ r.attempts >= MaxAttempts
    \/ MaxTurns > 0 /\ r.turns >= MaxTurns
    \/ HasDeadline /\ expired

-----------------------------------------------------------------------------
(* The records the operations write: each is a function of the record the  *)
(* operation loaded; CAS below stamps the revision.                        *)

Limited(r) == [r EXCEPT !.status = "limited", !.wait = {}, !.block = FALSE,
                        !.suspension = NoSuspension, !.cause = "limit"]

Started(r) ==
    IF r.phase = "work"
    THEN [r EXCEPT !.status = "running", !.activation = "none",
                   !.attempts = @ + 1, !.cause = "stage_start",
                   !.attempt = [num |-> r.attempts + 1, phase |-> "work",
                                work |-> "none", activation |-> r.activation]]
    ELSE [r EXCEPT !.status = "running", !.cause = "stage_start",
                   !.attempt.phase = "decision"]

\* Pausing an active stage: Resume will find a ready execution in phase p.
PausedAs(r, p, retry) ==
    [r EXCEPT !.status = "paused", !.phase = p, !.cause = "pause",
              !.suspension = [NoSuspension EXCEPT !.status = "ready", !.phase = p,
                                                  !.retry = retry]]

Interrupted(r, p) == [r EXCEPT !.status = "interrupted", !.phase = p,
                               !.cause = "stage_interrupted"]

\* Variants with a fault: a pause does not ask whether the work succeeded; an
\* error is looked at before the requests.
WorkOutcomePauseForgetsError(r, o) ==
    LET done == [r EXCEPT !.turns = @ + o.turns, !.attempt.work =
                               IF o.verdict = "error" THEN "partial" ELSE "full"]
    IN  IF r.status # "pause_requested" THEN Interrupted(done, "work")
        ELSE PausedAs([done EXCEPT !.attempt.phase = "decision"], "decision", FALSE)

WorkOutcomeErrorFirst(r, o) == Interrupted([r EXCEPT !.attempt.work = "partial"], "work")

\* Worker.Run has returned o: the result is kept even when it came with an error.
WorkOutcome(r, o) ==
    LET done == [r EXCEPT !.turns = @ + o.turns, !.attempt.phase = "work",
                          !.attempt.work = IF o.verdict = "error" THEN "partial"
                                                                  ELSE "full"]
    IN  CASE r.attempt.num = 0 -> [r EXCEPT !.cause = "stage_interrupted"]
          [] r.attempt.num # 0 /\ r.status = "cancel_requested" ->
                [done EXCEPT !.status = "cancelled", !.wait = {}, !.block = FALSE,
                             !.suspension = NoSuspension, !.cause = "cancel"]
          [] r.attempt.num # 0 /\ r.status = "pause_requested" ->
                IF o.verdict = "error"
                THEN PausedAs(done, "work", TRUE)
                ELSE PausedAs([done EXCEPT !.attempt.phase = "decision"],
                              "decision", FALSE)
          [] r.attempt.num # 0 /\ r.status = "running" ->
                IF o.verdict = "error"
                THEN Interrupted(done, "work")
                ELSE [done EXCEPT !.status = "ready", !.phase = "decision",
                                  !.attempt.phase = "decision",
                                  !.cause = "work_complete"]
          [] OTHER -> [done EXCEPT !.cause = "stage_interrupted"]

\* The Controller's decision replaces wait, block and suspension, and closes
\* the attempt (it becomes LastAttempt).
Decided(r, o) ==
    LET closed == [r EXCEPT !.attempt = NoAttempt, !.wait = {}, !.block = FALSE,
                            !.suspension = NoSuspension,
                            !.cause = "controller_action"]
    IN  CASE o.verdict = "continue" -> [closed EXCEPT !.status = "ready", !.phase = "work"]
          [] o.verdict = "wait" -> [closed EXCEPT !.status = "waiting", !.phase = "work",
                                                  !.wait = o.wait]
          [] o.verdict = "block" -> [closed EXCEPT !.status = "blocked", !.phase = "work",
                                                   !.block = TRUE]
          [] o.verdict = "complete" -> [closed EXCEPT !.status = "completed", !.phase = "decision"]
          [] o.verdict = "fail" -> [closed EXCEPT !.status = "failed", !.phase = "decision"]
          [] OTHER -> [closed EXCEPT !.status = "cancelled", !.phase = "decision"]

DecisionOutcome(r, o) ==
    CASE r.attempt.num # 0 /\ r.status = "cancel_requested" ->
            [r EXCEPT !.status = "cancelled", !.suspension = NoSuspension,
                      !.cause = "cancel"]
      [] r.attempt.num # 0 /\ r.status = "pause_requested" ->
            PausedAs(r, "decision", FALSE)
      [] r.attempt.num # 0 /\ r.status = "running" ->
            IF o.verdict = "error" THEN Interrupted(r, "decision") ELSE Decided(r, o)
      [] OTHER -> [r EXCEPT !.cause = "stage_interrupted"]

\* Variants with a fault: a paused orphan without its suspension; an orphan
\* whose attempt is reset.
RecoveredUnsuspended(r) ==
    [r EXCEPT !.status = IF r.status = "running" THEN "interrupted"
                         ELSE IF r.status = "pause_requested" THEN "paused"
                         ELSE "cancelled", !.cause = "recovery"]

RecoveredReset(r) ==
    [r EXCEPT !.status = IF r.status = "running" THEN "interrupted" ELSE "cancelled",
              !.attempt.work = "none", !.cause = "recovery"]

\* What recover writes for an active status that no local stage owns.
Recovered(r) ==
    CASE r.status = "running" ->
            [r EXCEPT !.status = "interrupted", !.cause = "recovery"]
      [] r.status = "pause_requested" ->
            [r EXCEPT !.status = "paused", !.cause = "recovery",
                      !.suspension = [status |-> "ready", phase |-> r.phase,
                                      wait |-> r.wait, block |-> r.block,
                                      retry |-> r.phase = "work" /\ r.attempt.work = "none"]]
      [] OTHER ->
            [r EXCEPT !.status = "cancelled", !.wait = {}, !.block = FALSE,
                      !.activation = "none", !.suspension = NoSuspension,
                      !.cause = "recovery"]

\* Control operations: already done, permitted, and the record they write.
AlreadyDone(op, r) ==
    \/ op = "Pause" /\ r.status \in {"paused", "pause_requested"}
    \/ op = "Cancel" /\ r.status \in {"cancelled", "cancel_requested"}

\* Variant with a fault: Resume goes past a required retry.
PermittedPastRetry(op, r) ==
    /\ ~Terminal(r)
    /\ \/ op \in {"Pause", "Cancel"}
       \/ op = "Resume" /\ r.status = "paused"

Permitted(op, r) ==
    /\ ~Terminal(r)
    /\ CASE op = "Pause" -> r.status # "cancel_requested"
         [] op = "Resume" -> r.status = "paused" /\ r.suspension # NoSuspension
                             /\ ~r.suspension.retry
         [] op = "RetryWork" ->
              IF r.status = "paused" /\ r.suspension # NoSuspension
              THEN r.suspension.phase = "work" /\ r.suspension.retry
              ELSE r.status = "interrupted" /\ r.phase = "work"
         [] op = "RetryDecision" -> r.status = "interrupted" /\ r.phase = "decision"
                                    /\ r.attempt.work # "none"
         [] op = "ResolveBlock" -> r.status = "blocked"
         [] op = "ResumeDue" -> r.status = "waiting" /\ "time" \in r.wait
         [] op \in SignalIds -> r.status = "waiting" /\ "signal" \in r.wait
         [] OTHER -> TRUE

\* The record of a wakeup: work is ready, for the given reason.
Woken(r, activation, cause) ==
    [r EXCEPT !.status = "ready", !.phase = "work", !.activation = activation,
              !.cause = cause]

Suspended(r) ==
    [r EXCEPT !.status = "paused", !.wait = {}, !.block = FALSE, !.cause = "pause",
              !.suspension = [status |-> r.status, phase |-> r.phase,
                              wait |-> r.wait, block |-> r.block,
                              retry |-> r.status = "interrupted" /\ r.phase = "work"]]

Resumed(r) ==
    [r EXCEPT !.status = r.suspension.status, !.phase = r.suspension.phase,
              !.wait = r.suspension.wait, !.block = r.suspension.block,
              !.suspension = NoSuspension, !.cause = "resume"]

\* Cancel and Fail leave nothing to resume.
Ended(r, status, cause) ==
    [r EXCEPT !.status = status, !.wait = {}, !.block = FALSE, !.activation = "none",
              !.suspension = NoSuspension, !.cause = cause]

Applied(op, r) ==
    CASE op = "Pause" -> IF r.status = "running"
                         THEN [r EXCEPT !.status = "pause_requested",
                                        !.cause = "pause_requested"]
                         ELSE Suspended(r)
      [] op = "Resume" -> Resumed(r)
      [] op = "RetryWork" -> [r EXCEPT !.status = "ready", !.phase = "work",
                                       !.attempt = NoAttempt, !.cause = "retry_work",
                                       !.suspension = NoSuspension]
      [] op = "RetryDecision" -> [r EXCEPT !.status = "ready", !.phase = "decision",
                                           !.cause = "retry_decision"]
      [] op = "ResolveBlock" -> [Woken(r, "block", "block_resolved") EXCEPT !.block = FALSE]
      [] op = "ResumeDue" -> [Woken(r, "time", "time_wake") EXCEPT !.wait = {}]
      [] op \in SignalIds -> [Woken(r, "signal", "signal") EXCEPT !.wait = {}]
      [] op = "Cancel" -> IF r.status \in {"running", "pause_requested"}
                          THEN [r EXCEPT !.status = "cancel_requested",
                                         !.cause = "cancel_requested"]
                          ELSE Ended(r, "cancelled", "cancel")
      [] OTHER -> Ended(r, "failed", "fail")
=============================================================================
