------------------------- MODULE ContinuationProofs -------------------------
(***************************************************************************)
(* Proofs about Continuation, for any callers, signals, limits and bounds. *)
(***************************************************************************)
EXTENDS Continuation, TLAPS

-----------------------------------------------------------------------------
(* The records the operations write are records.                           *)

\* The empty values of a record, and the first record, have their types.
LEMMA NullsTyped ==
    NoSuspension \in Suspension /\ NoAttempt \in Attempt /\ Created \in Record
    /\ NoRecord \in Record
BY DEF NoSuspension, Suspension, NoAttempt, Attempt, Created, NoRecord, Record, Status,
       TerminalStatus, ActiveStatus, Phase, Wait, Activation, Cause

\* Reaching a limit yields a record (limitRecord).
LEMMA LimitedTyped == ASSUME NEW r \in Record PROVE Limited(r) \in Record
BY NullsTyped DEF Limited, Record, Status, TerminalStatus, Wait, Cause

\* Starting a stage yields a record, with a new attempt for work.
LEMMA StartedTyped == ASSUME NEW r \in Record PROVE Started(r) \in Record
<1>1. CASE r.phase = "work"
  <2> DEFINE a == [num |-> r.attempts + 1, phase |-> "work", work |-> "none",
                   activation |-> r.activation]
             s == [r EXCEPT !.status = "running", !.activation = "none",
                            !.attempts = @ + 1, !.cause = "stage_start", !.attempt = a]
  <2>1. a \in Attempt
    BY DEF Attempt, Record, Phase
  <2>2. s \in Record
    <3> DEFINE n == r.attempts + 1
    <3>1. n \in Nat
      BY DEF Record
    <3> HIDE DEF a, n
    <3>2. [r EXCEPT !.status = "running", !.activation = "none", !.attempts = n,
                    !.cause = "stage_start", !.attempt = a] \in Record
      BY <2>1, <3>1 DEF Record, Status, ActiveStatus, Activation, Cause
    <3> QED BY <3>2 DEF n
  <2> QED BY <1>1, <2>2 DEF Started
<1>2. CASE r.phase # "work"
  <2> DEFINE a == [r.attempt EXCEPT !.phase = "decision"]
             s == [r EXCEPT !.status = "running", !.cause = "stage_start", !.attempt = a]
  <2>1. a \in Attempt
    BY DEF Attempt, Record, Phase
  <2>2. s \in Record
    <3> HIDE DEF a
    <3> QED BY <2>1 DEF Record, Status, ActiveStatus, Cause
  <2> QED BY <1>2, <2>2 DEF Started
<1> QED BY <1>1, <1>2

\* A stage that ends in a pause yields a record.
LEMMA PausedAsTyped ==
    ASSUME NEW r \in Record, NEW p \in Phase, NEW retry \in BOOLEAN
    PROVE  PausedAs(r, p, retry) \in Record
BY DEF PausedAs, Record, Status, Suspension, NoSuspension, Wait, Cause, Phase

\* A stage that is interrupted yields a record.
LEMMA InterruptedTyped ==
    ASSUME NEW r \in Record, NEW p \in Phase PROVE Interrupted(r, p) \in Record
BY DEF Interrupted, Record, Status, Cause

\* Whatever the work returned, its outcome yields a record.
LEMMA WorkOutcomeTyped ==
    ASSUME NEW r \in Record, NEW o, o.turns \in Nat PROVE WorkOutcome(r, o) \in Record
<1> DEFINE w == IF o.verdict = "error" THEN "partial" ELSE "full"
           a == [r.attempt EXCEPT !.phase = "work", !.work = w]
           b == [a EXCEPT !.phase = "decision"]
           done == [r EXCEPT !.turns = @ + o.turns, !.attempt = a]
           judged == [done EXCEPT !.attempt = b]
<1>1. a \in Attempt /\ b \in Attempt
  BY DEF Attempt, Record, Phase
<1>3. done \in Record /\ judged \in Record
  <2> DEFINE n == r.turns + o.turns
             d == [r EXCEPT !.turns = n, !.attempt = a]
  <2>1. n \in Nat
    BY DEF Record
  <2> HIDE DEF a, b, n
  <2>2. d \in Record /\ [d EXCEPT !.attempt = b] \in Record
    BY <1>1, <2>1 DEF Record
  <2> QED BY <2>2 DEF n
<1>4. /\ done = [r EXCEPT !.turns = @ + o.turns, !.attempt.phase = "work", !.attempt.work = w]
      /\ judged = [done EXCEPT !.attempt.phase = "decision"]
  BY DEF Record, Attempt
<1> HIDE DEF a, b, w, done, judged
<1>5. CASE r.attempt.num = 0
  BY <1>5 DEF WorkOutcome, Record, Cause
<1>6. CASE r.attempt.num # 0 /\ r.status = "cancel_requested"
  <2>1. [done EXCEPT !.status = "cancelled", !.wait = {}, !.block = FALSE,
                     !.suspension = NoSuspension, !.cause = "cancel"] \in Record
    BY <1>3, NullsTyped DEF Record, Status, TerminalStatus, Wait, Cause
  <2> QED BY <1>4, <1>6, <2>1 DEF WorkOutcome, w
<1>7. CASE r.attempt.num # 0 /\ r.status = "pause_requested"
  <2>1. PausedAs(done, "work", TRUE) \in Record /\ PausedAs(judged, "decision", FALSE) \in Record
    BY <1>3, PausedAsTyped DEF Phase
  <2> QED BY <1>4, <1>7, <2>1 DEF WorkOutcome, w
<1>8. CASE r.attempt.num # 0 /\ r.status = "running"
  <2>1. Interrupted(done, "work") \in Record
    BY <1>3, InterruptedTyped DEF Phase
  <2>2. [judged EXCEPT !.status = "ready", !.phase = "decision",
                       !.cause = "work_complete"] \in Record
    BY <1>3 DEF Record, Status, Phase, Cause
  <2>3. [done EXCEPT !.status = "ready", !.phase = "decision", !.attempt.phase = "decision",
                     !.cause = "work_complete"]
        = [judged EXCEPT !.status = "ready", !.phase = "decision", !.cause = "work_complete"]
    BY <1>3, <1>4 DEF Record
  <2> QED BY <1>4, <1>8, <2>1, <2>2, <2>3 DEF WorkOutcome, w
<1>9. CASE r.attempt.num # 0 /\ r.status \notin ActiveStatus
  <2>1. [done EXCEPT !.cause = "stage_interrupted"] \in Record
    BY <1>3 DEF Record, Cause
  <2> QED BY <1>4, <1>9, <2>1 DEF WorkOutcome, w, ActiveStatus
<1> QED BY <1>5, <1>6, <1>7, <1>8, <1>9 DEF ActiveStatus

\* Every decision of a Controller yields a record.
LEMMA DecidedTyped ==
    ASSUME NEW r \in Record, NEW o, o.wait \in Wait PROVE Decided(r, o) \in Record
<1> DEFINE closed == [r EXCEPT !.attempt = NoAttempt, !.wait = {}, !.block = FALSE,
                               !.suspension = NoSuspension, !.cause = "controller_action"]
<1>1. closed \in Record
  BY NullsTyped DEF Record, Wait, Cause
<1> HIDE DEF closed
<1>2. /\ [closed EXCEPT !.status = "ready", !.phase = "work"] \in Record
      /\ [closed EXCEPT !.status = "waiting", !.phase = "work", !.wait = o.wait] \in Record
      /\ [closed EXCEPT !.status = "blocked", !.phase = "work", !.block = TRUE] \in Record
  BY <1>1 DEF Record, Status, Phase
<1>3. \A s \in {"completed", "failed", "cancelled"} :
         [closed EXCEPT !.status = s, !.phase = "decision"] \in Record
  BY <1>1 DEF Record, Status, TerminalStatus, Phase
<1> QED BY <1>2, <1>3 DEF Decided, closed

\* Whatever the decision stage returned, its outcome yields a record.
LEMMA DecisionOutcomeTyped ==
    ASSUME NEW r \in Record, NEW o, o.wait \in Wait PROVE DecisionOutcome(r, o) \in Record
<1>1. [r EXCEPT !.status = "cancelled", !.suspension = NoSuspension,
                !.cause = "cancel"] \in Record
  BY NullsTyped DEF Record, Status, TerminalStatus, Cause
<1>2. [r EXCEPT !.cause = "stage_interrupted"] \in Record
  BY DEF Record, Cause
<1>3. PausedAs(r, "decision", FALSE) \in Record /\ Interrupted(r, "decision") \in Record
  BY PausedAsTyped, InterruptedTyped DEF Phase
<1> QED BY <1>1, <1>2, <1>3, DecidedTyped DEF DecisionOutcome

\* Cancelling and failing yield a record.
LEMMA EndedTyped ==
    ASSUME NEW r \in Record, NEW s \in TerminalStatus, NEW cause \in Cause
    PROVE  Ended(r, s, cause) \in Record
BY NullsTyped DEF Ended, Record, Status, Wait, Activation

\* Reconciling an orphan yields a record.
LEMMA RecoveredTyped == ASSUME NEW r \in Record PROVE Recovered(r) \in Record
<1>1. [r EXCEPT !.status = "interrupted", !.cause = "recovery"] \in Record
  BY DEF Record, Status, Cause
<1>2. [r EXCEPT !.status = "cancelled", !.wait = {}, !.block = FALSE, !.activation = "none",
                !.suspension = NoSuspension, !.cause = "recovery"] \in Record
  BY EndedTyped DEF Ended, TerminalStatus, Cause
<1>3. [r EXCEPT !.status = "paused", !.cause = "recovery",
                !.suspension = [status |-> "ready", phase |-> r.phase, wait |-> r.wait,
                                block |-> r.block,
                                retry |-> r.phase = "work" /\ r.attempt.work = "none"]]
        \in Record
  <2> DEFINE b == r.phase = "work" /\ r.attempt.work = "none"
  <2>1. b \in BOOLEAN
    OBVIOUS
  <2> HIDE DEF b
  <2>2. [status |-> "ready", phase |-> r.phase, wait |-> r.wait, block |-> r.block,
         retry |-> b] \in Suspension
    BY <2>1 DEF Record, Suspension, Status
  <2>3. [r EXCEPT !.status = "paused", !.cause = "recovery",
                  !.suspension = [status |-> "ready", phase |-> r.phase, wait |-> r.wait,
                                  block |-> r.block, retry |-> b]] \in Record
    BY <2>2 DEF Record, Status, Cause
  <2> QED BY <2>3 DEF b
<1> QED BY <1>1, <1>2, <1>3 DEF Recovered

\* Pausing an inactive execution yields a record.
LEMMA SuspendedTyped == ASSUME NEW r \in Record PROVE Suspended(r) \in Record
<1> DEFINE b == r.status = "interrupted" /\ r.phase = "work"
           q == [status |-> r.status, phase |-> r.phase, wait |-> r.wait,
                 block |-> r.block, retry |-> b]
<1>1. b \in BOOLEAN
  OBVIOUS
<1>2. q \in Suspension
  <2> HIDE DEF b
  <2> QED BY <1>1 DEF Record, Suspension
<1>3. [r EXCEPT !.status = "paused", !.wait = {}, !.block = FALSE, !.cause = "pause",
                !.suspension = q] \in Record
  <2> HIDE DEF q
  <2> QED BY <1>2 DEF Record, Status, Wait, Cause
<1> QED BY <1>3 DEF Suspended

\* Resuming yields a record.
LEMMA ResumedTyped ==
    ASSUME NEW r \in Record, ValidRecord(Resumed(r)) PROVE Resumed(r) \in Record
<1>1. Resumed(r).status = r.suspension.status
  BY DEF Resumed, Record
<1>2. r.suspension.status \in Status
  BY <1>1 DEF ValidRecord
<1> QED BY <1>2, NullsTyped DEF Resumed, Record, Suspension, Cause

\* What a control operation would write is a record, if the store accepts it.
LEMMA AppliedTyped ==
    ASSUME NEW r \in Record, NEW op, ValidRecord(Applied(op, r))
    PROVE  Applied(op, r) \in Record
<1> USE RecordsAssumption DEF Control
<1>1. CASE op = "Pause"
  <2>1. [r EXCEPT !.status = "pause_requested", !.cause = "pause_requested"] \in Record
    BY DEF Record, Status, ActiveStatus, Cause
  <2> QED BY <1>1, <2>1, SuspendedTyped DEF Applied
<1>2. CASE op = "Resume"
  BY <1>2, ResumedTyped DEF Applied
<1>3. CASE op \in {"RetryWork", "RetryDecision"}
  <2>1. /\ [r EXCEPT !.status = "ready", !.phase = "work", !.attempt = NoAttempt,
                     !.cause = "retry_work", !.suspension = NoSuspension] \in Record
        /\ [r EXCEPT !.status = "ready", !.phase = "decision",
                     !.cause = "retry_decision"] \in Record
    BY NullsTyped DEF Record, Status, Phase, Cause
  <2> QED BY <1>3, <2>1 DEF Applied
<1>4. CASE op \in {"ResolveBlock", "ResumeDue"} \cup SignalIds
  <2>1. \A a \in Activation, cause \in Cause :
           /\ [Woken(r, a, cause) EXCEPT !.block = FALSE] \in Record
           /\ [Woken(r, a, cause) EXCEPT !.wait = {}] \in Record
    BY DEF Woken, Record, Status, Phase, Wait
  <2>2. {"block", "time", "signal"} \subseteq Activation
        /\ {"block_resolved", "time_wake", "signal"} \subseteq Cause
    BY DEF Activation, Cause
  <2> QED BY <1>4, <2>1, <2>2 DEF Applied
<1>5. CASE op = "Cancel"
  <2>1. [r EXCEPT !.status = "cancel_requested", !.cause = "cancel_requested"] \in Record
    BY DEF Record, Status, ActiveStatus, Cause
  <2>2. Ended(r, "cancelled", "cancel") \in Record
    BY EndedTyped DEF TerminalStatus, Cause
  <2> QED BY <1>5, <2>1, <2>2 DEF Applied
<1>6. CASE op \notin SignalIds \cup {"Pause", "Resume", "RetryWork", "RetryDecision",
                                    "ResolveBlock", "ResumeDue", "Cancel"}
  <2>1. Ended(r, "failed", "fail") \in Record
    BY EndedTyped DEF TerminalStatus, Cause
  <2> QED BY <1>6, <2>1 DEF Applied
<1> QED BY <1>1, <1>2, <1>3, <1>4, <1>5, <1>6

-----------------------------------------------------------------------------
(* Type correctness.                                                        *)

\* A write leaves a record in the store, within the bound of the journal.
LEMMA CASTyped ==
    ASSUME TypeOK, NEW c \in Callers, NEW next, NEW answer,
           ValidRecord(next) => next \in Record, CAS(c, next, answer)
    PROVE  /\ rec' \in Record /\ rec'.rev \in 1..MaxTransitions /\ faults' \in Nat
           /\ rec' = rec \/ (rec' = Stamped(next) /\ Verdict(c, next) = "ok")
<1>1. rec' = rec \/ (rec' = Stamped(next) /\ Verdict(c, next) = "ok")
  <2>1. CASE answer = Verdict(c, next) /\ rec' = IF answer = "ok" THEN Stamped(next) ELSE rec
    BY <2>1
  <2>2. CASE UNCHANGED rec \/ (Verdict(c, next) = "ok" /\ rec' = Stamped(next))
    BY <2>2
  <2> QED BY <2>1, <2>2 DEF CAS
<1>2. faults' \in Nat
  BY DEF CAS, TypeOK
<1>3. CASE rec' = Stamped(next) /\ Verdict(c, next) = "ok"
  <2>1. next \in Record /\ rec.rev < MaxTransitions /\ rec.rev \in 1..MaxTransitions
    BY <1>3, ConstantsAssumption DEF Verdict, TypeOK, Record
  <2> DEFINE n == rec.rev + 1
  <2>2. n \in Nat /\ n \in 1..MaxTransitions
    BY <2>1, ConstantsAssumption
  <2> HIDE DEF n
  <2>3. [next EXCEPT !.rev = n] \in Record /\ [next EXCEPT !.rev = n].rev = n
    BY <2>1, <2>2 DEF Record
  <2> QED BY <1>2, <1>3, <2>2, <2>3 DEF Stamped, n
<1> QED BY <1>1, <1>2, <1>3 DEF TypeOK

\* A caller that has returned has a frame.
LEMMA IdleTyped == ASSUME NEW a \in Answers PROVE Idle(a) \in Frame
BY NullsTyped DEF Idle, Frame, PC, Operations, NoOutcome

\* Moving on within a frame keeps its type.
LEMMA MoveTyped ==
    ASSUME TypeOK, NEW c \in Callers
    PROVE  /\ \A p \in PC : [call EXCEPT ![c].pc = p] \in [Callers -> Frame]
           /\ \A a \in Answers : [call EXCEPT ![c] = Idle(a)] \in [Callers -> Frame]
           /\ \A p \in PC, a \in Answers :
                 [call EXCEPT ![c].pc = p, ![c].answer = a] \in [Callers -> Frame]
           /\ \A p \in PC, r \in Record :
                 [call EXCEPT ![c].cur = r, ![c].pc = p] \in [Callers -> Frame]
<1>1. call \in [Callers -> Frame]
  BY DEF TypeOK
<1>2. \A f \in Frame, p \in PC :
         /\ [f EXCEPT !.pc = p] \in Frame
         /\ \A a \in Answers : [f EXCEPT !.pc = p, !.answer = a] \in Frame
         /\ \A r \in Record : [f EXCEPT !.cur = r, !.pc = p] \in Frame
  BY DEF Frame
<1>3. call[c] \in Frame
  BY <1>1
<1>4. \A f \in Frame : [call EXCEPT ![c] = f] \in [Callers -> Frame]
  BY <1>1
<1>5. \A p \in PC : [call EXCEPT ![c].pc = p] \in [Callers -> Frame]
  <2> TAKE p \in PC
  <2>1. [call EXCEPT ![c].pc = p] = [call EXCEPT ![c] = [call[c] EXCEPT !.pc = p]]
    BY <1>1
  <2> QED BY <2>1, <1>2, <1>3, <1>4
<1>6. \A a \in Answers : [call EXCEPT ![c] = Idle(a)] \in [Callers -> Frame]
  BY <1>4, IdleTyped
<1>7. \A p \in PC, a \in Answers :
         [call EXCEPT ![c].pc = p, ![c].answer = a] \in [Callers -> Frame]
  <2> TAKE p \in PC, a \in Answers
  <2>1. [call EXCEPT ![c].pc = p, ![c].answer = a]
          = [call EXCEPT ![c] = [call[c] EXCEPT !.pc = p, !.answer = a]]
    BY <1>1
  <2> QED BY <2>1, <1>2, <1>3, <1>4
<1>8. \A p \in PC, r \in Record :
         [call EXCEPT ![c].cur = r, ![c].pc = p] \in [Callers -> Frame]
  <2> TAKE p \in PC, r \in Record
  <2>1. [call EXCEPT ![c].cur = r, ![c].pc = p]
          = [call EXCEPT ![c] = [call[c] EXCEPT !.cur = r, !.pc = p]]
    BY <1>1
  <2> QED BY <2>1, <1>2, <1>3, <1>4
<1> QED BY <1>5, <1>6, <1>7, <1>8

\* A caller that goes on with the record it loaded has a frame.
LEMMA ProceedTyped ==
    ASSUME TypeOK, NEW c \in Callers, NEW r \in Record, Proceed(c, r)
    PROVE  call' \in [Callers -> Frame]
<1>1. \/ call' = [call EXCEPT ![c] = Idle("ok")]
      \/ call' = [call EXCEPT ![c] = Idle("refused")]
      \/ call' = [call EXCEPT ![c].cur = r, ![c].pc = "limit"]
      \/ call' = [call EXCEPT ![c].cur = r, ![c].pc = "write"]
  BY DEF Proceed, Return
<1>2. {"ok", "refused"} \subseteq Answers /\ {"limit", "write"} \subseteq PC
  BY DEF PC, Answers
<1> QED BY <1>1, <1>2, MoveTyped

\* Whatever a handler returned, the outcome of a stage is a record.
LEMMA OutcomeTyped ==
    ASSUME NEW r \in Record, NEW o \in WorkOutcomes \cup DecisionOutcomes \cup {NoOutcome}
    PROVE  Outcome(r, o) \in Record
<1>1. CASE o.of = "work"
  <2>1. o.turns \in Nat
    <3>1. CASE o \in WorkOutcomes
      BY <3>1, ConstantsAssumption DEF WorkOutcomes
    <3>2. CASE o \in DecisionOutcomes
      BY <3>2, <1>1 DEF DecisionOutcomes
    <3> QED BY <3>1, <3>2 DEF NoOutcome
  <2> QED BY <1>1, <2>1, WorkOutcomeTyped DEF Outcome
<1>2. CASE o.of # "work"
  <2>1. o.wait \in Wait
    BY <1>2 DEF WorkOutcomes, DecisionOutcomes, NoOutcome, Wait
  <2> QED BY <1>2, <2>1, DecisionOutcomeTyped DEF Outcome
<1> QED BY <1>1, <1>2

\* The first state has its types.
LEMMA TypeInit == Init => TypeOK
<1> SUFFICES ASSUME Init PROVE TypeOK
  OBVIOUS
<1>1. rec \in Record /\ rec.rev \in 1..MaxTransitions
  BY NullsTyped, ConstantsAssumption DEF Init, Created
<1>2. call \in [Callers -> Frame]
  BY IdleTyped DEF Init, Answers
<1> QED BY <1>1, <1>2 DEF Init, TypeOK

\* Every step keeps the types, and the journal within its bound.
LEMMA TypeStep == TypeOK /\ [Next]_vars => TypeOK'
<1> SUFFICES ASSUME TypeOK, [Next]_vars PROVE TypeOK'
  OBVIOUS
<1> DEFINE Rest == /\ rec' \in Record /\ rec'.rev \in 1..MaxTransitions
                   /\ deliveries' \in [SignalIds -> Nat]
                   /\ active' \in Callers \cup {NoCaller} /\ expired' \in BOOLEAN
                   /\ faults' \in Nat /\ crashes' \in Nat
<1>a. call \in [Callers -> Frame] /\ \A c \in Callers : call[c] \in Frame
  BY DEF TypeOK
<1>c. {"finish", "release"} \subseteq PC
  BY DEF PC, Holding
<1>b. ASSUME Rest, call' \in [Callers -> Frame] PROVE TypeOK'
  BY <1>b DEF TypeOK
<1>1. ASSUME NEW c \in Callers, NEW op \in Requests, Begin(c, op) PROVE TypeOK'
  <2>1. Rest
    BY <1>1 DEF Begin, TypeOK
  <2> DEFINE pc == CASE op = "Advance" -> "admit" [] op \in SignalIds -> "dedupe"
                     [] OTHER -> "load"
             f == [Idle("ok") EXCEPT !.op = op, !.expected = rec.rev, !.pc = pc]
  <2>2. pc \in PC /\ op \in Operations /\ rec.rev \in Nat /\ Idle("ok") \in Frame
    BY ConstantsAssumption, IdleTyped DEF PC, TypeOK, Answers, Record
  <2>3. f \in Frame
    <3> HIDE DEF pc
    <3> QED BY <2>2 DEF Frame
  <2>4. call' = [call EXCEPT ![c] = f]
    BY <1>1 DEF Begin
  <2> HIDE DEF f
  <2> QED BY <2>1, <2>3, <2>4 DEF TypeOK
<1>2. ASSUME NEW c \in Callers, Admit(c) \/ Dedupe(c) \/ Load(c) \/ Orphan(c) PROVE TypeOK'
  <2>1. Rest
    BY <1>2 DEF Admit, Dedupe, Load, Orphan, TypeOK
  <2>2. {"load", "orphan", "recover"} \subseteq PC /\ {"ok", "busy", "conflict"} \subseteq Answers
    BY DEF PC, Answers
  <2>3. rec \in Record /\ call[c].cur \in Record
    BY DEF TypeOK, Frame
  <2>4. call' \in [Callers -> Frame]
    BY <1>2, <2>2, <2>3, MoveTyped, ProceedTyped
       DEF Admit, Dedupe, Load, Orphan, Goto, Return
  <2> QED BY <2>1, <2>4 DEF TypeOK
<1>3. ASSUME NEW c \in Callers, Recover(c) PROVE TypeOK'
  <2>1. call[c].cur \in Record
    BY DEF TypeOK, Frame
  <2>2. PICK answer \in Answers :
           /\ CAS(c, Recovered(call[c].cur), answer)
           /\ Return(c, IF answer \notin {"ok", "conflict"} THEN answer
                        ELSE IF call[c].op = "Get" THEN "ok" ELSE "conflict")
    BY <1>3 DEF Recover
  <2>3. Rest
    BY <1>3, <2>1, <2>2, CASTyped, RecoveredTyped DEF Recover, TypeOK
  <2>4. call' \in [Callers -> Frame]
    BY <2>2, MoveTyped DEF Return, Answers
  <2> QED BY <2>3, <2>4 DEF TypeOK
<1>4. ASSUME NEW c \in Callers, Limit(c) \/ Settle(c) PROVE TypeOK'
  <2>1. Limited(call[c].cur) \in Record
    BY LimitedTyped DEF TypeOK, Frame
  <2>2. {"reserve", "release"} \subseteq PC /\ "ok" \in Answers
    BY DEF PC, Holding, Answers
  <2>3. CASE \E answer \in Answers :
                /\ CAS(c, Limited(call[c].cur), answer)
                /\ Return(c, answer) \/ Leave(c, answer)
    <3>1. PICK answer \in Answers :
                 /\ CAS(c, Limited(call[c].cur), answer)
                 /\ Return(c, answer) \/ Leave(c, answer)
      BY <2>3
    <3>2. Rest
      BY <1>4, <2>1, <3>1, CASTyped DEF Limit, Settle, TypeOK
    <3>3. call' \in [Callers -> Frame]
      BY <2>2, <3>1, MoveTyped DEF Return, Leave
    <3> QED BY <3>2, <3>3, <1>b
  <2>4. CASE /\ Goto(c, "reserve") \/ Leave(c, "ok")
             /\ UNCHANGED <<rec, faults>>
    <3>1. Rest
      BY <1>4, <2>4 DEF Limit, Settle, TypeOK
    <3>2. call' \in [Callers -> Frame]
      BY <2>2, <2>4, MoveTyped DEF Goto, Leave
    <3> QED BY <3>1, <3>2, <1>b
  <2> QED BY <1>4, <2>3, <2>4 DEF Limit, Settle
<1>5. ASSUME NEW c \in Callers, Reserve(c) \/ Handoff(c) \/ Release(c) PROVE TypeOK'
  <2>1. Rest
    BY <1>5 DEF Reserve, Handoff, Release, TypeOK
  <2>2. call[c].answer \in Answers /\ {"invalid", "busy"} \subseteq Answers
    BY DEF TypeOK, Frame, Answers
  <2>3. CASE \E answer \in Answers : Return(c, answer)
    <3>1. call' \in [Callers -> Frame]
      BY <2>3, MoveTyped DEF Return
    <3> QED BY <2>1, <3>1, <1>b
  <2>4. CASE Reserve(c) /\ call' = [call EXCEPT ![c].pc = "start", ![c].cancelled = FALSE]
    <3> DEFINE f == [call[c] EXCEPT !.pc = "start", !.cancelled = FALSE]
    <3>1. f \in Frame
      BY <1>a DEF Frame, PC, Holding
    <3>2. call' = [call EXCEPT ![c] = f]
      BY <1>a, <2>4
    <3> HIDE DEF f
    <3>3. call' \in [Callers -> Frame]
      BY <1>a, <3>1, <3>2
    <3> QED BY <2>1, <3>3, <1>b
  <2>5. CASE Handoff(c)
    <3> DEFINE f == [call[c] EXCEPT !.pc = "limit", !.tries = 0, !.outcome = NoOutcome,
                                    !.cancelled = FALSE]
    <3>1. f \in Frame
      BY <1>a DEF Frame, PC
    <3>2. call' = [call EXCEPT ![c] = f]
      BY <1>a, <2>5 DEF Handoff
    <3> HIDE DEF f
    <3>3. call' \in [Callers -> Frame]
      BY <1>a, <3>1, <3>2
    <3> QED BY <2>1, <3>3, <1>b
  <2> QED BY <1>5, <2>2, <2>3, <2>4, <2>5 DEF Reserve, Release
<1>6. ASSUME NEW c \in Callers, Start(c) PROVE TypeOK'
  <2>1. Started(call[c].cur) \in Record
    BY StartedTyped DEF TypeOK, Frame
  <2>2. PICK answer \in Answers :
           /\ CAS(c, Started(call[c].cur), answer)
           /\ IF answer = "ok"
              THEN call' = [call EXCEPT ![c].pc = "stage", ![c].cur = rec', ![c].tries = 0]
              ELSE Leave(c, answer)
    BY <1>6 DEF Start
  <2>3. Rest
    BY <1>6, <2>1, <2>2, CASTyped DEF Start, TypeOK
  <2>4. CASE answer = "ok"
    BY <2>2, <2>3, <2>4 DEF TypeOK, Frame, PC, Holding
  <2>5. CASE answer # "ok"
    <3>1. call' \in [Callers -> Frame]
      BY <2>2, <2>5, <1>c, MoveTyped DEF Leave
    <3> QED BY <2>3, <3>1, <1>b
  <2> QED BY <2>4, <2>5
<1>7. ASSUME NEW c \in Callers, Stage(c) \/ Finish(c) PROVE TypeOK'
  <2>1. Rest
    BY <1>7 DEF Stage, Finish, TypeOK
  <2>2. CASE Stage(c)
    <3>1. PICK o \in WorkOutcomes \cup DecisionOutcomes :
             call' = [call EXCEPT ![c].pc = "finish", ![c].outcome = o]
      BY <2>2 DEF Stage
    <3> DEFINE f == [call[c] EXCEPT !.pc = "finish", !.outcome = o]
    <3>2. f \in Frame
      BY <1>a DEF Frame, PC, Holding
    <3>3. call' = [call EXCEPT ![c] = f]
      BY <1>a, <3>1
    <3> HIDE DEF f
    <3>4. call' \in [Callers -> Frame]
      BY <1>a, <3>2, <3>3
    <3> QED BY <2>1, <3>4, <1>b
  <2>3. CASE Finish(c)
    <3>1. CASE \E answer \in Answers : Leave(c, answer)
      <4>1. call' \in [Callers -> Frame]
        BY <3>1, <1>c, MoveTyped DEF Leave
      <4> QED BY <2>1, <4>1, <1>b
    <3>2. CASE call' = [call EXCEPT ![c].pc = "commit", ![c].cur = rec, ![c].tries = @ + 1]
      BY <2>1, <3>2 DEF TypeOK, Frame, PC, Holding
    <3> QED BY <2>3, <3>1, <3>2 DEF Finish, Answers
  <2> QED BY <1>7, <2>2, <2>3
<1>8. ASSUME NEW c \in Callers, Commit(c) PROVE TypeOK'
  <2> DEFINE next == Outcome(call[c].cur, call[c].outcome)
  <2>1. next \in Record
    BY OutcomeTyped DEF TypeOK, Frame
  <2>2. PICK answer \in Answers, after \in {"release", "handoff", "settle"},
             answered \in {"failed", "ok"} :
           /\ CAS(c, next, answer)
           /\ CASE answer = "ok" -> call' = [call EXCEPT ![c].pc = after, ![c].cur = rec',
                                                         ![c].answer = answered]
                [] answer = "conflict" -> Goto(c, "finish")
                [] OTHER -> Leave(c, answer)
    BY <1>8 DEF Commit
  <2> HIDE DEF next
  <2>3. Rest
    BY <1>8, <2>1, <2>2, CASTyped DEF Commit, TypeOK
  <2>4. CASE answer = "ok"
    BY <2>2, <2>3, <2>4 DEF TypeOK, Frame, PC, Holding, Answers
  <2>5. CASE answer # "ok"
    <3>1. call' \in [Callers -> Frame]
      BY <2>2, <2>5, <1>c, MoveTyped DEF Leave, Goto
    <3> QED BY <2>3, <3>1, <1>b
  <2> QED BY <2>4, <2>5
<1>9. ASSUME NEW c \in Callers, Write(c) \/ Recheck(c) PROVE TypeOK'
  <2>1. {"cancelActive", "recheck"} \subseteq PC /\ {"ok", "conflict"} \subseteq Answers
    BY DEF PC, Answers
  <2>2. CASE Recheck(c)
    BY <2>1, <2>2, MoveTyped DEF Recheck, Return, TypeOK
  <2>3. CASE Write(c)
    <3> DEFINE op == call[c].op
               next == Applied(op, call[c].cur)
    <3>1. ValidRecord(next) => next \in Record
      BY AppliedTyped DEF TypeOK, Frame
    <3>2. PICK answer \in Answers :
             /\ CAS(c, next, answer)
             /\ deliveries' = IF op \in SignalIds /\ rec'.rev # rec.rev
                              THEN [deliveries EXCEPT ![op] = @ + 1] ELSE deliveries
             /\ IF answer = "ok" /\ op \in {"Pause", "Cancel", "Fail"}
                THEN Goto(c, "cancelActive")
                ELSE IF answer = "conflict" /\ op \in SignalIds
                THEN Goto(c, "recheck")
                ELSE Return(c, answer)
      BY <2>3 DEF Write
    <3> HIDE DEF next
    <3>3. rec' \in Record /\ rec'.rev \in 1..MaxTransitions /\ faults' \in Nat
      BY <3>1, <3>2, CASTyped
    <3>4. deliveries' \in [SignalIds -> Nat]
      BY <3>2 DEF TypeOK
    <3>5. call' \in [Callers -> Frame]
      BY <2>1, <3>2, MoveTyped DEF Goto, Return
    <3> QED BY <2>3, <3>3, <3>4, <3>5 DEF Write, TypeOK
  <2> QED BY <1>9, <2>2, <2>3
<1>10. ASSUME NEW c \in Callers, CancelActive(c) PROVE TypeOK'
  <2>1. Rest
    BY <1>10 DEF CancelActive, TypeOK
  <2>2. \A d \in Callers : /\ call[d] \in Frame
                           /\ [call[d] EXCEPT !.cancelled = TRUE] \in Frame
    BY DEF TypeOK, Frame
  <2> QED BY <1>10, <2>1, <2>2, IdleTyped DEF CancelActive, TypeOK, Answers
<1>11. CASE Crash \/ DeadlinePasses \/ UNCHANGED vars
  <2>1. CASE Crash
    <3>1. call' \in [Callers -> Frame]
      BY <2>1, IdleTyped DEF Crash, Answers
    <3> QED BY <2>1, <3>1 DEF Crash, TypeOK
  <2>2. CASE DeadlinePasses
    BY <2>2 DEF DeadlinePasses, TypeOK
  <2>3. CASE UNCHANGED vars
    BY <2>3 DEF vars, TypeOK
  <2> QED BY <1>11, <2>1, <2>2, <2>3
<1>12. CASE Next
  <2>1. CASE \E c \in Callers : Step(c) \/ Stage(c) \/ \E op \in Requests : Begin(c, op)
    <3>1. PICK c \in Callers : Step(c) \/ Stage(c) \/ \E op \in Requests : Begin(c, op)
      BY <2>1
    <3> QED BY <3>1, <1>1, <1>2, <1>3, <1>4, <1>5, <1>6, <1>7, <1>8, <1>9, <1>10 DEF Step
  <2> QED BY <1>11, <1>12, <2>1 DEF Next
<1> QED BY <1>11, <1>12

\* Every variable keeps its type, and the journal stays within its bound,
\* whatever the callers do, however writes fail and the process crashes.
THEOREM TypeCorrect == Spec => []TypeOK
BY TypeInit, TypeStep, PTL DEF Spec

-----------------------------------------------------------------------------
(* The inductive invariant.  A write succeeds only on the record it was     *)
(* computed from (Fresh), so what a caller checked when it loaded still     *)
(* holds when it writes; the slot keeps stages apart.                       *)

\* A caller is between reserve and release exactly while the slot is its own.
Slot == \A c \in Callers : call[c].pc \in Holding <=> active = c

\* A loaded record is older than the latest one, or it is the latest one.
Fresh == \A c \in Callers : LET r == call[c].cur IN
            r.rev <= rec.rev /\ (r.rev = rec.rev => r = rec)

\* What a caller has established about the record it loaded.
Checked == \A c \in Callers : LET f == call[c] IN
    /\ f.pc \in {"limit", "reserve", "start", "settle", "handoff"} => f.cur.status = "ready"
    /\ f.pc \in {"reserve", "start"} /\ f.cur.phase = "work" /\ MaxAttempts > 0
          => f.cur.attempts < MaxAttempts
    /\ f.pc \in {"orphan", "recover"} => f.cur.status \in ActiveStatus
    /\ f.pc = "write" => Permitted(f.op, f.cur) /\ ~AlreadyDone(f.op, f.cur)
    /\ f.pc = "commit" => ~Terminal(f.cur)
    /\ f.pc = "admit" => f.op = "Advance"

\* While the record an orphan was found in is the latest, no stage executes.
RecoversAlone == \A c \in Callers :
    call[c].pc = "recover" /\ call[c].cur.rev = rec.rev
        => \A d \in Callers : call[d].pc \notin Executing

\* An open attempt is the last one.
AttemptIsLast == rec.attempt.num \in {0, rec.attempts}

\* A signal about to be delivered is not in the history of the record its
\* caller expects or has loaded.
Undelivered == \A c \in Callers : LET f == call[c] IN
    f.op \in SignalIds =>
       /\ f.expected <= rec.rev
       /\ f.pc = "load" /\ f.expected = rec.rev => deliveries[f.op] = 0
       /\ f.pc \in {"orphan", "write"} /\ f.cur.rev = rec.rev => deliveries[f.op] = 0

IInv == /\ TypeOK /\ Slot /\ Fresh /\ Checked /\ RecoversAlone /\ AttemptIsLast
        /\ StageOwnsRecord /\ AttemptsWithinLimit /\ Undelivered /\ SignalOnce

-----------------------------------------------------------------------------
(* The steps, seen from the record and from a caller's frame.               *)

Moves(c) == Step(c) \/ Stage(c) \/ \E op \in Requests : Begin(c, op)

\* c replaces the record it loaded, which is the latest one, by next.
Writing(c, next) ==
    /\ call[c].cur = rec
    /\ ValidRecord(next) /\ next \in Record
    /\ rec' = [next EXCEPT !.rev = rec.rev + 1]

\* A write takes place on the latest record, or not at all.
LEMMA CASWrites ==
    ASSUME TypeOK, Fresh, NEW c \in Callers, NEW next, NEW answer,
           ValidRecord(next) => next \in Record, CAS(c, next, answer)
    PROVE  /\ rec' = rec \/ Writing(c, next)
           /\ answer = "ok" => Writing(c, next)
           /\ answer = "conflict" => rec' = rec
<1>1. Verdict(c, next) = "ok" /\ rec' = Stamped(next) => Writing(c, next)
  BY DEF Verdict, Fresh, Stamped, Writing
<1>2. CASE /\ answer = Verdict(c, next)
           /\ rec' = IF answer = "ok" THEN Stamped(next) ELSE rec
  BY <1>1, <1>2
<1>3. CASE /\ answer = "failed"
           /\ UNCHANGED rec \/ (Verdict(c, next) = "ok" /\ rec' = Stamped(next))
  BY <1>1, <1>3
<1> QED BY <1>2, <1>3 DEF CAS

\* The transitions of the record.
Transition(c) ==
    \/ rec' = rec
    \/ call[c].pc = "recover" /\ Writing(c, Recovered(rec))
    \/ call[c].pc \in {"limit", "settle"} /\ Writing(c, Limited(rec))
    \/ call[c].pc = "start" /\ Writing(c, Started(rec))
    \/ call[c].pc = "commit" /\ Writing(c, Outcome(rec, call[c].outcome))
    \/ call[c].pc = "write" /\ Writing(c, Applied(call[c].op, rec))

\* A caller's step writes nothing, or one of the records its place allows.
LEMMA Transitions ==
    ASSUME TypeOK, Fresh, NEW c \in Callers, Moves(c) PROVE Transition(c)
<1>1. call[c].cur \in Record /\ call[c].outcome \in WorkOutcomes \cup DecisionOutcomes \cup {NoOutcome}
  BY DEF TypeOK, Frame
<1>2. \A next : Writing(c, next) => call[c].cur = rec
  BY DEF Writing
<1>3. CASE Recover(c)
  BY <1>1, <1>2, <1>3, RecoveredTyped, CASWrites DEF Recover, At, Transition
<1>4. CASE Limit(c) \/ Settle(c)
  BY <1>1, <1>2, <1>4, LimitedTyped, CASWrites DEF Limit, Settle, At, Transition
<1>5. CASE Start(c)
  BY <1>1, <1>2, <1>5, StartedTyped, CASWrites DEF Start, At, Transition
<1>6. CASE Commit(c)
  BY <1>1, <1>2, <1>6, OutcomeTyped, CASWrites DEF Commit, At, Transition
<1>7. CASE Write(c)
  BY <1>1, <1>2, <1>7, AppliedTyped, CASWrites DEF Write, At, Transition
<1>8. CASE \/ Admit(c) \/ Dedupe(c) \/ Load(c) \/ Orphan(c) \/ Reserve(c) \/ Stage(c)
           \/ Finish(c) \/ Handoff(c) \/ Release(c) \/ CancelActive(c) \/ Recheck(c)
           \/ \E op \in Requests : Begin(c, op)
  BY <1>8 DEF Admit, Dedupe, Load, Orphan, Reserve, Stage, Finish, Handoff, Release,
              CancelActive, Recheck, Begin, Transition
<1> QED BY <1>3, <1>4, <1>5, <1>6, <1>7, <1>8 DEF Moves, Step

\* The control flow of an operation: how a caller came to be where it is.
Edge(c) == LET f == call[c]  g == call'[c] IN
    /\ g.cur \in {f.cur, rec, rec', NoRecord}
    /\ (g.op = f.op /\ g.expected = f.expected) \/ g.pc = "idle" \/ f.pc = "idle"
    /\ g.pc = "limit" => \/ f.pc \in {"load", "orphan"} /\ g.cur.status = "ready"
                         \/ f.pc = "handoff" /\ g.cur = f.cur
    /\ g.pc = "reserve" => f.pc = "limit" /\ g.cur = f.cur /\ ~OverLimit(f.cur, expired)
    /\ g.pc = "start" => f.pc = "reserve" /\ g.cur = f.cur
    /\ g.pc = "stage" => f.pc = "start" /\ Writing(c, Started(rec)) /\ g.cur = rec'
    /\ g.pc = "finish" => f.pc \in {"stage", "commit"} /\ g.cur = f.cur /\ rec' = rec
    /\ g.pc = "commit" => f.pc = "finish" /\ g.cur = rec /\ rec' = rec /\ ~Terminal(rec)
    /\ g.pc \in {"settle", "handoff"} => g.cur = rec' /\ rec'.status = "ready"
    /\ g.pc = "orphan" => /\ f.pc = "load" /\ g.cur = rec /\ rec.status \in ActiveStatus
                          /\ f.op # "Get" => rec.rev = f.expected
    /\ g.pc = "recover" => f.pc = "orphan" /\ g.cur = f.cur /\ active = NoCaller /\ rec' = rec
    /\ g.pc = "write" => /\ \/ f.pc = "load" /\ g.cur = rec /\ (f.op = "Get" \/ rec.rev = f.expected)
                            \/ f.pc = "orphan" /\ g.cur = f.cur
                         /\ Permitted(g.op, g.cur) /\ ~AlreadyDone(g.op, g.cur)
    /\ g.pc = "load" => \/ f.pc = "dedupe" /\ ~(deliveries[f.op] > 0)
                        \/ f.pc = "admit"
                        \/ f.pc = "idle" /\ g.op \notin SignalIds
    /\ f.pc = "idle" => g.expected = rec.rev
    /\ g.pc = "admit" => g.op = "Advance"
    /\ g.pc = "idle" => g.op = "Get"

\* What a caller's step does to its own frame, by its place.
LEMMA Edges ==
    ASSUME TypeOK, Fresh, NEW c \in Callers, Moves(c) PROVE Edge(c)
<1> DEFINE f == call[c]
           g == call'[c]
<1>1. /\ call \in [Callers -> Frame] /\ f \in Frame /\ f.cur \in Record
      /\ f.outcome \in WorkOutcomes \cup DecisionOutcomes \cup {NoOutcome}
  BY DEF TypeOK, Frame
<1>2. ASSUME NEW a, Return(c, a) PROVE g.pc = "idle" /\ g.cur = NoRecord /\ g.op = "Get"
  BY <1>1, <1>2 DEF Return, Idle
<1>3. ASSUME NEW p, Goto(c, p)
      PROVE g.pc = p /\ g.cur = f.cur /\ g.op = f.op /\ g.expected = f.expected
  BY <1>1, <1>3 DEF Goto, Frame
<1>4. ASSUME NEW a, Leave(c, a)
      PROVE g.pc = "release" /\ g.cur = f.cur /\ g.op = f.op /\ g.expected = f.expected
  BY <1>1, <1>4 DEF Leave, Frame
<1>5. ASSUME NEW r, Proceed(c, r)
      PROVE \/ g.pc = "idle" /\ g.cur = NoRecord /\ g.op = "Get"
            \/ /\ g.cur = r /\ g.op = f.op /\ g.expected = f.expected
               /\ \/ g.pc = "limit" /\ r.status = "ready"
                  \/ g.pc = "write" /\ Permitted(f.op, r) /\ ~AlreadyDone(f.op, r)
  BY <1>1, <1>2, <1>5 DEF Proceed, Frame
<1>6. CASE \E op \in Requests : Begin(c, op)
  BY <1>1, <1>6 DEF Begin, Edge, Idle, At
<1>7. CASE Admit(c) \/ Dedupe(c)
  BY <1>1, <1>2, <1>3, <1>7 DEF Admit, Dedupe, Edge, At
<1>8. CASE Load(c)
  <2>1. CASE Proceed(c, rec)
    BY <1>1, <1>2, <1>5, <1>8, <2>1 DEF Load, Edge, At
  <2>2. CASE call' = [call EXCEPT ![c].cur = rec, ![c].pc = "orphan"]
    BY <1>1, <1>8, <2>2 DEF Load, Edge, At, Frame
  <2> QED BY <1>1, <1>2, <1>8, <2>1, <2>2 DEF Load, Edge, At
<1>9. CASE Orphan(c)
  BY <1>1, <1>3, <1>5, <1>9 DEF Orphan, Edge, At
<1>10. CASE Recover(c)
  BY <1>1, <1>2, <1>10 DEF Recover, Edge, At
<1>11. CASE Limit(c)
  BY <1>1, <1>2, <1>3, <1>11 DEF Limit, Edge, At
<1>12. CASE Reserve(c)
  <2>1. CASE call' = [call EXCEPT ![c].pc = "start", ![c].cancelled = FALSE]
    BY <1>1, <1>12, <2>1 DEF Reserve, Edge, At, Frame
  <2> QED BY <1>1, <1>2, <1>12, <2>1 DEF Reserve, Edge, At
<1>13. CASE Start(c)
  <2>1. CASE Writing(c, Started(f.cur))
             /\ call' = [call EXCEPT ![c].pc = "stage", ![c].cur = rec', ![c].tries = 0]
    BY <1>1, <1>13, <2>1 DEF Start, Edge, At, Frame, Writing
  <2> QED BY <1>1, <1>4, <1>13, <2>1, CASWrites, StartedTyped DEF Start, Edge, At
<1>14. CASE Stage(c)
  BY <1>1, <1>14 DEF Stage, Edge, At, Frame
<1>15. CASE Finish(c)
  <2>1. CASE call' = [call EXCEPT ![c].pc = "commit", ![c].cur = rec, ![c].tries = @ + 1]
             /\ ~Terminal(rec)
    BY <1>1, <1>15, <2>1 DEF Finish, Edge, At, Frame
  <2> QED BY <1>1, <1>4, <1>15, <2>1 DEF Finish, Edge, At
<1>16. CASE Commit(c)
  <2> DEFINE next == Outcome(f.cur, f.outcome)
  <2>1. next \in Record
    BY <1>1, OutcomeTyped
  <2>2. PICK answer \in Answers, after \in {"release", "handoff", "settle"},
             answered \in {"failed", "ok"} :
           /\ CAS(c, next, answer)
           /\ after # "release" => next.status = "ready"
           /\ CASE answer = "ok" -> call' = [call EXCEPT ![c].pc = after, ![c].cur = rec',
                                                         ![c].answer = answered]
                [] answer = "conflict" -> Goto(c, "finish")
                [] OTHER -> Leave(c, answer)
    BY <1>16 DEF Commit
  <2> HIDE DEF next
  <2>3. CASE answer = "ok"
    <3>1. g.pc = after /\ g.cur = rec' /\ g.op = f.op /\ g.expected = f.expected
      BY <1>1, <2>2, <2>3 DEF Frame
    <3>2. rec'.status = next.status
      BY <2>1, <2>2, <2>3, CASWrites DEF Writing, Record
    <3> QED BY <1>16, <2>2, <3>1, <3>2 DEF Commit, Edge, At
  <2>4. CASE answer = "conflict"
    <3>1. rec' = rec
      BY <2>1, <2>2, <2>4, CASWrites
    <3> QED BY <1>1, <1>3, <1>16, <2>2, <2>4, <3>1 DEF Commit, Edge, At
  <2>5. CASE answer \notin {"ok", "conflict"}
    BY <1>1, <1>4, <1>16, <2>2, <2>5 DEF Commit, Edge, At
  <2> QED BY <2>3, <2>4, <2>5
<1>17. CASE Settle(c)
  BY <1>1, <1>4, <1>17 DEF Settle, Edge, At
<1>18. CASE Handoff(c)
  BY <1>1, <1>18 DEF Handoff, Edge, At, Frame
<1>19. CASE Release(c) \/ Recheck(c)
  BY <1>1, <1>2, <1>19 DEF Release, Recheck, Edge, At
<1>20. CASE Write(c)
  BY <1>1, <1>2, <1>3, <1>20 DEF Write, Edge, At
<1>21. CASE CancelActive(c)
  BY <1>1, <1>21 DEF CancelActive, Edge, Idle, At
<1> QED BY <1>6, <1>7, <1>8, <1>9, <1>10, <1>11, <1>12, <1>13, <1>14, <1>15, <1>16,
           <1>17, <1>18, <1>19, <1>20, <1>21 DEF Moves, Step

\* A caller's step leaves the frames of the others where they are.
LEMMA Others ==
    ASSUME TypeOK, NEW c \in Callers, Moves(c), NEW d \in Callers \ {c}
    PROVE  /\ call'[d].pc = call[d].pc /\ call'[d].cur = call[d].cur
           /\ call'[d].op = call[d].op /\ call'[d].expected = call[d].expected
<1>1. call \in [Callers -> Frame] /\ call[d] \in Frame
  BY DEF TypeOK
<1>2. CASE CancelActive(c)
  BY <1>1, <1>2 DEF CancelActive, Frame
<1>3. CASE ~CancelActive(c)
  <2>1. call'[d] = call[d]
    <3>1. \A a : (Return(c, a) \/ Leave(c, a) \/ Goto(c, a)) => call'[d] = call[d]
      BY <1>1 DEF Return, Leave, Goto
    <3>2. \A r : Proceed(c, r) => call'[d] = call[d]
      BY <1>1, <3>1 DEF Proceed
    <3>3. CASE \/ \E op \in Requests : Begin(c, op)
               \/ Admit(c) \/ Dedupe(c) \/ Load(c) \/ Orphan(c) \/ Recover(c)
               \/ Limit(c) \/ Reserve(c) \/ Start(c)
      BY <1>1, <3>1, <3>2, <3>3
         DEF Begin, Admit, Dedupe, Load, Orphan, Recover, Limit, Reserve, Start
    <3>4. CASE \/ Stage(c) \/ Finish(c) \/ Commit(c) \/ Settle(c) \/ Handoff(c)
               \/ Release(c) \/ Write(c) \/ Recheck(c)
      BY <1>1, <3>1, <3>4
         DEF Stage, Finish, Commit, Settle, Handoff, Release, Write, Recheck
    <3> QED BY <1>3, <3>3, <3>4 DEF Moves, Step
  <2> QED BY <2>1
<1> QED BY <1>2, <1>3

\* Reserving takes the free slot, leaving gives it back, nothing else touches it.
LEMMA SlotStep ==
    ASSUME TypeOK, Fresh, Slot, NEW c \in Callers, Moves(c) PROVE Slot'
<1> DEFINE f == call[c]
           g == call'[c]
<1>1. call \in [Callers -> Frame] /\ f \in Frame
  BY DEF TypeOK
<1>2. \A d \in Callers \ {c} : call'[d].pc = call[d].pc
  BY Others
<1>3. CASE active' = active /\ (g.pc \in Holding <=> f.pc \in Holding)
  BY <1>2, <1>3 DEF Slot
<1>4. CASE active' = c /\ active = NoCaller /\ g.pc \in Holding
  BY <1>2, <1>4, ConstantsAssumption DEF Slot
<1>5. CASE active' = NoCaller /\ f.pc \in Holding /\ g.pc \notin Holding
  BY <1>2, <1>5, ConstantsAssumption DEF Slot
<1>6. /\ \A p : Goto(c, p) => g.pc = p
      /\ \A a : Leave(c, a) => g.pc = "release"
      /\ \A a : Return(c, a) => g.pc = "idle"
  BY <1>1 DEF Goto, Leave, Return, Idle, Frame
<1>7. ASSUME NEW r, Proceed(c, r) PROVE g.pc \in {"idle", "limit", "write"}
  BY <1>1, <1>6, <1>7 DEF Proceed, Frame
<1>8. CASE \/ \E op \in Requests : Begin(c, op)
           \/ Admit(c) \/ Dedupe(c) \/ Load(c) \/ Orphan(c) \/ Recover(c)
           \/ Limit(c) \/ Write(c) \/ CancelActive(c) \/ Recheck(c)
  <2>1. active' = active /\ f.pc \notin Holding
    BY <1>8 DEF Begin, Admit, Dedupe, Load, Orphan, Recover, Limit, Write, CancelActive,
                Recheck, At, Holding
  <2>2. g.pc \notin Holding
    <3>1. CASE \E op \in Requests : Begin(c, op)
      BY <1>1, <3>1 DEF Begin, Idle, Holding
    <3>2. CASE Load(c)
      <4>1. CASE call' = [call EXCEPT ![c].cur = rec, ![c].pc = "orphan"]
        BY <1>1, <4>1 DEF Holding, Frame
      <4> QED BY <1>6, <1>7, <3>2, <4>1 DEF Load, Holding
    <3>3. CASE Admit(c) \/ Dedupe(c) \/ Orphan(c) \/ Recover(c) \/ Limit(c) \/ Recheck(c)
      BY <1>6, <1>7, <3>3 DEF Admit, Dedupe, Orphan, Recover, Limit, Recheck, Holding
    <3>4. CASE Write(c) \/ CancelActive(c)
      BY <1>1, <1>6, <3>4 DEF Write, CancelActive, Idle, Holding
    <3> QED BY <1>8, <3>1, <3>2, <3>3, <3>4
  <2> QED BY <1>3, <2>1, <2>2
<1>9. CASE Start(c) \/ Stage(c) \/ Finish(c) \/ Commit(c) \/ Settle(c)
  <2>1. active' = active /\ f.pc \in Holding
    BY <1>9 DEF Start, Stage, Finish, Commit, Settle, At, Holding
  <2>2. g.pc \in Holding
    <3>1. CASE Start(c)
      <4>1. PICK a \in Answers :
                IF a = "ok"
                THEN call' = [call EXCEPT ![c].pc = "stage", ![c].cur = rec', ![c].tries = 0]
                ELSE Leave(c, a)
        BY <3>1 DEF Start
      <4>2. CASE a = "ok"
        BY <1>1, <4>1, <4>2 DEF Holding, Frame
      <4> QED BY <1>6, <4>1, <4>2 DEF Holding
    <3>2. CASE Stage(c)
      BY <1>1, <3>2 DEF Stage, Holding, Frame
    <3>3. CASE Finish(c)
      <4>1. CASE call' = [call EXCEPT ![c].pc = "commit", ![c].cur = rec, ![c].tries = @ + 1]
        BY <1>1, <4>1 DEF Holding, Frame
      <4> QED BY <1>6, <3>3, <4>1 DEF Finish, Holding
    <3>4. CASE Commit(c)
      <4>1. \A after, a : call' = [call EXCEPT ![c].pc = after, ![c].cur = rec',
                                              ![c].answer = a] => g.pc = after
        BY <1>1 DEF Frame
      <4>2. PICK after \in {"release", "handoff", "settle"}, a \in Answers, b \in Answers :
                CASE a = "ok" -> call' = [call EXCEPT ![c].pc = after, ![c].cur = rec',
                                                     ![c].answer = b]
                  [] a = "conflict" -> Goto(c, "finish")
                  [] OTHER -> Leave(c, a)
        BY <3>4 DEF Commit, Answers
      <4>3. CASE a = "ok"
        BY <4>1, <4>2, <4>3 DEF Holding
      <4>4. CASE a # "ok"
        BY <1>6, <4>2, <4>4 DEF Holding
      <4> QED BY <4>3, <4>4
    <3>5. CASE Settle(c)
      BY <1>6, <3>5 DEF Settle, Holding
    <3> QED BY <1>9, <3>1, <3>2, <3>3, <3>4, <3>5
  <2> QED BY <1>3, <2>1, <2>2
<1>10. CASE Reserve(c)
  BY <1>1, <1>3, <1>4, <1>6, <1>10 DEF Reserve, At, Holding, Frame
<1>11. CASE Handoff(c) \/ Release(c)
  BY <1>1, <1>5, <1>6, <1>11 DEF Handoff, Release, At, Holding, Frame
<1> QED BY <1>8, <1>9, <1>10, <1>11 DEF Moves, Step

\* A step keeps the record or gives it the next revision.
LEMMA RevStep ==
    ASSUME TypeOK, Fresh, NEW c \in Callers, Moves(c)
    PROVE  /\ rec.rev \in Nat
           /\ rec' = rec \/ (rec'.rev = rec.rev + 1 /\ call[c].cur = rec)
<1>1. \A next : Writing(c, next) => rec'.rev = rec.rev + 1 /\ call[c].cur = rec
  BY DEF Writing, Record
<1> QED BY <1>1, Transitions DEF Transition, TypeOK, Record

\* A loaded record is never ahead of the durable one, nor different at its revision.
LEMMA FreshStep ==
    ASSUME TypeOK, Fresh, NEW c \in Callers, Moves(c) PROVE Fresh'
<1>1. TypeOK'
  BY TypeStep DEF Next, Moves
<1> SUFFICES ASSUME NEW d \in Callers
             PROVE  /\ call'[d].cur.rev <= rec'.rev
                    /\ call'[d].cur.rev = rec'.rev => call'[d].cur = rec'
  BY DEF Fresh
<1>2. /\ call[d].cur.rev \in Nat /\ call'[d].cur.rev \in Nat /\ rec'.rev \in Nat
      /\ rec.rev \in Nat /\ rec'.rev >= 1
  BY <1>1, ConstantsAssumption DEF TypeOK, Frame, Record
<1>3. call'[d].cur \in {call[d].cur, rec, rec', NoRecord}
  BY Edges, Others DEF Edge
<1>4. call[d].cur.rev <= rec.rev /\ (call[d].cur.rev = rec.rev => call[d].cur = rec)
  BY DEF Fresh
<1>5. NoRecord.rev = 0
  BY DEF NoRecord, Created
<1> QED BY <1>2, <1>3, <1>4, <1>5, RevStep

\* What a caller checked holds of the record it keeps until it writes.
LEMMA CheckedStep ==
    ASSUME TypeOK, Fresh, Checked, NEW c \in Callers, Moves(c) PROVE Checked'
<1> SUFFICES ASSUME NEW d \in Callers PROVE
      LET g == call'[d] IN
      /\ g.pc \in {"limit", "reserve", "start", "settle", "handoff"} => g.cur.status = "ready"
      /\ g.pc \in {"reserve", "start"} /\ g.cur.phase = "work" /\ MaxAttempts > 0
            => g.cur.attempts < MaxAttempts
      /\ g.pc \in {"orphan", "recover"} => g.cur.status \in ActiveStatus
      /\ g.pc = "write" => Permitted(g.op, g.cur) /\ ~AlreadyDone(g.op, g.cur)
      /\ g.pc = "commit" => ~Terminal(g.cur)
      /\ g.pc = "admit" => g.op = "Advance"
  BY DEF Checked
<1>1. CASE d # c
  BY <1>1, Others DEF Checked
<1>2. CASE d = c
  <2>1. Edge(c) /\ call[c].cur.attempts \in Nat /\ MaxAttempts \in Nat
    BY Edges, RecordsAssumption DEF TypeOK, Frame, Record
  <2> QED BY <1>2, <2>1 DEF Edge, Checked, OverLimit
<1> QED BY <1>1, <1>2

\* The attempt that a successful start opens, and its record.
LEMMA StartedFields ==
    ASSUME NEW r \in Record, ValidRecord(Started(r)), r.attempt.num \in {0, r.attempts}
    PROVE  LET s == Started(r) IN
           /\ s.status = "running" /\ s.phase = r.phase /\ s.attempt.phase = s.phase
           /\ s.attempt.num = s.attempts /\ s.attempts >= r.attempts
           /\ s.attempts # r.attempts => r.phase = "work" /\ s.attempts = r.attempts + 1
<1>1. CASE r.phase = "work"
  BY <1>1 DEF Started, Record
<1>2. CASE r.phase # "work"
  <2>1. Started(r).attempt.num # 0 /\ Started(r).attempt.phase = Started(r).phase
    BY <1>2 DEF ValidRecord, Started, Record, ActiveStatus
  <2> QED BY <1>2, <2>1 DEF Started, Record, Attempt
<1> QED BY <1>1, <1>2

\* An outcome starts no attempt; it keeps the current one or closes it.
LEMMA OutcomeFields ==
    ASSUME NEW r \in Record, NEW o
    PROVE  /\ Outcome(r, o).attempts = r.attempts
           /\ Outcome(r, o).attempt.num \in {0, r.attempt.num}
<1>1. /\ WorkOutcome(r, o).attempts = r.attempts
      /\ WorkOutcome(r, o).attempt.num = r.attempt.num
  BY DEF WorkOutcome, PausedAs, Interrupted, Record, Attempt
<1>2. /\ DecisionOutcome(r, o).attempts = r.attempts
      /\ DecisionOutcome(r, o).attempt.num \in {0, r.attempt.num}
  BY DEF DecisionOutcome, Decided, PausedAs, Interrupted, NoAttempt, Record, Attempt
<1> QED BY <1>1, <1>2 DEF Outcome

\* A control operation starts no attempt; it keeps the current one or closes it.
LEMMA AppliedFields ==
    ASSUME NEW r \in Record, NEW op
    PROVE  /\ Applied(op, r).attempts = r.attempts
           /\ Applied(op, r).attempt.num \in {0, r.attempt.num}
BY DEF Applied, Suspended, Resumed, Woken, Ended, NoAttempt, Record

\* What an operation other than an outcome writes over an active record.
LEMMA AppliedToActive ==
    ASSUME NEW r \in Record, NEW op, r.status \in ActiveStatus,
           Permitted(op, r), ~AlreadyDone(op, r)
    PROVE  LET n == Applied(op, r) IN
           /\ n.attempt = r.attempt /\ n.attempts = r.attempts /\ n.phase = r.phase
           /\ n.status \in {"pause_requested", "cancel_requested", "failed"}
           /\ r.status = "cancel_requested" => n.status = "failed"
           /\ r.status = "pause_requested" => n.status \in {"cancel_requested", "failed"}
<1>1. r.status \in {"running", "pause_requested", "cancel_requested"}
  BY DEF ActiveStatus
<1>2. CASE op = "Pause"
  BY <1>1, <1>2, RecordsAssumption
     DEF Permitted, AlreadyDone, Applied, Record, Terminal, TerminalStatus, Control
<1>3. CASE op = "Cancel"
  BY <1>1, <1>3, RecordsAssumption
     DEF Permitted, AlreadyDone, Applied, Record, Terminal, TerminalStatus, Control
<1>4. op \notin {"Resume", "RetryWork", "RetryDecision", "ResolveBlock", "ResumeDue"} \cup SignalIds
  BY <1>1, RecordsAssumption DEF Permitted, Control
<1>5. CASE op \notin {"Pause", "Cancel"}
  BY <1>1, <1>4, <1>5 DEF Applied, Ended, Record
<1> QED BY <1>2, <1>3, <1>5

\* A record that is written is the one computed, with its new revision.
LEMMA WrittenFields ==
    ASSUME NEW c, NEW next, Writing(c, next)
    PROVE  /\ rec'.status = next.status /\ rec'.phase = next.phase
           /\ rec'.attempt = next.attempt /\ rec'.attempts = next.attempts
           /\ call[c].cur = rec
BY DEF Writing, Record

\* The open attempt stays the last one.
LEMMA AttemptStep ==
    ASSUME IInv, NEW c \in Callers, Moves(c)
    PROVE  /\ AttemptIsLast' /\ rec'.attempts \in {rec.attempts, rec.attempts + 1}
           /\ rec'.attempts # rec.attempts =>
                 rec.phase = "work" /\ call[c].pc = "start" /\ call[c].cur = rec
<1> USE DEF IInv
<1>1. rec \in Record /\ rec.attempts \in Nat /\ rec.attempt.num \in {0, rec.attempts}
  BY DEF TypeOK, Record, AttemptIsLast
<1>2. CASE rec' = rec
  BY <1>1, <1>2 DEF AttemptIsLast
<1>3. CASE Writing(c, Recovered(rec))
  <2>1. Recovered(rec).attempt = rec.attempt /\ Recovered(rec).attempts = rec.attempts
    BY <1>1 DEF Recovered, Record
  <2> QED BY <1>1, <1>3, <2>1, WrittenFields DEF AttemptIsLast
<1>4. CASE Writing(c, Limited(rec))
  <2>1. Limited(rec).attempt = rec.attempt /\ Limited(rec).attempts = rec.attempts
    BY <1>1 DEF Limited, Record
  <2> QED BY <1>1, <1>4, <2>1, WrittenFields DEF AttemptIsLast
<1>5. CASE call[c].pc = "start" /\ Writing(c, Started(rec))
  <2>1. ValidRecord(Started(rec))
    BY <1>5 DEF Writing
  <2> QED BY <1>1, <1>5, <2>1, WrittenFields, StartedFields DEF AttemptIsLast
<1>6. CASE Writing(c, Outcome(rec, call[c].outcome))
  BY <1>1, <1>6, WrittenFields, OutcomeFields DEF AttemptIsLast
<1>7. CASE Writing(c, Applied(call[c].op, rec))
  BY <1>1, <1>7, WrittenFields, AppliedFields DEF AttemptIsLast
<1> QED BY <1>2, <1>3, <1>4, <1>5, <1>6, <1>7, Transitions DEF Transition

\* A start that succeeds was checked against the limit at its own revision.
LEMMA LimitStep ==
    ASSUME IInv, NEW c \in Callers, Moves(c) PROVE AttemptsWithinLimit'
<1> SUFFICES ASSUME MaxAttempts > 0 PROVE rec'.attempts <= MaxAttempts
  BY DEF AttemptsWithinLimit
<1>1. rec.attempts \in Nat /\ MaxAttempts \in Nat /\ rec.attempts <= MaxAttempts
  BY RecordsAssumption DEF IInv, TypeOK, Record, AttemptsWithinLimit
<1>2. rec'.attempts # rec.attempts => rec.attempts < MaxAttempts
  BY AttemptStep DEF IInv, Checked
<1> QED BY <1>1, <1>2, AttemptStep

\* An orphan that may still be recovered has no executing stage beside it.
LEMMA AloneStep ==
    ASSUME IInv, NEW c \in Callers, Moves(c) PROVE RecoversAlone'
<1> USE DEF IInv
<1> SUFFICES ASSUME NEW d \in Callers, NEW e \in Callers, call'[d].pc = "recover",
                    call'[d].cur.rev = rec'.rev, call'[e].pc \in Executing
             PROVE  FALSE
  BY DEF RecoversAlone
<1>1. Edge(c) /\ Slot'
  BY Edges, SlotStep
<1>2. call'[e].pc \in Holding /\ call'[d].pc \notin Executing /\ d # e
  BY DEF Executing, Holding
<1>3. CASE d = c
  \* c has just found the slot free.
  <2>1. call[e].pc \in Holding /\ active = NoCaller
    BY <1>1, <1>2, <1>3, Others DEF Edge
  <2> QED BY <2>1, ConstantsAssumption DEF Slot
<1>4. CASE d # c
  <2>1. call[d].pc = "recover" /\ call[d].cur = call'[d].cur
    BY <1>4, Others
  <2>2. rec' = rec
    BY <1>4, <2>1, RevStep DEF Fresh
  <2>3. call[e].pc \in Executing
    <3>1. CASE e = c
      BY <1>1, <2>2, <3>1, RevStep DEF Edge, Executing, Writing, Record
    <3> QED BY <3>1, Others
  <2> QED BY <2>1, <2>2, <2>3 DEF RecoversAlone
<1> QED BY <1>3, <1>4

\* No other caller settles the record of an executing stage.
LEMMA OwnsStep ==
    ASSUME IInv, NEW c \in Callers, Moves(c) PROVE StageOwnsRecord'
<1> USE DEF IInv
<1> SUFFICES ASSUME NEW d \in Callers, call'[d].pc \in Executing
             PROVE  /\ active' = d
                    /\ rec'.attempt.num = rec'.attempts
                    /\ rec'.attempt.num = call'[d].cur.attempt.num
                    /\ rec'.phase = call'[d].cur.phase /\ rec'.attempt.phase = rec'.phase
                    /\ rec'.status \in ActiveStatus \cup {"failed"}
  BY DEF StageOwnsRecord
<1>1. active' = d
  BY SlotStep DEF Slot, Executing, Holding
<1>2. Edge(c) /\ Transition(c) /\ rec \in Record
  BY Edges, Transitions DEF TypeOK
<1>3. CASE d = c
  <2>1. CASE call'[c].pc = "stage"
    <3>1. Writing(c, Started(rec)) /\ call'[c].cur = rec' /\ ValidRecord(Started(rec))
      BY <1>2, <2>1 DEF Edge, Writing
    <3> QED BY <1>1, <1>2, <1>3, <3>1, WrittenFields, StartedFields DEF AttemptIsLast, ActiveStatus
  <2>2. CASE call'[c].pc \in {"finish", "commit"}
    <3>1. call[c].pc \in Executing /\ rec' = rec /\ call'[c].cur \in {call[c].cur, rec}
      BY <1>2, <2>2 DEF Edge, Executing
    <3> QED BY <1>1, <1>3, <3>1 DEF StageOwnsRecord
  <2> QED BY <1>3, <2>1, <2>2 DEF Executing
<1>4. CASE d # c
  <2>1. call[d].pc \in Executing /\ call'[d].cur = call[d].cur
    BY <1>4, Others
  <2>2. /\ rec.attempt.num = rec.attempts /\ rec.attempt.num = call[d].cur.attempt.num
        /\ rec.phase = call[d].cur.phase /\ rec.attempt.phase = rec.phase
        /\ rec.status \in ActiveStatus \cup {"failed"}
    BY <2>1 DEF StageOwnsRecord
  <2>3. call[c].pc \notin Holding
    BY <1>4, <2>1 DEF Slot, Executing, Holding
  <2>4. CASE rec' = rec
    BY <1>1, <2>1, <2>2, <2>4
  <2>5. CASE call[c].pc = "recover" /\ Writing(c, Recovered(rec))
    BY <2>1, <2>5, WrittenFields DEF RecoversAlone
  <2>6. CASE call[c].pc = "limit" /\ Writing(c, Limited(rec))
    BY <2>2, <2>6, WrittenFields DEF Checked, ActiveStatus
  <2>7. CASE call[c].pc = "write" /\ Writing(c, Applied(call[c].op, rec))
    <3>1. call[c].cur = rec /\ Permitted(call[c].op, rec) /\ ~AlreadyDone(call[c].op, rec)
      BY <2>7, WrittenFields DEF Checked
    <3>2. rec.status \in ActiveStatus
      BY <2>2, <3>1 DEF Permitted, Terminal, TerminalStatus
    <3> DEFINE n == Applied(call[c].op, rec)
    <3>3. /\ n.attempt = rec.attempt /\ n.attempts = rec.attempts /\ n.phase = rec.phase
          /\ n.status \in ActiveStatus \cup {"failed"}
      BY <1>2, <3>1, <3>2, AppliedToActive DEF ActiveStatus
    <3>4. Writing(c, n)
      BY <2>7
    <3> HIDE DEF n
    <3> QED BY <1>1, <2>1, <2>2, <3>3, <3>4, WrittenFields
  <2> QED BY <1>2, <2>3, <2>4, <2>5, <2>6, <2>7 DEF Transition, Holding
<1> QED BY <1>3, <1>4

\* A delivery is the write of a record.
LEMMA DeliveryStep ==
    ASSUME TypeOK, NEW c \in Callers, Moves(c)
    PROVE  \/ deliveries' = deliveries
           \/ /\ call[c].pc = "write" /\ call[c].op \in SignalIds /\ rec'.rev # rec.rev
              /\ deliveries' = [deliveries EXCEPT ![call[c].op] = @ + 1]
BY DEF Moves, Step, Stage, Begin, Admit, Dedupe, Load, Orphan, Recover, Limit, Reserve, Start,
       Finish, Commit, Settle, Handoff, Release, Write, CancelActive, Recheck, At

\* A signal that may still be written is not in the history it was checked against.
LEMMA UndeliveredStep ==
    ASSUME IInv, NEW c \in Callers, Moves(c) PROVE Undelivered'
<1> USE DEF IInv
<1> SUFFICES ASSUME NEW d \in Callers, call'[d].op \in SignalIds
             PROVE  LET g == call'[d] IN
                    /\ g.expected <= rec'.rev
                    /\ g.pc = "load" /\ g.expected = rec'.rev => deliveries'[g.op] = 0
                    /\ g.pc \in {"orphan", "write"} /\ g.cur.rev = rec'.rev
                          => deliveries'[g.op] = 0
  BY DEF Undelivered
<1>1. /\ rec.rev \in Nat /\ call[d].expected \in Nat /\ call[d].cur.rev \in Nat
      /\ call[d].cur.rev <= rec.rev /\ deliveries \in [SignalIds -> Nat]
      /\ "Get" \notin SignalIds /\ "Advance" \notin SignalIds
  BY RecordsAssumption DEF TypeOK, Frame, Record, Fresh
<1>2. rec' = rec \/ rec'.rev = rec.rev + 1
  BY RevStep
<1>3. CASE d # c
  <2>1. /\ call'[d].pc = call[d].pc /\ call'[d].cur = call[d].cur
        /\ call'[d].op = call[d].op /\ call'[d].expected = call[d].expected
    BY <1>3, Others
  <2> QED BY <1>1, <1>2, <2>1, DeliveryStep DEF Undelivered
<1>4. CASE d = c
  <2>1. Edge(c) /\ Transition(c)
    BY Edges, Transitions
  <2>2. CASE call'[c].pc \in {"load", "orphan", "write"}
    <3>1. call[c].pc \in {"idle", "admit", "dedupe", "load", "orphan"}
      BY <2>1, <2>2 DEF Edge
    <3>2. rec' = rec /\ deliveries' = deliveries
      BY <2>1, <3>1, DeliveryStep DEF Transition
    <3>3. CASE call[c].pc = "idle"
      BY <1>1, <1>4, <2>1, <2>2, <3>2, <3>3 DEF Edge
    <3>4. CASE call[c].pc # "idle"
      <4>1. call'[c].op = call[c].op /\ call'[c].expected = call[c].expected
        BY <2>1, <2>2, <3>4 DEF Edge
      <4> QED BY <1>1, <1>4, <2>1, <2>2, <3>2, <3>4, <4>1 DEF Edge, Undelivered, Checked
    <3> QED BY <3>3, <3>4
  <2>3. CASE call'[c].pc \notin {"load", "orphan", "write"}
    <3>1. CASE call[c].pc = "idle"
      BY <1>1, <1>2, <1>4, <2>1, <2>3, <3>1 DEF Edge
    <3>2. CASE call[c].pc # "idle"
      BY <1>1, <1>2, <1>4, <2>1, <2>3, <3>2 DEF Edge, Undelivered
    <3> QED BY <3>1, <3>2
  <2> QED BY <2>2, <2>3
<1> QED BY <1>3, <1>4

\* A delivery that is written is the first of its signal.
LEMMA SignalStep ==
    ASSUME IInv, NEW c \in Callers, Moves(c) PROVE SignalOnce'
<1> USE DEF IInv
<1>1. CASE deliveries' = deliveries
  BY <1>1 DEF SignalOnce
<1>2. CASE /\ call[c].pc = "write" /\ call[c].op \in SignalIds /\ rec'.rev # rec.rev
           /\ deliveries' = [deliveries EXCEPT ![call[c].op] = @ + 1]
  <2>1. call[c].cur = rec
    BY <1>2, RevStep
  <2>2. deliveries[call[c].op] = 0
    BY <1>2, <2>1 DEF Undelivered
  <2> QED BY <1>2, <2>2 DEF SignalOnce, TypeOK
<1> QED BY <1>1, <1>2, DeliveryStep

-----------------------------------------------------------------------------
(* The invariant is inductive.                                              *)

\* The first state satisfies the inductive invariant.
LEMMA IInvInit == Init => IInv
<1> SUFFICES ASSUME Init PROVE IInv
  OBVIOUS
<1>1. TypeOK
  BY TypeInit
<1>2. \A c \in Callers : /\ call[c].pc = "idle" /\ call[c].op = "Get"
                         /\ call[c].cur = NoRecord
  BY DEF Init, Idle
<1>3. rec.rev = 1 /\ NoRecord.rev = 0 /\ rec.attempts = 0 /\ rec.attempt.num = 0
  BY DEF Init, Created, NoRecord, NoAttempt
<1>4. Slot /\ Checked /\ RecoversAlone /\ StageOwnsRecord
  BY <1>2, ConstantsAssumption DEF Init, Slot, Checked, RecoversAlone, StageOwnsRecord,
                                   Holding, Executing
<1>5. Fresh /\ AttemptIsLast /\ Undelivered
  BY <1>2, <1>3, RecordsAssumption DEF Fresh, AttemptIsLast, Undelivered
<1>6. AttemptsWithinLimit /\ SignalOnce
  BY <1>3, RecordsAssumption DEF Init, AttemptsWithinLimit, SignalOnce
<1> QED BY <1>1, <1>4, <1>5, <1>6 DEF IInv

\* Every step preserves the inductive invariant.
LEMMA IInvStep == IInv /\ [Next]_vars => IInv'
<1> SUFFICES ASSUME IInv, [Next]_vars PROVE IInv'
  OBVIOUS
<1>1. TypeOK'
  BY TypeStep DEF IInv
<1>2. ASSUME NEW c \in Callers, Moves(c) PROVE IInv'
  <2>1. Slot' /\ Fresh' /\ Checked'
    BY <1>2, SlotStep, FreshStep, CheckedStep DEF IInv
  <2>2. RecoversAlone' /\ AttemptIsLast' /\ StageOwnsRecord'
    BY <1>2, AloneStep, AttemptStep, OwnsStep
  <2>3. AttemptsWithinLimit' /\ Undelivered' /\ SignalOnce'
    BY <1>2, LimitStep, UndeliveredStep, SignalStep
  <2> QED BY <1>1, <2>1, <2>2, <2>3 DEF IInv
<1>3. CASE Crash
  <2>1. \A c \in Callers : /\ call'[c].pc = "idle" /\ call'[c].op = "Get"
                           /\ call'[c].cur = NoRecord /\ call'[c].expected = 0
    BY <1>3 DEF Crash, Idle
  <2>2. /\ rec' = rec /\ deliveries' = deliveries /\ active' = NoCaller
        /\ rec.rev \in 1..MaxTransitions /\ NoRecord.rev = 0
    BY <1>3 DEF Crash, IInv, TypeOK, NoRecord, Created
  <2>3. Slot' /\ Checked' /\ RecoversAlone' /\ StageOwnsRecord'
    BY <2>1, <2>2, ConstantsAssumption
       DEF Slot, Checked, RecoversAlone, StageOwnsRecord, Holding, Executing
  <2>4. Fresh' /\ Undelivered'
    BY <2>1, <2>2, RecordsAssumption, ConstantsAssumption DEF Fresh, Undelivered
  <2>5. AttemptIsLast' /\ AttemptsWithinLimit' /\ SignalOnce'
    BY <2>2 DEF IInv, AttemptIsLast, AttemptsWithinLimit, SignalOnce
  <2> QED BY <1>1, <2>3, <2>4, <2>5 DEF IInv
<1>4. CASE DeadlinePasses \/ UNCHANGED vars
  BY <1>4 DEF DeadlinePasses, vars, IInv, TypeOK, Slot, Fresh, Checked, RecoversAlone,
              AttemptIsLast, StageOwnsRecord, AttemptsWithinLimit, Undelivered, SignalOnce
<1> QED BY <1>2, <1>3, <1>4 DEF Next, Moves

\* The inductive invariant: what the slot, the frames of the callers and the
\* durable record have to do with one another at every step of the engine.
THEOREM Inductive == Spec => []IInv
BY IInvInit, IInvStep, PTL DEF Spec

\* While a stage executes, the slot is its caller's and the durable record is
\* still its attempt: an outcome is never written into a state that its stage
\* did not start from.
THEOREM StageOwnership == Spec => []StageOwnsRecord
BY Inductive, PTL DEF IInv

\* However many callers advance, no more attempts start than the limit allows.
THEOREM AttemptsAreLimited == Spec => []AttemptsWithinLimit
BY Inductive, PTL DEF IInv

\* One signal ID wakes the execution at most once in its whole history.
THEOREM SignalsWakeOnce == Spec => []SignalOnce
BY Inductive, PTL DEF IInv

-----------------------------------------------------------------------------
(* Intents.                                                                 *)

\* The outcome of a stage whose pause or cancellation was requested honours the request.
LEMMA OutcomeOfIntent ==
    ASSUME NEW r \in Record, NEW o, r.status \in {"pause_requested", "cancel_requested"}
    PROVE  Outcome(r, o).status \in
             {r.status, IF r.status = "pause_requested" THEN "paused" ELSE "cancelled"}
BY DEF Outcome, WorkOutcome, DecisionOutcome, PausedAs, Record

\* A persisted intent is final: after cancel_requested only cancelled, or
\* Fail, can follow, after pause_requested only the pause or a stronger
\* intent, after a terminal status nothing.
THEOREM IntentsAreHonoured == Spec => IntentHonoured
<1> DEFINE A == /\ Terminal(rec) => UNCHANGED rec
                /\ rec.status = "cancel_requested" =>
                       rec'.status \in {"cancel_requested", "cancelled", "failed"}
                /\ rec.status = "pause_requested" =>
                       rec'.status \in {"pause_requested", "paused", "cancel_requested", "failed"}
<1>1. IInv /\ [Next]_vars => [A]_vars
  <2> SUFFICES ASSUME IInv, [Next]_vars PROVE A
    OBVIOUS
  <2> USE DEF IInv
  <2>1. CASE rec' = rec
    BY <2>1
  <2>2. ASSUME NEW c \in Callers, Moves(c), rec' # rec PROVE A
    <3>1. rec \in Record
      BY DEF TypeOK
    <3>2. CASE call[c].pc = "recover" /\ Writing(c, Recovered(rec))
      <4>1. rec.status \in ActiveStatus /\ rec'.status = Recovered(rec).status
        BY <3>2, WrittenFields DEF Checked
      <4> QED BY <3>1, <4>1 DEF Recovered, Record, ActiveStatus, Terminal, TerminalStatus
    <3>3. CASE /\ call[c].pc \in {"limit", "settle", "start"}
               /\ Writing(c, Limited(rec)) \/ Writing(c, Started(rec))
      <4>1. rec.status = "ready"
        BY <3>3, WrittenFields DEF Checked
      <4> QED BY <4>1 DEF Terminal, TerminalStatus
    <3>4. CASE call[c].pc = "commit" /\ Writing(c, Outcome(rec, call[c].outcome))
      <4>1. ~Terminal(rec) /\ rec'.status = Outcome(rec, call[c].outcome).status
        BY <3>4, WrittenFields DEF Checked
      <4> QED BY <3>1, <4>1, OutcomeOfIntent
    <3>5. CASE call[c].pc = "write" /\ Writing(c, Applied(call[c].op, rec))
      <4>1. /\ Permitted(call[c].op, rec) /\ ~AlreadyDone(call[c].op, rec)
            /\ rec'.status = Applied(call[c].op, rec).status
        BY <3>5, WrittenFields DEF Checked
      <4>2. ~Terminal(rec)
        BY <4>1 DEF Permitted
      <4> QED BY <3>1, <4>1, <4>2, AppliedToActive DEF ActiveStatus
    <3> QED BY <2>2, <3>2, <3>3, <3>4, <3>5, Transitions DEF Transition
  <2>3. CASE Crash \/ DeadlinePasses \/ UNCHANGED vars
    BY <2>1, <2>3 DEF Crash, DeadlinePasses, vars
  <2> QED BY <2>1, <2>2, <2>3 DEF Next, Moves
<1> QED BY <1>1, Inductive, PTL DEF Spec, IntentHonoured
=============================================================================
