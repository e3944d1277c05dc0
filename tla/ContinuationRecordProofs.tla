---------------------- MODULE ContinuationRecordProofs ----------------------
(***************************************************************************)
(* Proofs about what Continuation writes: every record the engine computes *)
(* is one its store accepts, and what the records of an execution say      *)
(* about the attempt, its evidence and its wakeup survives every step.     *)
(* The last part shows that the engine implements the documented life      *)
(* cycle.                                                                  *)
(***************************************************************************)
EXTENDS ContinuationProofs

-----------------------------------------------------------------------------
(* A coherent record: more than validateRecord asks of one record, and what *)
(* every record of the engine satisfies.                                    *)

\* The attempt a stage of this phase was started for: only complete work is
\* ever on its way to a decision.
Evidence(phase, a) ==
    /\ a.num # 0
    /\ a.work \in IF phase = "work" THEN {"none", "partial"} ELSE {"full"}

\* A status with no stage, as a record shows it or a suspension remembers it.
\* Work is ready only with no attempt open, unless it has to be retried.
AtRest(status, phase, retry, activation, a) ==
    /\ status \in {"ready", "waiting", "blocked", "interrupted"}
    /\ status \in {"waiting", "blocked"} => phase = "work" /\ activation = "none"
    /\ IF status = "interrupted" \/ phase = "decision" \/ retry
       THEN Evidence(phase, a) ELSE a.num = 0
    /\ status = "interrupted" => (retry <=> phase = "work")
    /\ retry => phase = "work" /\ status \in {"ready", "interrupted"}

Coherent(r) ==
    /\ r.attempt.num \in {0, r.attempts}
    /\ r.attempt.num = 0 => r.attempt.work = "none"
    /\ r.attempt.num # 0 => r.activation = "none"
    /\ r.status = "waiting" <=> r.wait # {}
    /\ r.status = "blocked" <=> r.block
    /\ r.status # "paused" => r.suspension = NoSuspension
    /\ r.status = "paused" => LET s == r.suspension IN
          /\ s.phase = r.phase
          /\ s.status = "waiting" <=> s.wait # {}
          /\ s.status = "blocked" <=> s.block
          /\ AtRest(s.status, s.phase, s.retry, r.activation, r.attempt)
    /\ r.status \in {"ready", "waiting", "blocked", "interrupted"} =>
          AtRest(r.status, r.phase, r.status = "interrupted" /\ r.phase = "work",
                 r.activation, r.attempt)
    /\ r.status \in ActiveStatus =>
          /\ r.attempt.num # 0 /\ r.attempt.phase = r.phase
          /\ r.attempt.work = IF r.phase = "work" THEN "none" ELSE "full"

\* A store accepts a coherent record.
LEMMA CoherentValid ==
    ASSUME NEW r, r.status \in Status, r.attempts \in Nat, Coherent(r)
    PROVE  ValidRecord(r)
<1>1. r.attempt.num <= r.attempts
  BY DEF Coherent
<1>2. r.status = "paused" => r.suspension # NoSuspension /\ ValidSuspension(r.suspension)
  BY DEF Coherent, AtRest, NoSuspension, ValidSuspension
<1>3. r.status # "paused" => r.suspension = NoSuspension
  BY DEF Coherent
<1>4. r.status = "ready" =>
         /\ r.wait = {} /\ ~r.block
         /\ r.phase = "decision" => r.attempt.num # 0 /\ r.attempt.work # "none"
  BY DEF Coherent, AtRest, Evidence
<1>5. r.status \in ActiveStatus =>
         /\ r.attempt.num # 0 /\ r.attempt.phase = r.phase
         /\ r.phase = "decision" => r.attempt.work # "none"
  BY DEF Coherent
<1>6. /\ r.status = "waiting" => r.wait # {} /\ r.phase = "work"
      /\ r.status = "blocked" => r.block /\ r.phase = "work"
      /\ r.status = "interrupted" => r.attempt.num # 0
  BY DEF Coherent, AtRest, Evidence
<1> QED BY <1>1, <1>2, <1>3, <1>4, <1>5, <1>6 DEF ValidRecord

\* The stamp of a revision does not matter.
LEMMA StampCoherent ==
    ASSUME NEW r \in Record, NEW n, Coherent(r) PROVE Coherent([r EXCEPT !.rev = n])
BY DEF Coherent, Record

\* The first record, and the record of a caller that has loaded none.
LEMMA NullsCoherent == Coherent(Created) /\ Coherent(NoRecord)
BY DEF Coherent, Created, NoRecord, NoAttempt, NoSuspension, AtRest, ActiveStatus

\* A status that ends the execution leaves nothing to resume.
LEMMA TerminalCoherent ==
    ASSUME NEW r \in Record, Terminal(r), r.attempt.num \in {0, r.attempts},
           r.attempt.num = 0 => r.attempt.work = "none",
           r.attempt.num # 0 => r.activation = "none",
           r.wait = {}, ~r.block, r.suspension = NoSuspension
    PROVE  Coherent(r)
BY DEF Coherent, Terminal, TerminalStatus, ActiveStatus

LEMMA LimitedCoherent ==
    ASSUME NEW r \in Record, Coherent(r) PROVE Coherent(Limited(r))
<1>1. /\ Limited(r).status = "limited" /\ Limited(r).wait = {} /\ ~Limited(r).block
      /\ Limited(r).suspension = NoSuspension /\ Limited(r).attempt = r.attempt
      /\ Limited(r).attempts = r.attempts /\ Limited(r).activation = r.activation
  BY DEF Limited, Record
<1> QED BY <1>1, LimitedTyped, TerminalCoherent DEF Coherent, Terminal, TerminalStatus

\* Starting a stage of a ready execution opens an attempt for work, and takes
\* over the evidence of one for a decision.
LEMMA StartedCoherent ==
    ASSUME NEW r \in Record, Coherent(r), r.status = "ready" PROVE Coherent(Started(r))
<1>1. /\ r.wait = {} /\ ~r.block /\ r.suspension = NoSuspension /\ r.attempts \in Nat
      /\ AtRest("ready", r.phase, FALSE, r.activation, r.attempt)
  BY DEF Coherent, Record
<1>2. CASE r.phase = "work"
  <2>1. LET s == Started(r) IN
        /\ s.status = "running" /\ s.wait = {} /\ ~s.block /\ s.suspension = NoSuspension
        /\ s.phase = "work" /\ s.activation = "none" /\ s.attempts = r.attempts + 1
        /\ s.attempt = [num |-> r.attempts + 1, phase |-> "work", work |-> "none",
                        activation |-> r.activation]
    BY <1>1, <1>2 DEF Started, Record
  <2> QED BY <1>1, <2>1 DEF Coherent, ActiveStatus
<1>3. CASE r.phase = "decision"
  <2>1. LET s == Started(r) IN
        /\ s.status = "running" /\ s.wait = {} /\ ~s.block /\ s.suspension = NoSuspension
        /\ s.phase = "decision" /\ s.activation = r.activation /\ s.attempts = r.attempts
        /\ s.attempt.num = r.attempt.num /\ s.attempt.work = r.attempt.work
        /\ s.attempt.phase = "decision"
    BY <1>1, <1>3 DEF Started, Record, Attempt
  <2>2. r.attempt.num # 0 /\ r.attempt.work = "full"
    BY <1>1, <1>3 DEF AtRest, Evidence
  <2> QED BY <2>1, <2>2 DEF Coherent, ActiveStatus
<1> QED BY <1>2, <1>3 DEF Record, Phase

\* What an active record looks like.
LEMMA ActiveCoherent ==
    ASSUME NEW r \in Record, Coherent(r), r.status \in ActiveStatus
    PROVE  /\ r.wait = {} /\ ~r.block /\ r.suspension = NoSuspension
           /\ r.attempt.num = r.attempts /\ r.attempts # 0 /\ r.activation = "none"
           /\ r.attempt.phase = r.phase
           /\ r.attempt.work = IF r.phase = "work" THEN "none" ELSE "full"
BY DEF Coherent, ActiveStatus, Record

\* Reconciling an orphan.
LEMMA RecoveredCoherent ==
    ASSUME NEW r \in Record, Coherent(r), r.status \in ActiveStatus
    PROVE  Coherent(Recovered(r))
<1> DEFINE n == Recovered(r)
<1>1. /\ n.attempt = r.attempt /\ n.attempts = r.attempts /\ n.phase = r.phase
      /\ n.wait = {} /\ ~n.block /\ n.activation = "none" /\ r.phase \in Phase
  BY ActiveCoherent DEF Recovered, Record
<1>2. /\ r.status = "running" => n.status = "interrupted" /\ n.suspension = NoSuspension
      /\ r.status = "cancel_requested" =>
            n.status = "cancelled" /\ n.suspension = NoSuspension
      /\ r.status = "pause_requested" =>
            n.status = "paused"
            /\ n.suspension = [status |-> "ready", phase |-> r.phase, wait |-> {},
                               block |-> FALSE, retry |-> r.phase = "work"]
  BY ActiveCoherent DEF Recovered, Record
<1>3. Evidence(r.phase, r.attempt)
  BY ActiveCoherent DEF Evidence
<1>4. CASE r.status = "running"
  BY <1>1, <1>2, <1>3, <1>4, ActiveCoherent DEF Coherent, AtRest, ActiveStatus, Phase
<1>5. CASE r.status = "pause_requested"
  <2> DEFINE q == n.suspension
  <2>1. /\ n.status = "paused" /\ q.status = "ready" /\ q.phase = r.phase
        /\ q.wait = {} /\ ~q.block /\ (q.retry <=> r.phase = "work")
    <3> DEFINE b == r.phase = "work"
    <3>1. b \in BOOLEAN
      OBVIOUS
    <3>2. n.status = "paused"
          /\ q = [status |-> "ready", phase |-> r.phase, wait |-> {}, block |-> FALSE,
                  retry |-> b]
      BY <1>2, <1>5
    <3> HIDE DEF b, n, q
    <3>3. /\ n.status = "paused" /\ q.status = "ready" /\ q.phase = r.phase
          /\ q.wait = {} /\ ~q.block /\ q.retry = b
      BY <3>1, <3>2
    <3> QED BY <3>3 DEF b
  <2>2. AtRest(q.status, q.phase, q.retry, n.activation, n.attempt)
    BY <1>1, <1>3, <2>1 DEF AtRest, Phase
  <2>3. /\ r.attempt.num = r.attempts /\ r.attempts # 0
    BY ActiveCoherent
  <2> QED BY <1>1, <2>1, <2>2, <2>3 DEF Coherent, ActiveStatus
<1>6. CASE r.status = "cancel_requested"
  BY <1>1, <1>2, <1>6, ActiveCoherent DEF Coherent, ActiveStatus
<1> QED BY <1>4, <1>5, <1>6 DEF ActiveStatus

\* What a pause of a stage says.
LEMMA PausedAsFields ==
    ASSUME NEW r \in Record, NEW p \in Phase, NEW retry \in BOOLEAN
    PROVE  LET n == PausedAs(r, p, retry) IN
           /\ n.status = "paused" /\ n.phase = p /\ n.attempt = r.attempt
           /\ n.attempts = r.attempts /\ n.activation = r.activation
           /\ n.wait = r.wait /\ n.block = r.block
           /\ n.suspension.status = "ready" /\ n.suspension.phase = p
           /\ n.suspension.wait = {} /\ ~n.suspension.block
           /\ (n.suspension.retry <=> retry)
BY DEF PausedAs, Record, NoSuspension

\* A pause of an active stage, which Resume or RetryWork will find in phase p.
LEMMA PausedAsCoherent ==
    ASSUME NEW r \in Record, NEW p \in Phase, NEW retry \in BOOLEAN,
           r.wait = {}, ~r.block, r.attempt.num = r.attempts, r.attempts # 0,
           r.activation = "none", Evidence(p, r.attempt),
           retry <=> p = "work"
    PROVE  Coherent(PausedAs(r, p, retry))
<1>1. LET n == PausedAs(r, p, retry) IN
      /\ n.status = "paused" /\ n.phase = p /\ n.attempt = r.attempt /\ n.wait = {}
      /\ ~n.block /\ n.attempts = r.attempts /\ n.activation = "none"
      /\ n.suspension.status = "ready" /\ n.suspension.phase = p
      /\ n.suspension.wait = {} /\ ~n.suspension.block
      /\ (n.suspension.retry <=> retry)
  BY PausedAsFields
<1> QED BY <1>1 DEF Coherent, AtRest, Evidence, ActiveStatus, Phase

\* A stage that failed: work keeps its partial result, a decision its evidence.
LEMMA InterruptedCoherent ==
    ASSUME NEW r \in Record, NEW p \in Phase,
           r.wait = {}, ~r.block, r.suspension = NoSuspension,
           r.attempt.num = r.attempts, r.attempts # 0,
           r.activation = "none", Evidence(p, r.attempt)
    PROVE  Coherent(Interrupted(r, p))
<1>1. LET n == Interrupted(r, p) IN
      /\ n.status = "interrupted" /\ n.phase = p /\ n.attempt = r.attempt /\ n.wait = {}
      /\ ~n.block /\ n.attempts = r.attempts /\ n.activation = "none"
      /\ n.suspension = NoSuspension
  BY DEF Interrupted, Record
<1> QED BY <1>1 DEF Coherent, AtRest, Evidence, ActiveStatus, Phase

\* The work of an active attempt has returned: what its record becomes.
LEMMA WorkOutcomeCases ==
    ASSUME NEW r \in Record, Coherent(r), r.status \in ActiveStatus, r.phase = "work",
           NEW o \in WorkOutcomes
    PROVE  LET n == WorkOutcome(r, o)
               failed == o.verdict = "error"
           IN  /\ Coherent(n)
               /\ n.attempt.num = r.attempt.num
               /\ n.attempt.work = IF failed THEN "partial" ELSE "full"
               /\ n.activation = r.activation
               /\ r.status = "running" =>
                     /\ n.status = IF failed THEN "interrupted" ELSE "ready"
                     /\ n.phase = IF failed THEN "work" ELSE "decision"
                     /\ n.suspension = NoSuspension
               /\ r.status = "pause_requested" =>
                     /\ n.status = "paused"
                     /\ n.phase = IF failed THEN "work" ELSE "decision"
                     /\ n.suspension.status = "ready" /\ n.suspension.phase = n.phase
                     /\ (n.suspension.retry <=> failed)
               /\ r.status = "cancel_requested" =>
                     /\ n.status = "cancelled" /\ n.phase = "work"
                     /\ n.suspension = NoSuspension
<1> DEFINE failed == o.verdict = "error"
           w == IF failed THEN "partial" ELSE "full"
           a(p) == [r.attempt EXCEPT !.phase = p, !.work = w]
           done(p) == [r EXCEPT !.turns = @ + o.turns, !.attempt = a(p)]
           n == WorkOutcome(r, o)
<1>1. /\ r.wait = {} /\ ~r.block /\ r.suspension = NoSuspension
      /\ r.attempt.num = r.attempts /\ r.attempts # 0 /\ r.activation = "none"
  BY ActiveCoherent
<1>2. \A p \in Phase : a(p) \in Attempt /\ a(p).num = r.attempt.num /\ a(p).work = w
  BY DEF Attempt, Record, Phase
<1>3. ASSUME NEW p \in Phase
      PROVE  /\ done(p) \in Record /\ done(p).attempt = a(p) /\ done(p).status = r.status
             /\ done(p).phase = "work"
             /\ done(p).wait = {} /\ ~done(p).block /\ done(p).suspension = NoSuspension
             /\ done(p).attempts = r.attempts /\ done(p).activation = "none"
  <2> DEFINE t == r.turns + o.turns
  <2>1. t \in Nat
    <3>1. o.turns \in Nat /\ r.turns \in Nat
      BY ConstantsAssumption DEF Record, WorkOutcomes
    <3> QED BY <3>1
  <2> HIDE DEF a, t
  <2>2. LET d == [r EXCEPT !.turns = t, !.attempt = a(p)] IN
        /\ d \in Record /\ d.attempt = a(p) /\ d.status = r.status /\ d.phase = "work"
        /\ d.wait = {} /\ ~d.block /\ d.suspension = NoSuspension
        /\ d.attempts = r.attempts /\ d.activation = "none"
    BY <1>1, <1>2, <2>1 DEF Record
  <2> QED BY <2>2 DEF t
<1>4. /\ [r EXCEPT !.turns = @ + o.turns, !.attempt.phase = "work", !.attempt.work = w]
            = done("work")
      /\ [done("work") EXCEPT !.attempt.phase = "decision"] = done("decision")
  BY DEF Record, Attempt
<1>5. /\ "work" \in Phase /\ "decision" \in Phase
      /\ failed => Evidence("work", a("work"))
      /\ ~failed => Evidence("decision", a("decision"))
  BY <1>1, <1>2 DEF Evidence, Phase
<1> HIDE DEF a, done, w
<1>6. CASE r.status = "cancel_requested"
  <2>1. n = [done("work") EXCEPT !.status = "cancelled", !.wait = {}, !.block = FALSE,
                                 !.suspension = NoSuspension, !.cause = "cancel"]
    BY <1>1, <1>4, <1>6 DEF WorkOutcome, w
  <2>2. /\ n.status = "cancelled" /\ n.wait = {} /\ ~n.block /\ n.suspension = NoSuspension
        /\ n.attempt = a("work") /\ n.attempts = r.attempts /\ n.activation = "none"
        /\ n.phase = "work"
    BY <1>3, <1>5, <2>1 DEF Record
  <2>3. n \in Record
    BY WorkOutcomeTyped, ConstantsAssumption DEF WorkOutcomes
  <2>4. Coherent(n)
    BY <1>1, <1>2, <1>5, <2>2, <2>3, TerminalCoherent DEF Terminal, TerminalStatus
  <2> QED BY <1>1, <1>2, <1>5, <1>6, <2>2, <2>4 DEF w
<1>7. CASE r.status = "pause_requested"
  <2>2. CASE failed
    <3>1. n = PausedAs(done("work"), "work", TRUE)
      BY <1>1, <1>4, <1>7, <2>2 DEF WorkOutcome, w
    <3>2. Coherent(n)
      BY <1>1, <1>2, <1>3, <1>5, <2>2, <3>1, PausedAsCoherent
    <3>3. /\ n.status = "paused" /\ n.phase = "work" /\ n.attempt = a("work")
          /\ n.activation = "none" /\ n.suspension.status = "ready"
          /\ n.suspension.phase = "work" /\ n.suspension.retry
      <4>1. PICK d \in Record : d = done("work")
        BY <1>3, <1>5
      <4>2. LET q == PausedAs(d, "work", TRUE) IN
            /\ q.status = "paused" /\ q.phase = "work" /\ q.attempt = d.attempt
            /\ q.activation = d.activation
            /\ q.suspension.status = "ready" /\ q.suspension.phase = "work"
            /\ q.suspension.retry
        BY <1>5, PausedAsFields DEF Phase
      <4>3. d.attempt = a("work") /\ d.activation = "none"
        BY <1>3, <1>5, <4>1
      <4> QED BY <3>1, <4>1, <4>2, <4>3
    <3> QED BY <1>1, <1>2, <1>5, <1>7, <2>2, <3>2, <3>3 DEF w
  <2>3. CASE ~failed
    <3>1. n = PausedAs(done("decision"), "decision", FALSE)
      <4>1. n = PausedAs([done("work") EXCEPT !.attempt.phase = "decision"],
                         "decision", FALSE)
        BY <1>1, <1>4, <1>7, <2>3 DEF WorkOutcome, w
      <4> QED BY <1>4, <4>1
    <3>2. Coherent(n)
      BY <1>1, <1>2, <1>3, <1>5, <2>3, <3>1, PausedAsCoherent
    <3>3. /\ n.status = "paused" /\ n.phase = "decision" /\ n.attempt = a("decision")
          /\ n.activation = "none" /\ n.suspension.status = "ready"
          /\ n.suspension.phase = "decision" /\ ~n.suspension.retry
      <4>1. PICK d \in Record : d = done("decision")
        BY <1>3, <1>5
      <4>2. LET q == PausedAs(d, "decision", FALSE) IN
            /\ q.status = "paused" /\ q.phase = "decision" /\ q.attempt = d.attempt
            /\ q.activation = d.activation
            /\ q.suspension.status = "ready" /\ q.suspension.phase = "decision"
            /\ ~q.suspension.retry
        BY <1>5, PausedAsFields DEF Phase
      <4>3. d.attempt = a("decision") /\ d.activation = "none"
        BY <1>3, <1>5, <4>1
      <4> QED BY <3>1, <4>1, <4>2, <4>3
    <3> QED BY <1>1, <1>2, <1>5, <1>7, <2>3, <3>2, <3>3 DEF w
  <2> QED BY <2>2, <2>3
<1>8. CASE r.status = "running"
  <2>1. CASE failed
    <3>1. n = Interrupted(done("work"), "work")
      BY <1>1, <1>4, <1>8, <2>1 DEF WorkOutcome, w
    <3>2. Coherent(n)
      BY <1>1, <1>2, <1>3, <1>5, <2>1, <3>1, InterruptedCoherent
    <3>3. /\ n.status = "interrupted" /\ n.phase = "work" /\ n.attempt = a("work")
          /\ n.activation = "none" /\ n.suspension = NoSuspension
      BY <1>3, <1>5, <3>1 DEF Interrupted, Record
    <3> QED BY <1>1, <1>2, <1>5, <1>8, <2>1, <3>2, <3>3 DEF w
  <2>2. CASE ~failed
    <3>1. n = [done("decision") EXCEPT !.status = "ready", !.phase = "decision",
                                       !.cause = "work_complete"]
      <4>1. n = [done("work") EXCEPT !.status = "ready", !.phase = "decision",
                                     !.attempt.phase = "decision", !.cause = "work_complete"]
        BY <1>1, <1>4, <1>8, <2>2 DEF WorkOutcome, w
      <4> QED BY <1>3, <1>4, <1>5, <4>1 DEF Record
    <3>2. /\ n.status = "ready" /\ n.phase = "decision" /\ n.attempt = a("decision")
          /\ n.activation = "none" /\ n.suspension = NoSuspension /\ n.wait = {} /\ ~n.block
          /\ n.attempts = r.attempts
      BY <1>3, <1>5, <3>1 DEF Record
    <3>3. Coherent(n)
      BY <1>1, <1>2, <1>5, <2>2, <3>2 DEF Coherent, AtRest, ActiveStatus
    <3> QED BY <1>1, <1>2, <1>5, <1>8, <2>2, <3>2, <3>3 DEF w
  <2> QED BY <2>1, <2>2
<1> QED BY <1>6, <1>7, <1>8 DEF ActiveStatus

\* The Controller has returned to an active attempt: what its record becomes.
LEMMA DecisionOutcomeCases ==
    ASSUME NEW r \in Record, Coherent(r), r.status \in ActiveStatus, r.phase = "decision",
           NEW o \in DecisionOutcomes
    PROVE  LET n == DecisionOutcome(r, o)
               decided == r.status = "running" /\ o.verdict # "error"
           IN  /\ Coherent(n)
               /\ n.turns = r.turns /\ n.activation = r.activation
               /\ n.attempt = IF decided THEN NoAttempt ELSE r.attempt
               /\ decided =>
                     /\ n.cause = "controller_action" /\ n.suspension = NoSuspension
                     /\ \/ n.status \in {"ready", "waiting", "blocked"} /\ n.phase = "work"
                        \/ /\ n.status \in {"completed", "failed", "cancelled"}
                           /\ n.phase = "decision"
               /\ ~decided => n.phase = "decision"
               /\ r.status = "running" /\ ~decided =>
                     n.status = "interrupted" /\ n.suspension = NoSuspension
               /\ r.status = "pause_requested" =>
                     /\ n.status = "paused"
                     /\ n.suspension.status = "ready" /\ n.suspension.phase = "decision"
                     /\ ~n.suspension.retry
               /\ r.status = "cancel_requested" =>
                     n.status = "cancelled" /\ n.suspension = NoSuspension
<1> DEFINE n == DecisionOutcome(r, o)
<1>1. /\ r.wait = {} /\ ~r.block /\ r.suspension = NoSuspension
      /\ r.attempt.num = r.attempts /\ r.attempts # 0 /\ r.activation = "none"
      /\ r.attempt.work = "full" /\ Evidence("decision", r.attempt)
  BY ActiveCoherent DEF Evidence
<1>2. CASE r.status = "cancel_requested"
  <2>1. /\ n.status = "cancelled" /\ n.wait = {} /\ ~n.block /\ n.suspension = NoSuspension
        /\ n.attempt = r.attempt /\ n.attempts = r.attempts /\ n.activation = "none"
        /\ n.phase = "decision" /\ n.turns = r.turns
    BY <1>1, <1>2 DEF DecisionOutcome, Record
  <2>2. Coherent(n)
    BY <1>1, <2>1 DEF Coherent, ActiveStatus
  <2> QED BY <1>1, <1>2, <2>1, <2>2
<1>3. CASE r.status = "pause_requested"
  <2>1. n = PausedAs(r, "decision", FALSE)
    BY <1>1, <1>3 DEF DecisionOutcome
  <2>2. Coherent(n)
    BY <1>1, <2>1, PausedAsCoherent DEF Phase
  <2>3. n.turns = r.turns
    BY <2>1 DEF PausedAs, Record
  <2>4. LET q == PausedAs(r, "decision", FALSE) IN
        /\ q.status = "paused" /\ q.phase = "decision" /\ q.attempt = r.attempt
        /\ q.activation = r.activation
        /\ q.suspension.status = "ready" /\ q.suspension.phase = "decision"
        /\ ~q.suspension.retry
    BY PausedAsFields DEF Phase
  <2> QED BY <1>1, <1>3, <2>1, <2>2, <2>3, <2>4
<1>4. CASE r.status = "running" /\ o.verdict = "error"
  <2>1. n = Interrupted(r, "decision")
    BY <1>1, <1>4 DEF DecisionOutcome
  <2>2. Coherent(n)
    BY <1>1, <2>1, InterruptedCoherent DEF Phase
  <2>3. /\ n.status = "interrupted" /\ n.phase = "decision" /\ n.attempt = r.attempt
        /\ n.activation = "none" /\ n.suspension = NoSuspension /\ n.turns = r.turns
    BY <1>1, <2>1 DEF Interrupted, Record
  <2> QED BY <1>1, <1>4, <2>2, <2>3
<1>5. CASE r.status = "running" /\ o.verdict # "error"
  <2>1. n = Decided(r, o)
    BY <1>1, <1>5 DEF DecisionOutcome
  <2>2. /\ o.verdict \in {"continue", "wait", "block", "complete", "fail", "cancel"}
        /\ o.verdict = "wait" => o.wait # {}
    BY <1>5 DEF DecisionOutcomes
  <2> DEFINE closed == [r EXCEPT !.attempt = NoAttempt, !.wait = {}, !.block = FALSE,
                                 !.suspension = NoSuspension, !.cause = "controller_action"]
  <2>3. /\ closed \in Record /\ closed.attempt = NoAttempt /\ closed.attempts = r.attempts
        /\ closed.suspension = NoSuspension /\ closed.activation = "none"
        /\ closed.turns = r.turns /\ closed.cause = "controller_action"
        /\ closed.wait = {} /\ ~closed.block
    BY <1>1, NullsTyped DEF Record, Wait, Cause
  <2>4. n = CASE o.verdict = "continue" -> [closed EXCEPT !.status = "ready", !.phase = "work"]
              [] o.verdict = "wait" -> [closed EXCEPT !.status = "waiting", !.phase = "work",
                                                      !.wait = o.wait]
              [] o.verdict = "block" -> [closed EXCEPT !.status = "blocked", !.phase = "work",
                                                       !.block = TRUE]
              [] o.verdict = "complete" ->
                    [closed EXCEPT !.status = "completed", !.phase = "decision"]
              [] o.verdict = "fail" -> [closed EXCEPT !.status = "failed", !.phase = "decision"]
              [] OTHER -> [closed EXCEPT !.status = "cancelled", !.phase = "decision"]
    BY <2>1 DEF Decided
  <2> HIDE DEF closed
  <2> DEFINE Kept == /\ n.attempt = NoAttempt /\ n.attempts = r.attempts
                     /\ n.suspension = NoSuspension /\ n.activation = "none"
                     /\ n.turns = r.turns /\ n.cause = "controller_action"
  <2>5. CASE o.verdict \in {"complete", "fail", "cancel"}
    <3>1. PICK s \in {"completed", "failed", "cancelled"} :
             n = [closed EXCEPT !.status = s, !.phase = "decision"]
      BY <2>4, <2>5
    <3>2. /\ Kept /\ n.wait = {} /\ ~n.block /\ n.phase = "decision" /\ n.status = s
      BY <2>3, <3>1 DEF Record
    <3>3. Coherent(n)
      BY <3>2 DEF Coherent, NoAttempt, ActiveStatus
    <3> QED BY <1>1, <1>5, <3>2, <3>3
  <2>6. CASE o.verdict = "continue"
    <3>1. /\ Kept /\ n.wait = {} /\ ~n.block /\ n.phase = "work" /\ n.status = "ready"
      BY <2>3, <2>4, <2>6 DEF Record
    <3>2. Coherent(n)
      BY <3>1 DEF Coherent, NoAttempt, ActiveStatus, AtRest
    <3> QED BY <1>1, <1>5, <3>1, <3>2
  <2>7. CASE o.verdict = "wait"
    <3>1. /\ Kept /\ n.wait = o.wait /\ ~n.block /\ n.phase = "work" /\ n.status = "waiting"
      BY <2>3, <2>4, <2>7 DEF Record
    <3>2. Coherent(n)
      BY <2>2, <2>7, <3>1 DEF Coherent, NoAttempt, ActiveStatus, AtRest
    <3> QED BY <1>1, <1>5, <3>1, <3>2
  <2>8. CASE o.verdict = "block"
    <3>1. /\ Kept /\ n.wait = {} /\ n.block /\ n.phase = "work" /\ n.status = "blocked"
      BY <2>3, <2>4, <2>8 DEF Record
    <3>2. Coherent(n)
      BY <3>1 DEF Coherent, NoAttempt, ActiveStatus, AtRest
    <3> QED BY <1>1, <1>5, <3>1, <3>2
  <2> QED BY <2>2, <2>5, <2>6, <2>7, <2>8
<1> QED BY <1>2, <1>3, <1>4, <1>5 DEF ActiveStatus

\* What a record at rest looks like.
LEMMA RestCoherent ==
    ASSUME NEW r \in Record, Coherent(r),
           r.status \in {"ready", "waiting", "blocked", "interrupted"}
    PROVE  /\ r.suspension = NoSuspension /\ (r.attempt.num # 0 => r.activation = "none")
           /\ r.status = "interrupted" => r.attempt.num # 0
           /\ r.status \in {"waiting", "blocked"} =>
                 r.phase = "work" /\ r.attempt.num = 0 /\ r.activation = "none"
           /\ AtRest(r.status, r.phase, r.status = "interrupted" /\ r.phase = "work",
                     r.activation, r.attempt)
BY DEF Coherent, AtRest, Evidence

\* Pausing an execution at rest.
LEMMA SuspendedCoherent ==
    ASSUME NEW r \in Record, Coherent(r),
           r.status \in {"ready", "waiting", "blocked", "interrupted"}
    PROVE  LET n == Suspended(r) IN
           /\ Coherent(n) /\ n.status = "paused" /\ n.phase = r.phase
           /\ n.suspension.status = r.status /\ n.suspension.phase = r.phase
           /\ n.suspension.retry <=> r.status = "interrupted" /\ r.phase = "work"
<1> DEFINE n == Suspended(r)
           b == r.status = "interrupted" /\ r.phase = "work"
           q == n.suspension
<1>1. b \in BOOLEAN
  OBVIOUS
<1>2. n = [r EXCEPT !.status = "paused", !.wait = {}, !.block = FALSE, !.cause = "pause",
                    !.suspension = [status |-> r.status, phase |-> r.phase,
                                    wait |-> r.wait, block |-> r.block, retry |-> b]]
  BY DEF Suspended
<1>3. /\ n.status = "paused" /\ n.phase = r.phase /\ n.wait = {} /\ ~n.block
      /\ n.attempt = r.attempt /\ n.attempts = r.attempts /\ n.activation = r.activation
      /\ q.status = r.status /\ q.phase = r.phase /\ q.wait = r.wait
      /\ q.block = r.block /\ q.retry = b
  <2> HIDE DEF b
  <2> QED BY <1>1, <1>2 DEF Record
<1>4. AtRest(q.status, q.phase, q.retry, n.activation, n.attempt)
  BY <1>3, RestCoherent
<1>5. Coherent(n)
  BY <1>3, <1>4 DEF Coherent, ActiveStatus
<1> QED BY <1>3, <1>5

\* Resuming restores what the suspension remembers.
LEMMA ResumedCoherent ==
    ASSUME NEW r \in Record, Coherent(r), r.status = "paused", ~r.suspension.retry
    PROVE  LET n == Resumed(r) IN
           /\ Coherent(n) /\ n.status = r.suspension.status /\ n.status \in Status
           /\ n.phase = r.suspension.phase /\ n.suspension = NoSuspension
<1> DEFINE n == Resumed(r)
           q == r.suspension
<1>1. /\ n.status = q.status /\ n.phase = q.phase /\ n.wait = q.wait /\ n.block = q.block
      /\ n.suspension = NoSuspension /\ n.attempt = r.attempt /\ n.attempts = r.attempts
      /\ n.activation = r.activation
  BY DEF Resumed, Record
<1>2. /\ AtRest(q.status, q.phase, q.retry, r.activation, r.attempt)
      /\ q.status = "waiting" <=> q.wait # {}
      /\ q.status = "blocked" <=> q.block
      /\ q.status \in {"ready", "waiting", "blocked", "interrupted"}
  BY DEF Coherent, AtRest
<1>3. AtRest(q.status, q.phase, q.status = "interrupted" /\ q.phase = "work",
             r.activation, r.attempt)
  BY <1>2 DEF AtRest
<1>4. Coherent(n)
  <2>1. /\ r.attempt.num \in {0, r.attempts} /\ (r.attempt.num = 0 => r.attempt.work = "none")
        /\ r.attempt.num # 0 => r.activation = "none"
    BY DEF Coherent
  <2> QED BY <1>1, <1>2, <1>3, <2>1 DEF Coherent, ActiveStatus
<1> QED BY <1>1, <1>2, <1>4 DEF Status

\* A retry closes the attempt it retries and makes work ready.
LEMMA RetryCoherent ==
    ASSUME NEW r \in Record, Coherent(r), Permitted("RetryWork", r)
    PROVE  LET n == Applied("RetryWork", r) IN
           /\ Coherent(n) /\ n.status = "ready" /\ n.phase = "work" /\ r.phase = "work"
           /\ n.attempt = NoAttempt /\ n.suspension = NoSuspension
           /\ \/ r.status = "paused" /\ r.suspension.retry
              \/ r.status = "interrupted" /\ r.phase = "work"
<1> DEFINE n == Applied("RetryWork", r)
<1>1. \/ r.status = "paused" /\ r.suspension.phase = "work" /\ r.suspension.retry
      \/ r.status = "interrupted" /\ r.phase = "work"
  BY RecordsAssumption DEF Permitted, Control, Coherent
<1>2. r.phase = "work" /\ r.wait = {} /\ ~r.block
  BY <1>1 DEF Coherent
<1>3. /\ n.status = "ready" /\ n.phase = "work" /\ n.attempt = NoAttempt
      /\ n.suspension = NoSuspension /\ n.wait = r.wait /\ n.block = r.block
  <2>1. n = [r EXCEPT !.status = "ready", !.phase = "work", !.attempt = NoAttempt,
                      !.cause = "retry_work", !.suspension = NoSuspension]
    BY RecordsAssumption DEF Applied, Control
  <2> QED BY <2>1 DEF Record
<1>4. Coherent(n)
  BY <1>2, <1>3 DEF Coherent, AtRest, NoAttempt, ActiveStatus
<1> QED BY <1>1, <1>2, <1>3, <1>4

\* A decision that is asked for again judges the evidence of the first.
LEMMA RetryDecisionCoherent ==
    ASSUME NEW r \in Record, Coherent(r), Permitted("RetryDecision", r)
    PROVE  LET n == Applied("RetryDecision", r) IN
           /\ Coherent(n) /\ n.status = "ready" /\ n.phase = "decision"
           /\ n.suspension = NoSuspension /\ n.attempt = r.attempt
           /\ r.status = "interrupted" /\ r.phase = "decision" /\ r.attempt.work = "full"
<1> DEFINE n == Applied("RetryDecision", r)
<1>1. r.status = "interrupted" /\ r.phase = "decision"
  BY RecordsAssumption DEF Permitted, Control
<1>2. /\ r.wait = {} /\ ~r.block /\ r.suspension = NoSuspension /\ r.activation = "none"
      /\ Evidence("decision", r.attempt) /\ r.attempt.num \in {0, r.attempts}
  BY <1>1, RestCoherent DEF Coherent, AtRest
<1>3. /\ n.status = "ready" /\ n.phase = "decision" /\ n.attempt = r.attempt
      /\ n.suspension = NoSuspension /\ n.wait = {} /\ ~n.block
      /\ n.attempts = r.attempts /\ n.activation = "none"
  <2>1. n = [r EXCEPT !.status = "ready", !.phase = "decision",
                      !.cause = "retry_decision"]
    BY RecordsAssumption DEF Applied, Control
  <2> QED BY <1>2, <2>1 DEF Record
<1>4. Coherent(n)
  BY <1>2, <1>3 DEF Coherent, AtRest, Evidence, ActiveStatus
<1> QED BY <1>1, <1>2, <1>3, <1>4 DEF Evidence

Wakeups == {"ResolveBlock", "ResumeDue"} \cup SignalIds

\* A wakeup makes work ready, with no attempt open.
LEMMA WokenCoherent ==
    ASSUME NEW r \in Record, Coherent(r), NEW op \in Wakeups, Permitted(op, r)
    PROVE  LET n == Applied(op, r) IN
           /\ Coherent(n) /\ n.status = "ready" /\ n.phase = "work"
           /\ n.suspension = NoSuspension /\ n.attempt = r.attempt
           /\ r.status \in {"waiting", "blocked"} /\ r.activation = "none"
<1> DEFINE n == Applied(op, r)
<1>1. IF op = "ResolveBlock" THEN r.status = "blocked" ELSE r.status = "waiting"
  BY RecordsAssumption DEF Permitted, Control, Wakeups
<1>2. /\ r.suspension = NoSuspension /\ r.activation = "none" /\ r.attempt.num = 0
      /\ r.attempt.work = "none"
      /\ IF op = "ResolveBlock" THEN r.wait = {} ELSE ~r.block
  BY <1>1, RestCoherent DEF Coherent
<1>3. /\ n.status = "ready" /\ n.phase = "work" /\ n.attempt = r.attempt
      /\ n.suspension = NoSuspension /\ n.attempts = r.attempts
      /\ n.wait = {} /\ ~n.block
  BY <1>2, RecordsAssumption DEF Applied, Woken, Record, Control, Wakeups
<1>4. Coherent(n)
  BY <1>2, <1>3 DEF Coherent, AtRest, ActiveStatus
<1> QED BY <1>1, <1>2, <1>3, <1>4

\* Ending an execution.
LEMMA EndedCoherent ==
    ASSUME NEW r \in Record, Coherent(r), NEW s \in TerminalStatus, NEW cause
    PROVE  LET n == Ended(r, s, cause) IN
           /\ Coherent(n) /\ n.status = s /\ n.phase = r.phase /\ n.attempt = r.attempt
           /\ n.suspension = NoSuspension
<1> DEFINE n == Ended(r, s, cause)
<1>1. /\ n.status = s /\ n.phase = r.phase /\ n.attempt = r.attempt /\ n.wait = {} /\ ~n.block
      /\ n.suspension = NoSuspension /\ n.attempts = r.attempts /\ n.activation = "none"
  BY DEF Ended, Record
<1>2. Coherent(n)
  BY <1>1 DEF Coherent, TerminalStatus, ActiveStatus
<1> QED BY <1>1, <1>2

\* Requesting the pause or the cancellation of an active stage.
LEMMA RequestCoherent ==
    ASSUME NEW r \in Record, Coherent(r), r.status \in ActiveStatus,
           NEW n \in Record, n.status \in ActiveStatus,
           n.wait = r.wait, n.block = r.block, n.suspension = r.suspension, n.phase = r.phase,
           n.attempt = r.attempt, n.attempts = r.attempts, n.activation = r.activation
    PROVE  Coherent(n)
BY DEF Coherent, ActiveStatus

\* Whatever operation is permitted on a coherent record, it writes a coherent
\* one, charges nothing, closes an attempt only to retry its work, and
\* forgets a wakeup only when the execution ends.
LEMMA AppliedCoherent ==
    ASSUME NEW r \in Record, Coherent(r), NEW op, Permitted(op, r), ~AlreadyDone(op, r)
    PROVE  LET n == Applied(op, r) IN
           /\ Coherent(n) /\ n.status \in Status
           /\ n.attempts = r.attempts /\ n.turns = r.turns
           /\ \/ n.attempt = r.attempt
              \/ /\ n.attempt = NoAttempt /\ n.cause = "retry_work" /\ r.phase = "work"
                 /\ n.activation = r.activation
           /\ n.activation # r.activation => r.activation = "none" \/ Terminal(n)
<1> DEFINE n == Applied(op, r)
<1> USE RecordsAssumption
<1>1. n.attempts = r.attempts /\ n.turns = r.turns
  BY DEF Applied, Suspended, Resumed, Woken, Ended, Record
<1>2. ~Terminal(r) /\ r.status \in Status
  BY DEF Permitted, Record
<1>3. CASE op = "Pause"
  <2>1. r.status \in {"running", "ready", "waiting", "blocked", "interrupted"}
    BY <1>2, <1>3 DEF Permitted, AlreadyDone, Status, ActiveStatus, TerminalStatus, Terminal, Control
  <2>2. CASE r.status = "running"
    <3>1. n = [r EXCEPT !.status = "pause_requested", !.cause = "pause_requested"]
      BY <1>3, <2>2 DEF Applied, Control
    <3>2. /\ n \in Record /\ n.status = "pause_requested" /\ n.wait = r.wait
          /\ n.block = r.block /\ n.suspension = r.suspension /\ n.phase = r.phase
          /\ n.attempt = r.attempt /\ n.activation = r.activation
      BY <3>1 DEF Record, Status, ActiveStatus, Cause
    <3>3. Coherent(n)
      BY <1>1, <2>2, <3>2, RequestCoherent DEF ActiveStatus
    <3> QED BY <1>1, <3>2, <3>3 DEF Status, ActiveStatus
  <2>3. CASE r.status # "running"
    <3>1. n = Suspended(r)
      BY <1>3, <2>3 DEF Applied, Control
    <3>2. Coherent(n) /\ n.status = "paused"
      BY <2>1, <2>3, <3>1, SuspendedCoherent
    <3>3. n.attempt = r.attempt /\ n.activation = r.activation
      BY <3>1 DEF Suspended, Record
    <3> QED BY <1>1, <3>2, <3>3 DEF Status
  <2> QED BY <2>2, <2>3
<1>4. CASE op = "Resume"
  <2>1. n = Resumed(r) /\ r.status = "paused" /\ ~r.suspension.retry
    BY <1>4 DEF Applied, Permitted, Control
  <2>2. n.attempt = r.attempt /\ n.activation = r.activation
    BY <2>1 DEF Resumed, Record
  <2> QED BY <1>1, <2>1, <2>2, ResumedCoherent
<1>5. CASE op = "RetryWork"
  <2>1. Coherent(n) /\ n.status = "ready" /\ r.phase = "work" /\ n.attempt = NoAttempt
    BY <1>5, RetryCoherent
  <2>2. n.cause = "retry_work" /\ n.activation = r.activation
    BY <1>5 DEF Applied, Control, Record
  <2> QED BY <1>1, <2>1, <2>2 DEF Status
<1>6. CASE op = "RetryDecision"
  <2>1. Coherent(n) /\ n.status = "ready" /\ n.attempt = r.attempt
    BY <1>6, RetryDecisionCoherent
  <2>2. n.activation = r.activation
    BY <1>6 DEF Applied, Control, Record
  <2> QED BY <1>1, <2>1, <2>2 DEF Status
<1>7. CASE op \in Wakeups
  <2>1. Coherent(n) /\ n.status = "ready" /\ n.attempt = r.attempt /\ r.activation = "none"
    BY <1>7, WokenCoherent
  <2> QED BY <1>1, <2>1 DEF Status
<1>8. CASE op = "Cancel"
  <2>1. CASE r.status \in {"running", "pause_requested"}
    <3>1. n = [r EXCEPT !.status = "cancel_requested", !.cause = "cancel_requested"]
      BY <1>8, <2>1 DEF Applied, Control
    <3>2. /\ n \in Record /\ n.status = "cancel_requested" /\ n.wait = r.wait
          /\ n.block = r.block /\ n.suspension = r.suspension /\ n.phase = r.phase
          /\ n.attempt = r.attempt /\ n.activation = r.activation
      BY <3>1 DEF Record, Status, ActiveStatus, Cause
    <3>3. Coherent(n)
      BY <1>1, <2>1, <3>2, RequestCoherent DEF ActiveStatus
    <3> QED BY <1>1, <3>2, <3>3 DEF Status, ActiveStatus
  <2>2. CASE r.status \notin {"running", "pause_requested"}
    <3>1. n = Ended(r, "cancelled", "cancel")
      BY <1>8, <2>2 DEF Applied, Control
    <3>2. Coherent(n) /\ n.status = "cancelled" /\ n.attempt = r.attempt
      BY <3>1, EndedCoherent DEF TerminalStatus
    <3> QED BY <1>1, <3>2 DEF Status, TerminalStatus, Terminal
  <2> QED BY <2>1, <2>2
<1>9. CASE op \notin Wakeups \cup {"Pause", "Resume", "RetryWork", "RetryDecision", "Cancel"}
  <2>1. n = Ended(r, "failed", "fail")
    BY <1>9 DEF Applied, Wakeups
  <2>2. Coherent(n) /\ n.status = "failed" /\ n.attempt = r.attempt
    BY <2>1, EndedCoherent DEF TerminalStatus
  <2> QED BY <1>1, <2>2 DEF Status, TerminalStatus, Terminal
<1> QED BY <1>3, <1>4, <1>5, <1>6, <1>7, <1>8, <1>9

\* The outcome of a stage keeps the record coherent, and only ever adds to
\* the evidence of the attempt it ran for, or closes it.
LEMMA OutcomeCoherent ==
    ASSUME NEW r \in Record, Coherent(r), r.status \in ActiveStatus,
           NEW o \in IF r.phase = "work" THEN WorkOutcomes ELSE DecisionOutcomes
    PROVE  LET n == Outcome(r, o) IN
           /\ Coherent(n) /\ n.activation = r.activation
           /\ n.attempt.num # r.attempt.num =>
                 n.cause = "controller_action" /\ r.attempt.work = "full"
           /\ n.attempt.num = r.attempt.num /\ r.attempt.work # "none" =>
                 n.attempt.work = r.attempt.work
           /\ n.turns # r.turns =>
                 /\ r.attempt.work = "none" /\ n.attempt.work # "none"
                 /\ n.attempt.num = r.attempt.num
<1>1. CASE r.phase = "work"
  <2>1. Outcome(r, o) = WorkOutcome(r, o) /\ o \in WorkOutcomes
    BY <1>1 DEF Outcome, WorkOutcomes
  <2> QED BY <1>1, <2>1, WorkOutcomeCases, ActiveCoherent
<1>2. CASE r.phase = "decision"
  <2>1. Outcome(r, o) = DecisionOutcome(r, o) /\ o \in DecisionOutcomes
    BY <1>2 DEF Outcome, DecisionOutcomes
  <2>2. r.attempt.work = "full"
    BY <1>2, ActiveCoherent
  <2>3. LET n == DecisionOutcome(r, o) IN
        /\ Coherent(n) /\ n.turns = r.turns /\ n.activation = r.activation
        /\ n.attempt = r.attempt \/ (n.cause = "controller_action" /\ n.attempt = NoAttempt)
    BY <1>2, <2>1, DecisionOutcomeCases
  <2>4. r.attempt.num # NoAttempt.num
    BY ActiveCoherent DEF NoAttempt
  <2> QED BY <2>1, <2>2, <2>3, <2>4
<1> QED BY <1>1, <1>2 DEF Record, Phase

-----------------------------------------------------------------------------
(* The records of the system, and what finishStage has seen of them.        *)

\* The latest record is coherent, and so is every record a caller works on.
RecordsCoherent == Coherent(rec) /\ \A c \in Callers : Coherent(call[c].cur)

\* An outcome belongs to the stage that its caller started, which was active
\* in the record it is about to be applied to.
OutcomeFits == \A c \in Callers : LET f == call[c] IN
    /\ f.pc \in Executing => f.cur.status \in ActiveStatus
    /\ f.pc \in {"finish", "commit"} =>
          f.outcome \in IF f.cur.phase = "work" THEN WorkOutcomes ELSE DecisionOutcomes

\* How far the requests against a running stage have gone.
Rank(status) ==
    IF status = "running" THEN 0 ELSE IF status = "pause_requested" THEN 1
    ELSE IF status = "cancel_requested" THEN 2 ELSE 3

\* Every round of finishStage but the first is paid for by a stronger request.
TriesPaid == \A c \in Callers : LET f == call[c] IN
    /\ f.tries <= 3
    /\ f.pc = "stage" => f.tries = 0
    /\ f.pc = "finish" => f.tries <= Rank(rec.status)
    /\ f.pc = "commit" => /\ f.tries <= Rank(f.cur.status) + 1
                          /\ f.cur.rev # rec.rev => Rank(f.cur.status) < Rank(rec.status)

RInv == IInv /\ RecordsCoherent /\ OutcomeFits /\ TriesPaid /\ NoRecordRefused

\* Every transition a caller may compute on the record it loaded, be it stale
\* or not, yields a coherent record, which the store accepts.
LEMMA Computed ==
    ASSUME IInv, RecordsCoherent, OutcomeFits, NEW c \in Callers
    PROVE  LET f == call[c]
               Fine(n) == Coherent(n) /\ ValidRecord(n) /\ n \in Record
           IN  /\ f.pc = "recover" => Fine(Recovered(f.cur))
               /\ f.pc \in {"limit", "settle"} => Fine(Limited(f.cur))
               /\ f.pc = "start" => Fine(Started(f.cur))
               /\ f.pc = "commit" => Fine(Outcome(f.cur, f.outcome))
               /\ f.pc = "write" => Fine(Applied(f.op, f.cur))
<1> DEFINE f == call[c]
           r == f.cur
<1>1. r \in Record /\ Coherent(r) /\ r.attempts \in Nat
      /\ f.outcome \in WorkOutcomes \cup DecisionOutcomes \cup {NoOutcome}
  BY DEF IInv, TypeOK, Frame, Record, RecordsCoherent
<1>2. ASSUME NEW n \in Record, Coherent(n) PROVE ValidRecord(n)
  BY <1>2, CoherentValid DEF Record
<1>3. CASE f.pc = "recover"
  <2>1. r.status \in ActiveStatus
    BY <1>3 DEF IInv, Checked
  <2>2. Coherent(Recovered(r)) /\ Recovered(r) \in Record
    BY <1>1, <2>1, RecoveredCoherent, RecoveredTyped
  <2> QED BY <1>2, <1>3, <2>2
<1>4. CASE f.pc \in {"limit", "settle"}
  <2>1. Coherent(Limited(r)) /\ Limited(r) \in Record
    BY <1>1, LimitedCoherent, LimitedTyped
  <2> QED BY <1>2, <1>4, <2>1
<1>5. CASE f.pc = "start"
  <2>1. r.status = "ready"
    BY <1>5 DEF IInv, Checked
  <2>2. Coherent(Started(r)) /\ Started(r) \in Record
    BY <1>1, <2>1, StartedCoherent, StartedTyped
  <2> QED BY <1>2, <1>5, <2>2
<1>6. CASE f.pc = "commit"
  <2>1. /\ r.status \in ActiveStatus
        /\ f.outcome \in IF r.phase = "work" THEN WorkOutcomes ELSE DecisionOutcomes
    BY <1>6 DEF OutcomeFits, Executing
  <2>2. Coherent(Outcome(r, f.outcome)) /\ Outcome(r, f.outcome) \in Record
    BY <1>1, <2>1, OutcomeCoherent, OutcomeTyped
  <2> QED BY <1>2, <1>6, <2>2
<1>7. CASE f.pc = "write"
  <2>1. Permitted(f.op, r) /\ ~AlreadyDone(f.op, r)
    BY <1>7 DEF IInv, Checked
  <2> DEFINE n == Applied(f.op, r)
  <2>2. Coherent(n) /\ n.status \in Status /\ n.attempts \in Nat
    BY <1>1, <2>1, AppliedCoherent
  <2>3. ValidRecord(n)
    BY <2>2, CoherentValid
  <2>4. n \in Record
    BY <1>1, <2>3, AppliedTyped
  <2> QED BY <1>7, <2>2, <2>3, <2>4
<1> QED BY <1>3, <1>4, <1>5, <1>6, <1>7

\* The latest record, and the loaded ones, stay coherent.
LEMMA CoherentStep ==
    ASSUME IInv, RecordsCoherent, OutcomeFits, NEW c \in Callers, Moves(c)
    PROVE  RecordsCoherent'
<1>1. TypeOK /\ Fresh /\ rec \in Record /\ Coherent(rec)
  BY DEF IInv, TypeOK, RecordsCoherent
<1>2. Coherent(rec')
  <2>1. ASSUME NEW n \in Record, Coherent(n), Writing(c, n) PROVE Coherent(rec')
    BY <2>1, StampCoherent DEF Writing
  <2>2. \A n : Writing(c, n) => call[c].cur = rec
    BY DEF Writing
  <2>3. CASE call[c].pc = "recover" /\ Writing(c, Recovered(rec))
    BY <2>1, <2>2, <2>3, Computed
  <2>4. CASE call[c].pc \in {"limit", "settle"} /\ Writing(c, Limited(rec))
    BY <2>1, <2>2, <2>4, Computed
  <2>5. CASE call[c].pc = "start" /\ Writing(c, Started(rec))
    BY <2>1, <2>2, <2>5, Computed
  <2>6. CASE call[c].pc = "commit" /\ Writing(c, Outcome(rec, call[c].outcome))
    BY <2>1, <2>2, <2>6, Computed
  <2>7. CASE call[c].pc = "write" /\ Writing(c, Applied(call[c].op, rec))
    BY <2>1, <2>2, <2>7, Computed
  <2> QED BY <1>1, <2>3, <2>4, <2>5, <2>6, <2>7, Transitions DEF Transition
<1>3. ASSUME NEW d \in Callers PROVE Coherent(call'[d].cur)
  <2>1. call'[d].cur \in {call[d].cur, rec, rec', NoRecord}
    BY <1>1, Edges, Others DEF Edge
  <2> QED BY <1>1, <1>2, <2>1, NullsCoherent DEF RecordsCoherent
<1> QED BY <1>2, <1>3 DEF RecordsCoherent

\* What a caller's step does to its outcome and its rounds of finishStage.
Round(c) == LET f == call[c]  g == call'[c] IN
    /\ g.pc = "finish" =>
          \/ /\ f.pc = "stage" /\ g.tries = f.tries
             /\ g.outcome \in IF f.cur.phase = "work" THEN WorkOutcomes ELSE DecisionOutcomes
          \/ /\ f.pc = "commit" /\ g.tries = f.tries /\ g.outcome = f.outcome
             /\ f.cur.rev # rec.rev
    /\ g.pc = "commit" => f.pc = "finish" /\ g.tries = f.tries + 1 /\ g.outcome = f.outcome
    /\ g.pc = "stage" => g.tries = 0
    /\ g.pc # "commit" => g.tries \in {0, f.tries}

LEMMA Rounds ==
    ASSUME TypeOK, NEW c \in Callers, Moves(c) PROVE Round(c)
<1> DEFINE f == call[c]
           g == call'[c]
<1>1. call \in [Callers -> Frame] /\ f \in Frame
  BY DEF TypeOK
<1>2. ASSUME NEW a, Return(c, a) PROVE g.pc = "idle" /\ g.tries = 0
  BY <1>1, <1>2 DEF Return, Idle
<1>3. ASSUME NEW p, Goto(c, p) PROVE g.pc = p /\ g.tries = f.tries /\ g.outcome = f.outcome
  BY <1>1, <1>3 DEF Goto, Frame
<1>4. ASSUME NEW a, Leave(c, a) PROVE g.pc = "release" /\ g.tries = f.tries
  BY <1>1, <1>4 DEF Leave, Frame
<1>5. ASSUME NEW r, Proceed(c, r)
      PROVE  g.pc \in {"idle", "limit", "write"} /\ g.tries \in {0, f.tries}
  BY <1>1, <1>2, <1>5 DEF Proceed, Frame
<1>6. CASE \E op \in Requests : Begin(c, op)
  <2>1. g.pc \in {"admit", "dedupe", "load"} /\ g.tries = 0
    BY <1>1, <1>6 DEF Begin, Idle
  <2> QED BY <2>1 DEF Round
<1>7. CASE Admit(c) \/ Dedupe(c) \/ Recheck(c) \/ Release(c)
  BY <1>2, <1>3, <1>7 DEF Admit, Dedupe, Recheck, Release, Round
<1>8. CASE Load(c)
  <2>1. CASE call' = [call EXCEPT ![c].cur = rec, ![c].pc = "orphan"]
    BY <1>1, <2>1 DEF Round, Frame
  <2> QED BY <1>2, <1>5, <1>8, <2>1 DEF Load, Round
<1>9. CASE Orphan(c)
  BY <1>3, <1>5, <1>9 DEF Orphan, Round
<1>10. CASE Recover(c)
  BY <1>2, <1>10 DEF Recover, Round
<1>11. CASE Limit(c)
  BY <1>2, <1>3, <1>11 DEF Limit, Round
<1>12. CASE Reserve(c)
  <2>1. CASE call' = [call EXCEPT ![c].pc = "start", ![c].cancelled = FALSE]
    BY <1>1, <2>1 DEF Round, Frame
  <2> QED BY <1>2, <1>12, <2>1 DEF Reserve, Round
<1>13. CASE Start(c)
  <2>1. CASE call' = [call EXCEPT ![c].pc = "stage", ![c].cur = rec', ![c].tries = 0]
    BY <1>1, <2>1 DEF Round, Frame
  <2> QED BY <1>4, <1>13, <2>1 DEF Start, Round
<1>14. CASE Stage(c)
  BY <1>1, <1>14 DEF Stage, At, Round, Frame
<1>15. CASE Finish(c)
  <2>1. CASE call' = [call EXCEPT ![c].pc = "commit", ![c].cur = rec, ![c].tries = @ + 1]
    BY <1>1, <1>15, <2>1 DEF Finish, At, Round, Frame
  <2> QED BY <1>4, <1>15, <2>1 DEF Finish, Round
<1>16. CASE Commit(c)
  <2>1. PICK answer \in Answers, after \in {"release", "handoff", "settle"},
             answered \in {"failed", "ok"} :
           /\ CAS(c, Outcome(f.cur, f.outcome), answer)
           /\ CASE answer = "ok" -> call' = [call EXCEPT ![c].pc = after, ![c].cur = rec',
                                                         ![c].answer = answered]
                [] answer = "conflict" -> Goto(c, "finish")
                [] OTHER -> Leave(c, answer)
    BY <1>16 DEF Commit
  <2>2. CASE answer = "ok"
    BY <1>1, <2>1, <2>2 DEF Round, Frame
  <2>3. CASE answer = "conflict"
    <3>1. f.cur.rev # rec.rev
      BY <2>1, <2>3 DEF CAS, Verdict
    <3>2. f.pc = "commit"
      BY <1>16 DEF Commit, At
    <3>3. g.pc = "finish" /\ g.tries = f.tries /\ g.outcome = f.outcome
      BY <1>3, <2>1, <2>3
    <3> QED BY <3>1, <3>2, <3>3 DEF Round
  <2>4. CASE answer \notin {"ok", "conflict"}
    BY <1>4, <2>1, <2>4 DEF Round
  <2> QED BY <2>2, <2>3, <2>4
<1>17. CASE Settle(c)
  BY <1>4, <1>17 DEF Settle, Round
<1>18. CASE Handoff(c)
  BY <1>1, <1>18 DEF Handoff, Round, Frame
<1>19. CASE Write(c)
  BY <1>2, <1>3, <1>19 DEF Write, Round
<1>20. CASE CancelActive(c)
  BY <1>1, <1>20 DEF CancelActive, Idle, Round
<1> QED BY <1>6, <1>7, <1>8, <1>9, <1>10, <1>11, <1>12, <1>13, <1>14, <1>15, <1>16,
           <1>17, <1>18, <1>19, <1>20 DEF Moves, Step

\* A caller's step leaves the outcomes, rounds and answers of the others.
LEMMA OthersRound ==
    ASSUME TypeOK, NEW c \in Callers, Moves(c), NEW d \in Callers \ {c}
    PROVE  /\ call'[d].outcome = call[d].outcome /\ call'[d].tries = call[d].tries
           /\ call'[d].answer = call[d].answer
<1>1. call \in [Callers -> Frame] /\ call[d] \in Frame
  BY DEF TypeOK
<1>2. CASE CancelActive(c)
  BY <1>1, <1>2 DEF CancelActive, Frame
<1>3. CASE ~CancelActive(c)
  <2>1. \A a : (Return(c, a) \/ Leave(c, a) \/ Goto(c, a)) => call'[d] = call[d]
    BY <1>1 DEF Return, Leave, Goto
  <2>2. \A r : Proceed(c, r) => call'[d] = call[d]
    BY <1>1, <2>1 DEF Proceed
  <2>3. CASE \/ \E op \in Requests : Begin(c, op)
             \/ Admit(c) \/ Dedupe(c) \/ Load(c) \/ Orphan(c) \/ Recover(c)
             \/ Limit(c) \/ Reserve(c) \/ Start(c)
    <3>1. call'[d] = call[d]
      BY <1>1, <2>1, <2>2, <2>3
         DEF Begin, Admit, Dedupe, Load, Orphan, Recover, Limit, Reserve, Start
    <3> QED BY <3>1
  <2>4. CASE \/ Stage(c) \/ Finish(c) \/ Commit(c) \/ Settle(c) \/ Handoff(c)
             \/ Release(c) \/ Write(c) \/ Recheck(c)
    <3>1. call'[d] = call[d]
      BY <1>1, <2>1, <2>4
         DEF Stage, Finish, Commit, Settle, Handoff, Release, Write, Recheck
    <3> QED BY <3>1
  <2> QED BY <1>3, <2>3, <2>4 DEF Moves, Step
<1> QED BY <1>2, <1>3

\* While a stage executes, another caller's write is a stronger request.
LEMMA OthersRequest ==
    ASSUME IInv, NEW c \in Callers, Moves(c), NEW d \in Callers \ {c},
           call[d].pc \in Executing
    PROVE  \/ rec' = rec
           \/ /\ call[c].pc = "write" /\ Writing(c, Applied(call[c].op, rec))
              /\ rec.status \in ActiveStatus
              /\ Rank(rec.status) < Rank(rec'.status)
<1> USE DEF IInv
<1>1. rec.status \in ActiveStatus \cup {"failed"} /\ active = d /\ rec \in Record
  BY DEF StageOwnsRecord, TypeOK
<1>2. call[c].pc \notin Holding
  BY <1>1 DEF Slot, Executing, Holding
<1>3. Transition(c)
  BY Transitions
<1>4. CASE call[c].pc = "recover" /\ Writing(c, Recovered(rec))
  BY <1>4, WrittenFields DEF RecoversAlone
<1>5. CASE call[c].pc = "limit" /\ Writing(c, Limited(rec))
  BY <1>1, <1>5, WrittenFields DEF Checked, ActiveStatus
<1>6. CASE call[c].pc = "write" /\ Writing(c, Applied(call[c].op, rec))
  <2>1. call[c].cur = rec /\ Permitted(call[c].op, rec) /\ ~AlreadyDone(call[c].op, rec)
    BY <1>6, WrittenFields DEF Checked
  <2>2. rec.status \in ActiveStatus
    BY <1>1, <2>1 DEF Permitted, Terminal, TerminalStatus
  <2> DEFINE n == Applied(call[c].op, rec)
  <2>3. /\ n.status \in {"pause_requested", "cancel_requested", "failed"}
        /\ rec.status = "cancel_requested" => n.status = "failed"
        /\ rec.status = "pause_requested" => n.status \in {"cancel_requested", "failed"}
    BY <1>1, <2>1, <2>2, AppliedToActive
  <2>4. rec'.status = n.status
    BY <1>6, WrittenFields
  <2>5. Rank(rec.status) < Rank(n.status)
    BY <2>2, <2>3 DEF ActiveStatus, Rank
  <2> QED BY <1>6, <2>2, <2>4, <2>5
<1> QED BY <1>2, <1>3, <1>4, <1>5, <1>6 DEF Transition, Holding

LEMMA FitsStep ==
    ASSUME IInv, OutcomeFits, NEW c \in Callers, Moves(c) PROVE OutcomeFits'
<1> SUFFICES ASSUME NEW d \in Callers
             PROVE  LET g == call'[d] IN
                    /\ g.pc \in Executing => g.cur.status \in ActiveStatus
                    /\ g.pc \in {"finish", "commit"} =>
                          g.outcome \in IF g.cur.phase = "work" THEN WorkOutcomes
                                                                ELSE DecisionOutcomes
  BY DEF OutcomeFits
<1>1. TypeOK /\ Fresh /\ rec \in Record
  BY DEF IInv, TypeOK
<1>2. CASE d # c
  <2>1. call'[d].pc = call[d].pc /\ call'[d].cur = call[d].cur
        /\ call'[d].outcome = call[d].outcome
    BY <1>1, <1>2, Others, OthersRound
  <2> QED BY <2>1 DEF OutcomeFits
<1>3. CASE d = c
  <2>1. Edge(c) /\ Round(c)
    BY <1>1, Edges, Rounds
  <2>2. CASE call'[c].pc = "stage"
    <3>1. Writing(c, Started(rec)) /\ call'[c].cur = rec'
      BY <2>1, <2>2 DEF Edge
    <3>2. rec'.status = "running"
      <4>1. Started(rec).status = "running"
        BY <1>1 DEF Started, Record
      <4> QED BY <3>1, <4>1, WrittenFields
    <3> QED BY <1>3, <2>2, <3>1, <3>2 DEF ActiveStatus
  <2>3. CASE call'[c].pc = "finish"
    BY <1>3, <2>1, <2>3 DEF Edge, Round, OutcomeFits, Executing
  <2>4. CASE call'[c].pc = "commit"
    <3>1. /\ call[c].pc = "finish" /\ call'[c].cur = rec /\ ~Terminal(rec)
          /\ call'[c].outcome = call[c].outcome
      BY <2>1, <2>4 DEF Edge, Round
    <3>2. rec.status \in ActiveStatus /\ rec.phase = call[c].cur.phase
      BY <3>1 DEF IInv, StageOwnsRecord, Executing, Terminal, TerminalStatus
    <3> QED BY <1>3, <2>4, <3>1, <3>2 DEF OutcomeFits
  <2> QED BY <1>3, <2>2, <2>3, <2>4 DEF Executing
<1> QED BY <1>2, <1>3

LEMMA RankNat == ASSUME NEW x PROVE Rank(x) \in 0..3 /\ (x \in ActiveStatus => Rank(x) <= 2)
BY DEF Rank, ActiveStatus

LEMMA TriesStep ==
    ASSUME IInv, OutcomeFits, TriesPaid, NEW c \in Callers, Moves(c) PROVE TriesPaid'
<1> SUFFICES ASSUME NEW d \in Callers
             PROVE  LET g == call'[d] IN
                    /\ g.tries <= 3
                    /\ g.pc = "stage" => g.tries = 0
                    /\ g.pc = "finish" => g.tries <= Rank(rec'.status)
                    /\ g.pc = "commit" =>
                          /\ g.tries <= Rank(g.cur.status) + 1
                          /\ g.cur.rev # rec'.rev => Rank(g.cur.status) < Rank(rec'.status)
  BY DEF TriesPaid
<1>1. TypeOK /\ Fresh /\ rec \in Record /\ call[d].tries \in Nat
  BY DEF IInv, TypeOK, Frame
<1>2. LET f == call[d] IN
      /\ f.tries <= 3
      /\ f.pc = "stage" => f.tries = 0
      /\ f.pc = "finish" => f.tries <= Rank(rec.status)
      /\ f.pc = "commit" => /\ f.tries <= Rank(f.cur.status) + 1
                            /\ f.cur.rev # rec.rev => Rank(f.cur.status) < Rank(rec.status)
  BY DEF TriesPaid
<1>3. \A x : Rank(x) \in 0..3
  BY RankNat
<1>4. CASE d # c
  <2>1. /\ call'[d].pc = call[d].pc /\ call'[d].cur = call[d].cur
        /\ call'[d].tries = call[d].tries
    BY <1>1, <1>4, Others, OthersRound
  <2>2. CASE call[d].pc \in {"finish", "commit"} /\ rec' # rec
    <3>1. Rank(rec.status) < Rank(rec'.status)
      BY <1>4, <2>2, OthersRequest DEF Executing
    <3>2. call[d].cur.rev = rec.rev => call[d].cur = rec
      BY <1>1 DEF Fresh
    <3>3. Rank(call[d].cur.status) <= Rank(rec.status) \/ call[d].pc = "finish"
      BY <1>2, <1>3, <2>2, <3>2
    <3> QED BY <1>1, <1>2, <1>3, <2>1, <2>2, <3>1, <3>3
  <2>3. CASE call[d].pc \notin {"finish", "commit"} \/ rec' = rec
    BY <1>2, <2>1, <2>3
  <2> QED BY <2>2, <2>3
<1>5. CASE d = c
  <2>1. Edge(c) /\ Round(c)
    BY <1>1, Edges, Rounds
  <2>2. CASE call'[c].pc = "commit"
    <3>1. /\ call[c].pc = "finish" /\ call'[c].cur = rec /\ ~Terminal(rec) /\ rec' = rec
          /\ call'[c].tries = call[c].tries + 1
      BY <2>1, <2>2 DEF Edge, Round
    <3>2. rec.status \in ActiveStatus
      BY <3>1 DEF IInv, StageOwnsRecord, Executing, Terminal, TerminalStatus
    <3>3. Rank(rec.status) <= 2
      BY <3>2, RankNat
    <3>4. call[c].tries <= Rank(rec.status) /\ call[c].tries \in Nat
      BY <1>1, <1>2, <1>5, <3>1
    <3> QED BY <1>3, <1>5, <2>2, <3>1, <3>3, <3>4
  <2>3. CASE call'[c].pc = "finish"
    <3>1. rec' = rec /\ call'[c].tries = call[c].tries
          /\ (call[c].pc = "stage" \/ (call[c].pc = "commit" /\ call[c].cur.rev # rec.rev))
      BY <2>1, <2>3 DEF Edge, Round
    <3>2. call[c].tries <= Rank(rec.status)
      BY <1>1, <1>2, <1>3, <1>5, <3>1
    <3> QED BY <1>2, <1>5, <2>3, <3>1, <3>2
  <2>4. CASE call'[c].pc \notin {"commit", "finish"}
    BY <1>1, <1>2, <1>5, <2>1, <2>4 DEF Round
  <2> QED BY <2>2, <2>3, <2>4
<1> QED BY <1>4, <1>5

\* A write of an acceptable record is not refused as invalid.
LEMMA CASAccepts ==
    ASSUME NEW c, NEW next, NEW answer, ValidRecord(next), CAS(c, next, answer)
    PROVE  answer # "invalid"
BY DEF CAS, Verdict

\* No step answers that a record was refused.
LEMMA RefusedStep ==
    ASSUME RInv, NEW c \in Callers, Moves(c) PROVE NoRecordRefused'
<1> DEFINE f == call[c]
           g == call'[c]
<1>1. /\ TypeOK /\ call \in [Callers -> Frame] /\ f \in Frame /\ f.answer # "invalid"
      /\ IInv /\ RecordsCoherent /\ OutcomeFits
  BY DEF RInv, IInv, TypeOK, NoRecordRefused
<1>2. ASSUME NEW a, Return(c, a) \/ Leave(c, a) PROVE g.answer = a
  BY <1>1, <1>2 DEF Return, Leave, Idle, Frame
<1>3. ASSUME NEW p, Goto(c, p) PROVE g.answer = f.answer
  BY <1>1, <1>3 DEF Goto, Frame
<1>4. ASSUME NEW r, Proceed(c, r) PROVE g.answer # "invalid"
  <2>1. CASE \E a \in {"ok", "refused"} : Return(c, a)
    BY <1>2, <2>1
  <2>2. CASE \E p \in {"limit", "write"} : call' = [call EXCEPT ![c].cur = r, ![c].pc = p]
    BY <1>1, <2>2 DEF Frame
  <2> QED BY <1>4, <2>1, <2>2 DEF Proceed
<1>5. g.answer # "invalid"
  <2>1. CASE \E op \in Requests : Begin(c, op)
    BY <1>1, <2>1 DEF Begin, Idle
  <2>2. CASE Admit(c) \/ Dedupe(c) \/ Recheck(c) \/ Release(c)
    BY <1>1, <1>2, <1>3, <2>2 DEF Admit, Dedupe, Recheck, Release
  <2>3. CASE Load(c)
    <3>1. CASE call' = [call EXCEPT ![c].cur = rec, ![c].pc = "orphan"]
      BY <1>1, <3>1 DEF Frame
    <3> QED BY <1>2, <1>4, <2>3, <3>1 DEF Load
  <2>4. CASE Orphan(c)
    BY <1>1, <1>3, <1>4, <2>4 DEF Orphan
  <2>5. CASE Recover(c)
    <3>1. ValidRecord(Recovered(f.cur))
      BY <1>1, <2>5, Computed DEF Recover, At
    <3>2. PICK answer \in Answers :
             /\ CAS(c, Recovered(f.cur), answer)
             /\ Return(c, IF answer \notin {"ok", "conflict"} THEN answer
                          ELSE IF f.op = "Get" THEN "ok" ELSE "conflict")
      BY <2>5 DEF Recover
    <3>3. answer # "invalid"
      BY <3>1, <3>2, CASAccepts
    <3> QED BY <1>2, <3>2, <3>3
  <2>6. CASE Limit(c) \/ Settle(c)
    <3>1. ValidRecord(Limited(f.cur))
      BY <1>1, <2>6, Computed DEF Limit, Settle, At
    <3>2. CASE \E answer \in Answers : /\ CAS(c, Limited(f.cur), answer)
                                       /\ Return(c, answer) \/ Leave(c, answer)
      BY <1>2, <3>1, <3>2, CASAccepts
    <3> QED BY <1>1, <1>2, <1>3, <2>6, <3>2 DEF Limit, Settle
  <2>7. CASE Reserve(c)
    <3>1. f.cur.status = "ready" /\ Coherent(f.cur)
      BY <1>1, <2>7 DEF Reserve, At, IInv, Checked, RecordsCoherent
    <3>2. ~(f.cur.phase = "decision" /\ f.cur.attempt.work = "none")
      BY <3>1 DEF Coherent, AtRest, Evidence
    <3>3. CASE call' = [call EXCEPT ![c].pc = "start", ![c].cancelled = FALSE]
      BY <1>1, <3>3 DEF Frame
    <3> QED BY <1>2, <2>7, <3>2, <3>3 DEF Reserve
  <2>8. CASE Start(c)
    <3>1. ValidRecord(Started(f.cur))
      BY <1>1, <2>8, Computed DEF Start, At
    <3>2. CASE call' = [call EXCEPT ![c].pc = "stage", ![c].cur = rec', ![c].tries = 0]
      BY <1>1, <3>2 DEF Frame
    <3> QED BY <1>2, <2>8, <3>1, <3>2, CASAccepts DEF Start
  <2>9. CASE Stage(c)
    BY <1>1, <2>9 DEF Stage, Frame
  <2>10. CASE Finish(c)
    <3>1. CASE call' = [call EXCEPT ![c].pc = "commit", ![c].cur = rec, ![c].tries = @ + 1]
      BY <1>1, <3>1 DEF Frame
    <3> QED BY <1>2, <2>10, <3>1 DEF Finish
  <2>11. CASE Commit(c)
    <3>1. ValidRecord(Outcome(f.cur, f.outcome))
      BY <1>1, <2>11, Computed DEF Commit, At
    <3>2. PICK answer \in Answers, after \in {"release", "handoff", "settle"},
               answered \in {"failed", "ok"} :
             /\ CAS(c, Outcome(f.cur, f.outcome), answer)
             /\ CASE answer = "ok" -> call' = [call EXCEPT ![c].pc = after, ![c].cur = rec',
                                                           ![c].answer = answered]
                  [] answer = "conflict" -> Goto(c, "finish")
                  [] OTHER -> Leave(c, answer)
      BY <2>11 DEF Commit
    <3>3. answer # "invalid"
      BY <3>1, <3>2, CASAccepts
    <3>4. CASE answer = "ok"
      BY <1>1, <3>2, <3>4 DEF Frame
    <3> QED BY <1>1, <1>2, <1>3, <3>2, <3>3, <3>4
  <2>12. CASE Handoff(c)
    BY <1>1, <2>12 DEF Handoff, Frame
  <2>13. CASE Write(c)
    <3>1. ValidRecord(Applied(f.op, f.cur))
      BY <1>1, <2>13, Computed DEF Write, At
    <3> QED BY <1>1, <1>2, <1>3, <2>13, <3>1, CASAccepts DEF Write
  <2>14. CASE CancelActive(c)
    BY <1>1, <2>14 DEF CancelActive, Idle
  <2> QED BY <2>1, <2>2, <2>3, <2>4, <2>5, <2>6, <2>7, <2>8, <2>9, <2>10, <2>11, <2>12,
             <2>13, <2>14 DEF Moves, Step
<1>6. \A d \in Callers \ {c} : call'[d].answer = call[d].answer
  BY <1>1, OthersRound
<1> QED BY <1>5, <1>6 DEF RInv, NoRecordRefused

LEMMA RInvInit == Init => RInv
<1> SUFFICES ASSUME Init PROVE RInv
  OBVIOUS
<1>1. IInv
  BY IInvInit
<1>2. rec = Created /\ \A c \in Callers :
         /\ call[c].pc = "idle" /\ call[c].cur = NoRecord /\ call[c].tries = 0
         /\ call[c].answer = "ok"
  BY DEF Init, Idle
<1>3. RecordsCoherent /\ OutcomeFits /\ NoRecordRefused
  BY <1>2, NullsCoherent DEF RecordsCoherent, OutcomeFits, NoRecordRefused, Executing
<1>4. TriesPaid
  BY <1>2 DEF TriesPaid
<1> QED BY <1>1, <1>3, <1>4 DEF RInv

LEMMA RInvStep == RInv /\ [Next]_vars => RInv'
<1> SUFFICES ASSUME RInv, [Next]_vars PROVE RInv'
  OBVIOUS
<1>1. IInv'
  BY IInvStep DEF RInv
<1>2. ASSUME NEW c \in Callers, Moves(c) PROVE RInv'
  <2>1. RecordsCoherent' /\ OutcomeFits' /\ TriesPaid'
    BY <1>2, CoherentStep, FitsStep, TriesStep DEF RInv
  <2>2. NoRecordRefused'
    BY <1>2, RefusedStep
  <2> QED BY <1>1, <2>1, <2>2 DEF RInv
<1>3. CASE Crash
  <2>1. rec' = rec /\ \A c \in Callers :
           /\ call'[c].pc = "idle" /\ call'[c].cur = NoRecord /\ call'[c].tries = 0
           /\ call'[c].answer = "ok"
    BY <1>3 DEF Crash, Idle
  <2>2. RecordsCoherent'
    BY <2>1, NullsCoherent DEF RInv, RecordsCoherent
  <2>3. OutcomeFits' /\ NoRecordRefused'
    BY <2>1 DEF OutcomeFits, NoRecordRefused, Executing
  <2>4. TriesPaid'
    BY <2>1 DEF TriesPaid
  <2> QED BY <1>1, <2>2, <2>3, <2>4 DEF RInv
<1>4. CASE DeadlinePasses \/ UNCHANGED vars
  <2>1. rec' = rec /\ call' = call
    BY <1>4 DEF DeadlinePasses, vars
  <2>2. RecordsCoherent' /\ OutcomeFits' /\ TriesPaid' /\ NoRecordRefused'
    BY <2>1 DEF RInv, RecordsCoherent, OutcomeFits, TriesPaid, NoRecordRefused
  <2> QED BY <1>1, <2>2 DEF RInv
<1> QED BY <1>2, <1>3, <1>4 DEF Next, Moves

\* The inductive invariant of the records: every record in the store or in a
\* caller's hand is coherent, every outcome fits the stage it is about to
\* settle, and every reconciliation was caused by a stronger request.
THEOREM RecordsInductive == Spec => []RInv
BY RInvInit, RInvStep, PTL DEF Spec

\* No transition the engine computes, on any record it may have loaded, is
\* refused by the store's validateRecord.
THEOREM NothingIsRefused == Spec => []NoRecordRefused
BY RecordsInductive, PTL DEF RInv

LEMMA TriesBound == TriesPaid /\ TypeOK => FewReconciliations
<1> SUFFICES ASSUME TriesPaid, TypeOK, NEW c \in Callers PROVE call[c].tries <= 4
  BY DEF FewReconciliations
<1>1. call[c].tries <= 3 /\ call[c].tries \in Nat
  BY DEF TriesPaid, TypeOK, Frame
<1> QED BY <1>1

\* finishStage never reloads more often than there are requests to come, so it
\* never reaches its limit of reconciliations and drops an outcome.
THEOREM ReconciliationsAreFew == Spec => []FewReconciliations
<1>1. RInv => FewReconciliations
  BY TriesBound DEF RInv, IInv
<1> QED BY <1>1, RecordsInductive, PTL

\* Only complete work ever reaches a decision stage, or is ready for one.
THEOREM OnlyCompleteWorkIsJudged == Spec => []FailedWorkNotJudged
<1>1. RInv => FailedWorkNotJudged
  <2> SUFFICES ASSUME RInv, rec.status \in ActiveStatus \cup {"ready"},
                      rec.phase = "decision"
               PROVE  rec.attempt.work = "full"
    BY DEF FailedWorkNotJudged
  <2>1. Coherent(rec)
    BY DEF RInv, RecordsCoherent
  <2> QED BY <2>1 DEF Coherent, AtRest, Evidence
<1> QED BY <1>1, RecordsInductive, PTL

-----------------------------------------------------------------------------
(* What a step may do to the attempt, its evidence and its wakeup.          *)

\* A write over the latest record: what it keeps of the attempt, the turns
\* and the wakeup.
LEMMA RecordSteps ==
    ASSUME RInv, NEW c \in Callers, Moves(c), rec' # rec
    PROVE  \/ /\ rec'.attempt = rec.attempt /\ rec'.turns = rec.turns
              /\ \/ rec'.activation = rec.activation \/ rec.activation = "none"
                 \/ Terminal(rec')
           \/ /\ rec'.attempt = NoAttempt /\ rec'.cause = "retry_work" /\ rec.phase = "work"
              /\ rec'.turns = rec.turns /\ rec'.activation = rec.activation
           \/ /\ rec.attempt.num = 0 /\ rec'.attempt.num = rec.attempts + 1
              /\ rec'.turns = rec.turns /\ rec'.cause = "stage_start"
              /\ rec'.attempt.activation = rec.activation
           \/ /\ rec'.attempt.num = rec.attempt.num /\ rec'.attempt.work = rec.attempt.work
              /\ rec'.turns = rec.turns /\ rec'.activation = rec.activation
           \/ /\ rec'.activation = rec.activation
              /\ rec'.attempt.num # rec.attempt.num =>
                    rec'.cause = "controller_action" /\ rec.attempt.work = "full"
              /\ rec'.attempt.num = rec.attempt.num /\ rec.attempt.work # "none" =>
                    rec'.attempt.work = rec.attempt.work
              /\ rec'.turns # rec.turns =>
                    /\ rec.attempt.work = "none" /\ rec'.attempt.work # "none"
                    /\ rec'.attempt.num = rec.attempt.num
<1>1. /\ IInv /\ TypeOK /\ Fresh /\ Checked /\ rec \in Record /\ Coherent(rec)
      /\ OutcomeFits
  BY DEF RInv, IInv, TypeOK, RecordsCoherent
<1>2. ASSUME NEW n, Writing(c, n)
      PROVE  /\ rec'.attempt = n.attempt /\ rec'.turns = n.turns /\ rec'.cause = n.cause
             /\ rec'.activation = n.activation /\ rec'.status = n.status /\ call[c].cur = rec
  BY <1>2 DEF Writing, Record
<1>3. CASE call[c].pc = "recover" /\ Writing(c, Recovered(rec))
  <2>1. rec.status \in ActiveStatus
    BY <1>1, <1>2, <1>3 DEF Checked
  <2>2. rec.activation = "none"
    BY <1>1, <2>1, ActiveCoherent
  <2>3. Recovered(rec).attempt = rec.attempt /\ Recovered(rec).turns = rec.turns
    BY <1>1 DEF Recovered, Record
  <2> QED BY <1>2, <1>3, <2>2, <2>3
<1>4. CASE call[c].pc \in {"limit", "settle"} /\ Writing(c, Limited(rec))
  <2>1. /\ Limited(rec).attempt = rec.attempt /\ Limited(rec).turns = rec.turns
        /\ Limited(rec).activation = rec.activation
    BY <1>1 DEF Limited, Record
  <2> QED BY <1>2, <1>4, <2>1
<1>5. CASE call[c].pc = "start" /\ Writing(c, Started(rec))
  <2>1. rec.status = "ready"
    BY <1>1, <1>2, <1>5 DEF Checked
  <2>2. AtRest("ready", rec.phase, FALSE, rec.activation, rec.attempt)
    BY <1>1, <2>1, RestCoherent
  <2>3. CASE rec.phase = "work"
    <3>1. rec.attempt.num = 0
      BY <2>2, <2>3 DEF AtRest
    <3>2. LET n == Started(rec) IN
          /\ n.attempt.num = rec.attempts + 1 /\ n.turns = rec.turns
          /\ n.cause = "stage_start" /\ n.attempt.activation = rec.activation
      BY <1>1, <2>3 DEF Started, Record
    <3> QED BY <1>2, <1>5, <3>1, <3>2
  <2>4. CASE rec.phase # "work"
    <3>1. LET n == Started(rec) IN
          /\ n.attempt.num = rec.attempt.num /\ n.attempt.work = rec.attempt.work
          /\ n.turns = rec.turns /\ n.activation = rec.activation
      BY <1>1, <2>4 DEF Started, Record, Attempt
    <3> QED BY <1>2, <1>5, <3>1
  <2> QED BY <2>3, <2>4
<1>6. CASE call[c].pc = "commit" /\ Writing(c, Outcome(rec, call[c].outcome))
  <2> DEFINE o == call[c].outcome
             n == Outcome(rec, o)
  <2>1. /\ rec.status \in ActiveStatus
        /\ o \in IF rec.phase = "work" THEN WorkOutcomes ELSE DecisionOutcomes
    BY <1>1, <1>2, <1>6 DEF OutcomeFits, Executing
  <2>2. /\ n.activation = rec.activation
        /\ n.attempt.num # rec.attempt.num =>
              n.cause = "controller_action" /\ rec.attempt.work = "full"
        /\ n.attempt.num = rec.attempt.num /\ rec.attempt.work # "none" =>
              n.attempt.work = rec.attempt.work
        /\ n.turns # rec.turns =>
              /\ rec.attempt.work = "none" /\ n.attempt.work # "none"
              /\ n.attempt.num = rec.attempt.num
    <3>1. \A w \in IF rec.phase = "work" THEN WorkOutcomes ELSE DecisionOutcomes :
             LET m == Outcome(rec, w) IN
             /\ m.activation = rec.activation
             /\ m.attempt.num # rec.attempt.num =>
                   m.cause = "controller_action" /\ rec.attempt.work = "full"
             /\ m.attempt.num = rec.attempt.num /\ rec.attempt.work # "none" =>
                   m.attempt.work = rec.attempt.work
             /\ m.turns # rec.turns =>
                   /\ rec.attempt.work = "none" /\ m.attempt.work # "none"
                   /\ m.attempt.num = rec.attempt.num
      BY <1>1, <2>1, OutcomeCoherent
    <3> QED BY <2>1, <3>1
  <2>3. Writing(c, n)
    BY <1>6
  <2> HIDE DEF n
  <2> QED BY <1>2, <2>2, <2>3
<1>7. CASE call[c].pc = "write" /\ Writing(c, Applied(call[c].op, rec))
  <2>1. Permitted(call[c].op, rec) /\ ~AlreadyDone(call[c].op, rec)
    BY <1>1, <1>2, <1>7 DEF Checked
  <2> DEFINE n == Applied(call[c].op, rec)
  <2>2. /\ n.turns = rec.turns
        /\ \/ n.attempt = rec.attempt
           \/ /\ n.attempt = NoAttempt /\ n.cause = "retry_work" /\ rec.phase = "work"
              /\ n.activation = rec.activation
        /\ n.activation # rec.activation => rec.activation = "none" \/ Terminal(n)
    BY <1>1, <2>1, AppliedCoherent
  <2>3. Writing(c, n)
    BY <1>7
  <2> HIDE DEF n
  <2> QED BY <1>2, <2>2, <2>3 DEF Terminal, TerminalStatus
<1> QED BY <1>1, <1>3, <1>4, <1>5, <1>6, <1>7, Transitions DEF Transition

\* A step that is no caller's leaves the record.
LEMMA QuietSteps ==
    ASSUME Crash \/ DeadlinePasses \/ UNCHANGED vars PROVE rec' = rec
BY DEF Crash, DeadlinePasses, vars

\* An attempt is left behind only by the decision on its complete work or by an
\* explicit RetryWork.
THEOREM NoWorkIsRerunSilently == Spec => NoSilentRerun
<1> DEFINE A == rec.attempt.num # 0 /\ rec'.attempt.num # rec.attempt.num =>
                   \/ rec'.cause = "controller_action" /\ rec.attempt.work = "full"
                   \/ rec'.cause = "retry_work" /\ rec.phase = "work"
<1>1. RInv /\ [Next]_vars => [A]_vars
  <2> SUFFICES ASSUME RInv, [Next]_vars PROVE A
    OBVIOUS
  <2>1. CASE rec' = rec
    BY <2>1
  <2>2. ASSUME NEW c \in Callers, Moves(c), rec' # rec PROVE A
    BY <2>2, RecordSteps
  <2> QED BY <2>1, <2>2, QuietSteps DEF Next, Moves
<1> QED BY <1>1, RecordsInductive, PTL DEF Spec, NoSilentRerun

\* The turns of an attempt are charged in the step that stores its first
\* result, and a stored result is never withdrawn.
THEOREM WorkIsChargedOnce == Spec => WorkChargedOnce
<1> DEFINE A == /\ rec'.turns # rec.turns =>
                      /\ rec.attempt.work = "none" /\ rec'.attempt.work # "none"
                      /\ rec'.attempt.num = rec.attempt.num
                /\ rec'.attempt.num = rec.attempt.num /\ rec.attempt.work # "none" =>
                      rec'.attempt.work = rec.attempt.work
<1>1. RInv /\ [Next]_vars => [A]_vars
  <2> SUFFICES ASSUME RInv, [Next]_vars PROVE A
    OBVIOUS
  <2>1. CASE rec' = rec
    BY <2>1
  <2>2. ASSUME NEW c \in Callers, Moves(c), rec' # rec PROVE A
    <3>1. /\ rec.attempt.num \in {0, rec.attempts} /\ rec.attempts \in Nat
          /\ rec.attempt.num = 0 => rec.attempt.work = "none"
      BY DEF RInv, RecordsCoherent, Coherent, IInv, TypeOK, Record
    <3>2. NoAttempt.num = 0
      BY DEF NoAttempt
    <3> QED BY <2>2, <3>1, <3>2, RecordSteps
  <2> QED BY <2>1, <2>2, QuietSteps DEF Next, Moves
<1> QED BY <1>1, RecordsInductive, PTL DEF Spec, WorkChargedOnce

-----------------------------------------------------------------------------
(* A wakeup reaches a Worker that returns.                                  *)

\* Nothing has gone wrong: no write failed, no process died, and the journal
\* has room for another record.
Undisturbed == faults = 0 /\ crashes = 0 /\ rec.rev < MaxTransitions

\* Then an active status has a caller that executes its stage, and an attempt
\* whose Worker has not returned has an active status, or ended with the
\* execution.
Attended == Undisturbed =>
    /\ rec.status \in ActiveStatus => \E d \in Callers : call[d].pc \in Executing
    /\ rec.attempt.num # 0 /\ rec.attempt.work = "none" =>
          rec.status \in ActiveStatus \cup TerminalStatus

\* A write that nothing disturbs is done, or refused for a newer record.
LEMMA CASUndisturbed ==
    ASSUME TypeOK, Fresh, NEW c \in Callers, NEW n \in Record, ValidRecord(n),
           NEW answer, CAS(c, n, answer), faults' = 0, rec.rev < MaxTransitions
    PROVE  \/ answer = "ok" /\ Writing(c, n)
           \/ answer = "conflict" /\ rec' = rec
<1>1. faults \in Nat /\ rec.rev \in Nat /\ MaxTransitions \in Nat
  BY ConstantsAssumption DEF TypeOK, Record
<1>2. answer = Verdict(c, n) /\ (answer = "ok" \/ rec' = rec)
  BY <1>1 DEF CAS
<1>3. answer \in {"ok", "conflict"}
  BY <1>1, <1>2 DEF Verdict
<1> QED BY <1>2, <1>3, CASWrites

\* What was undisturbed after a step was so before it.
LEMMA UndisturbedStep ==
    ASSUME TypeOK, Fresh, NEW c \in Callers, Moves(c), Undisturbed' PROVE Undisturbed
<1>1. faults \in Nat /\ crashes' = crashes /\ (faults' = faults \/ faults' = faults + 1)
  BY DEF TypeOK, Moves, Step, CAS, Stage, Begin, Admit, Dedupe, Load, Orphan, Recover,
         Limit, Reserve, Start, Finish, Commit, Settle, Handoff, Release, Write,
         CancelActive, Recheck
<1>2. rec.rev \in Nat /\ (rec'.rev = rec.rev \/ rec'.rev = rec.rev + 1)
  BY RevStep
<1> QED BY <1>1, <1>2, ConstantsAssumption DEF Undisturbed

\* The outcome of a stage ends the active status, and that of a work stage
\* leaves evidence.
LEMMA OutcomeEnds ==
    ASSUME NEW r \in Record, Coherent(r), r.status \in ActiveStatus,
           NEW o \in IF r.phase = "work" THEN WorkOutcomes ELSE DecisionOutcomes
    PROVE  LET n == Outcome(r, o) IN
           /\ n.status \notin ActiveStatus
           /\ n.attempt.num # 0 => n.attempt.work # "none"
<1>1. r.status \in {"running", "pause_requested", "cancel_requested"} /\ r.attempt.num # 0
  BY ActiveCoherent DEF ActiveStatus
<1>2. CASE r.phase = "work"
  <2>1. Outcome(r, o) = WorkOutcome(r, o) /\ o \in WorkOutcomes
    BY <1>2 DEF Outcome, WorkOutcomes
  <2> QED BY <1>1, <1>2, <2>1, WorkOutcomeCases DEF ActiveStatus
<1>3. CASE r.phase = "decision"
  <2>1. Outcome(r, o) = DecisionOutcome(r, o) /\ o \in DecisionOutcomes
    BY <1>3 DEF Outcome, DecisionOutcomes
  <2>2. r.attempt.work = "full"
    BY <1>3, ActiveCoherent
  <2>3. DecisionOutcome(r, o).attempt \in {NoAttempt, r.attempt}
    BY <1>3, <2>1, DecisionOutcomeCases
  <2>4. DecisionOutcome(r, o).status \notin ActiveStatus
    <3>1. CASE r.status = "running"
      BY <1>3, <2>1, <3>1, DecisionOutcomeCases DEF ActiveStatus
    <3>2. CASE r.status # "running"
      BY <1>1, <3>2 DEF DecisionOutcome, PausedAs, Record, ActiveStatus
    <3> QED BY <3>1, <3>2
  <2> QED BY <2>1, <2>2, <2>3, <2>4 DEF NoAttempt
<1> QED BY <1>2, <1>3 DEF Record, Phase

\* A control operation makes no status active and opens no attempt.
LEMMA AppliedAttended ==
    ASSUME NEW r \in Record, Coherent(r), NEW op, Permitted(op, r), ~AlreadyDone(op, r)
    PROVE  LET n == Applied(op, r) IN
           /\ n.status \in ActiveStatus => r.status \in ActiveStatus
           /\ r.status \in ActiveStatus => n.status \in ActiveStatus \cup {"failed"}
           /\ n.attempt \in {NoAttempt, r.attempt}
<1> DEFINE n == Applied(op, r)
<1>1. n.attempt \in {NoAttempt, r.attempt}
  BY AppliedCoherent
<1>2. CASE r.status \in ActiveStatus
  BY <1>1, <1>2, AppliedToActive DEF ActiveStatus
<1>3. CASE r.status \notin ActiveStatus
  <2>1. r.status = "paused" => r.suspension.status \notin ActiveStatus
    BY DEF Coherent, AtRest, ActiveStatus
  <2>2. n.status \notin ActiveStatus
    <3>1. CASE op = "Resume"
      BY <1>3, <2>1, <3>1, RecordsAssumption
         DEF Applied, Resumed, Permitted, Record, Control
    <3>2. CASE op # "Resume"
      BY <1>3, <3>2 DEF Applied, Suspended, Woken, Ended, Record, ActiveStatus
    <3> QED BY <3>1, <3>2
  <2> QED BY <1>1, <1>3, <2>2
<1> QED BY <1>2, <1>3

\* A stage keeps executing until its outcome is stored.
LEMMA StageEnds ==
    ASSUME RInv, Undisturbed, Undisturbed', NEW c \in Callers, Moves(c),
           call[c].pc \in Executing
    PROVE  \/ call'[c].pc \in Executing
           \/ rec' = rec /\ Terminal(rec)
           \/ call[c].pc = "commit" /\ Writing(c, Outcome(rec, call[c].outcome))
<1>1. /\ TypeOK /\ Fresh /\ IInv /\ RecordsCoherent /\ OutcomeFits /\ TriesPaid
      /\ call \in [Callers -> Frame]
  BY DEF RInv, IInv, TypeOK
<1>2. CASE Stage(c)
  BY <1>1, <1>2 DEF Stage, Executing, Frame
<1>3. CASE Finish(c)
  <2>1. call[c].tries \in Nat /\ call[c].tries <= 3
    BY <1>1 DEF TriesPaid, Frame
  <2>2. ~(call[c].tries >= MaxReconciliations)
    BY <2>1, ConstantsAssumption
  <2>3. CASE Terminal(rec)
    BY <1>3, <2>3 DEF Finish
  <2>4. CASE ~Terminal(rec)
    BY <1>1, <1>3, <2>2, <2>4 DEF Finish, Executing, Frame
  <2> QED BY <2>3, <2>4
<1>4. CASE Commit(c)
  <2> DEFINE n == Outcome(call[c].cur, call[c].outcome)
  <2>1. call[c].pc = "commit"
    BY <1>4 DEF Commit, At
  <2>2. n \in Record /\ ValidRecord(n)
    BY <1>1, <2>1, Computed
  <2>3. PICK answer \in Answers :
           CAS(c, n, answer) /\ (answer = "conflict" => Goto(c, "finish"))
    BY <1>4 DEF Commit
  <2>4. CASE answer = "conflict"
    BY <1>1, <2>3, <2>4 DEF Goto, Executing, Frame
  <2>5. CASE answer # "conflict"
    <3>1. Writing(c, n)
      BY <1>1, <2>2, <2>3, <2>5, CASUndisturbed DEF Undisturbed
    <3> QED BY <2>1, <3>1 DEF Writing
  <2> QED BY <2>4, <2>5
<1> QED BY <1>2, <1>3, <1>4
       DEF Executing, Moves, Step, Begin, At, Admit, Dedupe, Load, Orphan, Recover, Limit,
           Reserve, Start, Settle, Handoff, Release, Write, CancelActive, Recheck

\* A start that nothing disturbs runs its stage.
LEMMA StartRuns ==
    ASSUME RInv, Undisturbed, Undisturbed', NEW c \in Callers, Moves(c),
           call[c].pc = "start", rec' # rec
    PROVE  call'[c].pc = "stage"
<1>1. /\ TypeOK /\ Fresh /\ IInv /\ RecordsCoherent /\ OutcomeFits
      /\ call \in [Callers -> Frame]
  BY DEF RInv, IInv, TypeOK
<1>2. Start(c)
  BY DEF Moves, Step, Stage, Begin, At, Admit, Dedupe, Load, Orphan, Recover, Limit,
         Reserve, Finish, Commit, Settle, Handoff, Release, Write, CancelActive, Recheck
<1> DEFINE n == Started(call[c].cur)
<1>3. n \in Record /\ ValidRecord(n)
  BY <1>1, Computed
<1>4. PICK answer \in Answers :
         /\ CAS(c, n, answer)
         /\ answer = "ok" => call' = [call EXCEPT ![c].pc = "stage", ![c].cur = rec',
                                                   ![c].tries = 0]
  BY <1>2 DEF Start
<1>5. answer = "ok"
  BY <1>1, <1>3, <1>4, CASUndisturbed DEF Undisturbed
<1> QED BY <1>1, <1>4, <1>5 DEF Frame

LEMMA AttendedStep ==
    ASSUME RInv, Attended, NEW c \in Callers, Moves(c) PROVE Attended'
<1> SUFFICES ASSUME Undisturbed'
             PROVE  /\ rec'.status \in ActiveStatus =>
                          \E d \in Callers : call'[d].pc \in Executing
                    /\ rec'.attempt.num # 0 /\ rec'.attempt.work = "none" =>
                          rec'.status \in ActiveStatus \cup TerminalStatus
  BY DEF Attended
<1>1. /\ TypeOK /\ Fresh /\ IInv /\ Checked /\ RecordsCoherent /\ OutcomeFits
      /\ rec \in Record /\ Coherent(rec)
  BY DEF RInv, IInv, TypeOK, RecordsCoherent
<1>2. /\ Undisturbed
      /\ rec.status \in ActiveStatus => \E d \in Callers : call[d].pc \in Executing
      /\ rec.attempt.num # 0 /\ rec.attempt.work = "none" =>
            rec.status \in ActiveStatus \cup TerminalStatus
  BY <1>1, UndisturbedStep DEF Attended
<1>3. ASSUME NEW d \in Callers, call[d].pc \in Executing,
             ~Terminal(rec) \/ rec' # rec,
             ~(call[c].pc = "commit" /\ Writing(c, Outcome(rec, call[c].outcome)))
      PROVE  \E e \in Callers : call'[e].pc \in Executing
  <2>1. CASE d = c
    BY <1>2, <1>3, <2>1, StageEnds
  <2>2. CASE d # c
    BY <1>1, <1>3, <2>2, Others
  <2> QED BY <2>1, <2>2
<1>4. CASE rec' = rec
  <2>1. ASSUME rec.status \in ActiveStatus
        PROVE  \E e \in Callers : call'[e].pc \in Executing
    <3>1. PICK d \in Callers : call[d].pc \in Executing
      BY <1>2, <2>1
    <3>2. ~Terminal(rec)
      BY <2>1 DEF Terminal, TerminalStatus, ActiveStatus
    <3>3. ~Writing(c, Outcome(rec, call[c].outcome))
      <4>1. rec'.rev = rec.rev /\ rec.rev # rec.rev + 1
        BY <1>1, <1>4 DEF Record
      <4>2. \A n : Writing(c, n) => rec'.rev = rec.rev + 1
        BY DEF Writing, Record
      <4> QED BY <4>1, <4>2
    <3> QED BY <1>3, <3>1, <3>2, <3>3
  <2> QED BY <1>2, <1>4, <2>1
<1>5. CASE call[c].pc = "recover" /\ Writing(c, Recovered(rec))
  <2>1. call[c].cur = rec /\ rec.status \in ActiveStatus
    BY <1>1, <1>5, WrittenFields DEF Checked
  <2>2. \A d \in Callers : call[d].pc \notin Executing
    BY <1>1, <1>5, <2>1 DEF IInv, RecoversAlone
  <2> QED BY <1>2, <2>1, <2>2
<1>6. CASE call[c].pc \in {"limit", "settle"} /\ Writing(c, Limited(rec))
  <2>1. Limited(rec).status = "limited"
    BY <1>1 DEF Limited, Record
  <2> QED BY <1>6, <2>1, WrittenFields DEF ActiveStatus, TerminalStatus
<1>7. CASE call[c].pc = "start" /\ Writing(c, Started(rec)) /\ rec' # rec
  <2>1. call'[c].pc = "stage"
    BY <1>2, <1>7, StartRuns
  <2>2. rec'.status = Started(rec).status /\ Started(rec).status = "running"
    BY <1>1, <1>7, WrittenFields DEF Started, Record
  <2> QED BY <2>1, <2>2 DEF Executing, ActiveStatus
<1>8. CASE call[c].pc = "commit" /\ Writing(c, Outcome(rec, call[c].outcome))
  <2> DEFINE o == call[c].outcome
             n == Outcome(rec, o)
  <2>1. /\ rec.status \in ActiveStatus
        /\ o \in IF rec.phase = "work" THEN WorkOutcomes ELSE DecisionOutcomes
    BY <1>1, <1>8, WrittenFields DEF OutcomeFits, Executing
  <2>2. n.status \notin ActiveStatus /\ (n.attempt.num # 0 => n.attempt.work # "none")
    <3>1. \A w \in IF rec.phase = "work" THEN WorkOutcomes ELSE DecisionOutcomes :
             /\ Outcome(rec, w).status \notin ActiveStatus
             /\ Outcome(rec, w).attempt.num # 0 => Outcome(rec, w).attempt.work # "none"
      BY <1>1, <2>1, OutcomeEnds
    <3> QED BY <2>1, <3>1
  <2>3. Writing(c, n)
    BY <1>8
  <2> HIDE DEF n
  <2> QED BY <2>2, <2>3, WrittenFields
<1>9. CASE call[c].pc = "write" /\ Writing(c, Applied(call[c].op, rec)) /\ rec' # rec
  <2>1. Permitted(call[c].op, rec) /\ ~AlreadyDone(call[c].op, rec) /\ ~Terminal(rec)
    BY <1>1, <1>9, WrittenFields DEF Checked, Permitted
  <2> DEFINE n == Applied(call[c].op, rec)
  <2>2. /\ n.status \in ActiveStatus => rec.status \in ActiveStatus
        /\ rec.status \in ActiveStatus => n.status \in ActiveStatus \cup {"failed"}
        /\ n.attempt \in {NoAttempt, rec.attempt}
    BY <1>1, <2>1, AppliedAttended
  <2>3. Writing(c, n)
    BY <1>9
  <2> HIDE DEF n
  <2>4. rec'.status = n.status /\ rec'.attempt = n.attempt
    BY <2>3, WrittenFields
  <2>5. rec.status \in ActiveStatus => \E e \in Callers : call'[e].pc \in Executing
    BY <1>2, <1>3, <1>9
  <2>6. rec'.attempt.num # 0 /\ rec'.attempt.work = "none" =>
           rec'.status \in ActiveStatus \cup TerminalStatus
    BY <1>2, <2>1, <2>2, <2>4 DEF NoAttempt, Terminal, TerminalStatus
  <2> QED BY <2>2, <2>4, <2>5, <2>6
<1> QED BY <1>1, <1>4, <1>5, <1>6, <1>7, <1>8, <1>9, Transitions DEF Transition

LEMMA AttendedAlways == Spec => []Attended
<1>1. Init => Attended
  BY DEF Init, Attended, Created, NoAttempt, ActiveStatus
<1>2. RInv /\ Attended /\ [Next]_vars => Attended'
  <2> SUFFICES ASSUME RInv, Attended, [Next]_vars PROVE Attended'
    OBVIOUS
  <2>1. CASE \E c \in Callers : Moves(c)
    BY <2>1, AttendedStep
  <2>2. CASE Crash
    <3>1. crashes' # 0
      BY <2>2 DEF Crash, RInv, IInv, TypeOK
    <3> QED BY <3>1 DEF Attended, Undisturbed
  <2>3. CASE DeadlinePasses \/ UNCHANGED vars
    BY <2>3 DEF DeadlinePasses, vars, Attended, Undisturbed
  <2> QED BY <2>1, <2>2, <2>3 DEF Next, Moves
<1> QED BY <1>1, <1>2, RecordsInductive, PTL DEF Spec

\* RetryWork discards an attempt with no result only after a failed write or a
\* crash.
LEMMA RetryDiscards ==
    ASSUME RInv, Attended, NEW c \in Callers, Moves(c), rec' # rec,
           rec'.attempt = NoAttempt, rec.attempt.num # 0, rec.attempt.work = "none",
           rec'.cause = "retry_work"
    PROVE  faults + crashes > 0
<1>1. /\ TypeOK /\ Fresh /\ IInv /\ Checked /\ rec \in Record /\ Coherent(rec)
      /\ OutcomeFits
  BY DEF RInv, IInv, TypeOK, RecordsCoherent
<1>2. ASSUME NEW n, Writing(c, n)
      PROVE  /\ rec'.cause = n.cause /\ rec'.attempt = n.attempt /\ call[c].cur = rec
  BY <1>2 DEF Writing, Record
<1>3. Coherent(rec) /\ NoAttempt.num = 0
  BY <1>1 DEF NoAttempt
<1>4. call[c].pc = "write" /\ Writing(c, Applied(call[c].op, rec))
  <2>1. Recovered(rec).attempt = rec.attempt /\ Limited(rec).attempt = rec.attempt
        /\ Started(rec).cause = "stage_start"
    BY <1>1 DEF Recovered, Limited, Started, Record
  <2>2. ASSUME call[c].pc = "commit", Writing(c, Outcome(rec, call[c].outcome))
        PROVE  FALSE
    <3>1. /\ rec.status \in ActiveStatus
          /\ call[c].outcome \in IF rec.phase = "work" THEN WorkOutcomes ELSE DecisionOutcomes
      BY <1>1, <1>2, <2>2 DEF OutcomeFits, Executing
    <3>2. \A w \in IF rec.phase = "work" THEN WorkOutcomes ELSE DecisionOutcomes :
             Outcome(rec, w).attempt.num # rec.attempt.num => rec.attempt.work = "full"
      BY <1>1, <3>1, OutcomeCoherent
    <3> QED BY <1>2, <1>3, <2>2, <3>1, <3>2
  <2> QED BY <1>1, <1>2, <1>3, <2>1, <2>2, Transitions DEF Transition
<1>5. ~Terminal(rec) /\ Permitted(call[c].op, rec) /\ ~AlreadyDone(call[c].op, rec)
  BY <1>1, <1>2, <1>4 DEF Checked, Permitted
<1>6. rec.status \notin ActiveStatus
  BY <1>1, <1>2, <1>3, <1>4, <1>5, AppliedToActive
<1>7. rec'.rev <= MaxTransitions
  BY <1>1, TypeStep DEF TypeOK, Next, Moves
<1>8. rec.rev < MaxTransitions
  BY <1>1, <1>7, RevStep, ConstantsAssumption
<1>9. ~(faults = 0 /\ crashes = 0)
  BY <1>5, <1>6, <1>8 DEF Attended, Undisturbed, Terminal
<1> QED BY <1>1, <1>9 DEF TypeOK

\* A wakeup leaves the record only with the execution or into an attempt, and
\* the attempt is not left behind without its Worker's result unless a write
\* has failed or a process has died, and then only by an explicit RetryWork.
THEOREM WakeupsReachTheWorker == Spec => WakeupReachesWorker
<1> DEFINE A == /\ rec.activation # "none" /\ rec'.activation # rec.activation =>
                      \/ Terminal(rec')
                      \/ rec'.cause = "stage_start" /\ rec'.attempt.activation = rec.activation
                /\ rec.attempt.num # 0 /\ rec.attempt.activation # "none"
                   /\ rec.attempt.work = "none" /\ rec'.attempt.num # rec.attempt.num =>
                      rec'.cause = "retry_work" /\ faults + crashes > 0
<1>1. RInv /\ Attended /\ [Next]_vars => [A]_vars
  <2> SUFFICES ASSUME RInv, Attended, [Next]_vars PROVE A
    OBVIOUS
  <2>1. CASE rec' = rec
    BY <2>1
  <2>2. ASSUME NEW c \in Callers, Moves(c), rec' # rec PROVE A
    <3>1. rec.activation # "none" /\ rec'.activation # rec.activation =>
             \/ Terminal(rec')
             \/ rec'.cause = "stage_start" /\ rec'.attempt.activation = rec.activation
      BY <2>2, RecordSteps
    <3>2. rec.attempt.num # 0 /\ rec.attempt.work = "none"
          /\ rec'.attempt.num # rec.attempt.num =>
             rec'.attempt = NoAttempt /\ rec'.cause = "retry_work"
      BY <2>2, RecordSteps
    <3> QED BY <2>2, <3>1, <3>2, RetryDiscards
  <2> QED BY <2>1, <2>2, QuietSteps DEF Next, Moves
<1> QED BY <1>1, AttendedAlways, RecordsInductive, PTL DEF Spec, WakeupReachesWorker

-----------------------------------------------------------------------------
(* A requested stop reaches the stage.                                      *)

\* As long as no write has failed: when a pause or a cancellation is stored,
\* the context of the stage that runs has been cancelled, or a caller is on its
\* way to cancel it.  RequestSettles needs it: nothing else makes the handler
\* return.
RequestIsHeard ==
    faults = 0 /\ rec.status \in {"pause_requested", "cancel_requested"} =>
        \A d \in Callers : call[d].pc = "stage" =>
            call[d].cancelled \/ \E e \in Callers : call[e].pc = "cancelActive"

\* Only cancelActive looks at another caller's frame.
LEMMA OthersFrame ==
    ASSUME TypeOK, NEW c \in Callers, Moves(c), ~CancelActive(c), NEW d \in Callers \ {c}
    PROVE  call'[d] = call[d]
<1>1. call \in [Callers -> Frame]
  BY DEF TypeOK
<1>2. \A a : (Return(c, a) \/ Leave(c, a) \/ Goto(c, a)) => call'[d] = call[d]
  BY <1>1 DEF Return, Leave, Goto
<1>3. \A r : Proceed(c, r) => call'[d] = call[d]
  BY <1>1, <1>2 DEF Proceed
<1>4. CASE \/ \E op \in Requests : Begin(c, op)
           \/ Admit(c) \/ Dedupe(c) \/ Load(c) \/ Orphan(c) \/ Recover(c)
           \/ Limit(c) \/ Reserve(c) \/ Start(c)
  BY <1>1, <1>2, <1>3, <1>4
     DEF Begin, Admit, Dedupe, Load, Orphan, Recover, Limit, Reserve, Start
<1>5. CASE \/ Stage(c) \/ Finish(c) \/ Commit(c) \/ Settle(c) \/ Handoff(c)
           \/ Release(c) \/ Write(c) \/ Recheck(c)
  BY <1>1, <1>2, <1>5 DEF Stage, Finish, Commit, Settle, Handoff, Release, Write, Recheck
<1> QED BY <1>4, <1>5 DEF Moves, Step

\* The write of a request that does not fail goes on to cancelActive.
LEMMA RequestGoesOn ==
    ASSUME IInv, NEW c \in Callers, Moves(c), call[c].pc = "write", rec' # rec,
           rec.status \in ActiveStatus, faults' = 0,
           Writing(c, Applied(call[c].op, rec)),
           rec'.status \in {"pause_requested", "cancel_requested"}
    PROVE  call'[c].pc = "cancelActive"
<1> DEFINE op == call[c].op
<1>1. rec \in Record /\ call \in [Callers -> Frame] /\ faults \in Nat /\ op \in Operations
  BY DEF IInv, TypeOK, Frame
<1>2. Write(c)
  BY DEF Moves, Step, Stage, Begin, At, Admit, Dedupe, Load, Orphan, Recover, Limit,
         Reserve, Start, Finish, Commit, Settle, Handoff, Release, CancelActive, Recheck
<1>3. call[c].cur = rec /\ Permitted(op, rec) /\ rec'.status = Applied(op, rec).status
  BY WrittenFields DEF IInv, Checked
<1>4. op \notin {"Resume", "RetryWork", "RetryDecision", "ResolveBlock", "ResumeDue"} \cup SignalIds
  BY <1>3, RecordsAssumption DEF Permitted, Control, ActiveStatus
<1>5. op \in {"Pause", "Cancel"}
  BY <1>1, <1>3, <1>4 DEF Applied, Ended, Record
<1>6. PICK answer \in Answers :
        /\ CAS(c, Applied(op, rec), answer)
        /\ answer = "ok" /\ op \in {"Pause", "Cancel", "Fail"} => Goto(c, "cancelActive")
  BY <1>2, <1>3 DEF Write
<1>7. answer = "ok"
  BY <1>1, <1>6 DEF CAS
<1> QED BY <1>1, <1>5, <1>6, <1>7 DEF Goto, Frame

LEMMA HeardStep ==
    ASSUME RInv, RequestIsHeard, NEW c \in Callers, Moves(c) PROVE RequestIsHeard'
<1> SUFFICES ASSUME faults' = 0, rec'.status \in {"pause_requested", "cancel_requested"},
                    NEW d \in Callers, call'[d].pc = "stage"
             PROVE  call'[d].cancelled \/ \E e \in Callers : call'[e].pc = "cancelActive"
  BY DEF RequestIsHeard
<1>1. /\ IInv /\ TypeOK /\ Fresh /\ Slot /\ rec \in Record /\ call \in [Callers -> Frame]
      /\ faults \in Nat
  BY DEF RInv, IInv, TypeOK
<1>2. faults = 0
  <2>1. faults' = faults \/ faults' = faults + 1
    BY DEF Moves, Step, CAS, Stage, Begin, Admit, Dedupe, Load, Orphan, Recover, Limit,
           Reserve, Start, Finish, Commit, Settle, Handoff, Release, Write, CancelActive,
           Recheck
  <2> QED BY <1>1, <2>1
<1>3. d # c
  <2>1. ASSUME d = c PROVE FALSE
    <3>1. Writing(c, Started(rec))
      BY <1>1, <2>1, Edges DEF Edge
    <3>2. Started(rec).status = "running"
      BY <1>1 DEF Started, Record
    <3>3. rec'.status = Started(rec).status
      BY <3>1, WrittenFields
    <3> QED BY <3>2, <3>3
  <2> QED BY <2>1
<1>4. call[d].pc = "stage"
  BY <1>1, <1>3, Others
<1>5. CASE CancelActive(c)
  <2>1. d = active
    BY <1>1, <1>4 DEF Slot, Holding
  <2>2. call'[d] = [call[d] EXCEPT !.cancelled = TRUE]
    BY <1>3, <1>5, <2>1 DEF CancelActive
  <2> QED BY <1>1, <2>2 DEF Frame
<1>6. CASE ~CancelActive(c) /\ rec' = rec
  <2>1. call'[d] = call[d]
    BY <1>1, <1>3, <1>6, OthersFrame
  <2>2. ASSUME NEW e \in Callers, call[e].pc = "cancelActive"
        PROVE  call'[e].pc = "cancelActive"
    <3>1. e # c
      <4>1. ASSUME call[c].pc = "cancelActive" PROVE FALSE
        BY <1>6, <4>1
           DEF Moves, Step, Stage, Begin, At, Admit, Dedupe, Load, Orphan, Recover, Limit,
               Reserve, Start, Finish, Commit, Settle, Handoff, Release, Write, Recheck
      <4> QED BY <2>2, <4>1
    <3> QED BY <1>1, <2>2, <3>1, Others
  <2> QED BY <1>2, <1>4, <1>6, <2>1, <2>2 DEF RequestIsHeard
<1>7. CASE ~CancelActive(c) /\ rec' # rec
  <2>1. /\ call[c].pc = "write" /\ Writing(c, Applied(call[c].op, rec))
        /\ rec.status \in ActiveStatus
    BY <1>1, <1>3, <1>4, <1>7, OthersRequest DEF Executing
  <2>2. call'[c].pc = "cancelActive"
    BY <1>1, <1>7, <2>1, RequestGoesOn
  <2> QED BY <2>2
<1> QED BY <1>5, <1>6, <1>7

\* Unless a write fails, a request never passes by the stage it is meant for:
\* whoever stored it is still on its way to cancel the stage's context, or has
\* done so.
THEOREM RequestsAreHeard == Spec => []RequestIsHeard
<1>1. Init => RequestIsHeard
  BY DEF Init, RequestIsHeard, Created
<1>2. RInv /\ RequestIsHeard /\ [Next]_vars => RequestIsHeard'
  <2> SUFFICES ASSUME RInv, RequestIsHeard, [Next]_vars PROVE RequestIsHeard'
    OBVIOUS
  <2>1. CASE \E c \in Callers : Moves(c)
    BY <2>1, HeardStep
  <2>2. CASE Crash
    BY <2>2 DEF Crash, RequestIsHeard, Idle
  <2>3. CASE DeadlinePasses \/ UNCHANGED vars
    BY <2>3 DEF DeadlinePasses, vars, RequestIsHeard
  <2> QED BY <2>1, <2>2, <2>3 DEF Next, Moves
<1> QED BY <1>1, <1>2, RecordsInductive, PTL DEF Spec

-----------------------------------------------------------------------------
(* The engine implements the documented life cycle.                         *)

\* What Resume will find, as the life cycle sees it.
Remembered(q) == [status |-> q.status, phase |-> q.phase, retry |-> q.retry]

\* A record with no suspension remembers nothing.
LEMMA NothingRemembered == Remembered(NoSuspension) = Lifecycle!Nothing
BY DEF Remembered, NoSuspension, Lifecycle!Nothing

\* What a suspension remembers is given by its three fields.
LEMMA RememberedIs ==
    ASSUME NEW q \in Suspension, NEW s, NEW p, NEW b \in BOOLEAN,
           q.status = s, q.phase = p, q.retry <=> b
    PROVE  Remembered(q) = [status |-> s, phase |-> p, retry |-> b]
<1>1. q.retry = b
  BY DEF Suspension
<1> QED BY <1>1 DEF Remembered

\* A write shows in the life cycle as the fields of the record written.
LEMMA ViewWritten ==
    ASSUME NEW c, NEW n, Writing(c, n)
    PROVE  /\ rec'.status = n.status /\ rec'.phase = n.phase
           /\ rec'.attempt = n.attempt /\ rec'.suspension = n.suspension
           /\ call[c].cur = rec /\ n \in Record /\ n.suspension \in Suspension
BY DEF Writing, Record

\* The first state is the life cycle's.
LEMMA LifecycleInit == Init => Lifecycle!Init
<1> SUFFICES ASSUME Init PROVE Lifecycle!Init
  OBVIOUS
<1>1. rec = Created /\ active = NoCaller
  BY DEF Init
<1>2. RunningStage = "none"
  BY <1>1, ConstantsAssumption DEF RunningStage
<1>3. Remembered(rec.suspension) = Lifecycle!Nothing
  BY <1>1, NothingRemembered DEF Created
<1> QED BY <1>1, <1>2, <1>3 DEF Lifecycle!Init, Created, NoAttempt, Remembered

\* The handler that runs is the one of the caller that executes a stage.
LEMMA StageOf ==
    ASSUME Slot
    PROVE  /\ \A d \in Callers : call[d].pc \in Executing => RunningStage = call[d].cur.phase
           /\ (\A d \in Callers : call[d].pc \notin Executing) => RunningStage = "none"
BY ConstantsAssumption DEF Slot, Executing, Holding, RunningStage

\* Reconciling an orphan is what the life cycle calls so.
LEMMA ReconcileStep ==
    ASSUME RInv, NEW c \in Callers, call[c].pc = "recover", Writing(c, Recovered(rec)),
           RunningStage = "none", RunningStage' = "none"
    PROVE  Lifecycle!Reconcile
<1> DEFINE n == Recovered(rec)
<1>1. rec \in Record /\ Coherent(rec) /\ rec.status \in ActiveStatus
  BY ViewWritten DEF RInv, IInv, TypeOK, RecordsCoherent, Checked
<1>2. /\ rec.wait = {} /\ ~rec.block /\ rec.suspension = NoSuspension
      /\ rec.attempt.work = IF rec.phase = "work" THEN "none" ELSE "full"
  BY <1>1, ActiveCoherent
<1>3. n.phase = rec.phase /\ n.attempt = rec.attempt
  BY <1>1 DEF Recovered, Record
<1>4. CASE rec.status = "running"
  <2>1. n.status = "interrupted" /\ n.suspension = rec.suspension
    BY <1>1, <1>4 DEF Recovered, Record
  <2> QED BY <1>3, <1>4, <2>1, ViewWritten DEF Lifecycle!Reconcile, Lifecycle!Becomes
<1>5. CASE rec.status = "cancel_requested"
  <2>1. n.status = "cancelled" /\ n.suspension = NoSuspension
    BY <1>1, <1>5 DEF Recovered, Record
  <2>2. Remembered(rec'.suspension) = Lifecycle!Nothing
    BY <2>1, ViewWritten, NothingRemembered
  <2> QED BY <1>3, <1>5, <2>1, <2>2, ViewWritten
          DEF Lifecycle!Reconcile, Lifecycle!Becomes, Remembered
<1>6. CASE rec.status = "pause_requested"
  <2> DEFINE b == rec.phase = "work"
             q == n.suspension
  <2>1. n.status = "paused" /\ q.status = "ready" /\ q.phase = rec.phase /\ (q.retry <=> b)
    <3>1. n = [rec EXCEPT !.status = "paused", !.cause = "recovery",
                          !.suspension = [status |-> "ready", phase |-> rec.phase,
                                          wait |-> {}, block |-> rec.block, retry |-> b]]
      BY <1>2, <1>6 DEF Recovered
    <3>2. b \in BOOLEAN
      OBVIOUS
    <3> HIDE DEF b
    <3> QED BY <1>1, <3>1, <3>2 DEF Record
  <2>2. rec'.suspension = q /\ q \in Suspension
    BY ViewWritten
  <2>3. Remembered(rec'.suspension)
          = IF rec.phase = "work" THEN Lifecycle!Retry ELSE Lifecycle!Ready(rec.phase)
    <3>1. CASE b
      BY <2>1, <2>2, <3>1 DEF Remembered, Suspension, Lifecycle!Retry
    <3>2. CASE ~b
      BY <2>1, <2>2, <3>2 DEF Remembered, Suspension, Lifecycle!Ready
    <3> QED BY <3>1, <3>2
  <2> QED BY <1>3, <1>6, <2>1, <2>3, ViewWritten
          DEF Lifecycle!Reconcile, Lifecycle!Becomes, Remembered
<1> QED BY <1>1, <1>4, <1>5, <1>6 DEF ActiveStatus

\* A limit ends an execution that is ready.
LEMMA LimitedStep ==
    ASSUME RInv, NEW c \in Callers, call[c].pc \in {"limit", "settle"},
           Writing(c, Limited(rec)), RunningStage = "none", RunningStage' = "none"
    PROVE  Lifecycle!Limit
<1>1. rec \in Record /\ rec.status = "ready"
  BY ViewWritten DEF RInv, IInv, TypeOK, Checked
<1>2. LET n == Limited(rec) IN
      /\ n.status = "limited" /\ n.phase = rec.phase /\ n.attempt = rec.attempt
      /\ n.suspension = NoSuspension
  BY <1>1 DEF Limited, Record
<1>3. Remembered(rec'.suspension) = Lifecycle!Nothing
  BY <1>2, ViewWritten, NothingRemembered
<1> QED BY <1>1, <1>2, <1>3, ViewWritten DEF Lifecycle!Limit, Lifecycle!Becomes, Remembered

\* A stage that starts: of work with no evidence, of a decision with complete work.
LEMMA StartedStep ==
    ASSUME RInv, NEW c \in Callers, call[c].pc = "start", Writing(c, Started(rec)),
           RunningStage = "none", RunningStage' \in {rec.phase, "none"}
    PROVE  Lifecycle!Start
<1>1. rec \in Record /\ rec.status = "ready" /\ Coherent(rec)
  BY ViewWritten DEF RInv, IInv, TypeOK, RecordsCoherent, Checked
<1>2. rec.phase = "decision" => rec.attempt.work = "full"
  BY <1>1 DEF Coherent, AtRest, Evidence
<1>3. LET n == Started(rec) IN
      /\ n.status = "running" /\ n.phase = rec.phase /\ n.suspension = rec.suspension
      /\ n.attempt.work = IF rec.phase = "work" THEN "none" ELSE rec.attempt.work
  BY <1>1 DEF Started, Record, Attempt
<1> QED BY <1>1, <1>2, <1>3, ViewWritten DEF Lifecycle!Start, Lifecycle!Becomes

\* Work that returns: complete work goes on to its decision, unless a request
\* is honoured first.
LEMMA WorkReturnsStep ==
    ASSUME RInv, NEW c \in Callers, call[c].pc = "commit", rec.phase = "work",
           Writing(c, Outcome(rec, call[c].outcome)),
           RunningStage = "work", RunningStage' = "none"
    PROVE  Lifecycle!WorkReturns
<1>1. /\ rec \in Record /\ Coherent(rec) /\ rec.status \in ActiveStatus
      /\ call[c].outcome \in WorkOutcomes
  BY ViewWritten DEF RInv, IInv, TypeOK, RecordsCoherent, OutcomeFits, Executing
<1>2. PICK o \in WorkOutcomes : o = call[c].outcome
  BY <1>1
<1> DEFINE n == WorkOutcome(rec, o)
           failed == o.verdict = "error"
           e == IF failed THEN "partial" ELSE "full"
<1>3. Writing(c, n)
  <2>1. Outcome(rec, o) = n
    BY <1>2 DEF Outcome, WorkOutcomes
  <2> QED BY <1>2, <2>1
<1>4. /\ n.attempt.work = e
      /\ rec.status = "running" =>
            /\ n.status = IF failed THEN "interrupted" ELSE "ready"
            /\ n.phase = IF failed THEN "work" ELSE "decision"
            /\ n.suspension = NoSuspension
      /\ rec.status = "pause_requested" =>
            /\ n.status = "paused"
            /\ n.phase = IF failed THEN "work" ELSE "decision"
            /\ n.suspension.status = "ready" /\ n.suspension.phase = n.phase
            /\ (n.suspension.retry <=> failed)
      /\ rec.status = "cancel_requested" =>
            n.status = "cancelled" /\ n.phase = "work" /\ n.suspension = NoSuspension
  BY <1>1, WorkOutcomeCases
<1>5. rec.suspension = NoSuspension
  BY <1>1, ActiveCoherent
<1>6. /\ rec'.status = n.status /\ rec'.phase = n.phase /\ rec'.attempt = n.attempt
      /\ rec'.suspension = n.suspension /\ n.suspension \in Suspension
  BY <1>3, ViewWritten
<1> HIDE DEF n
<1>7. CASE rec.status = "running"
  <2>1. CASE failed
    BY <1>4, <1>5, <1>6, <1>7, <2>1 DEF Lifecycle!WorkReturns, Lifecycle!Becomes
  <2>2. CASE ~failed
    BY <1>4, <1>5, <1>6, <1>7, <2>2 DEF Lifecycle!WorkReturns, Lifecycle!Becomes
  <2> QED BY <2>1, <2>2
<1>8. CASE rec.status = "pause_requested"
  <2>1. CASE failed
    <3>1. Remembered(rec'.suspension) = Lifecycle!Retry
      BY <1>4, <1>6, <1>8, <2>1 DEF Remembered, Suspension, Lifecycle!Retry
    <3> QED BY <1>4, <1>6, <1>8, <2>1, <3>1
            DEF Lifecycle!WorkReturns, Lifecycle!Becomes, Remembered
  <2>2. CASE ~failed
    <3>1. Remembered(rec'.suspension) = Lifecycle!Ready("decision")
      BY <1>4, <1>6, <1>8, <2>2 DEF Remembered, Suspension, Lifecycle!Ready
    <3> QED BY <1>4, <1>6, <1>8, <2>2, <3>1
            DEF Lifecycle!WorkReturns, Lifecycle!Becomes, Remembered
  <2> QED BY <2>1, <2>2
<1>9. CASE rec.status = "cancel_requested"
  <2>1. Remembered(rec'.suspension) = Lifecycle!Nothing
    BY <1>4, <1>6, <1>9, NothingRemembered
  <2> QED BY <1>4, <1>6, <1>9, <2>1 DEF Lifecycle!WorkReturns, Lifecycle!Becomes, Remembered
<1> QED BY <1>1, <1>7, <1>8, <1>9 DEF ActiveStatus

\* A decision that returns closes the attempt; one that failed, or that a pause
\* overtook, can be made again.
LEMMA DecisionReturnsStep ==
    ASSUME RInv, NEW c \in Callers, call[c].pc = "commit", rec.phase = "decision",
           Writing(c, Outcome(rec, call[c].outcome)),
           RunningStage = "decision", RunningStage' = "none"
    PROVE  Lifecycle!DecisionReturns
<1>1. /\ rec \in Record /\ Coherent(rec) /\ rec.status \in ActiveStatus
      /\ call[c].outcome \in DecisionOutcomes
  BY ViewWritten DEF RInv, IInv, TypeOK, RecordsCoherent, OutcomeFits, Executing
<1>2. PICK o \in DecisionOutcomes : o = call[c].outcome
  BY <1>1
<1> DEFINE n == DecisionOutcome(rec, o)
           decided == rec.status = "running" /\ o.verdict # "error"
<1>3. Writing(c, n)
  <2>1. Outcome(rec, o) = n
    BY <1>2 DEF Outcome, DecisionOutcomes
  <2> QED BY <1>2, <2>1
<1>4. /\ n.attempt = IF decided THEN NoAttempt ELSE rec.attempt
      /\ decided =>
            /\ n.suspension = NoSuspension
            /\ \/ n.status \in {"ready", "waiting", "blocked"} /\ n.phase = "work"
               \/ n.status \in {"completed", "failed", "cancelled"} /\ n.phase = "decision"
      /\ ~decided => n.phase = "decision"
      /\ rec.status = "running" /\ ~decided =>
            n.status = "interrupted" /\ n.suspension = NoSuspension
      /\ rec.status = "pause_requested" =>
            /\ n.status = "paused"
            /\ n.suspension.status = "ready" /\ n.suspension.phase = "decision"
            /\ ~n.suspension.retry
      /\ rec.status = "cancel_requested" =>
            n.status = "cancelled" /\ n.suspension = NoSuspension
  BY <1>1, DecisionOutcomeCases
<1>5. rec.suspension = NoSuspension /\ rec.attempt.work = "full"
  BY <1>1, ActiveCoherent
<1>6. /\ rec'.status = n.status /\ rec'.phase = n.phase /\ rec'.attempt = n.attempt
      /\ rec'.suspension = n.suspension /\ n.suspension \in Suspension
  BY <1>3, ViewWritten
<1> HIDE DEF n
<1>7. CASE decided
  <2>1. Remembered(rec'.suspension) = Lifecycle!Nothing /\ rec'.attempt.work = "none"
    BY <1>4, <1>6, <1>7, NothingRemembered DEF NoAttempt
  <2> QED BY <1>4, <1>5, <1>6, <1>7, <2>1
          DEF Lifecycle!DecisionReturns, Lifecycle!Becomes, Remembered
<1>8. CASE rec.status = "running" /\ ~decided
  BY <1>4, <1>5, <1>6, <1>8 DEF Lifecycle!DecisionReturns, Lifecycle!Becomes
<1>9. CASE rec.status = "pause_requested"
  <2>1. Remembered(rec'.suspension) = Lifecycle!Ready("decision")
    BY <1>4, <1>6, <1>9 DEF Remembered, Suspension, Lifecycle!Ready
  <2> QED BY <1>4, <1>5, <1>6, <1>9, <2>1
          DEF Lifecycle!DecisionReturns, Lifecycle!Becomes, Remembered
<1>10. CASE rec.status = "cancel_requested"
  <2>1. Remembered(rec'.suspension) = Lifecycle!Nothing
    BY <1>4, <1>6, <1>10, NothingRemembered
  <2> QED BY <1>4, <1>5, <1>6, <1>10, <2>1
          DEF Lifecycle!DecisionReturns, Lifecycle!Becomes, Remembered
<1> QED BY <1>1, <1>7, <1>8, <1>9, <1>10 DEF ActiveStatus

\* The host's calls of the life cycle.
Called ==
    \/ Lifecycle!Pause \/ Lifecycle!Resume \/ Lifecycle!RetryWork \/ Lifecycle!RetryDecision
    \/ Lifecycle!Wake \/ Lifecycle!Cancel \/ Lifecycle!Fail

\* Every control operation that writes is one of the host's calls.
LEMMA CalledStep ==
    ASSUME RInv, NEW c \in Callers, call[c].pc = "write",
           Writing(c, Applied(call[c].op, rec))
    PROVE  Called
<1> USE RecordsAssumption
<1>1. /\ rec \in Record /\ Coherent(rec)
      /\ Permitted(call[c].op, rec) /\ ~AlreadyDone(call[c].op, rec)
  BY ViewWritten DEF RInv, IInv, TypeOK, RecordsCoherent, Checked
<1>2. PICK op : op = call[c].op
  OBVIOUS
<1> DEFINE n == Applied(op, rec)
<1>3. /\ Permitted(op, rec) /\ ~AlreadyDone(op, rec) /\ ~Terminal(rec) /\ Writing(c, n)
  BY <1>1, <1>2 DEF Permitted
<1>4. /\ rec'.status = n.status /\ rec'.phase = n.phase /\ rec'.attempt = n.attempt
      /\ rec'.suspension = n.suspension /\ n.suspension \in Suspension
  BY <1>3, ViewWritten
<1>5. rec.status \in Status
  BY <1>1 DEF Record
<1>6. CASE op = "Pause"
  <2>1. rec.status \in {"running", "ready", "waiting", "blocked", "interrupted"}
    BY <1>3, <1>5, <1>6
       DEF Permitted, AlreadyDone, Status, ActiveStatus, TerminalStatus, Terminal, Control
  <2>2. CASE rec.status = "running"
    <3>1. n = [rec EXCEPT !.status = "pause_requested", !.cause = "pause_requested"]
      BY <1>6, <2>2 DEF Applied, Control
    <3>2. /\ n.status = "pause_requested" /\ n.phase = rec.phase
          /\ n.attempt = rec.attempt /\ n.suspension = rec.suspension
      BY <1>1, <3>1 DEF Record
    <3> QED BY <1>4, <2>2, <3>2 DEF Called, Lifecycle!Pause, Lifecycle!Becomes
  <2>3. CASE rec.status # "running"
    <3> DEFINE b == rec.status = "interrupted" /\ rec.phase = "work"
               q == n.suspension
    <3>1. n = Suspended(rec)
      BY <1>6, <2>3 DEF Applied, Control
    <3>2. /\ n.status = "paused" /\ n.phase = rec.phase
          /\ q.status = rec.status /\ q.phase = rec.phase /\ (q.retry <=> b)
      BY <1>1, <2>1, <2>3, <3>1, SuspendedCoherent
    <3>3. n.attempt = rec.attempt
      BY <1>1, <3>1 DEF Suspended, Record
    <3>4. [status |-> rec'.suspension.status, phase |-> rec'.suspension.phase,
           retry |-> rec'.suspension.retry]
            = [status |-> rec.status, phase |-> rec.phase, retry |-> b]
      <4>1. rec'.suspension.retry = b
        BY <1>4, <3>2 DEF Suspension
      <4> HIDE DEF b
      <4> QED BY <1>4, <3>2, <4>1
    <3> QED BY <1>4, <2>1, <2>3, <3>2, <3>3, <3>4
            DEF Called, Lifecycle!Pause, Lifecycle!Becomes
  <2> QED BY <2>2, <2>3
<1>7. CASE op = "Resume"
  <2>1. n = Resumed(rec) /\ rec.status = "paused" /\ ~rec.suspension.retry
    BY <1>3, <1>7 DEF Applied, Permitted, Control
  <2>2. n.attempt = rec.attempt
    BY <1>1, <2>1 DEF Resumed, Record
  <2>3. /\ n.status = rec.suspension.status /\ n.phase = rec.suspension.phase
        /\ n.suspension = NoSuspension
    BY <1>1, <2>1, ResumedCoherent
  <2>4. Remembered(rec'.suspension) = Lifecycle!Nothing
    BY <1>4, <2>3, NothingRemembered
  <2> QED BY <1>4, <2>1, <2>2, <2>3, <2>4
          DEF Called, Lifecycle!Resume, Lifecycle!Becomes, Remembered
<1>8. CASE op = "RetryWork"
  <2>1. /\ n.status = "ready" /\ n.phase = "work" /\ n.attempt = NoAttempt
        /\ n.suspension = NoSuspension
        /\ \/ rec.status = "paused" /\ rec.suspension.retry
           \/ rec.status = "interrupted" /\ rec.phase = "work"
    BY <1>1, <1>3, <1>8, RetryCoherent
  <2>2. Remembered(rec'.suspension) = Lifecycle!Nothing
    BY <1>4, <2>1, NothingRemembered
  <2> QED BY <1>4, <2>1, <2>2
          DEF Called, Lifecycle!RetryWork, Lifecycle!Becomes, Remembered, NoAttempt
<1>9. CASE op = "RetryDecision"
  <2>1. /\ n.status = "ready" /\ n.phase = "decision" /\ n.attempt = rec.attempt
        /\ n.suspension = NoSuspension
        /\ rec.status = "interrupted" /\ rec.phase = "decision" /\ rec.attempt.work = "full"
    BY <1>1, <1>3, <1>9, RetryDecisionCoherent
  <2>2. rec.suspension = NoSuspension
    BY <1>1, <2>1, RestCoherent
  <2> QED BY <1>4, <2>1, <2>2 DEF Called, Lifecycle!RetryDecision, Lifecycle!Becomes
<1>10. CASE op \in Wakeups
  <2>1. /\ n.status = "ready" /\ n.phase = "work" /\ n.attempt = rec.attempt
        /\ n.suspension = NoSuspension /\ rec.status \in {"waiting", "blocked"}
    BY <1>1, <1>3, <1>10, WokenCoherent
  <2>2. rec.suspension = NoSuspension
    BY <1>1, <2>1, RestCoherent
  <2> QED BY <1>4, <2>1, <2>2 DEF Called, Lifecycle!Wake, Lifecycle!Becomes
<1>11. CASE op = "Cancel"
  <2>1. CASE rec.status \in {"running", "pause_requested"}
    <3>1. n = [rec EXCEPT !.status = "cancel_requested", !.cause = "cancel_requested"]
      BY <1>11, <2>1 DEF Applied, Control
    <3>2. /\ n.status = "cancel_requested" /\ n.phase = rec.phase
          /\ n.attempt = rec.attempt /\ n.suspension = rec.suspension
      BY <1>1, <3>1 DEF Record
    <3> QED BY <1>4, <2>1, <3>2 DEF Called, Lifecycle!Cancel, Lifecycle!Becomes
  <2>2. CASE rec.status \notin {"running", "pause_requested"}
    <3>1. n = Ended(rec, "cancelled", "cancel")
      BY <1>11, <2>2 DEF Applied, Control
    <3>2. /\ n.status = "cancelled" /\ n.phase = rec.phase /\ n.attempt = rec.attempt
          /\ n.suspension = NoSuspension
      BY <1>1, <3>1, EndedCoherent DEF TerminalStatus
    <3>3. Remembered(rec'.suspension) = Lifecycle!Nothing
      BY <1>4, <3>2, NothingRemembered
    <3>4. rec.status \notin Lifecycle!Ended \cup Lifecycle!Owned
      BY <1>3, <1>11, <2>2 DEF AlreadyDone, Terminal, TerminalStatus,
                               Lifecycle!Ended, Lifecycle!Owned
    <3> QED BY <1>4, <3>2, <3>3, <3>4
            DEF Called, Lifecycle!Cancel, Lifecycle!Becomes, Remembered
  <2> QED BY <2>1, <2>2
<1>12. CASE op \notin Wakeups \cup {"Pause", "Resume", "RetryWork", "RetryDecision", "Cancel"}
  <2>1. n = Ended(rec, "failed", "fail")
    BY <1>12 DEF Applied, Wakeups
  <2>2. /\ n.status = "failed" /\ n.phase = rec.phase /\ n.attempt = rec.attempt
        /\ n.suspension = NoSuspension
    BY <1>1, <2>1, EndedCoherent DEF TerminalStatus
  <2>3. Remembered(rec'.suspension) = Lifecycle!Nothing
    BY <1>4, <2>2, NothingRemembered
  <2>4. rec.status \notin Lifecycle!Ended
    BY <1>3 DEF Terminal, TerminalStatus, Lifecycle!Ended
  <2> QED BY <1>4, <2>2, <2>3, <2>4
          DEF Called, Lifecycle!Fail, Lifecycle!Becomes, Remembered
<1> QED BY <1>6, <1>7, <1>8, <1>9, <1>10, <1>11, <1>12

\* A step of a caller whose own stage does not execute, while another's may.
LEMMA BesideStep ==
    ASSUME RInv, RInv', NEW c \in Callers, Moves(c), NEW d \in Callers \ {c},
           call[d].pc \in Executing
    PROVE  [Lifecycle!Next]_Lifecycle!vars
<1>1. IInv /\ TypeOK /\ Slot /\ Slot'
  BY DEF RInv, IInv
<1>2. call'[d].pc = call[d].pc /\ call'[d].cur = call[d].cur
  BY <1>1, Others DEF IInv
<1>3. RunningStage' = RunningStage
  <2>1. RunningStage = call[d].cur.phase
    BY <1>1, StageOf
  <2>2. active = d /\ active' = d
    BY <1>1, <1>2 DEF Slot, Executing, Holding
  <2> QED BY <1>2, <2>1, <2>2 DEF RunningStage
<1>4. CASE rec' = rec
  BY <1>3, <1>4 DEF Lifecycle!vars
<1>5. CASE call[c].pc = "write" /\ Writing(c, Applied(call[c].op, rec))
  <2>1. Called
    BY <1>5, CalledStep
  <2> QED BY <1>3, <2>1 DEF Called, Lifecycle!Next
<1> QED BY <1>1, <1>4, <1>5, OthersRequest

\* A step of the caller whose stage executes.
LEMMA ExecutingStep ==
    ASSUME RInv, RInv', NEW c \in Callers, Moves(c), call[c].pc \in Executing
    PROVE  [Lifecycle!Next]_Lifecycle!vars
<1>1. IInv /\ TypeOK /\ Fresh /\ Slot /\ Slot' /\ RunningStage = call[c].cur.phase
  BY StageOf DEF RInv, IInv
<1>2. Edge(c) /\ Transition(c)
  BY <1>1, Edges, Transitions
<1>3. ASSUME NEW d \in Callers \ {c} PROVE call'[d].pc \notin Executing
  <2>1. call[d].pc \notin Executing
    BY <1>1 DEF Slot, Executing, Holding
  <2> QED BY <1>1, <2>1, Others
<1>4. RunningStage = rec.phase /\ rec.phase \in Phase
  BY <1>1 DEF IInv, StageOwnsRecord, TypeOK, Record
<1>5. CASE call'[c].pc \in Executing
  <2>1. rec' = rec /\ call'[c].cur \in {call[c].cur, rec}
    BY <1>2, <1>5 DEF Edge, Executing
  <2>2. RunningStage' = call'[c].cur.phase
    <3>1. active' = c
      BY <1>1, <1>5 DEF Slot, Executing, Holding
    <3> QED BY <1>5, <3>1 DEF RunningStage
  <2>3. RunningStage' = RunningStage
    BY <1>1, <1>4, <2>1, <2>2
  <2> QED BY <2>1, <2>3 DEF Lifecycle!vars
<1>6. CASE call'[c].pc \notin Executing
  <2>1. RunningStage' = "none"
    <3>1. active' \in Callers => call'[active'].pc \notin Executing
      BY <1>3, <1>6
    <3> QED BY <3>1 DEF RunningStage
  <2>2. CASE rec' = rec
    BY <1>4, <2>1, <2>2 DEF Lifecycle!Next, Lifecycle!Vanish, Phase
  <2>3. CASE call[c].pc = "commit" /\ Writing(c, Outcome(rec, call[c].outcome))
    <3>1. CASE rec.phase = "work"
      BY <1>4, <2>1, <2>3, <3>1, WorkReturnsStep DEF Lifecycle!Next
    <3>2. CASE rec.phase = "decision"
      BY <1>4, <2>1, <2>3, <3>2, DecisionReturnsStep DEF Lifecycle!Next
    <3> QED BY <1>4, <3>1, <3>2 DEF Phase
  <2> QED BY <1>2, <2>2, <2>3 DEF Transition, Executing
<1> QED BY <1>5, <1>6

\* A step of a caller while no stage executes.
LEMMA QuietStep ==
    ASSUME RInv, RInv', NEW c \in Callers, Moves(c),
           \A d \in Callers : call[d].pc \notin Executing
    PROVE  [Lifecycle!Next]_Lifecycle!vars
<1>1. IInv /\ TypeOK /\ Fresh /\ Slot /\ Slot' /\ RunningStage = "none"
  BY StageOf DEF RInv, IInv
<1>2. Edge(c) /\ Transition(c)
  BY <1>1, Edges, Transitions
<1>3. ASSUME NEW d \in Callers \ {c} PROVE call'[d].pc \notin Executing
  BY <1>1, Others
<1>4. CASE call'[c].pc = "stage"
  <2>1. call[c].pc = "start" /\ Writing(c, Started(rec)) /\ call'[c].cur = rec'
    BY <1>2, <1>4 DEF Edge
  <2>2. active' = c
    BY <1>1, <1>4 DEF Slot, Holding
  <2>3. Started(rec).phase = rec.phase
    BY <1>1 DEF TypeOK, Started, Record
  <2>4. RunningStage' = rec.phase
    BY <1>4, <2>1, <2>2, <2>3, ViewWritten DEF RunningStage, Executing
  <2> QED BY <1>1, <2>1, <2>4, StartedStep DEF Lifecycle!Next
<1>5. CASE call'[c].pc # "stage"
  <2>1. call'[c].pc \notin Executing
    BY <1>2, <1>5 DEF Edge, Executing
  <2>2. RunningStage' = "none"
    <3>1. active' \in Callers => call'[active'].pc \notin Executing
      BY <1>3, <2>1
    <3> QED BY <3>1 DEF RunningStage
  <2>3. CASE rec' = rec
    BY <1>1, <2>2, <2>3 DEF Lifecycle!vars
  <2>4. CASE call[c].pc = "recover" /\ Writing(c, Recovered(rec))
    BY <1>1, <2>2, <2>4, ReconcileStep DEF Lifecycle!Next
  <2>5. CASE call[c].pc \in {"limit", "settle"} /\ Writing(c, Limited(rec))
    BY <1>1, <2>2, <2>5, LimitedStep DEF Lifecycle!Next
  <2>6. CASE call[c].pc = "start" /\ Writing(c, Started(rec))
    BY <1>1, <2>2, <2>6, StartedStep DEF Lifecycle!Next
  <2>7. CASE call[c].pc = "write" /\ Writing(c, Applied(call[c].op, rec))
    BY <1>1, <2>2, <2>7, CalledStep DEF Called, Lifecycle!Next
  <2>8. call[c].pc # "commit"
    BY DEF Executing
  <2> QED BY <1>2, <2>3, <2>4, <2>5, <2>6, <2>7, <2>8 DEF Transition
<1> QED BY <1>4, <1>5

\* Every step of the engine is a step of the life cycle, or shows the host nothing.
LEMMA LifecycleStep == RInv /\ RInv' /\ [Next]_vars => [Lifecycle!Next]_Lifecycle!vars
<1> SUFFICES ASSUME RInv, RInv', [Next]_vars PROVE [Lifecycle!Next]_Lifecycle!vars
  OBVIOUS
<1>1. ASSUME NEW c \in Callers, Moves(c) PROVE [Lifecycle!Next]_Lifecycle!vars
  <2>1. CASE \A d \in Callers : call[d].pc \notin Executing
    BY <1>1, <2>1, QuietStep
  <2>2. CASE call[c].pc \in Executing
    BY <1>1, <2>2, ExecutingStep
  <2>3. CASE \E d \in Callers \ {c} : call[d].pc \in Executing
    BY <1>1, <2>3, BesideStep
  <2> QED BY <2>1, <2>2, <2>3
<1>2. CASE Crash
  <2>1. rec' = rec /\ RunningStage' = "none"
    BY <1>2, ConstantsAssumption DEF Crash, RunningStage
  <2>2. CASE RunningStage = "none"
    BY <2>1, <2>2 DEF Lifecycle!vars
  <2>3. CASE RunningStage # "none"
    BY <2>1, <2>3 DEF Lifecycle!Next, Lifecycle!Vanish
  <2> QED BY <2>2, <2>3
<1>3. CASE DeadlinePasses \/ UNCHANGED vars
  <2>1. rec' = rec /\ call' = call /\ active' = active
    BY <1>3 DEF DeadlinePasses, vars
  <2>2. RunningStage' = RunningStage
    BY <2>1 DEF RunningStage
  <2> QED BY <2>1, <2>2 DEF Lifecycle!vars
<1> QED BY <1>1, <1>2, <1>3 DEF Next, Moves

\* The engine implements the documented life cycle: what goroutines, revisions,
\* the slot, failed writes and crashes add to it, the host cannot see.
THEOREM LifecycleIsImplemented == Spec => ImplementsLifecycle
BY LifecycleInit, LifecycleStep, RecordsInductive, PTL DEF Spec, ImplementsLifecycle, Lifecycle!Spec
=============================================================================
