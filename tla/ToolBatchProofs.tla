-------------------------- MODULE ToolBatchProofs --------------------------
(***************************************************************************)
(* Proofs about ToolBatch, for any number of calls, slots and reports.     *)
(***************************************************************************)
EXTENDS ToolBatch, FiniteSetTheorems, TLAPS

\* The phases in which the walker is with a call it has decided to execute,
\* those in which it is past the last call, and those in which no worker runs.
Executes == {"dispatch", "barrier", "serial", "drain"}
PastLast == {"final", "flush", "done"}
Alone == {"gate", "serial", "drain", "flush", "done"}

\* A worker whose tool has not returned has no result yet.
Working == {"started", "executing"}

\* Calls of parallel workers that have not been sent to done, and those sent.
Pending == {i \in Calls : kind[i] = "parallel"
                /\ worker[i] \in {"started", "executing", "returned", "released"}}
Finished == {done[n] : n \in 1..Len(done)}

Walking ==
    /\ pc = "gate" => runnable = 0 /\ idx <= CallCount
    /\ pc # "gate" => idx <= runnable + 1
    /\ pc \in Executes =>
          /\ idx <= runnable /\ idx \notin denied
          /\ kind[idx] = "parallel" <=> pc = "dispatch"
    /\ pc \in PastLast => idx = runnable + 1

\* The calls that the walker has not reached.
Untouched(i) == worker[i] = "idle" /\ outcome[i] = "none" /\ life[i] = "none"

Reached(i) == pc # "gate" /\ (i < idx \/ (i = idx /\ pc \in {"serial", "drain"}))

Ahead == \A i \in Calls : ~Reached(i) => Untouched(i)

\* The calls that it has reached: what their workers and results are.
Executed(i) ==
    /\ outcome[i] = "none" <=> worker[i] \in Working
    /\ worker[i] # "idle" => i \notin denied
    /\ kind[i] # "parallel" /\ i < idx => worker[i] \in {"idle", "exited"}
    /\ i = idx => worker[i] \in IF pc = "drain" THEN {"returned"} ELSE Working \cup {"returned"}

Behind == \A i \in Calls : Reached(i) => Executed(i)

\* A call is announced when it is settled or booked, and only then.
Open(i) == i \in Pending \/ i \in Finished \/ i = idx

Announced ==
    \A i \in Calls : Reached(i) =>
        /\ Open(i) => life[i] # "completed"
        /\ ~Open(i) /\ ~stopped => life[i] = "completed"

\* done holds each worker that has exited unbooked once.
Booked ==
    /\ \A n \in 1..Len(done) :
          Reached(done[n]) /\ kind[done[n]] = "parallel" /\ worker[done[n]] = "exited"
    /\ \A m, n \in 1..Len(done) : done[m] = done[n] => m = n

\* inflight counts the workers that are not booked.
Counted ==
    /\ inflight = Len(done) + Cardinality(Pending)
    /\ inflight < idx
    /\ pc \in Alone => inflight = 0
    /\ Cardinality(Slots) <= ParallelTools

IInv == TypeOK /\ Walking /\ Ahead /\ Behind /\ Announced /\ Booked /\ Counted

-----------------------------------------------------------------------------
(* What the parts of a step do.                                            *)

Outcomes == {"none", "denied", "cancelled", "skipped", "result", "terminate"}

\* An event reaches a consumer that stayed, and at it the consumer may stop.
LEMMA EmitStep ==
    ASSUME TypeOK, NEW seen \in [Calls -> {"none", "started", "completed"}], Emit(seen)
    PROVE  /\ life' \in [Calls -> {"none", "started", "completed"}]
           /\ stopped' \in BOOLEAN /\ cancelled' \in BOOLEAN
           /\ ~stopped => life' = seen
           /\ stopped => life' = life /\ stopped'
  BY DEF TypeOK, Emit

\* An event about one call leaves the others as they were.
LEMMA TellStep ==
    ASSUME TypeOK, NEW i \in Calls, NEW s \in {"started", "completed"},
           Emit([life EXCEPT ![i] = s])
    PROVE  /\ life' \in [Calls -> {"none", "started", "completed"}]
           /\ stopped' \in BOOLEAN /\ cancelled' \in BOOLEAN
           /\ stopped => stopped'
           /\ \A j \in Calls \ {i} : life'[j] = life[j]
           /\ life'[i] = s \/ (stopped' /\ life'[i] = life[i])
<1>1. [life EXCEPT ![i] = s] \in [Calls -> {"none", "started", "completed"}]
  BY DEF TypeOK
<1> QED
  BY <1>1, EmitStep DEF TypeOK

\* A settled call has its result, and is announced unless the consumer stops.
LEMMA SettleStep ==
    ASSUME TypeOK, NEW i \in Calls, NEW o \in Outcomes \ {"none"}, Settle(i, o)
    PROVE  /\ life' \in [Calls -> {"none", "started", "completed"}]
           /\ stopped' \in BOOLEAN /\ cancelled' \in BOOLEAN
           /\ outcome' \in [Calls -> Outcomes]
           /\ outcome'[i] # "none" /\ \A j \in Calls \ {i} : outcome'[j] = outcome[j]
           /\ \A j \in Calls \ {i} : life'[j] = life[j]
           /\ stopped => stopped'
           /\ stopped' \/ life'[i] = "completed"
  BY TellStep DEF TypeOK, Settle, Outcomes

\* So has a completed one, which had its result before.
LEMMA CompleteStep ==
    ASSUME TypeOK, NEW i \in Calls, Complete(i)
    PROVE  /\ life' \in [Calls -> {"none", "started", "completed"}]
           /\ stopped' \in BOOLEAN /\ cancelled' \in BOOLEAN
           /\ outcome' \in [Calls -> Outcomes]
           /\ \A j \in Calls : outcome'[j] = "none" <=> outcome[j] = "none"
           /\ \A j \in Calls \ {i} : outcome'[j] = outcome[j] /\ life'[j] = life[j]
           /\ stopped => stopped'
           /\ stopped' \/ life'[i] = "completed"
<1>1. /\ outcome' \in [Calls -> Outcomes]
      /\ \A j \in Calls : outcome'[j] = "none" <=> outcome[j] = "none"
      /\ \A j \in Calls \ {i} : outcome'[j] = outcome[j]
  BY DEF TypeOK, Complete, Outcomes
<1> QED
  BY <1>1, TellStep DEF Complete

\* The counted sets are finite.
LEMMA Finite ==
    /\ IsFiniteSet(Calls) /\ IsFiniteSet(Pending) /\ IsFiniteSet(Slots)
    /\ Cardinality(Pending) \in Nat /\ Cardinality(Slots) \in Nat
<1>1. IsFiniteSet(Calls) /\ Cardinality(Calls) = CallCount
  BY BatchAssumption, FS_Interval DEF Calls
<1>2. Pending \in SUBSET Calls /\ Slots \in SUBSET Calls
  BY DEF Pending, Slots
<1> QED
  BY <1>1, <1>2, FS_Subset, FS_CardinalityType

\* With nothing in flight no worker is pending and none is unbooked.
LEMMA NoneInFlight ==
    ASSUME TypeOK, Counted, inflight = 0
    PROVE  Pending = {} /\ done = <<>> /\ Finished = {} /\ Len(done) = 0
<1>1. Len(done) = 0 /\ Cardinality(Pending) = 0
  BY Finite DEF TypeOK, Counted
<1>2. Pending = {}
  BY <1>1, Finite, FS_EmptySet
<1>3. done = <<>>
  BY <1>1 DEF TypeOK
<1> QED
  BY <1>1, <1>2, <1>3 DEF Finished

-----------------------------------------------------------------------------
(* One action at a time.                                                   *)

\* Nothing is counted differently while workers and the channel stay.
LEMMA CountsKept ==
    ASSUME UNCHANGED <<kind, worker>>
    PROVE  Pending' = Pending /\ Slots' = Slots
  BY DEF Pending, Slots

LEMMA InitHolds == Init => IInv
<1> SUFFICES ASSUME Init PROVE IInv
  OBVIOUS
<1>1. done \in Seq(Calls) /\ progress \in Seq(Calls) /\ Len(done) = 0 /\ Len(progress) = 0
  BY DEF Init
<1>2. TypeOK
  <2>1. idx \in 1..(CallCount + 1) /\ runnable \in 0..CallCount /\ inflight \in 0..CallCount
    BY BatchAssumption DEF Init
  <2>2. reports \in 0..MaxReports /\ Len(done) <= CallCount /\ Len(progress) <= ProgressBuffer
    BY <1>1, BatchAssumption DEF Init
  <2> QED
    BY <1>1, <2>1, <2>2 DEF Init, TypeOK
<1>3. Pending = {} /\ Slots = {}
  BY DEF Init, Pending, Slots
<1>4. Counted
  BY <1>1, <1>3, FS_EmptySet, BatchAssumption DEF Init, Counted
<1>5. Walking
  BY BatchAssumption DEF Init, Walking, Executes, PastLast
<1>6. Ahead /\ Behind /\ Announced
  BY DEF Init, Ahead, Behind, Announced, Reached, Untouched
<1>7. Booked
  BY <1>1 DEF Booked
<1> QED
  BY <1>2, <1>4, <1>5, <1>6, <1>7 DEF IInv

LEMMA GateKeeps == IInv /\ Gate => IInv'
<1> SUFFICES ASSUME TypeOK, Walking, Ahead, Behind, Announced, Booked, Counted, Gate
             PROVE  IInv'
  BY DEF IInv
<1>1. pc = "gate" /\ idx \in 1..CallCount /\ runnable = 0
  BY BatchAssumption DEF Gate, TypeOK, Walking
<1>2. \A i \in Calls : Untouched(i)
  BY <1>1 DEF Ahead, Reached
<1>3. inflight = 0 /\ Len(done) = 0 /\ done = <<>> /\ Pending = {}
  BY <1>1, NoneInFlight DEF Counted, Alone
<1>4. UNCHANGED <<kind, worker, outcome, done, progress, inflight, stopped, cancelled,
                  life, reports>>
  BY DEF Gate
<1>5. CallCount \in Nat \ {0} /\ denied \subseteq Calls /\ idx \in Calls
  BY <1>1, BatchAssumption DEF TypeOK, Calls
<1>6. \/ \E refused \in {denied, denied \cup {idx}} :
            /\ idx = CallCount /\ runnable' = CallCount /\ denied' = refused
            /\ pc' = "step" /\ idx' = 1
      \/ \E refused \in {denied, denied \cup {idx}} :
            /\ idx # CallCount /\ denied' = refused /\ idx' = idx + 1
            /\ pc' = "gate" /\ runnable' = 0
      \/ runnable' = CallCount /\ denied' = Calls /\ pc' = "step" /\ idx' = 1
      \/ runnable' = idx - 1 /\ denied' = denied /\ pc' = "step" /\ idx' = 1
  BY <1>1 DEF Gate, Gated, Walk
<1>7. /\ pc' \in {"gate", "step"} /\ idx' \in 1..CallCount
      /\ runnable' \in 0..CallCount /\ denied' \subseteq Calls
      /\ pc' = "gate" => runnable' = 0
      /\ pc' = "step" => idx' = 1
  <2>1. denied' \subseteq Calls
    BY <1>5, <1>6
  <2> QED
    BY <1>1, <1>5, <1>6, <2>1
<1>8. TypeOK'
  BY <1>4, <1>5, <1>7 DEF TypeOK
<1>9. Walking'
  <2>1. pc' \notin Executes /\ pc' \notin PastLast
    BY <1>7 DEF Executes, PastLast
  <2>2. pc' = "gate" => runnable' = 0 /\ idx' <= CallCount
    BY <1>5, <1>7
  <2>3. PICK n \in Nat : runnable' = n
    BY <1>5, <1>7
  <2>4. pc' # "gate" => idx' <= runnable' + 1
    BY <1>7, <2>3
  <2> QED
    BY <2>1, <2>2, <2>4 DEF Walking
<1>10. \A i \in Calls : ~Reached(i)'
  BY <1>5, <1>7 DEF Reached, Calls
<1>11. Counted'
  <2>1. Pending' = Pending /\ Slots' = Slots
    BY <1>4, CountsKept
  <2> QED
    BY <1>3, <1>4, <1>5, <1>7, <2>1, FS_EmptySet DEF Counted
<1>12. Ahead' /\ Behind' /\ Announced' /\ Booked'
  BY <1>2, <1>3, <1>4, <1>10 DEF Ahead, Untouched, Behind, Announced, Booked
<1> QED
  BY <1>8, <1>9, <1>11, <1>12 DEF IInv

\* Progress, cancellation and a consumer that stops disturb nothing else.
LEMMA AsideKeeps ==
    ASSUME IInv, TypeOK', stopped => stopped',
           UNCHANGED <<kind, pc, idx, runnable, denied, worker, outcome, done, inflight, life>>
    PROVE  IInv'
<1>1. Pending' = Pending /\ Slots' = Slots
  BY CountsKept
<1>2. Walking' /\ Ahead' /\ Behind' /\ Booked'
  BY DEF IInv, Walking, Ahead, Behind, Booked, Reached, Untouched, Executed
<1>3. Announced'
  <2>1. Finished' = Finished
    BY DEF Finished
  <2>2. \A i \in Calls : (Open(i)' <=> Open(i)) /\ (Reached(i)' <=> Reached(i))
    BY <1>1, <2>1 DEF Open, Reached
  <2> QED
    BY <2>2 DEF IInv, Announced
<1>4. Counted'
  BY <1>1 DEF IInv, Counted
<1> QED
  BY <1>2, <1>3, <1>4 DEF IInv

\* A worker whose tool executes or returns.
LEMMA ToolKeeps ==
    ASSUME IInv, NEW i \in Calls, worker[i] \in Working,
           NEW w \in {"executing", "returned"}, worker' = [worker EXCEPT ![i] = w],
           outcome' \in [Calls -> Outcomes],
           \A j \in Calls \ {i} : outcome'[j] = outcome[j],
           outcome'[i] = "none" <=> w = "executing",
           UNCHANGED <<kind, pc, idx, runnable, denied, done, progress, inflight, stopped,
                       cancelled, life, reports>>
    PROVE  IInv'
<1>1. TypeOK /\ Walking /\ Ahead /\ Behind /\ Announced /\ Booked /\ Counted
  BY DEF IInv
<1>2. worker[i] \notin {"idle", "returned", "released", "exited"}
  BY DEF Working
<1>3. worker'[i] = w /\ (\A j \in Calls \ {i} : worker'[j] = worker[j])
  BY <1>1 DEF TypeOK
<1>4. Reached(i) /\ Executed(i)
  BY <1>1, <1>2 DEF Ahead, Behind, Untouched
<1>5. TypeOK'
  <2>1. worker' \in [Calls -> {"idle", "started", "executing", "returned", "released", "exited"}]
    BY <1>1 DEF TypeOK
  <2> QED
    BY <1>1, <2>1 DEF TypeOK, Outcomes
<1>6. Pending' = Pending /\ Slots' = Slots
  <2>1. \A j \in Calls : (j \in Pending' <=> j \in Pending) /\ (j \in Slots' <=> j \in Slots)
    BY <1>3 DEF Pending, Slots, Working
  <2> QED
    BY <2>1 DEF Pending, Slots
<1>7. Walking' /\ Counted'
  BY <1>1, <1>6 DEF Walking, Counted
<1>8. \A j \in Calls : Reached(j)' <=> Reached(j)
  BY DEF Reached
<1>9. Ahead'
  BY <1>1, <1>3, <1>4, <1>8 DEF Ahead, Untouched
<1>10. Behind'
  <2>1. Executed(i)'
    BY <1>2, <1>3, <1>4 DEF Executed, Working
  <2>2. ASSUME NEW j \in Calls \ {i}, Reached(j) PROVE Executed(j)'
    BY <1>1, <1>3, <2>2 DEF Behind, Executed
  <2> QED
    BY <1>8, <2>1, <2>2 DEF Behind
<1>11. Booked'
  <2>1. \A n \in 1..Len(done) : done[n] \in Calls /\ done[n] # i
    BY <1>1, <1>2 DEF Booked, TypeOK
  <2> QED
    BY <1>1, <1>3, <1>8, <2>1 DEF Booked
<1>12. Announced'
  <2>1. \A j \in Calls : Open(j)' <=> Open(j)
    BY <1>6 DEF Open, Finished
  <2> QED
    BY <1>1, <1>8, <2>1 DEF Announced
<1> QED
  BY <1>5, <1>7, <1>9, <1>10, <1>11, <1>12 DEF IInv

LEMMA RunToolKeeps == IInv => \A i \in Calls : RunTool(i) => IInv'
<1> SUFFICES ASSUME IInv, NEW i \in Calls, RunTool(i) PROVE IInv'
  OBVIOUS
<1>1. TypeOK /\ worker[i] \in Working
  BY DEF RunTool, Working, IInv
<1>2. outcome[i] = "none"
  BY <1>1 DEF IInv, Ahead, Behind, Untouched, Executed
<1>3. CASE \E o \in {"skipped", "cancelled"} : Return(i, o)
  <2>1. outcome' \in [Calls -> Outcomes] /\ outcome'[i] # "none"
        /\ \A j \in Calls \ {i} : outcome'[j] = outcome[j]
    BY <1>1, <1>3 DEF Return, TypeOK, Outcomes
  <2> QED
    BY <1>1, <1>3, <2>1, ToolKeeps DEF RunTool, Return
<1>4. CASE worker' = [worker EXCEPT ![i] = "executing"] /\ UNCHANGED outcome
  BY <1>1, <1>2, <1>4, ToolKeeps DEF RunTool, TypeOK, Outcomes
<1> QED
  BY <1>3, <1>4 DEF RunTool

LEMMA ExecReturnsKeeps == IInv => \A i \in Calls : ExecReturns(i) => IInv'
<1> SUFFICES ASSUME IInv, NEW i \in Calls, ExecReturns(i) PROVE IInv'
  OBVIOUS
<1>1. TypeOK /\ worker[i] \in Working
  BY DEF ExecReturns, Working, IInv
<1>2. outcome' \in [Calls -> Outcomes] /\ outcome'[i] # "none"
      /\ \A j \in Calls \ {i} : outcome'[j] = outcome[j]
  BY <1>1 DEF ExecReturns, Return, TypeOK, Outcomes
<1> QED
  BY <1>1, <1>2, ToolKeeps DEF ExecReturns, Return

\* A worker that gives up its slot, and one that reports to the walker.
LEMMA ReleaseKeeps ==
    ASSUME IInv, NEW i \in Calls, kind[i] = "parallel", worker[i] = "returned",
           worker' = [worker EXCEPT ![i] = "released"],
           UNCHANGED <<kind, pc, idx, runnable, denied, outcome, done, progress, inflight,
                       stopped, cancelled, life, reports>>
    PROVE  IInv'
<1>1. TypeOK /\ Walking /\ Ahead /\ Behind /\ Announced /\ Booked /\ Counted
  BY DEF IInv
<1>2. worker'[i] = "released" /\ (\A j \in Calls \ {i} : worker'[j] = worker[j])
  BY <1>1 DEF TypeOK
<1>3. Reached(i) /\ Executed(i)
  BY <1>1 DEF Ahead, Behind, Untouched
<1>4. i # idx
  BY <1>1, <1>3 DEF Reached, Walking, Executes, TypeOK
<1>5. TypeOK'
  <2>1. worker' \in [Calls -> {"idle", "started", "executing", "returned", "released", "exited"}]
    BY <1>1 DEF TypeOK
  <2> QED
    BY <1>1, <2>1 DEF TypeOK
<1>6. Pending' = Pending
  <2>1. \A j \in Calls : j \in Pending' <=> j \in Pending
    BY <1>2 DEF Pending
  <2> QED
    BY <2>1 DEF Pending
<1>7. Slots' \in SUBSET Slots
  BY <1>2 DEF Slots
<1>8. Cardinality(Slots') <= Cardinality(Slots) /\ Cardinality(Slots') \in Nat
  BY <1>7, Finite, FS_Subset, FS_CardinalityType
<1>9. Walking' /\ Counted'
  <2>1. Cardinality(Slots') <= ParallelTools
    BY <1>1, <1>8, Finite, BatchAssumption DEF Counted
  <2> QED
    BY <1>1, <1>6, <2>1 DEF Walking, Counted
<1>10. \A j \in Calls : Reached(j)' <=> Reached(j)
  BY DEF Reached
<1>11. Ahead'
  BY <1>1, <1>2, <1>3, <1>10 DEF Ahead, Untouched
<1>12. Behind'
  <2>1. Executed(i)'
    BY <1>2, <1>3, <1>4 DEF Executed, Working
  <2>2. ASSUME NEW j \in Calls \ {i}, Reached(j) PROVE Executed(j)'
    BY <1>1, <1>2, <2>2 DEF Behind, Executed
  <2> QED
    BY <1>10, <2>1, <2>2 DEF Behind
<1>13. Booked'
  <2>1. \A n \in 1..Len(done) : done[n] \in Calls /\ done[n] # i
    BY <1>1 DEF Booked, TypeOK
  <2> QED
    BY <1>1, <1>2, <1>10, <2>1 DEF Booked
<1>14. Announced'
  <2>1. \A j \in Calls : Open(j)' <=> Open(j)
    BY <1>6 DEF Open, Finished
  <2> QED
    BY <1>1, <1>10, <2>1 DEF Announced
<1> QED
  BY <1>5, <1>9, <1>11, <1>12, <1>13, <1>14 DEF IInv

LEMMA ExitKeeps ==
    ASSUME IInv, NEW i \in Calls, kind[i] = "parallel", worker[i] = "released",
           worker' = [worker EXCEPT ![i] = "exited"], done' = Append(done, i),
           UNCHANGED <<kind, pc, idx, runnable, denied, outcome, progress, inflight,
                       stopped, cancelled, life, reports>>
    PROVE  IInv'
<1>1. TypeOK /\ Walking /\ Ahead /\ Behind /\ Announced /\ Booked /\ Counted
  BY DEF IInv
<1>2. worker'[i] = "exited" /\ (\A j \in Calls \ {i} : worker'[j] = worker[j])
  BY <1>1 DEF TypeOK
<1>3. Reached(i) /\ Executed(i)
  BY <1>1 DEF Ahead, Behind, Untouched
<1>4. i # idx
  BY <1>1, <1>3 DEF Reached, Walking, Executes, TypeOK
<1>5. /\ done' \in Seq(Calls) /\ Len(done') = Len(done) + 1 /\ Len(done) \in Nat
      /\ \A n \in 1..Len(done) : done'[n] = done[n] /\ done[n] \in Calls /\ done[n] # i
      /\ done'[Len(done) + 1] = i
  BY <1>1 DEF TypeOK, Booked
<1>6. Pending' = Pending \ {i} /\ i \in Pending
  <2>1. \A j \in Calls : j \in Pending' <=> j \in Pending \ {i}
    BY <1>2 DEF Pending
  <2> QED
    BY <2>1 DEF Pending
<1>7. Cardinality(Pending) = Cardinality(Pending') + 1 /\ Cardinality(Pending') \in Nat
  <2>1. Cardinality(Pending') = Cardinality(Pending) - 1 /\ IsFiniteSet(Pending')
    BY <1>6, Finite, FS_RemoveElement
  <2>2. PICK n \in Nat : Cardinality(Pending') = n
    BY <2>1, FS_CardinalityType
  <2> QED
    BY <2>1, <2>2, Finite
<1>8. Slots' = Slots
  <2>1. \A j \in Calls : j \in Slots' <=> j \in Slots
    BY <1>2 DEF Slots
  <2> QED
    BY <2>1 DEF Slots
<1>9. inflight' = Len(done') + Cardinality(Pending')
  BY <1>1, <1>5, <1>7, Finite DEF Counted
<1>10. Len(done') <= CallCount
  BY <1>1, <1>5, <1>7, Finite, BatchAssumption DEF Counted, TypeOK
<1>11. TypeOK'
  <2>1. worker' \in [Calls -> {"idle", "started", "executing", "returned", "released", "exited"}]
    BY <1>1 DEF TypeOK
  <2> QED
    BY <1>1, <1>5, <1>10, <2>1 DEF TypeOK
<1>12. Walking' /\ Counted'
  BY <1>1, <1>8, <1>9 DEF Walking, Counted
<1>13. \A j \in Calls : Reached(j)' <=> Reached(j)
  BY DEF Reached
<1>14. Ahead'
  BY <1>1, <1>2, <1>3, <1>13 DEF Ahead, Untouched
<1>15. Behind'
  <2>1. Executed(i)'
    BY <1>2, <1>3, <1>4 DEF Executed, Working
  <2>2. ASSUME NEW j \in Calls \ {i}, Reached(j) PROVE Executed(j)'
    BY <1>1, <1>2, <2>2 DEF Behind, Executed
  <2> QED
    BY <1>13, <2>1, <2>2 DEF Behind
<1>16. Booked'
  <2>1. ASSUME NEW n \in 1..Len(done')
        PROVE  \/ n \in 1..Len(done) /\ done'[n] = done[n] /\ done[n] \in Calls \ {i}
               \/ n = Len(done) + 1 /\ done'[n] = i
    BY <1>5
  <2>2. \A n \in 1..Len(done') :
           Reached(done'[n]) /\ kind[done'[n]] = "parallel" /\ worker'[done'[n]] = "exited"
    BY <1>1, <1>2, <1>3, <2>1 DEF Booked
  <2>3. \A m, n \in 1..Len(done') : done'[m] = done'[n] => m = n
    BY <1>1, <2>1 DEF Booked
  <2> QED
    BY <2>2, <2>3 DEF Booked, Reached
<1>17. Announced'
  <2>1. \A j \in Calls : j \in Finished' <=> j \in Finished \cup {i}
    BY <1>5 DEF Finished
  <2>2. \A j \in Calls : Open(j)' <=> Open(j)
    BY <1>6, <2>1 DEF Open
  <2> QED
    BY <1>1, <1>13, <2>2 DEF Announced
<1> QED
  BY <1>11, <1>12, <1>14, <1>15, <1>16, <1>17 DEF IInv

LEMMA WorkerKeeps == IInv => \A i \in Calls : Worker(i) => IInv'
  BY ReleaseKeeps, ExitKeeps DEF Worker

\* A call settled without an execution, by the walker in step or at a barrier.
LEMMA SettledKeeps ==
    ASSUME IInv, pc \in {"step", "barrier"}, idx <= runnable,
           NEW o \in Outcomes \ {"none"}, Settle(idx, o), Walk(idx + 1),
           UNCHANGED <<kind, runnable, denied, worker, done, progress, inflight, reports>>
    PROVE  IInv'
<1>1. TypeOK /\ Walking /\ Ahead /\ Behind /\ Announced /\ Booked /\ Counted
  BY DEF IInv
<1>2. /\ CallCount \in Nat /\ idx \in Calls /\ idx \in Nat /\ runnable \in Nat
      /\ runnable <= CallCount
  BY <1>1, BatchAssumption DEF TypeOK, Calls
<1> PICK i \in Calls : i = idx
  BY <1>2
<1>3. /\ life' \in [Calls -> {"none", "started", "completed"}]
      /\ stopped' \in BOOLEAN /\ cancelled' \in BOOLEAN
      /\ outcome' \in [Calls -> Outcomes]
      /\ outcome'[i] # "none" /\ \A j \in Calls \ {i} : outcome'[j] = outcome[j]
      /\ \A j \in Calls \ {i} : life'[j] = life[j]
      /\ stopped => stopped'
      /\ stopped' \/ life'[i] = "completed"
  BY <1>1, <1>2, SettleStep
<1>4. pc' = "step" /\ idx' = idx + 1 /\ UNCHANGED <<kind, runnable, denied, worker, done, inflight>>
  BY DEF Walk
<1>5. ~Reached(i) /\ Untouched(i)
  BY <1>1, <1>2 DEF Ahead, Reached
<1>6. \A j \in Calls : Reached(j)' <=> Reached(j) \/ j = i
  BY <1>2, <1>4 DEF Reached, Calls
<1>7. TypeOK'
  <2>1. idx' \in 1..(CallCount + 1)
    BY <1>2, <1>4
  <2> QED
    BY <1>1, <1>3, <1>4, <2>1 DEF TypeOK, Outcomes
<1>8. Pending' = Pending /\ Slots' = Slots /\ Finished' = Finished
  BY <1>4, CountsKept DEF Finished
<1>9. Walking'
  BY <1>2, <1>4 DEF Walking, Executes, PastLast
<1>10. Counted'
  <2>1. inflight \in Nat
    BY <1>1, BatchAssumption DEF TypeOK
  <2> QED
    BY <1>1, <1>2, <1>4, <1>8, <2>1 DEF Counted, Alone
<1>11. Ahead'
  BY <1>1, <1>3, <1>4, <1>6 DEF Ahead, Untouched
<1>12. Behind'
  <2>1. Executed(i)'
    BY <1>2, <1>3, <1>4, <1>5 DEF Executed, Untouched, Working
  <2>2. ASSUME NEW j \in Calls, Reached(j) PROVE Executed(j)'
    <3>1. j < idx /\ j # i /\ j # idx' /\ j < idx' /\ j \in Nat
      BY <1>1, <1>2, <1>4, <2>2 DEF Reached, Calls
    <3> QED
      BY <1>1, <1>3, <1>4, <2>2, <3>1 DEF Behind, Executed
  <2> QED
    BY <1>6, <2>1, <2>2 DEF Behind
<1>13. Booked'
  <2>1. \A n \in 1..Len(done) : done[n] \in Calls
    BY <1>1 DEF TypeOK
  <2> QED
    BY <1>1, <1>4, <1>6, <2>1 DEF Booked
<1>14. Announced'
  <2>1. ~Open(i)'
    <3>1. i \notin Pending
      BY <1>5 DEF Pending, Untouched
    <3>2. i \notin Finished
      BY <1>1, <1>5 DEF Booked, Finished
    <3> QED
      BY <1>2, <1>4, <1>8, <3>1, <3>2 DEF Open
  <2>2. ASSUME NEW j \in Calls, Reached(j)
        PROVE  j # i /\ (Open(j)' <=> Open(j))
    <3>1. j < idx /\ j \in Nat
      BY <1>1, <1>2, <2>2 DEF Reached, Calls
    <3>2. j # i /\ j # idx /\ j # idx'
      BY <1>2, <1>4, <3>1
    <3> QED
      BY <1>8, <3>2 DEF Open
  <2> QED
    BY <1>1, <1>3, <1>6, <2>1, <2>2 DEF Announced
<1> QED
  BY <1>7, <1>9, <1>10, <1>11, <1>12, <1>13, <1>14 DEF IInv

LEMMA StepKeeps == IInv /\ Step => IInv'
<1> SUFFICES ASSUME IInv, Step PROVE IInv'
  OBVIOUS
<1>1. TypeOK /\ Walking /\ Ahead /\ Behind /\ Announced /\ Booked /\ Counted
  BY DEF IInv
<1>2. CASE cancelled \/ idx \in denied
  <2>1. (IF idx \in denied THEN "denied" ELSE "cancelled") \in Outcomes \ {"none"}
    BY DEF Outcomes
  <2> QED
    BY <1>2, <2>1, SettledKeeps DEF Step
<1>3. CASE ~(cancelled \/ idx \in denied)
  <2>1. /\ pc' = IF kind[idx] = "parallel" THEN "dispatch" ELSE "barrier"
        /\ pc = "step" /\ idx <= runnable /\ idx \notin denied
        /\ UNCHANGED <<kind, idx, runnable, denied, worker, outcome, done, progress, inflight,
                       stopped, cancelled, life, reports>>
    BY <1>3 DEF Step
  <2>2. \A j \in Calls : Reached(j)' <=> Reached(j)
    BY <2>1 DEF Reached
  <2>3. Pending' = Pending /\ Slots' = Slots
    BY <2>1, CountsKept
  <2>4. TypeOK' /\ Walking' /\ Counted'
    BY <1>1, <2>1, <2>3 DEF TypeOK, Walking, Executes, PastLast, Counted, Alone
  <2>5. \A j \in Calls : Reached(j) => j # idx
    BY <1>1, <2>1 DEF Reached, Calls, TypeOK
  <2>6. Ahead' /\ Behind'
    BY <1>1, <2>1, <2>2, <2>5 DEF Ahead, Untouched, Behind, Executed
  <2>7. Booked'
    <3>1. \A n \in 1..Len(done) : done[n] \in Calls
      BY <1>1 DEF TypeOK
    <3> QED
      BY <1>1, <2>1, <2>2, <3>1 DEF Booked
  <2>8. Announced'
    <3>1. \A j \in Calls : Open(j)' <=> Open(j)
      BY <2>1, <2>3 DEF Open, Finished
    <3> QED
      BY <1>1, <2>1, <2>2, <3>1 DEF Announced
  <2> QED
    BY <2>4, <2>6, <2>7, <2>8 DEF IInv
<1> QED
  BY <1>2, <1>3

\* The walker books the first worker in the channel.
LEMMA FinishKeeps == IInv /\ Finish => IInv'
<1> SUFFICES ASSUME IInv, Finish PROVE IInv'
  OBVIOUS
<1>1. TypeOK /\ Walking /\ Ahead /\ Behind /\ Announced /\ Booked /\ Counted
  BY DEF IInv
<1>2. /\ pc \in {"dispatch", "barrier", "final"} /\ done # <<>>
      /\ done' = Tail(done) /\ inflight' = inflight - 1
      /\ UNCHANGED <<kind, pc, idx, runnable, denied, worker, progress, reports>>
  BY DEF Finish, Waiting
<1>3. PICK i \in Calls : i = Head(done)
  BY <1>1, <1>2 DEF TypeOK
<1>4. /\ done \in Seq(Calls) /\ Len(done) \in Nat \ {0}
      /\ done' \in Seq(Calls) /\ Len(done') = Len(done) - 1 /\ i = done[1]
      /\ \A n \in 1..Len(done') : n + 1 \in 1..Len(done) /\ done'[n] = done[n + 1]
  BY <1>1, <1>2, <1>3 DEF TypeOK
<1>5. /\ life' \in [Calls -> {"none", "started", "completed"}]
      /\ stopped' \in BOOLEAN /\ cancelled' \in BOOLEAN
      /\ outcome' \in [Calls -> Outcomes]
      /\ \A j \in Calls : outcome'[j] = "none" <=> outcome[j] = "none"
      /\ \A j \in Calls \ {i} : outcome'[j] = outcome[j] /\ life'[j] = life[j]
      /\ stopped => stopped'
      /\ stopped' \/ life'[i] = "completed"
  BY <1>1, <1>3, CompleteStep DEF Finish
<1>6. Reached(i) /\ kind[i] = "parallel" /\ worker[i] = "exited" /\ i # idx /\ i \notin Pending
  <2>1. Reached(i) /\ kind[i] = "parallel" /\ worker[i] = "exited"
    BY <1>1, <1>4 DEF Booked
  <2>2. i < idx /\ i \in Nat /\ idx \in Nat
    BY <1>1, <1>2, <2>1, BatchAssumption DEF Reached, TypeOK, Calls
  <2> QED
    BY <2>1, <2>2 DEF Pending
<1>7. \A j \in Calls : Reached(j)' <=> Reached(j)
  BY <1>2 DEF Reached
<1>8. Pending' = Pending /\ Slots' = Slots
  BY <1>2, CountsKept
<1>9. Len(done) = inflight - Cardinality(Pending) /\ inflight \in Nat \ {0} /\ inflight <= CallCount
  BY <1>1, <1>4, Finite, BatchAssumption DEF Counted, TypeOK
<1>10. TypeOK'
  <2>1. inflight' \in 0..CallCount /\ Len(done') <= CallCount
    BY <1>1, <1>2, <1>4, <1>9, BatchAssumption DEF TypeOK
  <2> QED
    BY <1>1, <1>2, <1>4, <1>5, <2>1 DEF TypeOK, Outcomes
<1>11. Walking'
  BY <1>1, <1>2 DEF Walking
<1>12. Counted'
  <2>1. inflight' = Len(done') + Cardinality(Pending')
    BY <1>2, <1>4, <1>8, <1>9, Finite
  <2>2. inflight' < idx'
    BY <1>1, <1>2, <1>9, BatchAssumption DEF Counted, TypeOK
  <2> QED
    BY <1>1, <1>2, <1>8, <2>1, <2>2 DEF Counted, Alone
<1>13. Ahead'
  BY <1>1, <1>2, <1>5, <1>6, <1>7 DEF Ahead, Untouched
<1>14. Behind'
  BY <1>1, <1>2, <1>5, <1>7 DEF Behind, Executed
<1>15. Booked'
  <2>1. \A n \in 1..Len(done') :
           Reached(done'[n]) /\ kind[done'[n]] = "parallel" /\ worker[done'[n]] = "exited"
    BY <1>1, <1>4 DEF Booked
  <2>2. \A m, n \in 1..Len(done') : done'[m] = done'[n] => m = n
    <3> SUFFICES ASSUME NEW m \in 1..Len(done'), NEW n \in 1..Len(done'), done'[m] = done'[n]
                 PROVE  m = n
      OBVIOUS
    <3>1. m + 1 \in 1..Len(done) /\ n + 1 \in 1..Len(done) /\ done[m + 1] = done[n + 1]
      BY <1>4
    <3>2. \A k, l \in 1..Len(done) : done[k] = done[l] => k = l
      BY <1>1 DEF Booked
    <3>3. m + 1 = n + 1
      BY <3>1, <3>2
    <3> QED
      BY <3>3
  <2> QED
    BY <1>2, <2>1, <2>2 DEF Booked, Reached
<1>16. Announced'
  <2>1. i \notin Finished'
    <3> SUFFICES ASSUME NEW n \in 1..Len(done'), done'[n] = i PROVE FALSE
      BY DEF Finished
    <3>1. n + 1 \in 1..Len(done) /\ 1 \in 1..Len(done) /\ done[n + 1] = done[1]
      BY <1>4
    <3>2. \A k, l \in 1..Len(done) : done[k] = done[l] => k = l
      BY <1>1 DEF Booked
    <3>3. n + 1 = 1
      BY <3>1, <3>2
    <3> QED
      BY <3>3
  <2>2. ASSUME NEW j \in Calls \ {i} PROVE j \in Finished' <=> j \in Finished
    <3>1. ASSUME NEW n \in 1..Len(done), done[n] = j
          PROVE  n - 1 \in 1..Len(done') /\ done'[n - 1] = j
      <4>1. n # 1
        BY <1>4, <3>1
      <4>2. n - 1 \in 1..(Len(done) - 1) /\ (n - 1) + 1 = n
        BY <1>4, <4>1
      <4> QED
        BY <1>4, <3>1, <4>2
    <3> QED
      BY <1>4, <3>1 DEF Finished
  <2>3. ~Open(i)'
    BY <1>2, <1>6, <1>8, <2>1 DEF Open
  <2>4. \A j \in Calls \ {i} : Open(j)' <=> Open(j)
    BY <1>2, <1>8, <2>2 DEF Open
  <2> QED
    BY <1>1, <1>5, <1>7, <2>3, <2>4 DEF Announced
<1> QED
  BY <1>10, <1>11, <1>12, <1>13, <1>14, <1>15, <1>16 DEF IInv

\* A call handed to a worker, with its event.
LEMMA DispatchKeeps == IInv /\ Dispatch => IInv'
<1> SUFFICES ASSUME IInv, Dispatch PROVE IInv'
  OBVIOUS
<1>1. TypeOK /\ Walking /\ Ahead /\ Behind /\ Announced /\ Booked /\ Counted
  BY DEF IInv
<1>2. PICK i \in Calls : i = idx
  BY <1>1, BatchAssumption DEF Dispatch, Walking, Executes, TypeOK, Calls
<1>3. /\ pc = "dispatch" /\ pc' = "step" /\ i <= runnable /\ i \notin denied
      /\ kind[i] = "parallel" /\ idx' = i + 1 /\ inflight' = inflight + 1
      /\ i \in Nat /\ runnable \in Nat /\ runnable <= CallCount /\ CallCount \in Nat
      /\ worker' = [worker EXCEPT ![i] = "started"]
      /\ UNCHANGED <<kind, runnable, denied, outcome, done, progress, reports>>
  BY <1>1, <1>2, BatchAssumption DEF Dispatch, Walk, Walking, Executes, TypeOK, Calls
<1>4. /\ life' \in [Calls -> {"none", "started", "completed"}]
      /\ stopped' \in BOOLEAN /\ cancelled' \in BOOLEAN
      /\ stopped => stopped'
      /\ \A j \in Calls \ {i} : life'[j] = life[j]
      /\ life'[i] = "started" \/ life'[i] = life[i]
  BY <1>1, <1>2, TellStep DEF Dispatch
<1>5. ~Reached(i) /\ Untouched(i)
  BY <1>1, <1>2, <1>3 DEF Ahead, Reached
<1>6. worker'[i] = "started" /\ (\A j \in Calls \ {i} : worker'[j] = worker[j])
  BY <1>1, <1>3 DEF TypeOK
<1>7. \A j \in Calls : Reached(j)' <=> Reached(j) \/ j = i
  BY <1>2, <1>3 DEF Reached, Calls
<1>8. Pending' = Pending \cup {i} /\ i \notin Pending /\ Slots' = Slots \cup {i} /\ i \notin Slots
  <2>1. \A j \in Calls : /\ j \in Pending' <=> j \in Pending \cup {i}
                         /\ j \in Slots' <=> j \in Slots \cup {i}
    BY <1>3, <1>6 DEF Pending, Slots
  <2> QED
    BY <1>5, <2>1 DEF Pending, Slots, Untouched
<1>9. /\ Cardinality(Pending') = Cardinality(Pending) + 1
      /\ Cardinality(Slots') = Cardinality(Slots) + 1
  BY <1>8, Finite, FS_AddElement
<1>10. inflight < i /\ inflight \in Nat
  BY <1>1, <1>2, BatchAssumption DEF Counted, TypeOK
<1>11. TypeOK'
  <2>1. idx' \in 1..(CallCount + 1) /\ inflight' \in 0..CallCount
    BY <1>3, <1>10
  <2>2. worker' \in [Calls -> {"idle", "started", "executing", "returned", "released", "exited"}]
    BY <1>1, <1>3 DEF TypeOK
  <2> QED
    BY <1>1, <1>3, <1>4, <2>1, <2>2 DEF TypeOK
<1>12. Walking'
  BY <1>3 DEF Walking, Executes, PastLast
<1>13. Counted'
  <2>1. inflight' = Len(done') + Cardinality(Pending')
    BY <1>1, <1>3, <1>9, Finite DEF Counted, TypeOK
  <2>2. Cardinality(Slots') <= ParallelTools
    BY <1>9, Finite, BatchAssumption DEF Dispatch
  <2>3. inflight' < idx'
    BY <1>3, <1>10
  <2> QED
    BY <1>3, <2>1, <2>2, <2>3 DEF Counted, Alone
<1>14. Ahead'
  BY <1>1, <1>3, <1>4, <1>6, <1>7 DEF Ahead, Untouched
<1>15. Behind'
  <2>1. Executed(i)'
    BY <1>3, <1>5, <1>6 DEF Executed, Untouched, Working
  <2>2. ASSUME NEW j \in Calls, Reached(j) PROVE Executed(j)'
    <3>1. j < idx /\ j # i /\ j # idx' /\ j < idx' /\ j \in Nat
      BY <1>2, <1>3, <2>2 DEF Reached, Calls
    <3> QED
      BY <1>1, <1>3, <1>6, <2>2, <3>1 DEF Behind, Executed
  <2> QED
    BY <1>7, <2>1, <2>2 DEF Behind
<1>16. Booked'
  <2>1. \A n \in 1..Len(done) : done[n] \in Calls \ {i}
    BY <1>1, <1>5 DEF TypeOK, Booked
  <2> QED
    BY <1>1, <1>3, <1>6, <1>7, <2>1 DEF Booked
<1>17. Announced'
  <2>1. life'[i] # "completed"
    BY <1>4, <1>5 DEF Untouched
  <2>2. Open(i)'
    BY <1>8 DEF Open
  <2>3. ASSUME NEW j \in Calls, Reached(j)
        PROVE  j # i /\ (Open(j)' <=> Open(j))
    <3>1. j # i /\ j # idx /\ j # idx'
      BY <1>2, <1>3, <2>3 DEF Reached, Calls
    <3>2. Finished' = Finished
      BY <1>3 DEF Finished
    <3> QED
      BY <1>8, <3>1, <3>2 DEF Open
  <2> QED
    BY <1>1, <1>4, <1>7, <2>1, <2>2, <2>3 DEF Announced
<1> QED
  BY <1>11, <1>12, <1>13, <1>14, <1>15, <1>16, <1>17 DEF IInv

\* A serial tool that starts at its barrier.
LEMMA BarrierKeeps == IInv /\ Barrier => IInv'
<1> SUFFICES ASSUME IInv, Barrier PROVE IInv'
  OBVIOUS
<1>1. TypeOK /\ Walking /\ Ahead /\ Behind /\ Announced /\ Booked /\ Counted
  BY DEF IInv
<1>2. CASE cancelled
  <2>1. "cancelled" \in Outcomes \ {"none"} /\ pc = "barrier" /\ idx <= runnable
    BY <1>1 DEF Outcomes, Barrier, Walking, Executes
  <2> QED
    BY <1>2, <2>1, SettledKeeps DEF Barrier
<1>3. CASE ~cancelled
  <2>1. PICK i \in Calls : i = idx
    BY <1>1, BatchAssumption DEF Barrier, Walking, Executes, TypeOK, Calls
  <2>2. /\ pc = "barrier" /\ pc' = "serial" /\ i <= runnable /\ i \notin denied
        /\ kind[i] # "parallel" /\ inflight = 0 /\ i \in Nat
        /\ worker' = [worker EXCEPT ![i] = "started"]
        /\ UNCHANGED <<kind, idx, runnable, denied, outcome, done, progress, inflight, reports>>
    BY <1>1, <1>3, <2>1, BatchAssumption DEF Barrier, Walking, Executes, Calls
  <2>3. /\ life' \in [Calls -> {"none", "started", "completed"}]
        /\ stopped' \in BOOLEAN /\ cancelled' \in BOOLEAN
        /\ stopped => stopped'
        /\ \A j \in Calls \ {i} : life'[j] = life[j]
        /\ life'[i] = "started" \/ life'[i] = life[i]
    BY <1>1, <1>3, <2>1, TellStep DEF Barrier
  <2>4. ~Reached(i) /\ Untouched(i)
    BY <1>1, <2>1, <2>2 DEF Ahead, Reached, Calls
  <2>5. worker'[i] = "started" /\ (\A j \in Calls \ {i} : worker'[j] = worker[j])
    BY <1>1, <2>2 DEF TypeOK
  <2>6. \A j \in Calls : Reached(j)' <=> Reached(j) \/ j = i
    BY <2>1, <2>2 DEF Reached, Calls
  <2>7. Pending' = Pending /\ Slots' = Slots
    <3>1. \A j \in Calls : (j \in Pending' <=> j \in Pending) /\ (j \in Slots' <=> j \in Slots)
      BY <2>2, <2>5 DEF Pending, Slots
    <3> QED
      BY <3>1 DEF Pending, Slots
  <2>8. TypeOK'
    <3>1. worker' \in [Calls -> {"idle", "started", "executing", "returned", "released", "exited"}]
      BY <1>1, <2>2 DEF TypeOK
    <3> QED
      BY <1>1, <2>2, <2>3, <3>1 DEF TypeOK
  <2>9. Walking' /\ Counted'
    BY <1>1, <2>1, <2>2, <2>7 DEF Walking, Executes, PastLast, Counted
  <2>10. Ahead'
    BY <1>1, <2>2, <2>3, <2>5, <2>6 DEF Ahead, Untouched
  <2>11. Behind'
    <3>1. Executed(i)'
      BY <2>1, <2>2, <2>4, <2>5 DEF Executed, Untouched, Working
    <3>2. ASSUME NEW j \in Calls, Reached(j) PROVE Executed(j)'
      <4>1. j # i
        BY <2>4, <3>2
      <4> QED
        BY <1>1, <2>1, <2>2, <2>5, <3>2, <4>1 DEF Behind, Executed
    <3> QED
      BY <2>6, <3>1, <3>2 DEF Behind
  <2>12. Booked'
    <3>1. \A n \in 1..Len(done) : done[n] \in Calls \ {i}
      BY <1>1, <2>4 DEF TypeOK, Booked
    <3> QED
      BY <1>1, <2>2, <2>5, <2>6, <3>1 DEF Booked
  <2>13. Announced'
    <3>1. life'[i] # "completed" /\ Open(i)'
      BY <2>1, <2>2, <2>3, <2>4 DEF Untouched, Open
    <3>2. \A j \in Calls : Reached(j) => j # i /\ (Open(j)' <=> Open(j))
      BY <2>2, <2>4, <2>7 DEF Open, Finished
    <3> QED
      BY <1>1, <2>3, <2>6, <3>1, <3>2 DEF Announced
  <2> QED
    BY <2>8, <2>9, <2>10, <2>11, <2>12, <2>13 DEF IInv
<1> QED
  BY <1>2, <1>3

LEMMA SerialKeeps == IInv /\ Serial => IInv'
<1> SUFFICES ASSUME IInv, Serial PROVE IInv'
  OBVIOUS
<1>1. TypeOK /\ Walking /\ Ahead /\ Behind /\ Announced /\ Booked /\ Counted
  BY DEF IInv
<1>2. /\ pc = "serial" /\ pc' = "drain" /\ worker[idx] = "returned"
      /\ UNCHANGED <<kind, idx, runnable, denied, worker, outcome, done, progress, inflight,
                     stopped, cancelled, life, reports>>
  BY DEF Serial
<1>3. \A j \in Calls : Reached(j)' <=> Reached(j)
  BY <1>2 DEF Reached
<1>4. Pending' = Pending /\ Slots' = Slots /\ Finished' = Finished
  BY <1>2, CountsKept DEF Finished
<1>5. TypeOK' /\ Walking' /\ Counted'
  BY <1>1, <1>2, <1>4 DEF TypeOK, Walking, Executes, PastLast, Counted, Alone
<1>6. Ahead' /\ Behind'
  BY <1>1, <1>2, <1>3 DEF Ahead, Untouched, Behind, Executed
<1>7. Booked'
  <2>1. \A n \in 1..Len(done) : done[n] \in Calls
    BY <1>1 DEF TypeOK
  <2> QED
    BY <1>1, <1>2, <1>3, <2>1 DEF Booked
<1>8. Announced'
  BY <1>1, <1>2, <1>3, <1>4 DEF Announced, Open
<1> QED
  BY <1>5, <1>6, <1>7, <1>8 DEF IInv

\* The walker announces the serial call it has executed.
LEMMA DrainedKeeps == IInv /\ Drained => IInv'
<1> SUFFICES ASSUME IInv, Drained PROVE IInv'
  OBVIOUS
<1>1. TypeOK /\ Walking /\ Ahead /\ Behind /\ Announced /\ Booked /\ Counted
  BY DEF IInv
<1>2. PICK i \in Calls : i = idx
  BY <1>1, BatchAssumption DEF Drained, Walking, Executes, TypeOK, Calls
<1>3. /\ pc = "drain" /\ pc' = "step" /\ i <= runnable /\ i \notin denied
      /\ kind[i] # "parallel" /\ inflight = 0 /\ idx' = i + 1
      /\ i \in Nat /\ runnable \in Nat /\ runnable <= CallCount /\ CallCount \in Nat
      /\ worker' = [worker EXCEPT ![i] = "exited"]
      /\ UNCHANGED <<kind, runnable, denied, done, progress, inflight, reports>>
  BY <1>1, <1>2, BatchAssumption DEF Drained, Walk, Walking, Executes, Counted, Alone, TypeOK, Calls
<1>4. /\ life' \in [Calls -> {"none", "started", "completed"}]
      /\ stopped' \in BOOLEAN /\ cancelled' \in BOOLEAN
      /\ outcome' \in [Calls -> Outcomes]
      /\ \A j \in Calls : outcome'[j] = "none" <=> outcome[j] = "none"
      /\ \A j \in Calls \ {i} : outcome'[j] = outcome[j] /\ life'[j] = life[j]
      /\ stopped => stopped'
      /\ stopped' \/ life'[i] = "completed"
  BY <1>1, <1>2, CompleteStep DEF Drained
<1>5. Reached(i) /\ Executed(i) /\ worker[i] = "returned"
  BY <1>1, <1>2, <1>3 DEF Behind, Reached, Executed
<1>6. worker'[i] = "exited" /\ (\A j \in Calls \ {i} : worker'[j] = worker[j])
  BY <1>1, <1>3 DEF TypeOK
<1>7. \A j \in Calls : Reached(j)' <=> Reached(j)
  BY <1>2, <1>3 DEF Reached, Calls
<1>8. Pending' = Pending /\ Slots' = Slots /\ Pending = {} /\ Finished = {} /\ Finished' = {}
  <2>1. \A j \in Calls : (j \in Pending' <=> j \in Pending) /\ (j \in Slots' <=> j \in Slots)
    BY <1>3, <1>6 DEF Pending, Slots
  <2> QED
    BY <1>1, <1>3, <2>1, NoneInFlight DEF Pending, Slots, Finished
<1>9. TypeOK'
  <2>1. idx' \in 1..(CallCount + 1)
    BY <1>3
  <2>2. worker' \in [Calls -> {"idle", "started", "executing", "returned", "released", "exited"}]
    BY <1>1, <1>3 DEF TypeOK
  <2> QED
    BY <1>1, <1>3, <1>4, <2>1, <2>2 DEF TypeOK, Outcomes
<1>10. Walking' /\ Counted'
  BY <1>1, <1>3, <1>8 DEF Walking, Executes, PastLast, Counted, Alone
<1>11. Ahead'
  BY <1>1, <1>4, <1>5, <1>6, <1>7 DEF Ahead, Untouched
<1>12. Behind'
  <2>1. Executed(i)'
    BY <1>3, <1>4, <1>5, <1>6 DEF Executed, Working
  <2>2. ASSUME NEW j \in Calls \ {i}, Reached(j) PROVE Executed(j)'
    <3>1. j < i /\ j # idx' /\ j \in Nat
      BY <1>2, <1>3, <2>2 DEF Reached, Calls
    <3> QED
      BY <1>1, <1>2, <1>3, <1>4, <1>6, <2>2, <3>1 DEF Behind, Executed
  <2> QED
    BY <1>7, <2>1, <2>2 DEF Behind
<1>13. Booked'
  BY <1>1, <1>3, NoneInFlight DEF Booked
<1>14. Announced'
  <2>1. \A j \in Calls : Reached(j) => j # idx'
    BY <1>2, <1>3 DEF Reached, Calls
  <2>2. \A j \in Calls : Reached(j) => ~Open(j)' /\ (j # i => ~Open(j))
    BY <1>2, <1>8, <2>1 DEF Open
  <2> QED
    BY <1>1, <1>4, <1>7, <2>2 DEF Announced
<1> QED
  BY <1>9, <1>10, <1>11, <1>12, <1>13, <1>14 DEF IInv

LEMMA EndKeeps == IInv /\ End => IInv'
<1> SUFFICES ASSUME IInv, End PROVE IInv'
  OBVIOUS
<1>1. TypeOK /\ Walking /\ Ahead /\ Behind /\ Announced /\ Booked /\ Counted
  BY DEF IInv
<1>2. UNCHANGED <<kind, idx, runnable, denied, worker, outcome, done, progress, inflight,
                  stopped, cancelled, life, reports>>
  BY DEF End
<1>3. \/ pc = "step" /\ idx > runnable /\ pc' = "final"
      \/ pc = "final" /\ inflight = 0 /\ pc' = "flush"
      \/ pc = "flush" /\ progress = <<>> /\ pc' = "done"
  BY DEF End
<1>4. idx \in Nat /\ runnable \in Nat
  BY <1>1, BatchAssumption DEF TypeOK
<1>5. \A j \in Calls : Reached(j)' <=> Reached(j)
  BY <1>2, <1>3 DEF Reached
<1>6. Pending' = Pending /\ Slots' = Slots /\ Finished' = Finished
  BY <1>2, CountsKept DEF Finished
<1>7. TypeOK' /\ Counted'
  BY <1>1, <1>2, <1>3, <1>6 DEF TypeOK, Counted, Alone
<1>8. Walking'
  BY <1>1, <1>2, <1>3, <1>4 DEF Walking, Executes, PastLast
<1>9. Ahead' /\ Behind'
  BY <1>1, <1>2, <1>3, <1>5 DEF Ahead, Untouched, Behind, Executed
<1>10. Booked'
  <2>1. \A n \in 1..Len(done) : done[n] \in Calls
    BY <1>1 DEF TypeOK
  <2> QED
    BY <1>1, <1>2, <1>5, <2>1 DEF Booked
<1>11. Announced'
  BY <1>1, <1>2, <1>5, <1>6 DEF Announced, Open
<1> QED
  BY <1>7, <1>8, <1>9, <1>10, <1>11 DEF IInv

LEMMA ForwardKeeps == IInv /\ Forward => IInv'
<1> SUFFICES ASSUME IInv, Forward PROVE IInv'
  OBVIOUS
<1>1. /\ life' = life /\ stopped' \in BOOLEAN /\ cancelled' \in BOOLEAN
      /\ stopped => stopped'
  BY DEF IInv, TypeOK, Forward, Emit
<1>2. progress' \in Seq(Calls) /\ Len(progress') <= ProgressBuffer
  BY BatchAssumption DEF IInv, TypeOK, Forward
<1>3. TypeOK'
  BY <1>1, <1>2 DEF IInv, TypeOK, Forward
<1> QED
  BY <1>1, <1>3, AsideKeeps DEF Forward

LEMMA ReportKeeps == IInv => \A i \in Calls : Report(i) => IInv'
<1> SUFFICES ASSUME IInv, NEW i \in Calls, Report(i) PROVE IInv'
  OBVIOUS
<1>1. progress' \in Seq(Calls) /\ Len(progress') <= ProgressBuffer
  BY BatchAssumption DEF IInv, TypeOK, Report
<1>2. reports' \in 0..MaxReports
  BY BatchAssumption DEF IInv, TypeOK, Report
<1>3. TypeOK'
  BY <1>1, <1>2 DEF IInv, TypeOK, Report
<1> QED
  BY <1>3, AsideKeeps DEF Report

LEMMA StepHolds == IInv /\ [Next]_vars => IInv'
<1> SUFFICES ASSUME IInv, [Next]_vars PROVE IInv'
  OBVIOUS
<1>1. CASE Walker
  BY <1>1, GateKeeps, StepKeeps, ForwardKeeps, FinishKeeps, DispatchKeeps, BarrierKeeps,
     SerialKeeps, DrainedKeeps, EndKeeps DEF Walker
<1>2. CASE Cancel
  <2>1. TypeOK'
    BY <1>2 DEF IInv, TypeOK, Cancel
  <2> QED
    BY <1>2, <2>1, AsideKeeps DEF Cancel
<1>3. CASE \E i \in Calls : RunTool(i) \/ Report(i) \/ ExecReturns(i) \/ Worker(i)
  BY <1>3, RunToolKeeps, ReportKeeps, ExecReturnsKeeps, WorkerKeeps
<1>4. CASE UNCHANGED vars
  <2>1. TypeOK'
    BY <1>4 DEF IInv, TypeOK, vars
  <2> QED
    BY <1>4, <2>1, AsideKeeps DEF vars
<1> QED
  BY <1>1, <1>2, <1>3, <1>4 DEF Next

LEMMA Invariance == Spec => []IInv
  BY InitHolds, StepHolds, PTL DEF Spec

-----------------------------------------------------------------------------
(* The theorems.                                                           *)

\* The walker, the gate, the workers and the channels keep their types, and
\* neither channel of agent/exec.go ever holds more than its capacity: a worker
\* that reports its end never blocks, which is why done is as long as the batch.
THEOREM TypeCorrect == Spec => []TypeOK
<1>1. IInv => TypeOK
  BY DEF IInv
<1> QED
  BY <1>1, Invariance, PTL

\* A call that is reached and no longer open has its result.
LEMMA ClosedHasResult ==
    ASSUME IInv, NEW i \in Calls, Reached(i), ~Open(i)
    PROVE  outcome[i] # "none" /\ worker[i] \notin Working
<1>1. TypeOK /\ Executed(i)
  BY DEF IInv, Behind
<1>2. i < idx
  BY DEF Reached, Open
<1>3. worker[i] \notin Working
  <2>1. CASE kind[i] = "parallel"
    BY <2>1 DEF Open, Pending, Working
  <2>2. CASE kind[i] # "parallel"
    BY <1>1, <1>2, <2>2 DEF Executed, Working
  <2> QED
    BY <2>1, <2>2
<1> QED
  BY <1>1, <1>3 DEF Executed

\* When runTools returns, exactly the calls that the gate let through have a
\* result, and a consumer that stayed has had their events, whatever was
\* cancelled, however many calls and slots there are.
THEOREM AllAnswered == Spec => []EveryCallAnswered
<1>1. IInv => EveryCallAnswered
  <2> SUFFICES ASSUME IInv, pc = "done", NEW i \in Calls
               PROVE  /\ outcome[i] # "none" <=> i <= runnable
                      /\ ~stopped => (life[i] = "completed" <=> i <= runnable)
                      /\ i > runnable => life[i] = "none"
    BY DEF EveryCallAnswered
  <2>1. TypeOK /\ Walking /\ Ahead /\ Behind /\ Announced /\ Counted
    BY DEF IInv
  <2>2. idx = runnable + 1 /\ inflight = 0 /\ runnable \in Nat /\ i \in Nat
    BY <2>1, BatchAssumption DEF Walking, Executes, PastLast, Counted, Alone, TypeOK, Calls
  <2>3. CASE i <= runnable
    <3>1. Reached(i) /\ i # idx
      BY <2>2, <2>3 DEF Reached
    <3>2. ~Open(i)
      BY <2>1, <2>2, <3>1, NoneInFlight DEF Open
    <3>3. outcome[i] # "none"
      BY <3>1, <3>2, ClosedHasResult
    <3>4. ~stopped => life[i] = "completed"
      BY <2>1, <3>1, <3>2 DEF Announced
    <3> QED
      BY <2>2, <2>3, <3>3, <3>4
  <2>4. CASE ~(i <= runnable)
    <3>1. ~Reached(i)
      BY <2>2, <2>4 DEF Reached
    <3> QED
      BY <2>1, <2>4, <3>1 DEF Ahead, Untouched
  <2> QED
    BY <2>3, <2>4
<1> QED
  BY <1>1, Invariance, PTL

\* No step of the walker, of a worker or of the after-tool hook changes the
\* result of a call whose ToolCompleted has been emitted.
THEOREM AnnouncedStays == Spec => AnnouncedResultIsFinal
<1>1. IInv /\ [Next]_vars =>
         [\A i \in Calls : life[i] = "completed" =>
             outcome[i] # "none" /\ outcome'[i] = outcome[i]]_vars
  <2> SUFFICES ASSUME IInv, Next, NEW i \in Calls, life[i] = "completed"
               PROVE  outcome[i] # "none" /\ outcome'[i] = outcome[i]
    BY DEF vars
  <2>1. TypeOK /\ Walking /\ Ahead /\ Announced /\ Booked
    BY DEF IInv
  <2>2. Reached(i) /\ ~Open(i)
    BY <2>1 DEF Ahead, Untouched, Announced
  <2>3. outcome[i] # "none" /\ worker[i] \notin Working
    BY <2>2, ClosedHasResult
  <2> SUFFICES outcome'[i] = outcome[i]
    BY <2>3
  <2>4. i # idx
    BY <2>2 DEF Open
  <2>5. CASE Step
    BY <2>1, <2>4, <2>5 DEF Step, Settle, TypeOK
  <2>6. CASE Barrier
    BY <2>1, <2>4, <2>6 DEF Barrier, Settle, TypeOK
  <2>7. ASSUME NEW j \in Calls, Complete(j), i # j PROVE outcome'[i] = outcome[i]
    BY <2>1, <2>7 DEF Complete, TypeOK
  <2>8. CASE Finish
    <3>1. PICK j \in Calls : j = Head(done) /\ j \in Finished
      BY <2>1, <2>8 DEF Finish, TypeOK, Finished
    <3> QED
      BY <2>2, <2>7, <2>8, <3>1 DEF Finish, Open
  <2>9. CASE Drained
    <3>1. PICK j \in Calls : j = idx
      BY <2>1, <2>9, BatchAssumption DEF Drained, Walking, Executes, TypeOK, Calls
    <3> QED
      BY <2>4, <2>7, <2>9, <3>1 DEF Drained
  <2>10. ASSUME NEW j \in Calls, RunTool(j) \/ ExecReturns(j)
         PROVE  outcome'[i] = outcome[i]
    <3>1. worker[j] \in Working
      BY <2>10 DEF RunTool, ExecReturns, Working
    <3> QED
      BY <2>1, <2>3, <2>10, <3>1 DEF RunTool, ExecReturns, Return, TypeOK
  <2>11. CASE Gate \/ Forward \/ Dispatch
    BY <2>11 DEF Gate, Forward, Dispatch
  <2>12. CASE Serial \/ End \/ Cancel \/ UNCHANGED vars
    BY <2>12 DEF Serial, End, Cancel, vars
  <2>13. ASSUME NEW j \in Calls, Report(j) \/ Worker(j) PROVE outcome'[i] = outcome[i]
    BY <2>13 DEF Report, Worker
  <2> QED
    BY <2>5, <2>6, <2>8, <2>9, <2>10, <2>11, <2>12, <2>13 DEF Next, Walker
<1> QED
  BY <1>1, Invariance, PTL DEF Spec, AnnouncedResultIsFinal

-----------------------------------------------------------------------------
(* Nobody waits for nobody.                                                 *)

\* When the walker can take a step, and when the tool of a call can: these are
\* the guards of their actions.
WalkerReady ==
    \/ pc \in {"gate", "step", "drain", "flush"}
    \/ pc = "dispatch" /\ Cardinality(Slots) < ParallelTools
    \/ pc \in {"barrier", "final"} /\ inflight = 0
    \/ pc = "serial" /\ worker[idx] = "returned"
    \/ Waiting /\ (done # <<>> \/ progress # <<>>)

ToolReady(i) ==
    \/ worker[i] \in {"started", "executing"}
    \/ kind[i] = "parallel" /\ worker[i] \in {"returned", "released"}

\* A batch that has not returned has a walker that can go on or a tool that
\* has still to return, release its slot or report its end; and when its
\* consumer has stopped, the context those tools wait on has ended.
NeverStuck ==
    /\ pc # "done" => WalkerReady \/ \E i \in Calls : ToolReady(i)
    /\ stopped => cancelled

LEMMA StopStep == (stopped => cancelled) /\ [Next]_vars => (stopped => cancelled)'
<1>1. ASSUME NEW seen, Emit(seen), stopped => cancelled, stopped' PROVE cancelled'
  <2>1. CASE stopped
    BY <1>1, <2>1 DEF Emit
  <2>2. CASE ~stopped
    <3>1. cancelled' = (cancelled \/ stopped')
      BY <1>1, <2>2 DEF Emit
    <3> QED
      BY <1>1, <3>1
  <2> QED
    BY <2>1, <2>2
<1>2. CASE Walker
  BY <1>1, <1>2 DEF Walker, Gate, Step, Settle, Forward, Finish, Complete, Dispatch, Barrier,
                    Serial, Drained, End
<1>3. CASE \E i \in Calls : RunTool(i) \/ Report(i) \/ ExecReturns(i) \/ Worker(i)
  BY <1>3 DEF RunTool, Report, ExecReturns, Worker
<1>4. CASE Cancel \/ UNCHANGED vars
  BY <1>4 DEF Cancel, vars
<1> QED
  BY <1>2, <1>3, <1>4 DEF Next

\* However many calls, slots and reports there are, the semaphore, the barrier
\* and the two channels never leave the walker and the workers waiting on one
\* another: what BatchEnds needs of the state, without its fairness.
THEOREM BatchNeverStuck == Spec => []NeverStuck
<1>1. IInv /\ pc # "done" => WalkerReady \/ \E i \in Calls : ToolReady(i)
  <2> SUFFICES ASSUME IInv, pc # "done", ~WalkerReady
               PROVE  \E i \in Calls : ToolReady(i)
    OBVIOUS
  <2>1. TypeOK /\ Walking /\ Behind /\ Counted
    BY DEF IInv
  <2>2. pc \in {"dispatch", "serial"} \/ (pc \in {"barrier", "final"} /\ inflight # 0)
    BY <2>1 DEF WalkerReady, TypeOK
  <2>3. CASE pc = "dispatch"
    <3>1. ~(Cardinality(Slots) < ParallelTools)
      BY <2>3 DEF WalkerReady
    <3>2. Slots # {}
      BY <3>1, Finite, FS_EmptySet, BatchAssumption
    <3> QED
      BY <3>2 DEF Slots, ToolReady
  <2>4. CASE pc = "serial"
    <3>1. idx \in Calls /\ Reached(idx) /\ worker[idx] # "returned"
      BY <2>1, <2>4, BatchAssumption DEF Walking, Executes, TypeOK, Calls, Reached, WalkerReady
    <3>2. worker[idx] \in Working
      BY <2>1, <2>4, <3>1 DEF Behind, Executed
    <3> QED
      BY <3>1, <3>2 DEF Working, ToolReady
  <2>5. CASE pc \in {"barrier", "final"} /\ inflight # 0
    <3>1. done = <<>>
      BY <2>1, <2>5 DEF WalkerReady, Waiting, TypeOK
    <3>2. Pending # {}
      BY <2>1, <2>5, <3>1, Finite, FS_EmptySet DEF Counted
    <3> QED
      BY <3>2 DEF Pending, ToolReady
  <2> QED
    BY <2>2, <2>3, <2>4, <2>5
<1>2. Init => (stopped => cancelled)
  BY DEF Init
<1> QED
  BY <1>1, <1>2, StopStep, Invariance, PTL DEF Spec, NeverStuck

-----------------------------------------------------------------------------
(* The refinement of ToolTurn.                                             *)

Parallel == {i \in Calls : kind[i] = "parallel"}
Executing == {i \in Calls : worker[i] = "executing"}
Answered == {i \in Calls : outcome[i] # "none"}

\* ToolTurn's own instance of FiniteSets counts alike.
LEMMA TurnCardinality == \A S : Turn!Cardinality(S) = Cardinality(S)
  BY DEF Turn!Cardinality, Cardinality

\* What ToolTurn does not see.
LEMMA TurnKept ==
    ASSUME UNCHANGED <<kind, runnable, denied>>, Executing' = Executing, Answered' = Answered,
           pc # "done", pc' # "done"
    PROVE  UNCHANGED Turn!vars
  BY DEF Turn!vars, Executing, Answered

\* A call that gets its result.
LEMMA TurnAnswers ==
    ASSUME NEW i \in Calls, i \in 1..runnable, outcome[i] = "none", outcome'[i] # "none",
           \A j \in Calls \ {i} : outcome'[j] = "none" <=> outcome[j] = "none",
           Executing' = Executing \ {i}, UNCHANGED <<kind, runnable, denied>>,
           pc # "done", pc' # "done"
    PROVE  Turn!Next
<1>1. Answered' = Answered \cup {i} /\ i \notin Answered
  BY DEF Answered
<1>2. Turn!Answer(i)
  BY <1>1 DEF Turn!Answer, Executing, Answered
<1> QED
  BY <1>2 DEF Turn!Next, Turn!Calls, Calls

LEMMA TurnInit == Init => Turn!Init
<1> SUFFICES ASSUME Init PROVE Turn!Init
  OBVIOUS
<1>1. 1..runnable = {} /\ Executing = {} /\ Answered = {} /\ pc # "done"
  BY DEF Init, Executing, Answered
<1>2. {i \in Calls : kind[i] = "parallel"} \in SUBSET Turn!Calls
  BY DEF Calls, Turn!Calls
<1> QED
  BY <1>1, <1>2 DEF Turn!Init, Executing, Answered

\* The last verdict decides the batch.
LEMMA TurnGate == IInv /\ Gate => [Turn!Next]_(Turn!vars)
<1> SUFFICES ASSUME IInv, Gate PROVE [Turn!Next]_(Turn!vars)
  OBVIOUS
<1>1. pc = "gate" /\ runnable = 0 /\ idx \in 1..CallCount /\ CallCount \in Nat \ {0}
  BY BatchAssumption DEF IInv, TypeOK, Walking, Gate
<1>2. /\ UNCHANGED <<kind, worker, outcome>>
      /\ Executing = {} /\ Executing' = {} /\ Answered = {} /\ Answered' = {}
  BY <1>1 DEF Gate, IInv, Ahead, Reached, Untouched, Executing, Answered
<1>3. pc' # "done" /\ (runnable' = 0 \/ runnable' \in 1..CallCount)
  BY <1>1 DEF Gate, Gated, Walk
<1>4. 1..runnable = {}
  BY <1>1
<1>5. CASE runnable' = 0
  <2>1. 1..runnable' = {}
    BY <1>5
  <2> QED
    BY <1>1, <1>2, <1>3, <1>4, <2>1 DEF Turn!vars, Executing, Answered
<1>6. CASE runnable' \in 1..CallCount
  <2>1. Turn!Decide
    BY <1>1, <1>2, <1>3, <1>4, <1>6 DEF Turn!Decide, Executing, Answered
  <2> QED
    BY <2>1 DEF Turn!Next
<1> QED
  BY <1>3, <1>5, <1>6

\* The walker answers a call that is denied or cancelled.
LEMMA TurnSettled ==
    ASSUME IInv, pc \in {"step", "barrier"}, idx <= runnable,
           outcome'[idx] # "none", \A j \in Calls \ {idx} : outcome'[j] = outcome[j],
           pc' # "done", UNCHANGED <<kind, runnable, denied, worker>>
    PROVE  Turn!Next
<1>1. PICK i \in Calls : i = idx
  BY BatchAssumption DEF IInv, TypeOK, Calls
<1>2. i \in 1..runnable
  BY <1>1, BatchAssumption DEF IInv, TypeOK, Calls
<1>3. Untouched(i)
  BY <1>1 DEF IInv, Ahead, Reached, Calls
<1>4. Executing' = Executing \ {i}
  BY <1>3 DEF Executing, Untouched
<1> QED
  BY <1>1, <1>2, <1>3, <1>4, TurnAnswers DEF Untouched

\* The walker's other steps: workers that start or end do not execute.
LEMMA TurnWalks ==
    ASSUME IInv, pc # "gate", Step \/ Forward \/ Finish \/ Dispatch \/ Barrier \/ Serial \/ Drained
    PROVE  [Turn!Next]_(Turn!vars)
<1>1. TypeOK /\ Walking /\ Ahead /\ Behind
  BY DEF IInv
<1>2. ASSUME pc \in {"step", "barrier"}, idx <= runnable, NEW STATE o, o # "none",
             Settle(idx, o), pc' # "done", UNCHANGED <<kind, runnable, denied, worker>>
      PROVE  Turn!Next
  <2>1. idx \in Calls
    BY <1>1, <1>2, BatchAssumption DEF TypeOK, Calls
  <2>2. outcome'[idx] # "none" /\ \A j \in Calls \ {idx} : outcome'[j] = outcome[j]
    BY <1>1, <1>2, <2>1 DEF Settle, TypeOK
  <2> QED
    BY <1>2, <2>2, TurnSettled
<1>3. ASSUME NEW i \in Calls, Complete(i) PROVE Answered' = Answered
  BY <1>1, <1>3 DEF Complete, TypeOK, Answered
<1>4. CASE Step
  <2>1. CASE cancelled \/ idx \in denied
    BY <1>1, <1>2, <1>4, <2>1 DEF Step, Walk
  <2>2. CASE ~(cancelled \/ idx \in denied)
    BY <1>4, <2>2, TurnKept DEF Step, Executing, Answered
  <2> QED
    BY <2>1, <2>2
<1>5. CASE Barrier
  <2>1. idx <= runnable
    BY <1>1, <1>5 DEF Barrier, Walking, Executes
  <2>2. CASE cancelled
    BY <1>1, <1>2, <1>5, <2>1, <2>2 DEF Barrier, Walk
  <2>3. CASE ~cancelled
    <3>1. PICK i \in Calls : i = idx
      BY <1>1, <2>1, BatchAssumption DEF TypeOK, Calls
    <3>2. Untouched(i)
      BY <1>1, <1>5, <3>1 DEF Ahead, Reached, Barrier, Calls
    <3>3. Executing' = Executing
      BY <1>1, <1>5, <2>3, <3>1, <3>2 DEF Barrier, Executing, TypeOK, Untouched
    <3> QED
      BY <1>5, <2>3, <3>3, TurnKept DEF Barrier, Answered
  <2> QED
    BY <2>2, <2>3
<1>6. CASE Dispatch
  <2>1. PICK i \in Calls : i = idx
    BY <1>1, <1>6, BatchAssumption DEF Dispatch, Walking, Executes, TypeOK, Calls
  <2>2. Untouched(i)
    BY <1>1, <1>6, <2>1 DEF Ahead, Reached, Dispatch, Calls
  <2>3. Executing' = Executing
    BY <1>1, <1>6, <2>1, <2>2 DEF Dispatch, Executing, TypeOK, Untouched
  <2> QED
    BY <1>6, <2>3, TurnKept DEF Dispatch, Walk, Answered
<1>7. CASE Finish
  <2>1. PICK i \in Calls : i = Head(done)
    BY <1>1, <1>7 DEF Finish, TypeOK
  <2>2. Answered' = Answered
    BY <1>3, <1>7, <2>1 DEF Finish
  <2> QED
    BY <1>7, <2>2, TurnKept DEF Finish, Waiting, Executing
<1>8. CASE Drained
  <2>1. PICK i \in Calls : i = idx
    BY <1>1, <1>8, BatchAssumption DEF Drained, Walking, Executes, TypeOK, Calls
  <2>2. Answered' = Answered
    BY <1>3, <1>8, <2>1 DEF Drained
  <2>3. worker[i] = "returned"
    BY <1>1, <1>8, <2>1 DEF Behind, Reached, Executed, Drained
  <2>4. Executing' = Executing
    BY <1>1, <1>8, <2>1, <2>3 DEF Drained, Executing, TypeOK
  <2> QED
    BY <1>8, <2>2, <2>4, TurnKept DEF Drained, Walk
<1>9. CASE Forward
  BY <1>9, TurnKept DEF Forward, Waiting, Executing, Answered
<1>10. CASE Serial
  BY <1>10, TurnKept DEF Serial, Executing, Answered
<1> QED
  BY <1>4, <1>5, <1>6, <1>7, <1>8, <1>9, <1>10

\* A call whose tool is about to execute: what is before it, and beside it.
LEMMA TurnExecutes ==
    ASSUME IInv, NEW i \in Calls, RunTool(i), worker' = [worker EXCEPT ![i] = "executing"],
           UNCHANGED outcome
    PROVE  Turn!Execute(i)
<1>1. TypeOK /\ Walking /\ Ahead /\ Behind /\ Counted
  BY DEF IInv
<1>2. /\ worker[i] = "started" /\ UNCHANGED <<kind, runnable, denied, pc>>
  BY DEF RunTool
<1>3. Reached(i) /\ Executed(i) /\ outcome[i] = "none" /\ i \notin denied
  BY <1>1, <1>2 DEF Ahead, Behind, Untouched, Executed, Working
<1>4. /\ i \in Nat /\ idx \in Nat /\ runnable \in Nat /\ i <= runnable
      /\ i <= idx
  BY <1>1, <1>3, BatchAssumption DEF Reached, Walking, Executes, TypeOK, Calls
<1>5. i \in 1..runnable /\ i \notin denied
  BY <1>3, <1>4, BatchAssumption DEF Calls
<1>6. CASE kind[i] = "parallel"
  <2>1. i \in Pending /\ i \in Slots
    BY <1>2, <1>6 DEF Pending, Slots
  <2>2. pc \notin Alone
    <3>1. Pending # {}
      BY <2>1
    <3> QED
      BY <1>1, <3>1, NoneInFlight DEF Counted
  <2>3. \A j \in 1..(i - 1) : j \in Answered \/ kind[j] = "parallel"
    <3> SUFFICES ASSUME NEW j \in 1..(i - 1), kind[j] # "parallel" PROVE j \in Answered
      OBVIOUS
    <3>1. j \in Calls /\ j < idx /\ Reached(j)
      BY <1>3, <1>4, BatchAssumption DEF Reached, Calls
    <3> QED
      BY <1>1, <3>1 DEF Behind, Executed, Working, Answered
  <2>4. \A j \in Executing : kind[j] = "parallel"
    <3> SUFFICES ASSUME NEW j \in Calls, worker[j] = "executing", kind[j] # "parallel"
                 PROVE  FALSE
      BY DEF Executing
    <3>1. Reached(j)
      BY <1>1 DEF Ahead, Untouched
    <3>2. ~(j < idx)
      BY <1>1, <3>1 DEF Behind, Executed
    <3>3. pc \in Alone
      BY <3>1, <3>2 DEF Reached, Alone
    <3> QED
      BY <2>2, <3>3
  <2>5. Cardinality(Executing) < ParallelTools
    <3>1. Executing \in SUBSET (Slots \ {i})
      BY <1>2, <2>4 DEF Executing, Slots
    <3>2. IsFiniteSet(Slots \ {i}) /\ Cardinality(Slots \ {i}) = Cardinality(Slots) - 1
      BY <2>1, Finite, FS_RemoveElement
    <3>3. Cardinality(Executing) <= Cardinality(Slots \ {i}) /\ Cardinality(Executing) \in Nat
      BY <3>1, <3>2, FS_Subset, FS_CardinalityType
    <3> QED
      BY <1>1, <3>2, <3>3, Finite, BatchAssumption DEF Counted
  <2>6. Executing' = Executing \cup {i} /\ i \notin Executing /\ i \notin Answered
    BY <1>1, <1>2, <1>3 DEF Executing, Answered, TypeOK
  <2>7. pc # "done" /\ i \in 1..runnable
    BY <1>4, <2>2 DEF Alone, Calls
  <2>8. \A j \in 1..(i - 1) : j \in Answered \/ {i, j} \subseteq Parallel
    BY <1>4, <1>6, <2>3, BatchAssumption DEF Parallel, Calls
  <2>9. Executing \cup {i} \subseteq Parallel
    BY <1>6, <2>4 DEF Parallel, Executing
  <2> QED
    BY <1>2, <1>5, <2>5, <2>6, <2>7, <2>8, <2>9, TurnCardinality
       DEF Turn!Execute, Executing, Answered, Parallel
<1>7. CASE kind[i] # "parallel"
  <2>1. i = idx /\ pc \in {"serial", "drain"}
    BY <1>2, <1>3, <1>7 DEF Executed, Reached
  <2>2. Pending = {}
    BY <1>1, <2>1, NoneInFlight DEF Counted, Alone
  <2>3. \A j \in Calls \ {i} : Reached(j) => j \in Answered /\ worker[j] \notin Working
    <3> SUFFICES ASSUME NEW j \in Calls \ {i}, Reached(j)
                 PROVE  j \in Answered /\ worker[j] \notin Working
      OBVIOUS
    <3>1. Executed(j) /\ j < idx
      BY <1>1, <2>1 DEF Behind, Reached
    <3>2. worker[j] \notin Working
      BY <2>2, <3>1 DEF Executed, Working, Pending
    <3> QED
      BY <3>1, <3>2 DEF Executed, Answered
  <2>4. \A j \in 1..(i - 1) : j \in Answered
    <3> SUFFICES ASSUME NEW j \in 1..(i - 1) PROVE j \in Answered
      OBVIOUS
    <3>1. j \in Calls \ {i} /\ Reached(j)
      BY <1>3, <1>4, <2>1, BatchAssumption DEF Reached, Calls
    <3> QED
      BY <2>3, <3>1
  <2>5. Executing = {}
    <3> SUFFICES ASSUME NEW j \in Calls, worker[j] = "executing" PROVE FALSE
      BY DEF Executing
    <3>1. j # i /\ Reached(j)
      BY <1>1, <1>2 DEF Ahead, Untouched
    <3> QED
      BY <2>3, <3>1 DEF Working
  <2>6. Cardinality(Executing) < ParallelTools
    BY <2>5, FS_EmptySet, BatchAssumption
  <2>7. Executing' = Executing \cup {i} /\ i \notin Executing /\ i \notin Answered
    BY <1>1, <1>2, <1>3 DEF Executing, Answered, TypeOK
  <2>8. pc # "done" /\ i \in 1..runnable
    BY <1>4, <2>1 DEF Calls
  <2> QED
    BY <1>2, <1>5, <2>4, <2>5, <2>6, <2>7, <2>8, TurnCardinality
       DEF Turn!Execute, Executing, Answered, Parallel
<1> QED
  BY <1>6, <1>7

\* A tool that executes, returns or does neither.
LEMMA TurnRunTool == IInv => \A i \in Calls : RunTool(i) => Turn!Next
<1> SUFFICES ASSUME IInv, NEW i \in Calls, RunTool(i) PROVE Turn!Next
  OBVIOUS
<1>1. worker[i] = "started" /\ UNCHANGED <<kind, runnable, denied, pc>>
  BY DEF RunTool
<1>2. Reached(i) /\ outcome[i] = "none" /\ pc # "done"
  <2>1. Reached(i) /\ Executed(i)
    BY <1>1 DEF IInv, Ahead, Behind, Untouched
  <2>2. pc # "done"
    <3> SUFFICES ASSUME pc = "done" PROVE FALSE
      OBVIOUS
    <3>1. ~Open(i)
      <4>1. Pending = {} /\ Finished = {}
        BY NoneInFlight DEF IInv, Counted, Alone
      <4>2. i # idx
        BY <2>1, BatchAssumption DEF Reached, IInv, TypeOK, Calls
      <4> QED
        BY <4>1, <4>2 DEF Open
    <3> QED
      BY <1>1, <2>1, <3>1, ClosedHasResult DEF Working
  <2> QED
    BY <1>1, <2>1, <2>2 DEF Executed, Working
<1>3. i \in 1..runnable
  BY <1>2, BatchAssumption DEF Reached, IInv, Walking, Executes, TypeOK, Calls
<1>4. CASE \E o \in {"skipped", "cancelled"} : Return(i, o)
  <2>1. outcome'[i] # "none" /\ \A j \in Calls \ {i} : outcome'[j] = outcome[j]
    BY <1>4 DEF Return, IInv, TypeOK
  <2>2. Executing' = Executing \ {i}
    BY <1>1, <1>4 DEF Return, IInv, TypeOK, Executing
  <2> QED
    BY <1>1, <1>2, <1>3, <2>1, <2>2, TurnAnswers
<1>5. CASE worker' = [worker EXCEPT ![i] = "executing"] /\ UNCHANGED outcome
  BY <1>5, TurnExecutes DEF Turn!Next, Turn!Calls, Calls
<1> QED
  BY <1>4, <1>5 DEF RunTool

LEMMA TurnExecReturns == IInv => \A i \in Calls : ExecReturns(i) => Turn!Next
<1> SUFFICES ASSUME IInv, NEW i \in Calls, ExecReturns(i) PROVE Turn!Next
  OBVIOUS
<1>1. worker[i] = "executing" /\ UNCHANGED <<kind, runnable, denied, pc>>
  BY DEF ExecReturns
<1>2. Reached(i) /\ Executed(i)
  BY <1>1 DEF IInv, Ahead, Behind, Untouched
<1>3. pc # "done"
  <2> SUFFICES ASSUME pc = "done" PROVE FALSE
    OBVIOUS
  <2>1. Pending = {} /\ Finished = {}
    BY NoneInFlight DEF IInv, Counted, Alone
  <2>2. i # idx
    BY <1>2, BatchAssumption DEF Reached, IInv, TypeOK, Calls
  <2> QED
    BY <1>1, <1>2, <2>1, <2>2, ClosedHasResult DEF Working, Open
<1>4. i \in 1..runnable /\ outcome[i] = "none"
  BY <1>1, <1>2, BatchAssumption
     DEF Reached, Executed, Working, IInv, Walking, Executes, TypeOK, Calls
<1>5. /\ outcome'[i] # "none" /\ \A j \in Calls \ {i} : outcome'[j] = outcome[j]
      /\ Executing' = Executing \ {i}
  BY <1>1 DEF ExecReturns, Return, IInv, TypeOK, Executing
<1> QED
  BY <1>1, <1>3, <1>4, <1>5, TurnAnswers

\* The batch ends with every answer given and no tool executing.
LEMMA TurnEnd == IInv /\ End => [Turn!Next]_(Turn!vars)
<1> SUFFICES ASSUME IInv, End PROVE [Turn!Next]_(Turn!vars)
  OBVIOUS
<1>1. TypeOK /\ Walking /\ Ahead /\ Counted
  BY DEF IInv
<1>2. UNCHANGED <<kind, runnable, denied, worker, outcome>>
  BY DEF End
<1>3. CASE pc = "flush" /\ pc' = "done"
  <2>1. /\ idx = runnable + 1 /\ runnable \in Nat /\ runnable <= CallCount /\ CallCount \in Nat
        /\ Pending = {} /\ Finished = {}
    BY <1>1, <1>3, NoneInFlight, BatchAssumption DEF Walking, PastLast, Counted, Alone, TypeOK
  <2>2. ASSUME NEW i \in Calls
        PROVE  (i \in 1..runnable <=> outcome[i] # "none") /\ worker[i] # "executing"
    <3>1. CASE i <= runnable
      <4>1. Reached(i) /\ ~Open(i)
        BY <1>3, <2>1, <3>1 DEF Reached, Open, Calls
      <4> QED
        BY <2>1, <3>1, <4>1, ClosedHasResult DEF Working, Calls
    <3>2. CASE ~(i <= runnable)
      <4>1. ~Reached(i)
        BY <1>3, <2>1, <3>2 DEF Reached, Calls
      <4> QED
        BY <1>1, <3>2, <4>1 DEF Ahead, Untouched, Calls
    <3> QED
      BY <3>1, <3>2
  <2>3. Answered = 1..runnable /\ Executing = {}
    BY <2>1, <2>2 DEF Answered, Executing, Calls
  <2>4. Turn!End
    BY <1>2, <1>3, <2>3 DEF Turn!End, Answered, Executing
  <2> QED
    BY <2>4 DEF Turn!Next
<1>4. CASE pc # "done" /\ pc' # "done"
  BY <1>2, <1>4, TurnKept DEF Executing, Answered
<1> QED
  BY <1>3, <1>4 DEF End

\* Any number of serial, parallel and unknown tools, denied or cancelled, over
\* any number of slots: a serial tool is a barrier, the slots are never
\* exceeded, a denied tool never executes and no call is answered twice.
THEOREM TurnImplemented == Spec => ImplementsTurn
<1>1. IInv /\ [Next]_vars => [Turn!Next]_(Turn!vars)
  <2> SUFFICES ASSUME IInv, [Next]_vars PROVE [Turn!Next]_(Turn!vars)
    OBVIOUS
  <2>1. CASE Walker
    <3>1. CASE Gate \/ End
      BY <3>1, TurnGate, TurnEnd
    <3>2. CASE Step \/ Forward \/ Finish \/ Dispatch \/ Barrier \/ Serial \/ Drained
      <4>1. pc # "gate"
        BY <3>2 DEF Step, Forward, Waiting, Finish, Dispatch, Barrier, Serial, Drained
      <4> QED
        BY <3>2, <4>1, TurnWalks
    <3> QED
      BY <2>1, <3>1, <3>2 DEF Walker
  <2>2. CASE \E i \in Calls : RunTool(i) \/ ExecReturns(i)
    BY <2>2, TurnRunTool, TurnExecReturns
  <2>3. CASE Cancel \/ UNCHANGED vars \/ \E i \in Calls : Report(i)
    BY <2>3 DEF Cancel, Report, vars, Turn!vars
  <2>4. ASSUME NEW i \in Calls, Worker(i) PROVE UNCHANGED Turn!vars
    <3>1. Executing' = Executing
      BY <2>4 DEF Worker, IInv, TypeOK, Executing
    <3> QED
      BY <2>4, <3>1 DEF Worker, Turn!vars, Executing
  <2> QED
    BY <2>1, <2>2, <2>3, <2>4 DEF Next
<1> QED
  BY <1>1, TurnInit, Invariance, PTL DEF Spec, ImplementsTurn, Turn!Spec
=============================================================================
