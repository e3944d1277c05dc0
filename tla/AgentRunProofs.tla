--------------------------- MODULE AgentRunProofs ---------------------------
(***************************************************************************)
(* Proofs about AgentRun, for any runners, messages, limits and queues.    *)
(***************************************************************************)
EXTENDS AgentRun, FiniteSetTheorems, TLAPS

\* A run has turns left wherever it goes on to another.
TurnLeft ==
    \A r \in Runners :
        /\ run[r].pc \in {"idle", "started", "poll"} => run[r].turn = 0
        /\ run[r].pc \in {"drain", "followups"} => run[r].turn < MaxTurns

\* The session is running, and one runner is in its loop; or neither.
Holder ==
    /\ ~running => \A r \in Runners : run[r].pc = "idle"
    /\ running => \E r \in Runners :
                     /\ run[r].pc # "idle"
                     /\ \A q \in Runners \ {r} : run[q].pc = "idle"

\* A run about to end naturally has an answer that is whole, blank or continued.
Whole ==
    \A r \in Runners : run[r].stop = "end_turn" =>
        /\ run[r].pc \in {"decide", "drain", "followups", "leave"}
        /\ run[r].resp.calls = 0
        /\ run[r].pc \in {"drain", "followups"} /\ run[r].resp.cut /\ run[r].resp.text
              => run[r].salvage
        /\ run[r].pc = "leave" => ~(run[r].resp.cut /\ run[r].resp.text)

\* The calls that are executed are in the history and have no result.
Executing ==
    \A r \in Runners : run[r].pc = "tools" =>
        LET at == run[r].resp.at IN
        /\ at \in DOMAIN history /\ history[at] = Assistant(run[r].resp.calls)
        /\ \A q \in DOMAIN history : history[q].role = "tool" =>
              \A c \in history[q].answers : c[1] # at

\* The session finds the open calls that no caller buried.
OpenFound == OpenCalls(history) \subseteq buried \cup Pending(history)

\* A run leaves no call open but the ones it executes, or stops at.
OpenHeld ==
    \A r \in Runners :
        /\ run[r].pc = "tools" =>
              OpenCalls(history) \subseteq buried \cup ({run[r].resp.at} \X (1..run[r].resp.calls))
        /\ run[r].pc \notin {"idle", "tools", "leave"} => OpenCalls(history) \subseteq buried

IInv ==
    /\ TypeOK /\ TurnLeft /\ Holder /\ Whole
    /\ CallsAnsweredOnce /\ Executing /\ OpenFound /\ OpenHeld

-----------------------------------------------------------------------------
(* The history as calls and results.                                       *)

\* A call is open when it is a message's and no tool message answers it.
LEMMA OpenCall ==
    ASSUME NEW h \in Seq(Message), NEW c
    PROVE  c \in OpenCalls(h) <=>
               /\ \E p \in DOMAIN h : c \in CallsAt(h, p)
               /\ \A q \in DOMAIN h : h[q].role = "tool" => c \notin h[q].answers
<1>1. DOMAIN h = 1..Len(h)
  OBVIOUS
<1>2. c \in AnsweredFrom(h, 1) <=>
          \E q \in DOMAIN h : h[q].role = "tool" /\ c \in h[q].answers
  BY <1>1 DEF AnsweredFrom
<1> QED
  BY <1>2 DEF OpenCalls

\* The messages behind which the session looks for calls.
TrailingFrom(h) == {p \in DOMAIN h : \A q \in (p + 1)..Len(h) : h[q].role = "tool"}

\* A call is pending when it is one of theirs and none of theirs answers it.
LEMMA PendingCall ==
    ASSUME NEW h, NEW c
    PROVE  c \in Pending(h) <=>
               /\ \E p \in TrailingFrom(h) : c \in CallsAt(h, p)
               /\ \A p \in TrailingFrom(h) : c \notin AnsweredFrom(h, p)
BY DEF Pending, TrailingFrom

\* The position of a call is its message's.
LEMMA CallHere ==
    ASSUME NEW h \in Seq(Message), NEW p \in DOMAIN h, NEW c \in CallsAt(h, p)
    PROVE  c \in Nat \X (1..MaxCalls) /\ c[1] = p /\ h[p].role = "assistant"
<1>1. h[p] \in Message
  OBVIOUS
<1>2. h[p].role = "assistant" /\ c \in {p} \X (1..h[p].calls)
  BY DEF CallsAt
<1>3. h[p].calls \in 0..MaxCalls
  BY <1>1, <1>2 DEF Message
<1> QED
  BY <1>2, <1>3, RunAssumption

\* An appended result takes its calls from the open and the pending ones.
LEMMA ToolAppended ==
    ASSUME NEW h \in Seq(Message), NEW some \in SUBSET (Nat \X (1..MaxCalls))
    PROVE  LET h2 == Append(h, Tool(some)) IN
           /\ h2 \in Seq(Message)
           /\ OpenCalls(h2) = OpenCalls(h) \ some
           /\ Pending(h) \ some \subseteq Pending(h2)
<1> DEFINE h2 == Append(h, Tool(some))
<1>1. h2 \in Seq(Message) /\ DOMAIN h2 = (DOMAIN h) \cup {Len(h) + 1} /\ Len(h2) = Len(h) + 1
  BY DEF Message, Tool
<1>2. h2[Len(h) + 1] = Tool(some) /\ \A p \in DOMAIN h : h2[p] = h[p]
  OBVIOUS
<1> HIDE DEF h2
<1>3. CallsAt(h2, Len(h) + 1) = {} /\ \A p \in DOMAIN h : CallsAt(h2, p) = CallsAt(h, p)
  <2>1. h2[Len(h) + 1].role = "tool"
    BY <1>2 DEF Tool
  <2> QED
    BY <1>2, <2>1 DEF CallsAt
<1>4. OpenCalls(h2) = OpenCalls(h) \ some
  <2>1. h2[Len(h) + 1].role = "tool" /\ h2[Len(h) + 1].answers = some
    BY <1>2 DEF Tool
  <2>2. ASSUME NEW c
        PROVE  c \in OpenCalls(h2) <=> c \in OpenCalls(h) \ some
    BY <1>1, <1>2, <1>3, <2>1, OpenCall
  <2> QED
    BY <2>2
<1>5. ASSUME NEW c \in Pending(h), c \notin some
      PROVE  c \in Pending(h2)
  <2>1. PICK p \in TrailingFrom(h) : c \in CallsAt(h, p)
    BY <1>5, PendingCall
  <2>2. TrailingFrom(h2) = TrailingFrom(h) \cup {Len(h) + 1}
    BY <1>1, <1>2 DEF Tool, TrailingFrom
  <2>3. ASSUME NEW q \in TrailingFrom(h2), c \in AnsweredFrom(h2, q)
        PROVE  FALSE
    <3>1. PICK i \in q..Len(h2) : h2[i].role = "tool" /\ c \in h2[i].answers
      BY <2>3 DEF AnsweredFrom
    <3>2. i \in DOMAIN h /\ q \in DOMAIN h
      BY <1>1, <1>2, <1>5, <2>3, <3>1 DEF Tool, TrailingFrom
    <3>3. q \in TrailingFrom(h) /\ i \in q..Len(h) /\ h[i].role = "tool" /\ c \in h[i].answers
      BY <1>1, <1>2, <2>2, <3>1, <3>2 DEF TrailingFrom
    <3>4. c \in AnsweredFrom(h, q)
      BY <3>3 DEF AnsweredFrom
    <3> QED
      BY <1>5, <3>3, <3>4, PendingCall
  <2>4. p \in TrailingFrom(h2) /\ c \in CallsAt(h2, p)
    BY <1>3, <2>1, <2>2 DEF TrailingFrom
  <2> QED
    BY <2>3, <2>4, PendingCall
<1> QED
  BY <1>1, <1>4, <1>5 DEF h2

\* An appended user message opens nothing.
LEMMA UserAppended ==
    ASSUME NEW h \in Seq(Message), NEW m \in Messages
    PROVE  LET h2 == Append(h, User(m)) IN
           h2 \in Seq(Message) /\ OpenCalls(h2) = OpenCalls(h)
<1> DEFINE h2 == Append(h, User(m))
<1>1. h2 \in Seq(Message) /\ DOMAIN h2 = (DOMAIN h) \cup {Len(h) + 1}
  BY DEF Message, User
<1>2. h2[Len(h) + 1] = User(m) /\ \A p \in DOMAIN h : h2[p] = h[p]
  OBVIOUS
<1> HIDE DEF h2
<1>3. CallsAt(h2, Len(h) + 1) = {} /\ \A p \in DOMAIN h : CallsAt(h2, p) = CallsAt(h, p)
  <2>1. h2[Len(h) + 1].role = "user"
    BY <1>2 DEF User
  <2> QED
    BY <1>2, <2>1 DEF CallsAt
<1>4. OpenCalls(h2) = OpenCalls(h)
  <2>1. h2[Len(h) + 1].role = "user"
    BY <1>2 DEF User
  <2> SUFFICES ASSUME NEW c PROVE c \in OpenCalls(h2) <=> c \in OpenCalls(h)
    BY DEF OpenCalls
  <2>2. (\E p \in DOMAIN h2 : c \in CallsAt(h2, p)) <=> \E p \in DOMAIN h : c \in CallsAt(h, p)
    BY <1>1, <1>3
  <2>3. (\A q \in DOMAIN h2 : h2[q].role = "tool" => c \notin h2[q].answers)
        <=> \A q \in DOMAIN h : h[q].role = "tool" => c \notin h[q].answers
    BY <1>1, <1>2, <2>1
  <2> QED
    BY <1>1, <2>2, <2>3, OpenCall
<1> QED
  BY <1>1, <1>4 DEF h2

\* An appended response opens its calls, and the session finds them.
LEMMA AssistantAppended ==
    ASSUME NEW h \in Seq(Message), NEW n \in 0..MaxCalls
    PROVE  LET h2 == Append(h, Assistant(n))
               own == {Len(h) + 1} \X (1..n)
           IN /\ h2 \in Seq(Message)
              /\ OpenCalls(h2) \subseteq OpenCalls(h) \cup own
              /\ own \subseteq Pending(h2)
<1> DEFINE h2 == Append(h, Assistant(n))
           own == {Len(h) + 1} \X (1..n)
<1>1. h2 \in Seq(Message) /\ DOMAIN h2 = (DOMAIN h) \cup {Len(h) + 1} /\ Len(h2) = Len(h) + 1
  BY DEF Message, Assistant
<1>2. h2[Len(h) + 1] = Assistant(n) /\ \A p \in DOMAIN h : h2[p] = h[p]
  OBVIOUS
<1> HIDE DEF h2
<1>3. CallsAt(h2, Len(h) + 1) = own /\ \A p \in DOMAIN h : CallsAt(h2, p) = CallsAt(h, p)
  <2>1. h2[Len(h) + 1].role = "assistant" /\ h2[Len(h) + 1].calls = n
    BY <1>2 DEF Assistant
  <2> QED
    BY <1>2, <2>1 DEF CallsAt
<1>4. OpenCalls(h2) \subseteq OpenCalls(h) \cup own
  BY <1>1, <1>2, <1>3, OpenCall
<1>5. own \subseteq Pending(h2)
  <2>1. TrailingFrom(h2) = {Len(h) + 1}
    BY <1>1, <1>2 DEF Assistant, TrailingFrom
  <2>2. AnsweredFrom(h2, Len(h) + 1) = {}
    BY <1>1, <1>2 DEF AnsweredFrom, Assistant
  <2> QED
    BY <1>3, <2>1, <2>2, PendingCall
<1> QED
  BY <1>1, <1>4, <1>5 DEF h2

\* The calls the session finds pending are open.
LEMMA PendingAreOpen ==
    ASSUME TypeOK, CallsAnsweredOnce
    PROVE  Pending(history) \subseteq OpenCalls(history)
<1> SUFFICES ASSUME NEW c \in Pending(history)
             PROVE  c \in OpenCalls(history)
  OBVIOUS
<1>1. PICK p \in TrailingFrom(history) : c \in CallsAt(history, p)
  BY PendingCall
<1>2. history \in Seq(Message)
  BY DEF TypeOK
<1>3. ASSUME NEW q \in DOMAIN history, history[q].role = "tool", c \in history[q].answers
      PROVE  FALSE
  <2>1. PICK i \in 1..(q - 1) : c \in CallsAt(history, i)
    BY <1>3 DEF CallsAnsweredOnce
  <2>2. i \in DOMAIN history
    BY <1>2
  <2>3. i = p
    BY <1>1, <1>2, <2>1, <2>2, CallHere DEF TrailingFrom
  <2>4. q \in p..Len(history)
    BY <1>2, <2>2, <2>3
  <2>5. c \in AnsweredFrom(history, p)
    BY <1>3, <2>4 DEF AnsweredFrom
  <2> QED
    BY <1>1, <2>5, PendingCall
<1> QED
  BY <1>1, <1>2, <1>3, OpenCall DEF TrailingFrom

-----------------------------------------------------------------------------
(* Types, and the limit of turns.                                          *)

\* The places and reasons the loop names, and the empty queue.
LEMMA Literals ==
    /\ \A pc \in {"idle", "started", "poll", "turn", "inject", "model", "retry", "tools",
                  "decide", "drain", "followups", "leave"} : pc \in Place
    /\ \A reason \in {"none", "end_turn", "truncated", "terminated", "max_turns", "budget",
                      "stop_when", "paused"} : reason \in Reason
    /\ <<>> \in Seq(Messages)
BY DEF Place, Reason

\* What is drained of a queue of messages, and what is left, are messages.
LEMMA QueueDrained ==
    ASSUME NEW queue \in Seq(Messages)
    PROVE  Drained(queue) \in Seq(Messages) /\ Rest(queue) \in Seq(Messages)
BY DEF Drained, Rest

\* The messages of a sequence of them.
LEMMA RangeTyped ==
    ASSUME NEW queue \in Seq(Messages)
    PROVE  Range(queue) \subseteq Messages
BY DEF Range

\* A run that moves on, ends or takes another turn is still a run.
LEMMA MovesTyped ==
    ASSUME run \in [Runners -> RunState], NEW r \in Runners
    PROVE  /\ \A pc \in Place : Goto(r, pc) => run' \in [Runners -> RunState]
           /\ \A reason \in Reason : Finish(r, reason) => run' \in [Runners -> RunState]
           /\ ShouldStop(r) => run' \in [Runners -> RunState]
           /\ \A drained \in Seq(Messages) :
                 run[r].turn < MaxTurns /\ NextTurn(r, drained) => run' \in [Runners -> RunState]
<1>1. run[r] \in RunState
  OBVIOUS
<1>2. ASSUME NEW pc \in Place, Goto(r, pc)
      PROVE  run' \in [Runners -> RunState]
  <2>1. [run[r] EXCEPT !.pc = pc] \in RunState
    BY <1>1 DEF RunState
  <2> QED
    BY <1>2, <2>1 DEF Goto
<1>3. ASSUME NEW reason \in Reason, Finish(r, reason)
      PROVE  run' \in [Runners -> RunState]
  <2>1. [run[r] EXCEPT !.pc = "leave", !.stop = reason, !.pending = <<>>] \in RunState
    BY <1>1, Literals DEF RunState
  <2> QED
    BY <1>3, <2>1 DEF Finish
<1>4. ShouldStop(r) => run' \in [Runners -> RunState]
  BY <1>3 DEF ShouldStop, Reason
<1>5. ASSUME NEW drained \in Seq(Messages), run[r].turn < MaxTurns, NextTurn(r, drained)
      PROVE  run' \in [Runners -> RunState]
  <2>1. [Idle EXCEPT !.pc = "turn", !.turn = run[r].turn + 1,
                     !.pending = drained, !.salvaged = run[r].salvaged] \in RunState
    <3>1. run[r].turn + 1 \in 0..MaxTurns
      BY <1>1, <1>5, RunAssumption DEF RunState
    <3>2. Idle \in RunState
      BY Literals, RunAssumption DEF RunState, Idle, NoResponse
    <3> QED
      BY <1>1, <3>1, <3>2, Literals DEF RunState
  <2> QED
    BY <1>5, <2>1 DEF NextTurn
<1> QED
  BY <1>2, <1>3, <1>4, <1>5

\* An abandoned or failed run is still a run, and gives up messages only.
LEMMA AbandonTyped ==
    ASSUME run \in [Runners -> RunState], gone \subseteq Messages, NEW r \in Runners
    PROVE  /\ Fail(r) => run' \in [Runners -> RunState] /\ gone' \subseteq Messages
           /\ \A drained \in Seq(Messages) : Abandon(r, drained) =>
                 run' \in [Runners -> RunState] /\ gone' \subseteq Messages
BY MovesTyped, RangeTyped DEF Fail, Abandon, Reason

\* The calls the session finds pending are calls.
LEMMA PendingTyped ==
    ASSUME history \in Seq(Message)
    PROVE  Pending(history) \subseteq Nat \X (1..MaxCalls)
BY PendingCall, CallHere DEF TrailingFrom

\* No step breaks the types: a run that takes another turn has one left.
LEMMA TypeStep ==
    ASSUME TypeOK, TurnLeft, [Next]_vars
    PROVE  TypeOK'
<1>1. CASE UNCHANGED vars
  BY <1>1 DEF TypeOK, vars, session
<1>2. ASSUME NEW r \in Runners, Begin(r)
      PROVE  TypeOK'
  <2>1. run' \in [Runners -> RunState]
    BY <1>2, MovesTyped, Literals DEF TypeOK, Begin
  <2>2. runs' \in 0..MaxRuns
    BY <1>2, RunAssumption DEF TypeOK, Begin
  <2> QED
    BY <1>2, <2>1, <2>2 DEF TypeOK, Begin
<1>3. ASSUME NEW r \in Runners, Open(r)
      PROVE  TypeOK'
  <2>1. run' \in [Runners -> RunState] /\ gone' \subseteq Messages
    BY <1>3, MovesTyped, AbandonTyped, Literals DEF TypeOK, Open
  <2>2. history' \in Seq(Message) /\ fresh' \subseteq Messages
    <3>1. CASE UNCHANGED <<history, fresh>>
      BY <3>1 DEF TypeOK
    <3>2. ASSUME NEW input \in {<<>>} \cup {<<m>> : m \in fresh}, fresh' = fresh \ Range(input),
                 history' = history \o [i \in DOMAIN input |-> User(input[i])]
          PROVE  history' \in Seq(Message) /\ fresh' \subseteq Messages
      <4>1. \A i \in DOMAIN input : input[i] \in Messages
        BY <3>2 DEF TypeOK
      <4>2. [i \in DOMAIN input |-> User(input[i])] \in Seq(Message)
        <5>1. \A i \in DOMAIN input : User(input[i]) \in Message
          BY <4>1 DEF Message, User
        <5>2. CASE input = <<>>
          BY <5>2
        <5>3. ASSUME NEW m \in fresh, input = <<m>>
              PROVE  [i \in DOMAIN input |-> User(input[i])] \in Seq(Message)
          <6>1. [i \in DOMAIN input |-> User(input[i])] = <<User(m)>>
            BY <5>3
          <6> QED
            BY <5>1, <5>3, <6>1
        <5> QED
          BY <3>2, <5>2, <5>3
      <4> QED
        BY <3>2, <4>2 DEF TypeOK
    <3> QED
      BY <1>3, <3>1, <3>2 DEF Open
  <2> QED
    BY <1>3, <2>1, <2>2 DEF TypeOK, Open
<1>4. ASSUME NEW r \in Runners, Poll(r)
      PROVE  TypeOK'
  <2>1. run[r].turn < MaxTurns
    BY <1>4, RunAssumption DEF TurnLeft, Poll, At
  <2>2. run' \in [Runners -> RunState] /\ steering' \in Seq(Messages)
    BY <1>4, <2>1, MovesTyped, QueueDrained DEF TypeOK, Poll
  <2> QED
    BY <1>4, <2>2 DEF TypeOK, Poll
<1>5. ASSUME NEW r \in Runners, Turn(r)
      PROVE  TypeOK'
  <2>1. run[r].pending \in Seq(Messages)
    BY DEF TypeOK, RunState
  <2>2. run' \in [Runners -> RunState] /\ gone' \subseteq Messages
    BY <1>5, <2>1, MovesTyped, AbandonTyped, Literals DEF TypeOK, Turn
  <2> QED
    BY <1>5, <2>2 DEF TypeOK, Turn, session
<1>6. ASSUME NEW r \in Runners, Inject(r)
      PROVE  TypeOK'
  <2>1. /\ run[r] \in RunState
        /\ Tail(run[r].pending) \in Seq(Messages) /\ Head(run[r].pending) \in Messages
    BY <1>6 DEF TypeOK, RunState, Inject
  <2>2. [run[r] EXCEPT !.pending = Tail(@)] \in RunState
    BY <2>1 DEF RunState
  <2>3. run' \in [Runners -> RunState] /\ gone' \subseteq Messages
    BY <1>6, <2>1, <2>2, AbandonTyped DEF TypeOK, Inject
  <2>4. history' \in Seq(Message)
    BY <1>6, <2>1, UserAppended DEF TypeOK, Inject
  <2> QED
    BY <1>6, <2>3, <2>4 DEF TypeOK, Inject
<1>7. ASSUME NEW r \in Runners, Call(r)
      PROVE  TypeOK'
  <2>1. run' \in [Runners -> RunState] /\ gone' \subseteq Messages
    BY <1>7, MovesTyped, AbandonTyped, Literals DEF TypeOK, Call
  <2> QED
    BY <1>7, <2>1 DEF TypeOK, Call, session
<1>8. ASSUME NEW r \in Runners, ModelReturns(r)
      PROVE  TypeOK'
  <2>1. PICK n \in 0..MaxCalls, text \in BOOLEAN, cut \in BOOLEAN :
           LET resp == [calls |-> n, text |-> text, cut |-> cut, at |-> Len(history) + 1] IN
           \/ (Fail(r) \/ Abandon(r, <<>>)) /\ UNCHANGED history
           \/ n = 0 /\ Goto(r, "retry") /\ UNCHANGED <<history, gone>>
           \/ /\ history' = Append(history, Assistant(n))
              /\ \/ Abandon(r, <<>>)
                 \/ Answered(r, resp) /\ UNCHANGED gone
    BY <1>8 DEF ModelReturns
  <2>2. run[r] \in RunState /\ history \in Seq(Message)
    BY DEF TypeOK
  <2>3. ASSUME NEW resp \in [calls : 0..MaxCalls, text : BOOLEAN, cut : BOOLEAN, at : Nat], Answered(r, resp)
        PROVE  run' \in [Runners -> RunState]
    <3>1. (IF resp.calls = 0 THEN "decide" ELSE "tools") \in Place
      BY Literals
    <3>2. (IF resp.calls = 0 THEN "end_turn" ELSE "none") \in Reason
      BY Literals
    <3>3. [run[r] EXCEPT !.resp = resp,
               !.pc = IF resp.calls = 0 THEN "decide" ELSE "tools",
               !.stop = IF resp.calls = 0 THEN "end_turn" ELSE "none"] \in RunState
      BY <2>2, <3>1, <3>2 DEF RunState
    <3> QED
      BY <2>3, <3>3 DEF TypeOK, Answered
  <2>4. run' \in [Runners -> RunState] /\ gone' \subseteq Messages
    <3>1. [calls |-> n, text |-> text, cut |-> cut, at |-> Len(history) + 1]
             \in [calls : 0..MaxCalls, text : BOOLEAN, cut : BOOLEAN, at : Nat]
      BY <2>2
    <3>2. CASE Answered(r, [calls |-> n, text |-> text, cut |-> cut, at |-> Len(history) + 1]) /\ UNCHANGED gone
      BY <2>3, <3>1, <3>2 DEF TypeOK
    <3>3. CASE Fail(r) \/ Abandon(r, <<>>) \/ (Goto(r, "retry") /\ UNCHANGED gone)
      BY <3>3, MovesTyped, AbandonTyped, Literals DEF TypeOK
    <3> QED
      BY <2>1, <3>2, <3>3
  <2>5. history' \in Seq(Message)
    BY <2>1, <2>2, AssistantAppended
  <2> QED
    BY <1>8, <2>4, <2>5 DEF TypeOK, ModelReturns
<1>9. ASSUME NEW r \in Runners, Retry(r)
      PROVE  TypeOK'
  <2>1. run' \in [Runners -> RunState] /\ gone' \subseteq Messages /\ steering' \in Seq(Messages)
    BY <1>9, MovesTyped, AbandonTyped, QueueDrained, Literals DEF TypeOK, Retry
  <2> QED
    BY <1>9, <2>1 DEF TypeOK, Retry
<1>10. ASSUME NEW r \in Runners, Tools(r)
       PROVE  TypeOK'
  <2>1. run[r] \in RunState /\ history \in Seq(Message)
    BY DEF TypeOK
  <2>2. \A stop \in {"none", "terminated"} :
           [run[r] EXCEPT !.pc = "decide", !.stop = stop] \in RunState
    BY <2>1 DEF RunState, Place, Reason
  <2>3. run' \in [Runners -> RunState] /\ gone' \subseteq Messages
    BY <1>10, <2>2, MovesTyped, AbandonTyped, Literals DEF TypeOK, Tools, Executed
  <2>4. \A n \in 0..run[r].resp.calls :
           {run[r].resp.at} \X (1..n) \subseteq Nat \X (1..MaxCalls)
    BY <2>1, RunAssumption DEF RunState
  <2>5. history' \in Seq(Message)
    BY <1>10, <2>1, <2>4, ToolAppended DEF Tools
  <2> QED
    BY <1>10, <2>3, <2>5 DEF TypeOK, Tools
<1>11. ASSUME NEW r \in Runners, Decide(r)
       PROVE  TypeOK'
  <2>1. run[r] \in RunState /\ NaturalStop(r) \in Reason /\ Salvageable(r) \in BOOLEAN
    BY DEF TypeOK, RunState, NaturalStop, Salvageable, LengthTruncated, Reason
  <2>2. [run[r] EXCEPT !.pc = "drain", !.stop = NaturalStop(r), !.salvage = Salvageable(r),
                       !.salvaged = run[r].salvaged + (IF Salvageable(r) THEN 1 ELSE 0)] \in RunState
    <3>1. run[r].salvaged + (IF Salvageable(r) THEN 1 ELSE 0) \in 0..SalvageAttempts
      BY <2>1, RunAssumption DEF RunState, Salvageable
    <3>2. "drain" \in Place
      BY Literals
    <3> QED
      BY <2>1, <3>1, <3>2 DEF RunState
  <2>3. run' \in [Runners -> RunState] /\ gone' \subseteq Messages
    <3>1. CASE Fail(r)
      BY <3>1, AbandonTyped DEF TypeOK
    <3>2. CASE UNCHANGED gone /\ (Finish(r, NaturalStop(r)) \/ ShouldStop(r))
      BY <2>1, <3>2, MovesTyped DEF TypeOK
    <3>3. CASE UNCHANGED gone /\ Proceed(r)
      BY <2>2, <3>3 DEF TypeOK, Proceed
    <3> QED
      BY <1>11, <3>1, <3>2, <3>3 DEF Decide
  <2> QED
    BY <1>11, <2>3 DEF TypeOK, Decide, session
<1>12. ASSUME NEW r \in Runners, DrainSteering(r)
       PROVE  TypeOK'
  <2>1. run[r].turn < MaxTurns
    BY <1>12 DEF TurnLeft, DrainSteering, At
  <2>2. run' \in [Runners -> RunState] /\ steering' \in Seq(Messages)
    BY <1>12, <2>1, MovesTyped, QueueDrained, Literals DEF TypeOK, DrainSteering
  <2> QED
    BY <1>12, <2>2 DEF TypeOK, DrainSteering
<1>13. ASSUME NEW r \in Runners, DrainFollowUps(r)
       PROVE  TypeOK'
  <2>1. run[r].turn < MaxTurns /\ run[r].stop \in Reason
    BY <1>13 DEF TypeOK, RunState, TurnLeft, DrainFollowUps, At
  <2>2. run' \in [Runners -> RunState] /\ followUps' \in Seq(Messages)
    BY <1>13, <2>1, MovesTyped, QueueDrained DEF TypeOK, DrainFollowUps
  <2> QED
    BY <1>13, <2>2 DEF TypeOK, DrainFollowUps
<1>14. ASSUME NEW r \in Runners, Leave(r)
       PROVE  TypeOK'
  <2>1. Idle \in RunState
    BY RunAssumption DEF RunState, Idle, NoResponse, Place, Reason
  <2> QED
    BY <1>14, <2>1 DEF TypeOK, Leave
<1>15. CASE Send
  <2>1. PICK m \in fresh : /\ fresh' = fresh \ {m}
                           /\ Steer(m) \/ Interject(m) \/ FollowUp(m) \/ AppendMessage(m)
    BY <1>15 DEF Send
  <2>2. m \in Messages
    BY DEF TypeOK
  <2>3. steering' \in Seq(Messages) /\ followUps' \in Seq(Messages)
    <3>1. <<m>> \o steering \in Seq(Messages)
      BY <2>2 DEF TypeOK
    <3>2. Append(steering, m) \in Seq(Messages) /\ Append(followUps, m) \in Seq(Messages)
      BY <2>2 DEF TypeOK
    <3> QED
      BY <2>1, <3>1, <3>2 DEF TypeOK, Steer, Interject, FollowUp, AppendMessage
  <2>4. history' \in Seq(Message)
    BY <2>1, <2>2, UserAppended DEF TypeOK, Steer, Interject, FollowUp, AppendMessage
  <2>5. OpenCalls(history) \subseteq Nat \X (1..MaxCalls)
    BY OpenCall, CallHere DEF TypeOK
  <2>6. buried' \subseteq Nat \X (1..MaxCalls)
    BY <2>1, <2>5 DEF TypeOK, Steer, Interject, FollowUp, AppendMessage
  <2> QED
    BY <1>15, <2>1, <2>3, <2>4, <2>6 DEF TypeOK, Send
<1>16. CASE Clear
  <2>1. gone' \subseteq Messages
    BY <1>16, RangeTyped DEF TypeOK, Clear
  <2> QED
    BY <1>16, <2>1, Literals DEF TypeOK, Clear
<1>17. CASE Resolve
  <2>1. history' \in Seq(Message)
    BY <1>17, PendingTyped, ToolAppended DEF TypeOK, Resolve
  <2> QED
    BY <1>17, <2>1 DEF TypeOK, Resolve
<1>18. CASE Ask
  BY <1>18, PendingTyped DEF TypeOK, Ask, session
<1>19. CASE Answer
  <2>1. history' \in Seq(Message)
    BY <1>19, ToolAppended DEF TypeOK, Answer
  <2> QED
    BY <1>19, <2>1 DEF TypeOK, Answer
<1> QED
  BY <1>1, <1>2, <1>3, <1>4, <1>5, <1>6, <1>7, <1>8, <1>9, <1>10, <1>11, <1>12, <1>13, <1>14,
     <1>15, <1>16, <1>17, <1>18, <1>19 DEF Next, Step

-----------------------------------------------------------------------------
(* The loop.                                                               *)

\* What the ways a run moves on do to it, and to no other.
LEMMA Moved ==
    ASSUME run \in [Runners -> RunState], NEW r \in Runners
    PROVE  /\ \A pc : Goto(r, pc) =>
                 /\ \A q \in Runners \ {r} : run'[q] = run[q]
                 /\ run'[r].pc = pc /\ run'[r].turn = run[r].turn /\ run'[r].stop = run[r].stop
                 /\ run'[r].salvage = run[r].salvage /\ run'[r].resp = run[r].resp
           /\ \A reason : Finish(r, reason) =>
                 /\ \A q \in Runners \ {r} : run'[q] = run[q]
                 /\ run'[r].pc = "leave" /\ run'[r].stop = reason /\ run'[r].resp = run[r].resp
           /\ ShouldStop(r) =>
                 /\ \A q \in Runners \ {r} : run'[q] = run[q]
                 /\ run'[r].pc = "leave" /\ run'[r].stop \in {"max_turns", "budget", "stop_when"}
           /\ \A drained : NextTurn(r, drained) =>
                 /\ \A q \in Runners \ {r} : run'[q] = run[q]
                 /\ run'[r].pc = "turn" /\ run'[r].stop = "none"
<1>1. run[r] \in RunState /\ DOMAIN run = Runners
  OBVIOUS
<1>2. ASSUME NEW pc, Goto(r, pc)
      PROVE  /\ \A q \in Runners \ {r} : run'[q] = run[q]
             /\ run'[r].pc = pc /\ run'[r].turn = run[r].turn /\ run'[r].stop = run[r].stop
             /\ run'[r].salvage = run[r].salvage /\ run'[r].resp = run[r].resp
  <2>1. /\ \A q \in Runners \ {r} : run'[q] = run[q]
        /\ run'[r] = [run[r] EXCEPT !.pc = pc]
    BY <1>1, <1>2 DEF Goto
  <2> QED
    BY <1>1, <2>1 DEF RunState
<1>3. ASSUME NEW reason, Finish(r, reason)
      PROVE  /\ \A q \in Runners \ {r} : run'[q] = run[q]
             /\ run'[r].pc = "leave" /\ run'[r].stop = reason /\ run'[r].resp = run[r].resp
  <2>1. /\ \A q \in Runners \ {r} : run'[q] = run[q]
        /\ run'[r] = [run[r] EXCEPT !.pc = "leave", !.stop = reason, !.pending = <<>>]
    BY <1>1, <1>3 DEF Finish
  <2> QED
    BY <1>1, <2>1 DEF RunState
<1>4. ASSUME NEW drained, NextTurn(r, drained)
      PROVE  /\ \A q \in Runners \ {r} : run'[q] = run[q]
             /\ run'[r].pc = "turn" /\ run'[r].stop = "none"
  BY <1>1, <1>4 DEF NextTurn, Idle
<1>5. ASSUME ShouldStop(r)
      PROVE  \E reason \in {"max_turns", "budget", "stop_when"} : Finish(r, reason)
  BY <1>5 DEF ShouldStop
<1> QED
  BY <1>2, <1>3, <1>4, <1>5

\* The run after a response, and after its tools, and at its next drain.
LEMMA Advanced ==
    ASSUME run \in [Runners -> RunState], NEW r \in Runners
    PROVE  /\ \A resp : Answered(r, resp) =>
                 /\ \A q \in Runners \ {r} : run'[q] = run[q]
                 /\ run'[r].pc = (IF resp.calls = 0 THEN "decide" ELSE "tools")
                 /\ run'[r].stop = (IF resp.calls = 0 THEN "end_turn" ELSE "none")
                 /\ run'[r].resp = resp
           /\ \A stop : Executed(r, stop) =>
                 /\ \A q \in Runners \ {r} : run'[q] = run[q]
                 /\ run'[r].pc = "decide" /\ run'[r].stop = stop /\ run'[r].resp = run[r].resp
           /\ Proceed(r) =>
                 /\ \A q \in Runners \ {r} : run'[q] = run[q]
                 /\ run'[r].pc = "drain" /\ run'[r].stop = NaturalStop(r)
                 /\ run'[r].resp = run[r].resp /\ run'[r].turn = run[r].turn
                 /\ run'[r].salvage = Salvageable(r)
<1>1. run[r] \in RunState /\ DOMAIN run = Runners
  OBVIOUS
<1>2. ASSUME NEW resp, Answered(r, resp)
      PROVE  /\ \A q \in Runners \ {r} : run'[q] = run[q]
             /\ run'[r].pc = (IF resp.calls = 0 THEN "decide" ELSE "tools")
             /\ run'[r].stop = (IF resp.calls = 0 THEN "end_turn" ELSE "none")
             /\ run'[r].resp = resp
  <2>1. /\ \A q \in Runners \ {r} : run'[q] = run[q]
        /\ run'[r] = [run[r] EXCEPT !.resp = resp,
                         !.pc = IF resp.calls = 0 THEN "decide" ELSE "tools",
                         !.stop = IF resp.calls = 0 THEN "end_turn" ELSE "none"]
    BY <1>1, <1>2 DEF Answered
  <2> QED
    BY <1>1, <2>1 DEF RunState
<1>3. ASSUME NEW stop, Executed(r, stop)
      PROVE  /\ \A q \in Runners \ {r} : run'[q] = run[q]
             /\ run'[r].pc = "decide" /\ run'[r].stop = stop /\ run'[r].resp = run[r].resp
  <2>1. /\ \A q \in Runners \ {r} : run'[q] = run[q]
        /\ run'[r] = [run[r] EXCEPT !.pc = "decide", !.stop = stop]
    BY <1>1, <1>3 DEF Executed
  <2> QED
    BY <1>1, <2>1 DEF RunState
<1>4. ASSUME Proceed(r)
      PROVE  /\ \A q \in Runners \ {r} : run'[q] = run[q]
             /\ run'[r].pc = "drain" /\ run'[r].stop = NaturalStop(r)
             /\ run'[r].resp = run[r].resp /\ run'[r].turn = run[r].turn
             /\ run'[r].salvage = Salvageable(r)
  <2>1. /\ \A q \in Runners \ {r} : run'[q] = run[q]
        /\ run'[r] = [run[r] EXCEPT
               !.pc = "drain", !.stop = NaturalStop(r), !.salvage = Salvageable(r),
               !.salvaged = run[r].salvaged + (IF Salvageable(r) THEN 1 ELSE 0)]
    BY <1>1, <1>4 DEF Proceed
  <2> QED
    BY <1>1, <2>1 DEF RunState
<1> QED
  BY <1>2, <1>3, <1>4

\* Whatever step runner r takes, the others stay where they are, and r is in
\* its loop before and, unless it leaves, after.
LEMMA StepAlone ==
    ASSUME TypeOK, NEW r \in Runners, Step(r)
    PROVE  /\ \A q \in Runners \ {r} : run'[q] = run[q]
           /\ run[r].pc # "idle"
           /\ Leave(r) \/ (run'[r].pc # "idle" /\ running' = running)
           /\ buried' = buried
<1>1. run \in [Runners -> RunState]
  BY DEF TypeOK
<1>2. CASE Open(r) \/ Turn(r) \/ Call(r)
  BY <1>1, <1>2, Moved DEF Open, Turn, Call, At, Fail, Abandon, session
<1>3. CASE Poll(r) \/ Retry(r)
  BY <1>1, <1>3, Moved DEF Poll, Retry, At, Fail, Abandon
<1>4. CASE Inject(r)
  <2>1. CASE Abandon(r, Tail(run[r].pending))
    BY <1>1, <1>4, <2>1, Moved DEF Inject, At, Abandon
  <2>2. CASE run' = [run EXCEPT ![r].pending = Tail(@)]
    BY <1>1, <1>4, <2>2 DEF Inject, At, RunState
  <2> QED
    BY <1>4, <2>1, <2>2 DEF Inject
<1>5. CASE ModelReturns(r)
  BY <1>1, <1>5, Moved, Advanced DEF ModelReturns, At, Fail, Abandon
<1>6. CASE Tools(r)
  BY <1>1, <1>6, Moved, Advanced DEF Tools, At, Fail, Abandon
<1>7. CASE Decide(r)
  BY <1>1, <1>7, Moved, Advanced DEF Decide, At, Fail, session
<1>8. CASE DrainSteering(r) \/ DrainFollowUps(r)
  BY <1>1, <1>8, Moved DEF DrainSteering, DrainFollowUps, At
<1>9. CASE Leave(r)
  BY <1>1, <1>9 DEF Leave, At
<1> QED
  BY <1>2, <1>3, <1>4, <1>5, <1>6, <1>7, <1>8, <1>9 DEF Step

\* What the others do to the session moves no run and takes it for none.
LEMMA OthersApart ==
    ASSUME Send \/ Clear \/ Resolve \/ Ask \/ Answer \/ UNCHANGED vars
    PROVE  run' = run /\ running' = running
BY DEF Send, Clear, Resolve, Ask, Answer, vars, session

\* One run holds the session, through every step.
LEMMA HolderStep ==
    ASSUME TypeOK, Holder, [Next]_vars
    PROVE  Holder'
<1>1. CASE Send \/ Clear \/ Resolve \/ Ask \/ Answer \/ UNCHANGED vars
  BY <1>1, OthersApart DEF Holder
<1>2. ASSUME NEW r \in Runners, Begin(r)
      PROVE  Holder'
  <2>1. running' /\ run'[r].pc = "started" /\ \A q \in Runners \ {r} : run'[q] = run[q]
    BY <1>2 DEF Begin, Goto, TypeOK, RunState
  <2> QED
    BY <1>2, <2>1 DEF Holder, Begin
<1>3. ASSUME NEW r \in Runners, Step(r)
      PROVE  Holder'
  <2>1. running /\ \A q \in Runners \ {r} : run'[q] = run[q] /\ run[q].pc = "idle"
    BY <1>3, StepAlone DEF Holder
  <2>2. CASE Leave(r)
    BY <2>1, <2>2 DEF Holder, Leave, Idle, TypeOK
  <2>3. CASE run'[r].pc # "idle" /\ running' = running
    BY <2>1, <2>3 DEF Holder
  <2> QED
    BY <1>3, <2>2, <2>3, StepAlone
<1> QED
  BY <1>1, <1>2, <1>3 DEF Next

\* A run goes on to another turn only below the limit.
LEMMA TurnStep ==
    ASSUME TypeOK, TurnLeft, [Next]_vars
    PROVE  TurnLeft'
<1>1. CASE Send \/ Clear \/ Resolve \/ Ask \/ Answer \/ UNCHANGED vars
  BY <1>1, OthersApart DEF TurnLeft
<1>2. ASSUME NEW r \in Runners, Begin(r)
      PROVE  TurnLeft'
  BY <1>2 DEF TurnLeft, TypeOK, RunState, Begin, At, Goto
<1>3. ASSUME NEW r \in Runners, Step(r)
      PROVE  TurnLeft'
  <2> SUFFICES /\ run'[r].pc \in {"idle", "started", "poll"} => run'[r].turn = 0
               /\ run'[r].pc \in {"drain", "followups"} => run'[r].turn < MaxTurns
    BY <1>3, StepAlone DEF TurnLeft
  <2>1. run \in [Runners -> RunState] /\ run[r] \in RunState
    BY DEF TypeOK
  <2>2. CASE Open(r) \/ Turn(r) \/ Call(r)
    BY <2>1, <2>2, Moved DEF TurnLeft, Open, Turn, Call, At, Fail, Abandon
  <2>3. CASE Poll(r) \/ Retry(r)
    BY <2>1, <2>3, Moved DEF TurnLeft, Poll, Retry, At, Fail, Abandon
  <2>4. CASE Inject(r)
    <3>1. CASE Abandon(r, Tail(run[r].pending))
      BY <2>1, <2>4, <3>1, Moved DEF TurnLeft, Abandon
    <3>2. CASE run' = [run EXCEPT ![r].pending = Tail(@)]
      BY <2>1, <2>4, <3>2 DEF TurnLeft, Inject, At, RunState
    <3> QED
      BY <2>4, <3>1, <3>2 DEF Inject
  <2>5. CASE ModelReturns(r)
    BY <2>1, <2>5, Moved, Advanced DEF TurnLeft, ModelReturns, At, Fail, Abandon
  <2>6. CASE Tools(r)
    BY <2>1, <2>6, Moved, Advanced DEF TurnLeft, Tools, At, Fail, Abandon
  <2>7. CASE Decide(r)
    BY <2>1, <2>7, Moved, Advanced DEF TurnLeft, Decide, At, Fail
  <2>8. CASE DrainSteering(r) \/ DrainFollowUps(r)
    BY <2>1, <2>8, Moved DEF TurnLeft, DrainSteering, DrainFollowUps, At, Natural
  <2>9. CASE Leave(r)
    BY <2>1, <2>9 DEF Leave, Idle
  <2> QED
    BY <1>3, <2>2, <2>3, <2>4, <2>5, <2>6, <2>7, <2>8, <2>9 DEF Step
<1> QED
  BY <1>1, <1>2, <1>3 DEF Next

\* An answer with text that is cut off is continued or ends the run as truncated.
LEMMA WholeStep ==
    ASSUME TypeOK, Whole, [Next]_vars
    PROVE  Whole'
<1>1. CASE Send \/ Clear \/ Resolve \/ Ask \/ Answer \/ UNCHANGED vars
  BY <1>1, OthersApart DEF Whole
<1>2. ASSUME NEW r \in Runners, Begin(r)
      PROVE  Whole'
  BY <1>2 DEF Whole, TypeOK, RunState, Begin, At, Goto
<1>3. ASSUME NEW r \in Runners, Step(r)
      PROVE  Whole'
  <2> SUFFICES ASSUME run'[r].stop = "end_turn"
               PROVE  /\ run'[r].pc \in {"decide", "drain", "followups", "leave"}
                      /\ run'[r].resp.calls = 0
                      /\ run'[r].pc \in {"drain", "followups"} /\ run'[r].resp.cut
                            /\ run'[r].resp.text => run'[r].salvage
                      /\ run'[r].pc = "leave" => ~(run'[r].resp.cut /\ run'[r].resp.text)
    BY <1>3, StepAlone DEF Whole
  <2>1. run \in [Runners -> RunState] /\ run[r] \in RunState
    BY DEF TypeOK
  <2>2. CASE Open(r) \/ Turn(r) \/ Call(r)
    BY <2>1, <2>2, Moved DEF Whole, Open, Turn, Call, At, Fail, Abandon
  <2>3. CASE Poll(r) \/ Retry(r)
    BY <2>1, <2>3, Moved DEF Whole, Poll, Retry, At, Fail, Abandon
  <2>4. CASE Inject(r)
    <3>1. CASE Abandon(r, Tail(run[r].pending))
      BY <2>1, <2>4, <3>1, Moved DEF Whole, Abandon
    <3>2. CASE run' = [run EXCEPT ![r].pending = Tail(@)]
      BY <2>1, <2>4, <3>2 DEF Whole, Inject, At, RunState
    <3> QED
      BY <2>4, <3>1, <3>2 DEF Inject
  <2>5. CASE ModelReturns(r)
    BY <2>1, <2>5, Moved, Advanced DEF Whole, ModelReturns, At, Fail, Abandon
  <2>6. CASE Tools(r)
    BY <2>1, <2>6, Moved, Advanced DEF Whole, Tools, At, Fail, Abandon
  <2>7. CASE Decide(r)
    <3>1. CASE Fail(r) \/ ShouldStop(r)
      BY <2>1, <3>1, Moved DEF Fail
    <3>2. CASE ~Salvageable(r) /\ Finish(r, NaturalStop(r))
      BY <2>1, <3>2, Moved DEF Whole, NaturalStop, LengthTruncated
    <3>3. CASE Proceed(r)
      BY <2>1, <3>3, Advanced DEF Whole, NaturalStop, LengthTruncated
    <3> QED
      BY <2>7, <3>1, <3>2, <3>3 DEF Decide
  <2>8. CASE DrainSteering(r) \/ DrainFollowUps(r)
    BY <2>1, <2>8, Moved DEF Whole, DrainSteering, DrainFollowUps, At, Natural
  <2>9. CASE Leave(r)
    BY <2>1, <2>9 DEF Leave, Idle
  <2> QED
    BY <1>3, <2>2, <2>3, <2>4, <2>5, <2>6, <2>7, <2>8, <2>9 DEF Step
<1> QED
  BY <1>1, <1>2, <1>3 DEF Next

-----------------------------------------------------------------------------
(* Calls and their results.                                                *)

\* What a step appends: nothing; a user message, in a run that has found no
\* call open or behind the calls it buries; a response; the results of the
\* calls that are executed; or results somebody gives while no run does.
HistoryStep ==
    \/ history' = history
    \/ /\ \E m \in Messages : history' = Append(history, User(m))
       /\ \/ \E r \in Runners : run[r].pc \in {"started", "inject"}
          \/ OpenCalls(history) \subseteq buried'
    \/ \E r \in Runners, n \in 0..MaxCalls :
          run[r].pc = "model" /\ history' = Append(history, Assistant(n))
    \/ \E r \in Runners, n \in Nat :
          /\ run[r].pc = "tools" /\ n <= run[r].resp.calls
          /\ history' = Append(history, Tool({run[r].resp.at} \X (1..n)))
    \/ \E some \in SUBSET Pending(history) :
          ~running /\ history' = Append(history, Tool(some))

\* The session's calls are only ever buried.
LEMMA HistorySteps ==
    ASSUME TypeOK, [Next]_vars
    PROVE  HistoryStep /\ buried \subseteq buried'
<1>1. CASE UNCHANGED vars \/ Clear \/ Ask
  BY <1>1 DEF HistoryStep, vars, session, Clear, Ask
<1>2. ASSUME NEW r \in Runners,
             \/ Begin(r) \/ Poll(r) \/ Turn(r) \/ Call(r) \/ Retry(r) \/ Decide(r)
             \/ DrainSteering(r) \/ DrainFollowUps(r) \/ Leave(r)
      PROVE  HistoryStep /\ buried \subseteq buried'
  BY <1>2 DEF HistoryStep, session, Begin, Poll, Turn, Call, Retry, Decide, DrainSteering,
              DrainFollowUps, Leave
<1>3. ASSUME NEW r \in Runners, Open(r)
      PROVE  HistoryStep /\ buried \subseteq buried'
  <2>1. history' = history \/ \E m \in Messages : history' = Append(history, User(m))
    <3>1. ASSUME NEW input \in {<<>>} \cup {<<m>> : m \in fresh},
                 history' = history \o [i \in DOMAIN input |-> User(input[i])]
          PROVE  history' = history \/ \E m \in Messages : history' = Append(history, User(m))
      <4>1. CASE input = <<>>
        BY <3>1, <4>1 DEF TypeOK
      <4>2. ASSUME NEW m \in fresh, input = <<m>>
            PROVE  history' = Append(history, User(m))
        <5>1. [i \in DOMAIN input |-> User(input[i])] = <<User(m)>>
          BY <4>2
        <5> QED
          BY <3>1, <5>1 DEF TypeOK
      <4> QED
        BY <3>1, <4>1, <4>2 DEF TypeOK
    <3> QED
      BY <1>3, <3>1 DEF Open
  <2> QED
    BY <1>3, <2>1 DEF HistoryStep, Open, At
<1>4. ASSUME NEW r \in Runners, Inject(r)
      PROVE  HistoryStep /\ buried \subseteq buried'
  <2>1. Head(run[r].pending) \in Messages
    BY <1>4 DEF TypeOK, RunState, Inject
  <2> QED
    BY <1>4, <2>1 DEF HistoryStep, Inject, At
<1>5. ASSUME NEW r \in Runners, ModelReturns(r)
      PROVE  HistoryStep /\ buried \subseteq buried'
  BY <1>5 DEF HistoryStep, ModelReturns, At
<1>6. ASSUME NEW r \in Runners, Tools(r)
      PROVE  HistoryStep /\ buried \subseteq buried'
  <2>1. run[r].resp.calls \in Nat
    BY DEF TypeOK, RunState
  <2>2. PICK n \in 0..run[r].resp.calls :
           history' = IF n = 0 THEN history
                      ELSE Append(history, Tool({run[r].resp.at} \X (1..n)))
    BY <1>6 DEF Tools
  <2> QED
    <3>1. run[r].pc = "tools" /\ buried' = buried
      BY <1>6 DEF Tools, At
    <3>2. CASE n = 0
      BY <2>2, <3>1, <3>2 DEF HistoryStep
    <3>3. CASE n # 0
      <4>1. n \in Nat /\ n <= run[r].resp.calls
        BY <2>1
      <4>2. history' = Append(history, Tool({run[r].resp.at} \X (1..n)))
        BY <2>2, <3>3
      <4> QED
        BY <3>1, <4>1, <4>2 DEF HistoryStep
    <3> QED
      BY <3>2, <3>3
<1>7. CASE Send
  <2>1. PICK m \in fresh : Steer(m) \/ Interject(m) \/ FollowUp(m) \/ AppendMessage(m)
    BY <1>7 DEF Send
  <2>2. m \in Messages
    BY DEF TypeOK
  <2>3. CASE AppendMessage(m)
    BY <2>2, <2>3 DEF HistoryStep, AppendMessage
  <2>4. CASE Steer(m) \/ Interject(m) \/ FollowUp(m)
    BY <2>4 DEF HistoryStep, Steer, Interject, FollowUp
  <2> QED
    BY <2>1, <2>3, <2>4
<1>8. CASE Resolve
  BY <1>8 DEF HistoryStep, Resolve
<1>9. CASE Answer
  BY <1>9 DEF HistoryStep, Answer
<1> QED
  BY <1>1, <1>2, <1>3, <1>4, <1>5, <1>6, <1>7, <1>8, <1>9 DEF Next, Step

\* Results of open calls are their first, and follow them.
LEMMA AnsweredStep ==
    ASSUME TypeOK, CallsAnsweredOnce, Executing, HistoryStep
    PROVE  CallsAnsweredOnce'
<1>1. history \in Seq(Message)
  BY DEF TypeOK
<1>2. ASSUME NEW x \in Message, history' = Append(history, x),
             x.role = "tool" => x.answers \subseteq OpenCalls(history)
      PROVE  CallsAnsweredOnce'
  <2>1. /\ DOMAIN history' = (DOMAIN history) \cup {Len(history) + 1}
        /\ history'[Len(history) + 1] = x
        /\ \A q \in DOMAIN history : history'[q] = history[q]
    BY <1>1, <1>2
  <2>2. \A q \in DOMAIN history : CallsAt(history', q) = CallsAt(history, q)
    BY <2>1 DEF CallsAt
  <2>3. \A p \in DOMAIN history : \A q \in 1..(p - 1) : q \in DOMAIN history
    BY <1>1
  <2>4. ASSUME NEW p \in DOMAIN history, history'[p].role = "tool"
        PROVE  /\ history'[p].answers \subseteq UNION {CallsAt(history', q) : q \in 1..(p - 1)}
               /\ \A q \in 1..(p - 1) : history'[q].role = "tool"
                     => history'[q].answers \cap history'[p].answers = {}
    BY <2>1, <2>2, <2>3, <2>4 DEF CallsAnsweredOnce
  <2>5. ASSUME x.role = "tool"
        PROVE  /\ x.answers \subseteq UNION {CallsAt(history', q) : q \in 1..Len(history)}
               /\ \A q \in 1..Len(history) : history'[q].role = "tool"
                     => history'[q].answers \cap x.answers = {}
    <3>1. \A c \in x.answers : c \in OpenCalls(history)
      BY <1>2, <2>5
    <3>2. \A q \in 1..Len(history) : q \in DOMAIN history
      BY <1>1
    <3>3. \A c \in x.answers : \E q \in DOMAIN history : c \in CallsAt(history, q)
      BY <1>1, <3>1, OpenCall
    <3>4. \A c \in x.answers : \A q \in DOMAIN history :
             history[q].role = "tool" => c \notin history[q].answers
      BY <1>1, <3>1, OpenCall
    <3>5. DOMAIN history = 1..Len(history)
      BY <1>1
    <3> QED
      BY <2>1, <2>2, <3>3, <3>4, <3>5
  <2>6. (Len(history) + 1) - 1 = Len(history)
    BY <1>1
  <2> QED
    BY <2>1, <2>4, <2>5, <2>6 DEF CallsAnsweredOnce
<1>3. CASE history' = history
  BY <1>3 DEF CallsAnsweredOnce, CallsAt
<1>4. ASSUME NEW m \in Messages, history' = Append(history, User(m))
      PROVE  CallsAnsweredOnce'
  <2>1. User(m) \in Message /\ User(m).role = "user"
    BY DEF Message, User
  <2> QED
    BY <1>2, <1>4, <2>1
<1>5. ASSUME NEW n \in 0..MaxCalls, history' = Append(history, Assistant(n))
      PROVE  CallsAnsweredOnce'
  <2>1. Assistant(n) \in Message /\ Assistant(n).role = "assistant"
    BY DEF Message, Assistant
  <2> QED
    BY <1>2, <1>5, <2>1
<1>6. ASSUME NEW some \in SUBSET OpenCalls(history), history' = Append(history, Tool(some))
      PROVE  CallsAnsweredOnce'
  <2>1. some \subseteq Nat \X (1..MaxCalls)
    BY <1>1, OpenCall, CallHere
  <2>2. Tool(some) \in Message /\ Tool(some).answers = some
    BY <2>1 DEF Message, Tool
  <2> QED
    BY <1>2, <1>6, <2>2
<1>7. ASSUME NEW r \in Runners, NEW n \in Nat,
             run[r].pc = "tools", n <= run[r].resp.calls
      PROVE  {run[r].resp.at} \X (1..n) \subseteq OpenCalls(history)
  <2> DEFINE at == run[r].resp.at
  <2>1. /\ at \in DOMAIN history /\ history[at] = Assistant(run[r].resp.calls)
        /\ \A q \in DOMAIN history : history[q].role = "tool" =>
              \A c \in history[q].answers : c[1] # at
    BY <1>7 DEF Executing
  <2>2. run[r].resp.calls \in Nat
    BY DEF TypeOK, RunState
  <2>3. history[at].role = "assistant" /\ history[at].calls = run[r].resp.calls
    BY <2>1 DEF Assistant
  <2> SUFFICES ASSUME NEW c \in {at} \X (1..n)
               PROVE  c \in OpenCalls(history)
    OBVIOUS
  <2>4. c[1] = at /\ c \in CallsAt(history, at)
    BY <1>7, <2>2, <2>3 DEF CallsAt
  <2> QED
    BY <1>1, <2>1, <2>4, OpenCall
<1> QED
  BY <1>3, <1>4, <1>5, <1>6, <1>7, PendingAreOpen DEF HistoryStep

\* The calls to execute stay where they are, and are new when they come.
LEMMA ExecutingStep ==
    ASSUME TypeOK, Holder, CallsAnsweredOnce, Executing, [Next]_vars
    PROVE  Executing'
<1>1. history \in Seq(Message) /\ run \in [Runners -> RunState]
  BY DEF TypeOK
<1>2. ASSUME NEW x \in Message, history' = Append(history, x)
      PROVE  /\ DOMAIN history' = (DOMAIN history) \cup {Len(history) + 1}
             /\ history'[Len(history) + 1] = x
             /\ \A q \in DOMAIN history : history'[q] = history[q]
  BY <1>1, <1>2
<1>3. \A m \in Messages : User(m) \in Message /\ User(m).role = "user"
  BY DEF Message, User
<1>4. ASSUME NEW m \in Messages, history' = history \/ history' = Append(history, User(m)),
             NEW r \in Runners, run[r].pc = "tools"
      PROVE  LET at == run[r].resp.at IN
             /\ at \in DOMAIN history' /\ history'[at] = Assistant(run[r].resp.calls)
             /\ \A q \in DOMAIN history' : history'[q].role = "tool" =>
                   \A c \in history'[q].answers : c[1] # at
  BY <1>2, <1>3, <1>4 DEF Executing
<1>5. CASE Clear \/ Ask \/ UNCHANGED vars
  <2>1. history' = history /\ run' = run
    BY <1>5 DEF Clear, Ask, vars, session
  <2> QED
    BY <2>1 DEF Executing
<1>6. CASE Resolve \/ Answer
  <2>1. run' = run /\ (history' = history \/ ~running)
    BY <1>6 DEF Resolve, Answer
  <2> QED
    BY <2>1 DEF Executing, Holder
<1>7. CASE Send
  <2>1. PICK m \in fresh : Steer(m) \/ Interject(m) \/ FollowUp(m) \/ AppendMessage(m)
    BY <1>7 DEF Send
  <2>2. m \in Messages /\ run' = run
    BY <1>7 DEF TypeOK, Send
  <2>3. history' = history \/ history' = Append(history, User(m))
    BY <2>1 DEF Steer, Interject, FollowUp, AppendMessage
  <2> QED
    BY <1>4, <2>2, <2>3 DEF Executing
<1>8. ASSUME NEW r \in Runners, Begin(r)
      PROVE  Executing'
  <2>1. \A q \in Runners : run'[q].pc # "tools"
    BY <1>1, <1>8, Moved DEF Begin, Holder
  <2> QED
    BY <2>1 DEF Executing
<1>9. ASSUME NEW r \in Runners, Step(r)
      PROVE  Executing'
  <2>1. \A q \in Runners \ {r} : run'[q].pc = "idle"
    BY <1>9, StepAlone DEF Holder
  <2>2. CASE ~ModelReturns(r)
    <3>1. run'[r].pc # "tools"
      <4>1. CASE Inject(r)
        <5>1. CASE Abandon(r, Tail(run[r].pending))
          BY <1>1, <5>1, Moved DEF Abandon
        <5>2. CASE run' = [run EXCEPT ![r].pending = Tail(@)]
          BY <1>1, <4>1, <5>2 DEF Inject, At, RunState
        <5> QED
          BY <4>1, <5>1, <5>2 DEF Inject
      <4>2. CASE Leave(r)
        BY <1>1, <4>2 DEF Leave, Idle
      <4>3. CASE Open(r) \/ Poll(r) \/ Turn(r) \/ Call(r) \/ Retry(r)
        BY <1>1, <4>3, Moved DEF Open, Poll, Turn, Call, Retry, Fail, Abandon
      <4>4. CASE Tools(r) \/ Decide(r)
        BY <1>1, <4>4, Moved, Advanced DEF Tools, Decide, Fail, Abandon
      <4>5. CASE DrainSteering(r) \/ DrainFollowUps(r)
        BY <1>1, <4>5, Moved DEF DrainSteering, DrainFollowUps
      <4> QED
        BY <1>9, <2>2, <4>1, <4>2, <4>3, <4>4, <4>5 DEF Step
    <3> QED
      BY <2>1, <3>1 DEF Executing
  <2>3. CASE ModelReturns(r)
    <3>1. SUFFICES ASSUME run'[r].pc = "tools"
                   PROVE  LET at == run'[r].resp.at IN
                          /\ at \in DOMAIN history'
                          /\ history'[at] = Assistant(run'[r].resp.calls)
                          /\ \A q \in DOMAIN history' : history'[q].role = "tool" =>
                                \A c \in history'[q].answers : c[1] # at
      BY <2>1 DEF Executing
    <3>2. PICK n \in 0..MaxCalls, text \in BOOLEAN, cut \in BOOLEAN :
             /\ history' = Append(history, Assistant(n))
             /\ Answered(r, [calls |-> n, text |-> text, cut |-> cut, at |-> Len(history) + 1])
      BY <1>1, <2>3, <3>1, Moved DEF ModelReturns, Fail, Abandon
    <3>3. run'[r].resp = [calls |-> n, text |-> text, cut |-> cut, at |-> Len(history) + 1]
      BY <1>1, <3>2, Advanced
    <3>4. Assistant(n) \in Message /\ Assistant(n).role = "assistant"
      BY DEF Message, Assistant
    <3>5. ASSUME NEW q \in DOMAIN history, history[q].role = "tool",
                 NEW c \in history[q].answers
          PROVE  c[1] # Len(history) + 1
      <4>1. PICK i \in 1..(q - 1) : c \in CallsAt(history, i)
        BY <3>5 DEF CallsAnsweredOnce
      <4>2. i \in DOMAIN history
        BY <1>1
      <4>3. c[1] = i
        BY <1>1, <4>1, <4>2, CallHere
      <4> QED
        BY <1>1, <4>2, <4>3
    <3> QED
      BY <1>2, <3>2, <3>3, <3>4, <3>5
  <2> QED
    BY <2>2, <2>3
<1> QED
  BY <1>5, <1>6, <1>7, <1>8, <1>9 DEF Next

\* A call that is opened or not answered is found, unless it is buried.
LEMMA OpenFoundStep ==
    ASSUME TypeOK, OpenFound, OpenHeld, HistoryStep, buried \subseteq buried'
    PROVE  OpenFound'
<1>1. history \in Seq(Message)
  BY DEF TypeOK
<1>2. CASE history' = history
  BY <1>2 DEF OpenFound, OpenCalls, Pending, CallsAt, AnsweredFrom
<1>3. ASSUME NEW m \in Messages, history' = Append(history, User(m)),
             \/ \E r \in Runners : run[r].pc \in {"started", "inject"}
             \/ OpenCalls(history) \subseteq buried'
      PROVE  OpenFound'
  <2>1. OpenCalls(history) \subseteq buried'
    BY <1>3 DEF OpenHeld
  <2>2. OpenCalls(history') = OpenCalls(history)
    BY <1>1, <1>3, UserAppended
  <2> QED
    BY <2>1, <2>2 DEF OpenFound
<1>4. ASSUME NEW r \in Runners, NEW n \in 0..MaxCalls, run[r].pc = "model",
             history' = Append(history, Assistant(n))
      PROVE  OpenFound'
  <2>1. OpenCalls(history) \subseteq buried'
    BY <1>4 DEF OpenHeld
  <2> QED
    BY <1>1, <1>4, <2>1, AssistantAppended DEF OpenFound
<1>5. ASSUME NEW some \in SUBSET (Nat \X (1..MaxCalls)), history' = Append(history, Tool(some))
      PROVE  OpenFound'
  BY <1>1, <1>5, ToolAppended DEF OpenFound
<1>6. ASSUME NEW r \in Runners, NEW n \in Nat, n <= run[r].resp.calls
      PROVE  {run[r].resp.at} \X (1..n) \subseteq Nat \X (1..MaxCalls)
  BY <1>6, RunAssumption DEF TypeOK, RunState
<1> QED
  BY <1>1, <1>2, <1>3, <1>4, <1>5, <1>6, PendingTyped DEF HistoryStep

\* A run begins with no call open, and ends where it leaves one open.
LEMMA OpenHeldStep ==
    ASSUME TypeOK, Holder, OpenFound, OpenHeld, HistoryStep, buried \subseteq buried', [Next]_vars
    PROVE  OpenHeld'
<1>1. history \in Seq(Message) /\ run \in [Runners -> RunState]
  BY DEF TypeOK
<1>2. ASSUME \/ history' = history
             \/ \E m \in Messages : history' = Append(history, User(m))
      PROVE  OpenCalls(history') = OpenCalls(history)
  BY <1>1, <1>2, UserAppended
<1>3. CASE Clear \/ Ask \/ UNCHANGED vars
  <2>1. history' = history /\ run' = run
    BY <1>3 DEF Clear, Ask, vars, session
  <2>2. OpenCalls(history') = OpenCalls(history)
    BY <2>1, <1>2
  <2> QED
    BY <2>1, <2>2 DEF OpenHeld
<1>4. CASE Resolve \/ Answer
  <2>1. run' = run /\ (history' = history \/ ~running)
    BY <1>4 DEF Resolve, Answer
  <2>2. CASE history' = history
    BY <1>2, <2>1, <2>2 DEF OpenHeld
  <2>3. CASE ~running
    BY <2>1, <2>3 DEF OpenHeld, Holder
  <2> QED
    BY <2>1, <2>2, <2>3
<1>5. CASE Send
  <2>1. PICK m \in fresh : Steer(m) \/ Interject(m) \/ FollowUp(m) \/ AppendMessage(m)
    BY <1>5 DEF Send
  <2>2. m \in Messages /\ run' = run
    BY <1>5 DEF TypeOK, Send
  <2>3. history' = history \/ history' = Append(history, User(m))
    BY <2>1 DEF Steer, Interject, FollowUp, AppendMessage
  <2>4. OpenCalls(history') = OpenCalls(history)
    BY <1>2, <2>2, <2>3
  <2> QED
    BY <2>2, <2>4 DEF OpenHeld
<1>6. ASSUME NEW r \in Runners, Begin(r)
      PROVE  OpenHeld'
  <2>1. run'[r].pc = "started" /\ \A q \in Runners \ {r} : run'[q].pc = "idle"
    BY <1>1, <1>6, Moved DEF Begin, Holder
  <2>2. OpenCalls(history') \subseteq buried'
    BY <1>2, <1>6 DEF Begin, OpenFound
  <2> QED
    BY <2>1, <2>2 DEF OpenHeld
<1>7. ASSUME NEW r \in Runners, Step(r)
      PROVE  OpenHeld'
  <2>1. \A q \in Runners \ {r} : run'[q].pc = "idle"
    BY <1>7, StepAlone DEF Holder
  <2>2. CASE Open(r) \/ Inject(r)
    <3>1. run[r].pc \in {"started", "inject"} /\ run'[r].pc # "tools"
      <4>1. CASE Inject(r) /\ ~Abandon(r, Tail(run[r].pending))
        BY <1>1, <4>1 DEF Inject, At, RunState
      <4>2. CASE Open(r)
        BY <1>1, <4>2, Moved DEF Open, Fail, Abandon, At
      <4>3. CASE Inject(r) /\ Abandon(r, Tail(run[r].pending))
        BY <1>1, <4>3, Moved DEF Inject, Abandon, At
      <4> QED
        BY <2>2, <4>1, <4>2, <4>3
    <3>2. history' = history \/ \E m \in Messages : history' = Append(history, User(m))
      BY <1>7, <3>1, StepAlone DEF HistoryStep, Holder
    <3>3. OpenCalls(history') \subseteq buried'
      BY <1>2, <3>1, <3>2 DEF OpenHeld
    <3> QED
      BY <2>1, <3>1, <3>3 DEF OpenHeld
  <2>3. CASE Poll(r) \/ Turn(r) \/ Call(r) \/ Retry(r) \/ Decide(r)
             \/ DrainSteering(r) \/ DrainFollowUps(r)
    <3>1. history' = history /\ run[r].pc \notin {"idle", "tools", "leave"}
      BY <2>3 DEF Poll, Turn, Call, Retry, Decide, DrainSteering, DrainFollowUps, At, session
    <3>2. run'[r].pc # "tools"
      <4>1. CASE Poll(r) \/ Turn(r) \/ Call(r) \/ Retry(r)
        BY <1>1, <4>1, Moved DEF Poll, Turn, Call, Retry, Fail, Abandon
      <4>2. CASE Decide(r)
        BY <1>1, <4>2, Moved, Advanced DEF Decide, Fail
      <4>3. CASE DrainSteering(r) \/ DrainFollowUps(r)
        BY <1>1, <4>3, Moved DEF DrainSteering, DrainFollowUps
      <4> QED
        BY <2>3, <4>1, <4>2, <4>3
    <3>3. OpenCalls(history') \subseteq buried'
      BY <1>2, <3>1 DEF OpenHeld
    <3> QED
      BY <2>1, <3>2, <3>3 DEF OpenHeld
  <2>4. CASE ModelReturns(r)
    <3>1. run[r].pc = "model"
      BY <2>4 DEF ModelReturns, At
    <3>2. OpenCalls(history) \subseteq buried'
      BY <3>1 DEF OpenHeld
    <3>3. CASE history' = history /\ run'[r].pc # "tools"
      BY <2>1, <3>2, <3>3 DEF OpenHeld
    <3>4. CASE run'[r].pc = "leave"
      BY <2>1, <3>4 DEF OpenHeld
    <3>5. ASSUME NEW n \in 0..MaxCalls, NEW text, NEW cut,
                 history' = Append(history, Assistant(n)),
                 Answered(r, [calls |-> n, text |-> text, cut |-> cut, at |-> Len(history) + 1])
          PROVE  OpenHeld'
      <4>1. OpenCalls(history') \subseteq buried' \cup ({Len(history) + 1} \X (1..n))
        BY <1>1, <3>2, <3>5, AssistantAppended
      <4>2. /\ run'[r].resp = [calls |-> n, text |-> text, cut |-> cut, at |-> Len(history) + 1]
            /\ run'[r].pc = IF n = 0 THEN "decide" ELSE "tools"
        BY <1>1, <3>5, Advanced
      <4>3. run'[r].resp.calls = n /\ run'[r].resp.at = Len(history) + 1
        BY <4>2
      <4>4. n = 0 => {Len(history) + 1} \X (1..n) = {}
        OBVIOUS
      <4> QED
        BY <2>1, <4>1, <4>2, <4>3, <4>4 DEF OpenHeld
    <3> QED
      BY <1>1, <2>4, <3>3, <3>4, <3>5, Moved DEF ModelReturns, Fail, Abandon
  <2>5. CASE Tools(r)
    <3>1. run[r].pc = "tools" /\ run[r] \in RunState
      BY <1>1, <2>5 DEF Tools, At
    <3>2. CASE run'[r].pc = "leave"
      BY <2>1, <3>2 DEF OpenHeld
    <3>3. CASE run'[r].pc # "leave"
      <4> DEFINE own == {run[r].resp.at} \X (1..run[r].resp.calls)
      <4>1. /\ run'[r].pc = "decide"
            /\ history' = IF run[r].resp.calls = 0 THEN history ELSE Append(history, Tool(own))
        BY <1>1, <2>5, <3>3, Moved, Advanced DEF Tools, Fail, Abandon
      <4>2. own \subseteq Nat \X (1..MaxCalls)
        BY <3>1, RunAssumption DEF RunState
      <4>3. run[r].resp.calls = 0 => own = {}
        OBVIOUS
      <4>4. OpenCalls(history) \subseteq buried' \cup own
        BY <3>1 DEF OpenHeld
      <4> HIDE DEF own
      <4>5. OpenCalls(history') \subseteq buried'
        BY <1>1, <4>1, <4>2, <4>3, <4>4, ToolAppended
      <4> QED
        BY <2>1, <4>1, <4>5 DEF OpenHeld
    <3> QED
      BY <3>2, <3>3
  <2>6. CASE Leave(r)
    BY <1>1, <2>1, <2>6 DEF Leave, Idle, OpenHeld
  <2> QED
    BY <1>7, <2>2, <2>3, <2>4, <2>5, <2>6 DEF Step
<1> QED
  BY <1>3, <1>4, <1>5, <1>6, <1>7 DEF Next

-----------------------------------------------------------------------------
(* The theorems.                                                           *)

\* The loop and the session start in the invariant and stay in it.
THEOREM Invariant == Spec => []IInv
<1>1. Init => IInv
  <2> SUFFICES ASSUME Init
               PROVE  IInv
    OBVIOUS
  <2>1. Idle \in RunState
    BY Literals, RunAssumption DEF RunState, Idle, NoResponse
  <2>2. TypeOK
    <3>1. <<>> \in Seq(Message) /\ <<>> \in Seq(Messages)
      OBVIOUS
    <3>2. run \in [Runners -> RunState]
      BY <2>1 DEF Init
    <3>3. runs \in 0..MaxRuns
      BY RunAssumption DEF Init
    <3> QED
      BY <3>1, <3>2, <3>3 DEF Init, TypeOK
  <2>3. \A r \in Runners : run[r] = Idle
    BY DEF Init
  <2>4. TurnLeft /\ Holder /\ Whole /\ Executing
    BY <2>3 DEF Init, TurnLeft, Holder, Whole, Executing, Idle
  <2>5. CallsAnsweredOnce /\ OpenCalls(history) = {}
    BY DEF Init, CallsAnsweredOnce, OpenCalls
  <2>6. OpenFound /\ OpenHeld
    BY <2>5 DEF OpenFound, OpenHeld
  <2> QED
    BY <2>2, <2>4, <2>5, <2>6 DEF IInv
<1>2. IInv /\ [Next]_vars => IInv'
  <2> SUFFICES ASSUME IInv, [Next]_vars
               PROVE  IInv'
    OBVIOUS
  <2>1. HistoryStep /\ buried \subseteq buried'
    BY HistorySteps DEF IInv
  <2>2. TypeOK' /\ TurnLeft' /\ Holder' /\ Whole'
    BY TypeStep, TurnStep, HolderStep, WholeStep DEF IInv
  <2>3. CallsAnsweredOnce' /\ Executing'
    BY <2>1, AnsweredStep, ExecutingStep DEF IInv
  <2>4. OpenFound' /\ OpenHeld'
    BY <2>1, OpenFoundStep, OpenHeldStep DEF IInv
  <2> QED
    BY <2>2, <2>3, <2>4 DEF IInv
<1> QED
  BY <1>1, <1>2, PTL DEF Spec

\* Every variable has its type, and no run takes more turns than its limit.
THEOREM TypeCorrect == Spec => []TypeOK
<1>1. IInv => TypeOK
  BY DEF IInv
<1> QED
  BY <1>1, Invariant, PTL

\* However runs, resolutions and callbacks without the lock interleave, a call
\* has at most one result, and it follows the call.
THEOREM OneResultPerCall == Spec => []CallsAnsweredOnce
<1>1. IInv => CallsAnsweredOnce
  BY DEF IInv
<1> QED
  BY <1>1, Invariant, PTL

\* No run whose last answer has text and was cut off stops as end_turn.
THEOREM TruncationReported == Spec => []TruncatedNeverSucceeds
<1>1. IInv => TruncatedNeverSucceeds
  BY DEF IInv, Whole, TruncatedNeverSucceeds
<1> QED
  BY <1>1, Invariant, PTL

\* The session is running exactly while one run is between its begin and end.
THEOREM SessionExclusive == Spec => []OneRunHoldsSession
<1>1. IInv => OneRunHoldsSession
  <2> SUFFICES ASSUME IInv
               PROVE  OneRunHoldsSession
    OBVIOUS
  <2> DEFINE active == {r \in Runners : run[r].pc # "idle"}
  <2>1. CASE ~running
    <3>1. active = {}
      BY <2>1 DEF IInv, Holder
    <3> QED
      BY <2>1, <3>1, FS_EmptySet DEF OneRunHoldsSession
  <2>2. CASE running
    <3>1. PICK r \in Runners : active = {r}
      BY <2>2 DEF IInv, Holder
    <3> QED
      BY <2>2, <3>1, FS_Singleton DEF OneRunHoldsSession
  <2> QED
    BY <2>1, <2>2
<1> QED
  BY <1>1, Invariant, PTL

\* No model call sees an open tool call that no caller has buried.
THEOREM OpenCallsHeldBack == Spec => OpenCallsStopRuns
<1>1. IInv /\ [Next]_vars
         => [\A r \in Runners : run[r].pc # "model" /\ run'[r].pc = "model"
               => OpenCalls(history) \subseteq buried]_vars
  <2> SUFFICES ASSUME IInv, [Next]_vars, NEW r \in Runners,
                      run[r].pc # "model", run'[r].pc = "model"
               PROVE  OpenCalls(history) \subseteq buried
    OBVIOUS
  <2>1. run \in [Runners -> RunState] /\ TypeOK
    BY DEF IInv, TypeOK
  <2>2. PICK q \in Runners : Begin(q) \/ Step(q)
    BY OthersApart DEF Next
  <2>3. CASE Begin(q)
    BY <2>1, <2>3, Moved DEF Begin
  <2>4. CASE Step(q)
    <3>1. q = r
      BY <2>1, <2>4, StepAlone
    <3>2. run[r].pc \notin {"idle", "tools", "leave"}
      <4>1. ~Leave(r)
        BY <2>1 DEF Leave, Idle
      <4>2. ~Tools(r)
        BY <2>1, Moved, Advanced DEF Tools, Fail, Abandon
      <4> QED
        BY <2>1, <2>4, <3>1, <4>1, <4>2, StepAlone
           DEF Step, Open, Poll, Turn, Inject, Call, ModelReturns, Retry, Decide,
               DrainSteering, DrainFollowUps, At
    <3> QED
      BY <3>2 DEF IInv, OpenHeld
  <2> QED
    BY <2>2, <2>3, <2>4
<1> QED
  BY <1>1, Invariant, PTL DEF Spec, OpenCallsStopRuns

-----------------------------------------------------------------------------
(* Messages are kept.                                                      *)

\* The stores a message may be in: not given yet, given up, the two queues,
\* drained by a run for its turn, and the history.
DrainedNow == UNION {Range(run[r].pending) : r \in Runners}
Told == {m \in Messages : \E i \in DOMAIN history : history[i] = User(m)}

\* Each message is in one of them.
InOneStore ==
    \A m \in Messages :
        /\ \/ m \in fresh \/ m \in gone \/ m \in Range(steering) \/ m \in Range(followUps)
           \/ m \in DrainedNow \/ m \in Told
        /\ m \in fresh => m \notin gone
        /\ m \in fresh \/ m \in gone => m \notin Range(steering)
        /\ m \in fresh \/ m \in gone \/ m \in Range(steering) => m \notin Range(followUps)
        /\ m \in DrainedNow => m \notin fresh /\ m \notin gone
                             /\ m \notin Range(steering) /\ m \notin Range(followUps)
        /\ m \in Told => /\ m \notin fresh /\ m \notin gone /\ m \notin DrainedNow
                         /\ m \notin Range(steering) /\ m \notin Range(followUps)

\* None of them has it twice, and only a run that has not injected what it
\* drained has anything drained.
NoRepeats(s) == \A i, j \in DOMAIN s : s[i] = s[j] => i = j
Pendings ==
    \A r \in Runners :
        /\ NoRepeats(run[r].pending)
        /\ run[r].pending # <<>> => run[r].pc \in {"turn", "inject"}
ToldOnce ==
    \A i, j \in DOMAIN history :
        history[i] = history[j] /\ history[i].role = "user" => i = j

Kept ==
    /\ InOneStore /\ Pendings /\ ToldOnce
    /\ NoRepeats(steering) /\ NoRepeats(followUps)
KInv == IInv /\ Kept

\* Queues without repetitions, and what is taken from them and put in.
LEMMA QueueTail ==
    ASSUME NEW s \in Seq(Messages), s # <<>>, NoRepeats(s)
    PROVE  /\ Head(s) \in Messages /\ Tail(s) \in Seq(Messages) /\ NoRepeats(Tail(s))
           /\ Range(s) = {Head(s)} \cup Range(Tail(s)) /\ Head(s) \notin Range(Tail(s))
<1>1. /\ Len(s) \in Nat /\ Len(s) >= 1 /\ DOMAIN s = 1..Len(s)
      /\ Tail(s) \in Seq(Messages) /\ DOMAIN Tail(s) = 1..(Len(s) - 1)
      /\ \A i \in 1..(Len(s) - 1) : Tail(s)[i] = s[i + 1]
      /\ Head(s) = s[1]
  OBVIOUS
<1>2. NoRepeats(Tail(s))
  BY <1>1 DEF NoRepeats
<1>3. Head(s) \notin Range(Tail(s))
  BY <1>1 DEF NoRepeats, Range
<1>4. ASSUME NEW m
      PROVE  m \in Range(s) <=> m = Head(s) \/ m \in Range(Tail(s))
  <2>1. ASSUME NEW i \in 1..Len(s), s[i] = m
        PROVE  m = Head(s) \/ m \in Range(Tail(s))
    <3>1. CASE i = 1
      BY <1>1, <2>1, <3>1
    <3>2. CASE i # 1
      <4>1. i - 1 \in 1..(Len(s) - 1) /\ Tail(s)[i - 1] = m
        BY <1>1, <2>1, <3>2
      <4> QED
        BY <1>1, <4>1 DEF Range
    <3> QED
      BY <3>1, <3>2
  <2>2. m = Head(s) => m \in Range(s)
    BY <1>1 DEF Range
  <2>3. ASSUME NEW i \in 1..(Len(s) - 1), Tail(s)[i] = m
        PROVE  m \in Range(s)
    <3>1. i + 1 \in 1..Len(s) /\ s[i + 1] = m
      BY <1>1, <2>3
    <3> QED
      BY <1>1, <3>1 DEF Range
  <2> QED
    BY <1>1, <2>1, <2>2, <2>3 DEF Range
<1> QED
  BY <1>1, <1>2, <1>3, <1>4

LEMMA QueuePut ==
    ASSUME NEW s \in Seq(Messages), NoRepeats(s), NEW m \in Messages, m \notin Range(s)
    PROVE  /\ NoRepeats(Append(s, m)) /\ Range(Append(s, m)) = Range(s) \cup {m}
           /\ NoRepeats(<<m>> \o s) /\ Range(<<m>> \o s) = Range(s) \cup {m}
<1>1. /\ Len(s) \in Nat /\ DOMAIN s = 1..Len(s) /\ \A i \in 1..Len(s) : s[i] # m
  BY DEF Range
<1>2. NoRepeats(Append(s, m)) /\ Range(Append(s, m)) = Range(s) \cup {m}
  <2> DEFINE t == Append(s, m)
  <2>1. /\ DOMAIN t = 1..(Len(s) + 1) /\ t[Len(s) + 1] = m
        /\ \A i \in 1..Len(s) : t[i] = s[i]
    BY <1>1
  <2> HIDE DEF t
  <2>2. \A i \in 1..(Len(s) + 1) : i \in 1..Len(s) \/ i = Len(s) + 1
    BY <1>1
  <2>3. \A i \in 1..Len(s) : i \in 1..(Len(s) + 1) /\ i # Len(s) + 1
    BY <1>1
  <2>4. Len(s) + 1 \in 1..(Len(s) + 1)
    BY <1>1
  <2> QED
    BY <1>1, <2>1, <2>2, <2>3, <2>4 DEF NoRepeats, Range, t
<1>3. NoRepeats(<<m>> \o s) /\ Range(<<m>> \o s) = Range(s) \cup {m}
  <2> DEFINE t == <<m>> \o s
  <2>1. /\ DOMAIN t = 1..(Len(s) + 1) /\ t[1] = m
        /\ \A i \in 1..Len(s) : t[i + 1] = s[i]
    BY <1>1
  <2> HIDE DEF t
  <2>2. \A i \in 1..(Len(s) + 1) : i = 1 \/ (i - 1 \in 1..Len(s) /\ t[i] = s[i - 1])
    BY <1>1, <2>1
  <2>3. \A i \in 1..Len(s) : i + 1 \in 1..(Len(s) + 1)
    BY <1>1
  <2>4. 1 \in 1..(Len(s) + 1)
    BY <1>1
  <2>5. NoRepeats(t)
    <3> SUFFICES ASSUME NEW i \in 1..(Len(s) + 1), NEW j \in 1..(Len(s) + 1), t[i] = t[j]
                 PROVE  i = j
      BY <2>1 DEF NoRepeats
    <3>1. CASE i = 1 \/ j = 1
      BY <1>1, <2>1, <2>2, <3>1
    <3>2. CASE i # 1 /\ j # 1
      <4>1. i - 1 = j - 1
        BY <1>1, <2>2, <3>2 DEF NoRepeats
      <4> QED
        BY <4>1
    <3> QED
      BY <3>1, <3>2
  <2>6. Range(t) = Range(s) \cup {m}
    <3>1. ASSUME NEW x \in Range(t) PROVE x \in Range(s) \cup {m}
      <4>1. PICK i \in 1..(Len(s) + 1) : x = t[i]
        BY <2>1, <3>1 DEF Range
      <4> QED
        BY <1>1, <2>1, <2>2, <4>1 DEF Range
    <3>2. ASSUME NEW x \in Range(s) PROVE x \in Range(t)
      BY <1>1, <2>1, <2>3, <3>2 DEF Range
    <3>3. m \in Range(t)
      BY <2>1, <2>4 DEF Range
    <3> QED
      BY <3>1, <3>2, <3>3
  <2> QED
    BY <2>5, <2>6 DEF t
<1> QED
  BY <1>2, <1>3

\* A queue is what is drained of it and what is left.
LEMMA QueueSplit ==
    ASSUME NEW s \in Seq(Messages), NoRepeats(s)
    PROVE  /\ NoRepeats(Drained(s)) /\ NoRepeats(Rest(s))
           /\ Range(Rest(s)) = Range(s) \ Range(Drained(s)) /\ Range(Drained(s)) \subseteq Range(s)
<1>1. NoRepeats(<<>>) /\ Range(<<>>) = {}
  BY DEF NoRepeats, Range
<1>2. CASE DrainAll \/ s = <<>>
  BY <1>1, <1>2 DEF Drained, Rest
<1>3. CASE ~(DrainAll \/ s = <<>>)
  <2>1. Drained(s) = <<Head(s)>> /\ Rest(s) = Tail(s)
    BY <1>3 DEF Drained, Rest
  <2>2. NoRepeats(<<Head(s)>>) /\ Range(<<Head(s)>>) = {Head(s)}
    BY DEF NoRepeats, Range
  <2> QED
    BY <1>3, <2>1, <2>2, QueueTail
<1> QED
  BY <1>2, <1>3

\* What is appended to the history, and what of it is a message told.
LEMMA ToldAppended ==
    ASSUME TypeOK, ToldOnce, NEW x \in Message, history' = Append(history, x)
    PROVE  /\ x.role # "user" => Told' = Told /\ ToldOnce'
           /\ \A m \in Messages : x = User(m) =>
                 /\ Told' = Told \cup {m}
                 /\ m \notin Told => ToldOnce'
<1>1. /\ history \in Seq(Message) /\ Len(history) \in Nat
      /\ DOMAIN history = 1..Len(history)
  BY DEF TypeOK
<1>2. /\ DOMAIN history' = 1..(Len(history) + 1) /\ history'[Len(history) + 1] = x
      /\ \A i \in 1..Len(history) : history'[i] = history[i]
  BY <1>1
<1>3. /\ \A i \in 1..(Len(history) + 1) : i \in 1..Len(history) \/ i = Len(history) + 1
      /\ \A i \in 1..Len(history) : i \in 1..(Len(history) + 1)
      /\ Len(history) + 1 \in 1..(Len(history) + 1)
  BY <1>1
<1>4. \A m \in Messages : m \in Told' <=> m \in Told \/ x = User(m)
  BY <1>1, <1>2, <1>3 DEF Told
<1>5. ASSUME \A i \in 1..Len(history) : history[i] = x => x.role # "user"
      PROVE  ToldOnce'
  BY <1>1, <1>2, <1>3, <1>5 DEF ToldOnce
<1>6. ASSUME x.role # "user"
      PROVE  Told' = Told /\ ToldOnce'
  <2>1. \A m \in Messages : x # User(m)
    BY <1>6 DEF User
  <2> QED
    BY <1>4, <1>5, <1>6, <2>1 DEF Told
<1>7. ASSUME NEW m \in Messages, x = User(m)
      PROVE  /\ Told' = Told \cup {m}
             /\ m \notin Told => ToldOnce'
  <2>1. \A n \in Messages : User(n) = User(m) => n = m
    BY DEF User
  <2>2. Told' = Told \cup {m}
    BY <1>4, <1>7, <2>1 DEF Told
  <2>3. ASSUME m \notin Told
        PROVE  ToldOnce'
    BY <1>1, <1>5, <1>7, <2>3 DEF Told
  <2> QED
    BY <2>2, <2>3
<1> QED
  BY <1>6, <1>7

\* What the ways a run moves on do to what it has drained.
LEMMA PendingMoved ==
    ASSUME run \in [Runners -> RunState], NEW r \in Runners
    PROVE  /\ \A pc : Goto(r, pc) => run'[r].pending = run[r].pending /\ run'[r].pc = pc
           /\ \A reason : Finish(r, reason) => run'[r].pending = <<>>
           /\ ShouldStop(r) => run'[r].pending = <<>>
           /\ \A drained : NextTurn(r, drained) =>
                 run'[r].pending = drained /\ run'[r].pc = "turn"
           /\ \A resp : Answered(r, resp) => run'[r].pending = run[r].pending
           /\ \A stop : Executed(r, stop) => run'[r].pending = run[r].pending
           /\ Proceed(r) => run'[r].pending = run[r].pending
<1>1. run[r] \in RunState /\ DOMAIN run = Runners
  OBVIOUS
<1>2. ASSUME NEW reason, Finish(r, reason)
      PROVE  run'[r].pending = <<>>
  BY <1>1, <1>2 DEF Finish, RunState
<1>3. ShouldStop(r) => \E reason : Finish(r, reason)
  BY DEF ShouldStop
<1>4. ASSUME NEW drained, NextTurn(r, drained)
      PROVE  run'[r].pending = drained /\ run'[r].pc = "turn"
  BY <1>1, <1>4 DEF NextTurn, Idle
<1>5. ASSUME NEW pc, Goto(r, pc)
      PROVE  run'[r].pending = run[r].pending /\ run'[r].pc = pc
  BY <1>1, <1>5 DEF Goto, RunState
<1>6. ASSUME NEW resp, Answered(r, resp)
      PROVE  run'[r].pending = run[r].pending
  BY <1>1, <1>6 DEF Answered, RunState
<1>7. ASSUME NEW stop, Executed(r, stop)
      PROVE  run'[r].pending = run[r].pending
  BY <1>1, <1>7 DEF Executed, RunState
<1>8. ASSUME Proceed(r)
      PROVE  run'[r].pending = run[r].pending
  <2>1. run'[r] = [run[r] EXCEPT
               !.pc = "drain", !.stop = NaturalStop(r), !.salvage = Salvageable(r),
               !.salvaged = run[r].salvaged + (IF Salvageable(r) THEN 1 ELSE 0)]
    BY <1>1, <1>8 DEF Proceed
  <2> QED
    BY <1>1, <2>1 DEF RunState
<1> QED
  BY <1>2, <1>3, <1>4, <1>5, <1>6, <1>7, <1>8

\* While a run takes a step, nobody else has anything drained.
LEMMA OneDrains ==
    ASSUME KInv, NEW r \in Runners, Step(r)
    PROVE  /\ \A q \in Runners \ {r} : run'[q] = run[q] /\ run[q].pending = <<>>
           /\ DrainedNow = Range(run[r].pending) /\ DrainedNow' = Range(run'[r].pending)
           /\ run[r].pending \in Seq(Messages) /\ NoRepeats(run[r].pending)
           /\ run[r].pc \notin {"turn", "inject"} => run[r].pending = <<>>
           /\ Range(<<>>) = {}
<1>1. \A q \in Runners \ {r} : run'[q] = run[q] /\ run[q].pending = <<>>
  <2>1. TypeOK /\ Holder /\ Pendings
    BY DEF KInv, IInv, Kept
  <2> QED
    BY <2>1, StepAlone DEF Holder, Pendings
<1>2. Range(<<>>) = {}
  BY DEF Range
<1>3. DrainedNow = Range(run[r].pending) /\ DrainedNow' = Range(run'[r].pending)
  BY <1>1, <1>2 DEF DrainedNow
<1>4. /\ run[r].pending \in Seq(Messages) /\ NoRepeats(run[r].pending)
      /\ run[r].pc \notin {"turn", "inject"} => run[r].pending = <<>>
  BY DEF KInv, IInv, TypeOK, RunState, Kept, Pendings
<1> QED
  BY <1>1, <1>2, <1>3, <1>4

\* A step of a run that moves no message.
LEMMA QuietStep ==
    ASSUME KInv, NEW r \in Runners, Step(r),
           UNCHANGED <<fresh, gone, steering, followUps>>,
           \/ history' = history
           \/ \E x \in Message : x.role # "user" /\ history' = Append(history, x),
           run'[r].pending = run[r].pending,
           run[r].pending = <<>> \/ run'[r].pc \in {"turn", "inject"}
    PROVE  Kept'
<1>1. Told' = Told /\ ToldOnce'
  BY ToldAppended DEF KInv, IInv, Kept, Told, ToldOnce
<1>2. DrainedNow' = DrainedNow
  BY OneDrains
<1>3. InOneStore'
  BY <1>1, <1>2 DEF InOneStore, KInv, Kept
<1>4. Pendings'
  BY OneDrains DEF Pendings, KInv, Kept
<1> QED
  BY <1>1, <1>3, <1>4 DEF KInv, Kept

\* A step of a run that drains a queue for its next turn.
LEMMA DrainStep ==
    ASSUME KInv, NEW r \in Runners, Step(r), UNCHANGED <<fresh, gone, history>>,
           run[r].pending = <<>>, run'[r].pc = "turn",
           \/ /\ run'[r].pending = Drained(steering) /\ steering' = Rest(steering)
              /\ UNCHANGED followUps
           \/ /\ run'[r].pending = Drained(followUps) /\ followUps' = Rest(followUps)
              /\ UNCHANGED steering
    PROVE  Kept'
<1>1. Told' = Told /\ ToldOnce'
  BY DEF Told, ToldOnce, KInv, Kept
<1>2. /\ NoRepeats(Drained(steering)) /\ NoRepeats(Rest(steering))
      /\ NoRepeats(Drained(followUps)) /\ NoRepeats(Rest(followUps))
      /\ Range(Rest(steering)) = Range(steering) \ Range(Drained(steering))
      /\ Range(Drained(steering)) \subseteq Range(steering)
      /\ Range(Rest(followUps)) = Range(followUps) \ Range(Drained(followUps))
      /\ Range(Drained(followUps)) \subseteq Range(followUps)
  BY QueueSplit DEF KInv, IInv, TypeOK, Kept
<1>3. DrainedNow = {} /\ DrainedNow' = Range(run'[r].pending)
  BY OneDrains
<1>4. Pendings' /\ NoRepeats(steering)' /\ NoRepeats(followUps)'
  BY <1>2, OneDrains DEF Pendings, NoRepeats, KInv, Kept
<1>5. InOneStore'
  <2>1. CASE run'[r].pending = Drained(steering) /\ steering' = Rest(steering) /\ UNCHANGED followUps
    <3> DEFINE X == Range(Drained(steering))
    <3>1. X \subseteq Range(steering)
      BY <1>2
    <3>2. /\ fresh' = fresh /\ gone' = gone /\ Range(steering') = Range(steering) \ X
          /\ Range(followUps') = Range(followUps) /\ DrainedNow' = DrainedNow \cup X
          /\ Told' = Told /\ InOneStore
      BY <1>1, <1>2, <1>3, <2>1 DEF KInv, Kept
    <3> HIDE DEF X
    <3> QED
      BY <3>1, <3>2 DEF InOneStore
  <2>2. CASE run'[r].pending = Drained(followUps) /\ followUps' = Rest(followUps) /\ UNCHANGED steering
    <3> DEFINE X == Range(Drained(followUps))
    <3>1. X \subseteq Range(followUps)
      BY <1>2
    <3>2. /\ fresh' = fresh /\ gone' = gone /\ Range(followUps') = Range(followUps) \ X
          /\ Range(steering') = Range(steering) /\ DrainedNow' = DrainedNow \cup X
          /\ Told' = Told /\ InOneStore
      BY <1>1, <1>2, <1>3, <2>2 DEF KInv, Kept
    <3> HIDE DEF X
    <3> QED
      BY <3>1, <3>2 DEF InOneStore
  <2> QED
    BY <2>1, <2>2
<1> QED
  BY <1>1, <1>4, <1>5 DEF Kept

\* A step of a run at a place where it has nothing drained, and that moves no
\* message: what it may do to the history is a response or results.
LEMMA QuietMoves ==
    ASSUME KInv, NEW r \in Runners, Step(r),
           Leave(r) \/ Tools(r) \/ ModelReturns(r) \/ Decide(r) \/ Call(r)
    PROVE  Kept'
<1>1. run \in [Runners -> RunState] /\ TypeOK
  BY DEF KInv, IInv, TypeOK
<1>2. run[r].pending = <<>> /\ Range(<<>>) = {}
  <2>1. CASE Call(r)
    BY <2>1, OneDrains DEF Call
  <2>2. CASE Leave(r) \/ Tools(r) \/ ModelReturns(r) \/ Decide(r)
    BY <2>2, OneDrains DEF Leave, Tools, ModelReturns, Decide, At
  <2> QED
    BY <2>1, <2>2
<1>3. \A drained : Abandon(r, drained) => run'[r].pending = <<>>
  BY <1>1, PendingMoved DEF Abandon
<1>4. Abandon(r, <<>>) \/ Fail(r) => gone' = gone /\ run'[r].pending = <<>>
  BY <1>1, <1>2, PendingMoved DEF Abandon, Fail
<1>5. CASE Leave(r)
  <2>1. run'[r].pending = <<>>
    BY <1>1, <1>5 DEF Leave, Idle
  <2> QED
    BY <1>2, <1>5, <2>1, QuietStep DEF Leave
<1>6. CASE Tools(r)
  <2>1. PICK n \in 0..run[r].resp.calls :
           /\ history' = IF n = 0 THEN history
                         ELSE Append(history, Tool({run[r].resp.at} \X (1..n)))
           /\ \/ Abandon(r, <<>>) /\ (run[r].resp.cut => n > 0)
              \/ n < run[r].resp.calls /\ ~run[r].resp.cut /\ Finish(r, "paused")
                 /\ UNCHANGED gone
              \/ /\ n = run[r].resp.calls /\ UNCHANGED gone
                 /\ \E stop \in {"none", "terminated"} :
                       /\ run[r].resp.cut => stop = "none"
                       /\ Executed(r, stop)
    BY <1>6 DEF Tools
  <2>2. gone' = gone /\ run'[r].pending = <<>>
    BY <1>1, <1>2, <1>4, <2>1, PendingMoved
  <2>3. history' = history
        \/ \E x \in Message : x.role # "user" /\ history' = Append(history, x)
    <3>1. {run[r].resp.at} \X (1..n) \subseteq Nat \X (1..MaxCalls)
      <4>1. run[r].resp \in [calls : 0..MaxCalls, text : BOOLEAN, cut : BOOLEAN, at : Nat]
        BY <1>1 DEF RunState
      <4> QED
        BY <2>1, <4>1, RunAssumption
    <3>2. /\ Tool({run[r].resp.at} \X (1..n)) \in Message
          /\ Tool({run[r].resp.at} \X (1..n)).role # "user"
      BY <3>1 DEF Message, Tool
    <3> QED
      BY <2>1, <3>2
  <2> QED
    BY <1>2, <1>6, <2>2, <2>3, QuietStep DEF Tools
<1>7. CASE ModelReturns(r)
  <2>1. PICK n \in 0..MaxCalls, text \in BOOLEAN, cut \in BOOLEAN :
           LET resp == [calls |-> n, text |-> text, cut |-> cut, at |-> Len(history) + 1] IN
           \/ (Fail(r) \/ Abandon(r, <<>>)) /\ UNCHANGED history
           \/ n = 0 /\ Goto(r, "retry") /\ UNCHANGED <<history, gone>>
           \/ /\ history' = Append(history, Assistant(n))
              /\ \/ Abandon(r, <<>>)
                 \/ Answered(r, resp) /\ UNCHANGED gone
    BY <1>7 DEF ModelReturns
  <2>2. gone' = gone /\ run'[r].pending = <<>>
    BY <1>1, <1>2, <1>4, <2>1, PendingMoved
  <2>3. Assistant(n) \in Message /\ Assistant(n).role # "user"
    BY DEF Message, Assistant
  <2>4. history' = history
        \/ \E x \in Message : x.role # "user" /\ history' = Append(history, x)
    BY <2>1, <2>3
  <2> QED
    BY <1>2, <1>7, <2>2, <2>4, QuietStep DEF ModelReturns
<1>8. CASE Decide(r)
  <2>1. gone' = gone /\ run'[r].pending = <<>>
    BY <1>1, <1>2, <1>4, <1>8, PendingMoved DEF Decide
  <2> QED
    BY <1>2, <1>8, <2>1, QuietStep DEF Decide, session
<1>9. CASE Call(r)
  <2>1. gone' = gone /\ run'[r].pending = <<>>
    BY <1>1, <1>2, <1>4, <1>9, PendingMoved DEF Call
  <2> QED
    BY <1>2, <1>9, <2>1, QuietStep DEF Call, session
<1> QED
  BY <1>5, <1>6, <1>7, <1>8, <1>9

\* A step of a run that may drain a queue.
LEMMA DrainMoves ==
    ASSUME KInv, NEW r \in Runners, Step(r),
           Poll(r) \/ Retry(r) \/ DrainSteering(r) \/ DrainFollowUps(r)
    PROVE  Kept'
<1>1. run \in [Runners -> RunState] /\ TypeOK
  BY DEF KInv, IInv, TypeOK
<1>2. run[r].pending = <<>> /\ Range(<<>>) = {}
  BY OneDrains DEF Poll, Retry, DrainSteering, DrainFollowUps, At
<1>3. Abandon(r, <<>>) \/ Fail(r) => gone' = gone /\ run'[r].pending = <<>>
  BY <1>1, <1>2, PendingMoved DEF Abandon, Fail
<1>4. Rest(<<>>) = <<>>
  BY DEF Rest
<1>5. CASE Poll(r)
  <2>1. run'[r].pending = Drained(steering) /\ run'[r].pc = "turn"
    BY <1>1, <1>5, PendingMoved DEF Poll
  <2> QED
    BY <1>2, <1>5, <2>1, DrainStep DEF Poll
<1>6. CASE Retry(r)
  <2>1. CASE NextTurn(r, Drained(steering)) /\ steering' = Rest(steering) /\ UNCHANGED gone
    <3>1. run'[r].pending = Drained(steering) /\ run'[r].pc = "turn"
      BY <1>1, <2>1, PendingMoved
    <3> QED
      BY <1>2, <1>6, <2>1, <3>1, DrainStep DEF Retry
  <2>2. CASE (Fail(r) \/ Abandon(r, <<>>) \/ (ShouldStop(r) /\ UNCHANGED gone))
             /\ UNCHANGED steering
    <3>1. gone' = gone /\ run'[r].pending = <<>>
      BY <1>1, <1>3, <2>2, PendingMoved
    <3> QED
      BY <1>2, <1>6, <2>2, <3>1, QuietStep DEF Retry
  <2> QED
    BY <1>6, <2>1, <2>2 DEF Retry
<1>7. CASE DrainSteering(r)
  <2>1. CASE Natural(r) /\ steering = <<>>
    <3>1. run'[r].pending = <<>>
      BY <1>1, <1>2, <1>7, <2>1, PendingMoved DEF DrainSteering
    <3> QED
      BY <1>2, <1>4, <1>7, <2>1, <3>1, QuietStep DEF DrainSteering
  <2>2. CASE ~(Natural(r) /\ steering = <<>>)
    <3>1. run'[r].pending = Drained(steering) /\ run'[r].pc = "turn"
      BY <1>1, <1>7, <2>2, PendingMoved DEF DrainSteering
    <3> QED
      BY <1>2, <1>7, <3>1, DrainStep DEF DrainSteering
  <2> QED
    BY <2>1, <2>2
<1>8. CASE DrainFollowUps(r)
  <2>1. CASE followUps = <<>> /\ ~run[r].salvage
    <3>1. run'[r].pending = <<>>
      BY <1>1, <1>8, <2>1, PendingMoved DEF DrainFollowUps
    <3> QED
      BY <1>2, <1>4, <1>8, <2>1, <3>1, QuietStep DEF DrainFollowUps
  <2>2. CASE ~(followUps = <<>> /\ ~run[r].salvage)
    <3>1. run'[r].pending = Drained(followUps) /\ run'[r].pc = "turn"
      BY <1>1, <1>8, <2>2, PendingMoved DEF DrainFollowUps
    <3> QED
      BY <1>2, <1>8, <3>1, DrainStep DEF DrainFollowUps
  <2> QED
    BY <2>1, <2>2
<1> QED
  BY <1>5, <1>6, <1>7, <1>8

\* A run that injects, or gives up with its stream, what it has drained.
LEMMA TurnMoves ==
    ASSUME KInv, NEW r \in Runners, Step(r), Turn(r)
    PROVE  Kept'
<1>1. run \in [Runners -> RunState] /\ At(r, "turn")
  BY DEF KInv, IInv, TypeOK, Turn
<1>2. CASE Goto(r, "inject") /\ UNCHANGED gone
  <2>1. run'[r].pending = run[r].pending /\ run'[r].pc = "inject"
    BY <1>1, <1>2, PendingMoved
  <2> QED
    BY <1>2, <2>1, QuietStep DEF Turn, session
<1>3. CASE Abandon(r, run[r].pending)
  <2> DEFINE X == Range(run[r].pending)
  <2>1. gone' = gone \cup X /\ run'[r].pending = <<>>
    BY <1>1, <1>3, PendingMoved DEF Abandon
  <2>2. DrainedNow = X /\ DrainedNow' = {}
    BY <2>1, OneDrains
  <2>3. /\ UNCHANGED <<fresh, history, steering, followUps>>
        /\ Told' = Told /\ ToldOnce' /\ NoRepeats(steering') /\ NoRepeats(followUps')
    BY DEF Turn, session, Told, ToldOnce, KInv, Kept
  <2>4. Pendings'
    BY <2>1, OneDrains DEF Pendings, NoRepeats, KInv, Kept
  <2>5. InOneStore'
    <3> HIDE DEF X
    <3> QED
      BY <2>1, <2>2, <2>3 DEF InOneStore, KInv, Kept
  <2> QED
    BY <2>3, <2>4, <2>5 DEF Kept
<1> QED
  BY <1>2, <1>3 DEF Turn

LEMMA InjectMoves ==
    ASSUME KInv, NEW r \in Runners, Step(r), Inject(r)
    PROVE  Kept'
<1> DEFINE m == Head(run[r].pending)
           rest == Tail(run[r].pending)
<1>1. /\ run \in [Runners -> RunState] /\ TypeOK
      /\ run[r].pc = "inject" /\ run[r].pending # <<>>
      /\ run[r].pending \in Seq(Messages) /\ NoRepeats(run[r].pending)
  BY OneDrains DEF KInv, IInv, TypeOK, Inject, At
<1>2. /\ m \in Messages /\ NoRepeats(rest) /\ m \notin Range(rest)
      /\ Range(run[r].pending) = {m} \cup Range(rest)
  BY <1>1, QueueTail
<1>3. /\ history' = Append(history, User(m)) /\ UNCHANGED <<fresh, steering, followUps>>
      /\ NoRepeats(steering') /\ NoRepeats(followUps')
  BY DEF Inject, KInv, Kept
<1>4. DrainedNow = {m} \cup Range(rest) /\ DrainedNow' = Range(run'[r].pending)
  BY <1>2, OneDrains
<1>5. Told' = Told \cup {m} /\ ToldOnce'
  <2>1. m \notin Told
    BY <1>2, <1>4 DEF KInv, Kept, InOneStore
  <2>2. User(m) \in Message
    BY <1>2 DEF Message, User
  <2> QED
    BY <1>1, <1>2, <1>3, <2>1, <2>2, ToldAppended DEF KInv, Kept
<1>6. CASE Abandon(r, rest)
  <2>1. gone' = gone \cup Range(rest) /\ run'[r].pending = <<>> /\ DrainedNow' = {}
    BY <1>1, <1>4, <1>6, PendingMoved, OneDrains DEF Abandon
  <2>2. Pendings'
    BY <2>1, OneDrains DEF Pendings, NoRepeats, KInv, Kept
  <2>3. InOneStore'
    <3> HIDE DEF m, rest
    <3> QED
      BY <1>2, <1>3, <1>4, <1>5, <2>1 DEF InOneStore, KInv, Kept
  <2> QED
    BY <1>3, <1>5, <2>2, <2>3 DEF Kept
<1>7. CASE run' = [run EXCEPT ![r].pending = Tail(@)] /\ UNCHANGED gone
  <2>1. run'[r].pending = rest /\ run'[r].pc = "inject"
    BY <1>1, <1>7 DEF RunState
  <2>2. DrainedNow' = Range(rest) /\ gone' = gone
    BY <1>4, <1>7, <2>1
  <2>3. Pendings'
    BY <1>2, <2>1, OneDrains DEF Pendings, KInv, Kept
  <2>4. InOneStore'
    <3> HIDE DEF m, rest
    <3> QED
      BY <1>2, <1>3, <1>4, <1>5, <2>2 DEF InOneStore, KInv, Kept
  <2> QED
    BY <1>3, <1>5, <2>3, <2>4 DEF Kept
<1> QED
  BY <1>6, <1>7 DEF Inject

\* The caller's own messages.
LEMMA OpenMoves ==
    ASSUME KInv, NEW r \in Runners, Step(r), Open(r)
    PROVE  Kept'
<1>1. /\ run \in [Runners -> RunState] /\ TypeOK
      /\ run[r].pending = <<>> /\ Range(<<>>) = {}
  BY OneDrains DEF KInv, IInv, TypeOK, Open, At
<1>2. /\ UNCHANGED <<steering, followUps>>
      /\ NoRepeats(steering') /\ NoRepeats(followUps')
  BY DEF Open, KInv, Kept
<1>3. run'[r].pending = <<>> /\ gone' = gone
  <2>1. CASE Fail(r) \/ Abandon(r, <<>>)
    BY <1>1, <2>1, PendingMoved DEF Fail, Abandon
  <2>2. CASE Goto(r, "poll") /\ UNCHANGED gone
    BY <1>1, <2>2, PendingMoved
  <2> QED
    BY <2>1, <2>2 DEF Open
<1>4. CASE UNCHANGED <<history, fresh>>
  BY <1>1, <1>2, <1>3, <1>4, QuietStep
<1>5. ASSUME NEW m \in fresh, fresh' = fresh \ Range(<<m>>),
             history' = history \o [i \in DOMAIN <<m>> |-> User(<<m>>[i])]
      PROVE  Kept'
  <2>1. m \in Messages /\ fresh' = fresh \ {m}
    BY <1>1, <1>5 DEF TypeOK, Range
  <2>2. history' = Append(history, User(m))
    <3>1. [i \in DOMAIN <<m>> |-> User(<<m>>[i])] = <<User(m)>>
      OBVIOUS
    <3> QED
      BY <1>1, <1>5, <3>1 DEF TypeOK
  <2>3. Told' = Told \cup {m} /\ ToldOnce'
    <3>1. m \notin Told
      BY <1>5, <2>1 DEF KInv, Kept, InOneStore
    <3>2. User(m) \in Message
      BY <2>1 DEF Message, User
    <3> QED
      BY <1>1, <2>1, <2>2, <3>1, <3>2, ToldAppended DEF KInv, Kept
  <2>4. DrainedNow' = DrainedNow
    BY <1>1, <1>3, OneDrains
  <2>5. Pendings'
    BY <1>1, <1>3, OneDrains DEF Pendings, KInv, Kept
  <2>6. InOneStore'
    BY <1>2, <1>3, <1>5, <2>1, <2>3, <2>4 DEF InOneStore, KInv, Kept
  <2> QED
    BY <1>2, <2>3, <2>5, <2>6 DEF Kept
<1>6. CASE \E input \in {<<>>} \cup {<<m>> : m \in fresh} :
              /\ fresh' = fresh \ Range(input)
              /\ history' = history \o [i \in DOMAIN input |-> User(input[i])]
  <2>1. PICK input \in {<<>>} \cup {<<m>> : m \in fresh} :
           /\ fresh' = fresh \ Range(input)
           /\ history' = history \o [i \in DOMAIN input |-> User(input[i])]
    BY <1>6
  <2>2. CASE input = <<>>
    <3>1. [i \in DOMAIN input |-> User(input[i])] = <<>>
      BY <2>2
    <3>2. history' = history /\ fresh' = fresh
      BY <1>1, <2>1, <2>2, <3>1 DEF TypeOK
    <3> QED
      BY <1>4, <3>2
  <2>3. ASSUME NEW m \in fresh, input = <<m>>
        PROVE  Kept'
    BY <1>5, <2>1, <2>3
  <2> QED
    BY <2>1, <2>2, <2>3
<1> QED
  BY <1>4, <1>6 DEF Open

\* A run that begins has nothing drained.
LEMMA BeginMoves ==
    ASSUME KInv, NEW r \in Runners, Begin(r)
    PROVE  Kept'
<1>1. run \in [Runners -> RunState] /\ run[r].pc = "idle" /\ run[r].pending = <<>>
  BY DEF KInv, IInv, TypeOK, Kept, Pendings, Begin, At
<1>2. \A q \in Runners : run'[q].pending = run[q].pending /\ (q # r => run'[q] = run[q])
  BY <1>1, PendingMoved, Moved DEF Begin
<1>3. DrainedNow' = DrainedNow
  BY <1>2 DEF DrainedNow
<1>4. UNCHANGED <<history, steering, followUps, fresh, gone>> /\ Told' = Told
  BY DEF Begin, Told
<1>5. Pendings'
  BY <1>1, <1>2 DEF Pendings, NoRepeats, KInv, Kept
<1> QED
  BY <1>3, <1>4, <1>5 DEF KInv, Kept, InOneStore, ToldOnce

\* What others do leaves the runs, and what they have drained, alone.
LEMMA RunsApart ==
    ASSUME run' = run
    PROVE  DrainedNow' = DrainedNow /\ (Pendings => Pendings')
BY DEF DrainedNow, Pendings

\* A user's message goes to a queue or to the history.
LEMMA SendMoves ==
    ASSUME KInv, Send
    PROVE  Kept'
<1>1. PICK m \in fresh : /\ fresh' = fresh \ {m}
                         /\ Steer(m) \/ Interject(m) \/ FollowUp(m) \/ AppendMessage(m)
  BY DEF Send
<1>2. /\ TypeOK /\ m \in Messages /\ UNCHANGED <<run, gone>>
      /\ steering \in Seq(Messages) /\ followUps \in Seq(Messages)
  BY DEF KInv, IInv, TypeOK, Send
<1>3. /\ DrainedNow' = DrainedNow /\ Pendings'
      /\ InOneStore /\ ToldOnce /\ NoRepeats(steering) /\ NoRepeats(followUps)
  BY <1>2, RunsApart DEF KInv, Kept
<1>4. m \notin Range(steering) /\ m \notin Range(followUps) /\ m \notin Told
  BY <1>2, <1>3 DEF InOneStore
<1>5. CASE Steer(m) \/ Interject(m)
  <2>1. /\ UNCHANGED <<history, followUps>> /\ Told' = Told /\ ToldOnce'
        /\ NoRepeats(followUps')
    BY <1>3, <1>5 DEF Steer, Interject, Told, ToldOnce
  <2>2. NoRepeats(steering') /\ Range(steering') = Range(steering) \cup {m}
    <3>1. /\ NoRepeats(Append(steering, m)) /\ NoRepeats(<<m>> \o steering)
          /\ Range(Append(steering, m)) = Range(steering) \cup {m}
          /\ Range(<<m>> \o steering) = Range(steering) \cup {m}
      BY <1>2, <1>3, <1>4, QueuePut
    <3>2. CASE steering' = Append(steering, m)
      BY <3>1, <3>2
    <3>3. CASE steering' = <<m>> \o steering
      BY <3>1, <3>3
    <3> QED
      BY <1>5, <3>2, <3>3 DEF Steer, Interject
  <2>3. InOneStore'
    BY <1>1, <1>2, <1>3, <2>1, <2>2 DEF InOneStore
  <2> QED
    BY <1>3, <2>1, <2>2, <2>3 DEF Kept
<1>6. CASE FollowUp(m)
  <2>1. /\ UNCHANGED <<history, steering>> /\ Told' = Told /\ ToldOnce'
        /\ NoRepeats(steering')
    BY <1>3, <1>6 DEF FollowUp, Told, ToldOnce
  <2>2. NoRepeats(followUps') /\ Range(followUps') = Range(followUps) \cup {m}
    BY <1>2, <1>3, <1>4, <1>6, QueuePut DEF FollowUp
  <2>3. InOneStore'
    BY <1>1, <1>2, <1>3, <2>1, <2>2 DEF InOneStore
  <2> QED
    BY <1>3, <2>1, <2>2, <2>3 DEF Kept
<1>7. CASE AppendMessage(m)
  <2>1. /\ UNCHANGED <<steering, followUps>>
        /\ NoRepeats(steering') /\ NoRepeats(followUps')
    BY <1>3, <1>7 DEF AppendMessage
  <2>2. Told' = Told \cup {m} /\ ToldOnce'
    <3>1. User(m) \in Message
      BY <1>2 DEF Message, User
    <3> QED
      BY <1>2, <1>3, <1>4, <1>7, <3>1, ToldAppended DEF AppendMessage
  <2>3. InOneStore'
    BY <1>1, <1>2, <1>3, <2>1, <2>2 DEF InOneStore
  <2> QED
    BY <1>3, <2>1, <2>2, <2>3 DEF Kept
<1> QED
  BY <1>1, <1>5, <1>6, <1>7

\* A queue that is cleared.
LEMMA ClearMoves ==
    ASSUME KInv, Clear
    PROVE  Kept'
<1>1. /\ UNCHANGED <<history, run, fresh>> /\ Told' = Told /\ ToldOnce'
      /\ InOneStore /\ NoRepeats(steering) /\ NoRepeats(followUps)
      /\ DrainedNow' = DrainedNow /\ Pendings'
  BY RunsApart DEF Clear, Told, ToldOnce, KInv, Kept
<1>2. NoRepeats(<<>>) /\ Range(<<>>) = {}
  BY DEF NoRepeats, Range
<1>3. CASE steering' = <<>> /\ gone' = gone \cup Range(steering) /\ UNCHANGED followUps
  <2>1. Range(steering') = {} /\ NoRepeats(steering') /\ NoRepeats(followUps')
    BY <1>1, <1>2, <1>3
  <2>2. InOneStore'
    BY <1>1, <1>3, <2>1 DEF InOneStore
  <2> QED
    BY <1>1, <2>1, <2>2 DEF Kept
<1>4. CASE followUps' = <<>> /\ gone' = gone \cup Range(followUps) /\ UNCHANGED steering
  <2>1. Range(followUps') = {} /\ NoRepeats(steering') /\ NoRepeats(followUps')
    BY <1>1, <1>2, <1>4
  <2>2. InOneStore'
    BY <1>1, <1>4, <2>1 DEF InOneStore
  <2> QED
    BY <1>1, <2>1, <2>2 DEF Kept
<1> QED
  BY <1>3, <1>4 DEF Clear

\* Calls that are resolved, or asked about.
LEMMA ResolveMoves ==
    ASSUME KInv, Resolve \/ Ask \/ Answer \/ UNCHANGED vars
    PROVE  Kept'
<1>1. /\ UNCHANGED <<run, fresh, gone, steering, followUps>>
      /\ DrainedNow' = DrainedNow /\ Pendings'
  <2>1. UNCHANGED <<run, fresh, gone, steering, followUps>>
    BY DEF Resolve, Ask, Answer, vars, session
  <2> QED
    BY <2>1, RunsApart DEF KInv, Kept
<1>2. \/ history' = history
      \/ \E x \in Message : x.role # "user" /\ history' = Append(history, x)
  <2>1. Pending(history) \subseteq Nat \X (1..MaxCalls) /\ asked \subseteq Nat \X (1..MaxCalls)
    BY PendingTyped DEF KInv, IInv, TypeOK
  <2>2. \A some \in SUBSET (Nat \X (1..MaxCalls)) :
            Tool(some) \in Message /\ Tool(some).role # "user"
    BY DEF Message, Tool
  <2>3. CASE Resolve
    BY <2>1, <2>2, <2>3 DEF Resolve
  <2>4. CASE Answer
    BY <2>1, <2>2, <2>4 DEF Answer
  <2>5. CASE Ask \/ UNCHANGED vars
    BY <2>5 DEF Ask, vars, session
  <2> QED
    BY <2>3, <2>4, <2>5
<1>3. Told' = Told /\ ToldOnce'
  BY <1>2, ToldAppended DEF KInv, IInv, Kept, Told, ToldOnce
<1> QED
  BY <1>1, <1>3 DEF KInv, Kept, InOneStore

\* No step loses or repeats a message.
LEMMA KeptStep ==
    ASSUME KInv, [Next]_vars
    PROVE  Kept'
<1>1. ASSUME NEW r \in Runners, Step(r)
      PROVE  Kept'
  BY <1>1, QuietMoves, DrainMoves, TurnMoves, InjectMoves, OpenMoves DEF Step
<1> QED
  BY <1>1, BeginMoves, SendMoves, ClearMoves, ResolveMoves DEF Next

LEMMA KeptAtFirst ==
    ASSUME Init
    PROVE  Kept
<1>1. Range(<<>>) = {} /\ NoRepeats(<<>>)
  BY DEF Range, NoRepeats
<1>2. \A r \in Runners : run[r].pending = <<>>
  BY DEF Init, Idle
<1>3. DrainedNow = {} /\ Told = {}
  BY <1>1, <1>2 DEF DrainedNow, Told, Init
<1> QED
  BY <1>1, <1>2, <1>3 DEF Init, Kept, InOneStore, Pendings, ToldOnce

\* Where a queue has no repetitions, a message of it is there once.
LEMMA OncePlaced ==
    ASSUME NEW s, NoRepeats(s), NEW x
    PROVE  Cardinality({i \in DOMAIN s : s[i] = x}) =
               IF \E i \in DOMAIN s : s[i] = x THEN 1 ELSE 0
<1> DEFINE places == {i \in DOMAIN s : s[i] = x}
<1>1. CASE \E i \in DOMAIN s : s[i] = x
  <2>1. PICK i \in DOMAIN s : s[i] = x
    BY <1>1
  <2>2. places = {i}
    BY <2>1 DEF NoRepeats
  <2> QED
    BY <1>1, <2>2, FS_Singleton
<1>2. CASE ~\E i \in DOMAIN s : s[i] = x
  <2>1. places = {}
    BY <1>2
  <2> QED
    BY <1>2, <2>1, FS_EmptySet
<1> QED
  BY <1>1, <1>2

\* A message is in one store at most once, and in no other.
LEMMA CountedOnce ==
    ASSUME KInv
    PROVE  MessagesKept
<1> SUFFICES ASSUME NEW m \in Messages
             PROVE  LET in(queue) == Cardinality({i \in DOMAIN queue : queue[i] = m})
                        drained == {r \in Runners : m \in Range(run[r].pending)}
                    IN Cardinality({s \in {"fresh", "gone"} :
                                       m \in IF s = "fresh" THEN fresh ELSE gone})
                       + in(steering) + in(followUps) + Cardinality(drained)
                       + Cardinality({i \in DOMAIN history : history[i] = User(m)}) = 1
  BY DEF MessagesKept
<1> DEFINE kept == {s \in {"fresh", "gone"} : m \in IF s = "fresh" THEN fresh ELSE gone}
           steered == {i \in DOMAIN steering : steering[i] = m}
           followed == {i \in DOMAIN followUps : followUps[i] = m}
           drained == {r \in Runners : m \in Range(run[r].pending)}
           told == {i \in DOMAIN history : history[i] = User(m)}
<1>1. Kept /\ Holder /\ InOneStore
  BY DEF KInv, IInv, Kept
<1>2. Cardinality(kept) = IF m \in fresh \/ m \in gone THEN 1 ELSE 0
  <2>1. CASE m \in fresh
    <3>1. kept = {"fresh"}
      BY <1>1, <2>1 DEF InOneStore
    <3> QED
      BY <2>1, <3>1, FS_Singleton
  <2>2. CASE m \in gone
    <3>1. kept = {"gone"}
      BY <1>1, <2>2 DEF InOneStore
    <3> QED
      BY <2>2, <3>1, FS_Singleton
  <2>3. CASE m \notin fresh /\ m \notin gone
    <3>1. kept = {}
      BY <2>3
    <3> QED
      BY <2>3, <3>1, FS_EmptySet
  <2> QED
    BY <2>1, <2>2, <2>3
<1>3. Cardinality(steered) = IF m \in Range(steering) THEN 1 ELSE 0
  <2>1. m \in Range(steering) <=> \E i \in DOMAIN steering : steering[i] = m
    BY DEF Range
  <2>2. NoRepeats(steering)
    BY <1>1 DEF Kept
  <2> QED
    BY <2>1, <2>2, OncePlaced
<1>4. Cardinality(followed) = IF m \in Range(followUps) THEN 1 ELSE 0
  <2>1. m \in Range(followUps) <=> \E i \in DOMAIN followUps : followUps[i] = m
    BY DEF Range
  <2>2. NoRepeats(followUps)
    BY <1>1 DEF Kept
  <2> QED
    BY <2>1, <2>2, OncePlaced
<1>5. Cardinality(drained) = IF m \in DrainedNow THEN 1 ELSE 0
  <2>1. CASE m \in DrainedNow
    <3>1. PICK r \in Runners : m \in Range(run[r].pending)
      BY <2>1 DEF DrainedNow
    <3>2. \A q \in Runners : m \in Range(run[q].pending) => run[q].pc # "idle"
      BY <1>1 DEF Kept, Pendings, Range
    <3>3. drained = {r}
      BY <1>1, <3>1, <3>2 DEF Holder
    <3> QED
      BY <2>1, <3>3, FS_Singleton
  <2>2. CASE m \notin DrainedNow
    <3>1. drained = {}
      BY <2>2 DEF DrainedNow
    <3> QED
      BY <2>2, <3>1, FS_EmptySet
  <2> QED
    BY <2>1, <2>2
<1>6. Cardinality(told) = IF m \in Told THEN 1 ELSE 0
  <2>1. CASE m \in Told
    <3>1. PICK i \in DOMAIN history : history[i] = User(m)
      BY <2>1 DEF Told
    <3>2. told = {i}
      BY <1>1, <3>1 DEF Kept, ToldOnce, User
    <3> QED
      BY <2>1, <3>2, FS_Singleton
  <2>2. CASE m \notin Told
    <3>1. told = {}
      BY <2>2 DEF Told
    <3> QED
      BY <2>2, <3>1, FS_EmptySet
  <2> QED
    BY <2>1, <2>2
<1> HIDE DEF kept, steered, followed, drained, told
<1>7. Cardinality(kept) + Cardinality(steered) + Cardinality(followed)
      + Cardinality(drained) + Cardinality(told) = 1
  BY <1>1, <1>2, <1>3, <1>4, <1>5, <1>6 DEF InOneStore
<1> QED
  BY <1>7 DEF kept, steered, followed, drained, told

\* Whatever fails, stops or races in the loop, a message given to the session
\* is in one place, and there once, until it is cleared or its stream abandoned.
THEOREM MessagesNeverLost == Spec => []MessagesKept
<1>1. Init => Kept
  BY KeptAtFirst
<1>2. IInv /\ Kept /\ [Next]_vars => Kept'
  BY KeptStep DEF KInv
<1>3. IInv /\ Kept => MessagesKept
  BY CountedOnce DEF KInv
<1> QED
  BY <1>1, <1>2, <1>3, Invariant, PTL DEF Spec
=============================================================================
