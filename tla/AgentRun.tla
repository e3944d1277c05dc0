------------------------------ MODULE AgentRun ------------------------------
(***************************************************************************)
(* The agent loop (agent/run.go) over a session (agent/session.go): turns  *)
(* of one model call and its tool calls, fed by messages that others queue *)
(* while it runs, and the calls it leaves open for others to resolve.      *)
(*                                                                         *)
(* Each action is one access to the session under its lock, with the local *)
(* work of the loop up to the next one.  A message's content is left out:  *)
(* what remains of a response is how many tools it calls, whether it has   *)
(* text that is not blank and whether the output limit cut it off, of a    *)
(* tool message which calls it answers.  The concurrent execution of the   *)
(* calls is ToolBatch; its outcome is free here: a prefix of results, and  *)
(* the rest pending if the gate paused.                                    *)
(***************************************************************************)
EXTENDS Naturals, Sequences, FiniteSets, Functions

CONSTANTS
    Runners,         \* goroutines that call Run or Stream
    Messages,        \* bound: messages of users, each given to the session once
    MaxTurns,        \* WithMaxTurns
    SalvageAttempts, \* lengthSalvageAttempts, 2 in the code
    DrainAll,        \* the queue modes are QueueDrainAll
    MaxCalls,        \* bound: tool calls of a response
    MaxRuns          \* bound: runs accepted

ASSUME RunAssumption ==
    /\ MaxTurns \in Nat \ {0} /\ SalvageAttempts \in Nat
    /\ DrainAll \in BOOLEAN /\ MaxCalls \in Nat /\ MaxRuns \in Nat

VARIABLES
    history,   \* Session.messages
    running,   \* Session.running
    steering,  \* Session.steering
    followUps, \* Session.followUps
    run,       \* of each runner, its place in the loop and its run struct
    asked,     \* the calls a ResolvePending is asking its callback about
    fresh,     \* messages not given to the session yet
    gone,      \* messages given up: cleared, or drained for an abandoned stream
    buried,    \* calls that were open when a caller appended behind them
    runs       \* runs accepted so far

session == <<history, running, steering, followUps>>
vars == <<session, run, asked, fresh, gone, buried, runs>>

-----------------------------------------------------------------------------
(* The history.                                                            *)

User(m) == [role |-> "user", message |-> m]
Assistant(n) == [role |-> "assistant", calls |-> n]
Tool(answers) == [role |-> "tool", answers |-> answers]

\* A call is its message's position and its index in it; providers' call IDs
\* are taken to be as unique.
CallsAt(h, p) == IF h[p].role = "assistant" THEN {p} \X (1..h[p].calls) ELSE {}

AnsweredFrom(h, p) == UNION {h[q].answers : q \in {i \in p..Len(h) : h[i].role = "tool"}}

\* pendingLocked: it looks behind the trailing tool messages only.
Pending(h) ==
    LET tail == {p \in DOMAIN h : \A q \in (p + 1)..Len(h) : h[q].role = "tool"}
    IN (UNION {CallsAt(h, p) : p \in tail}) \ (UNION {AnsweredFrom(h, p) : p \in tail})

\* What it stands for: calls nobody has answered.
OpenCalls(h) == (UNION {CallsAt(h, p) : p \in DOMAIN h}) \ AnsweredFrom(h, 1)

-----------------------------------------------------------------------------
(* The run of one runner.                                                  *)

NoResponse == [calls |-> 0, text |-> FALSE, cut |-> FALSE, at |-> 0]

\* The stop reason is set ahead of a natural stop, and for good by Finish.
Idle == [pc |-> "idle", turn |-> 0, pending |-> <<>>, salvaged |-> 0,
         salvage |-> FALSE, resp |-> NoResponse, stop |-> "none"]

Init ==
    /\ history = <<>> /\ running = FALSE /\ steering = <<>> /\ followUps = <<>>
    /\ run = [r \in Runners |-> Idle]
    /\ asked = {} /\ fresh = Messages /\ gone = {} /\ buried = {} /\ runs = 0

At(r, pc) == run[r].pc = pc
Goto(r, pc) == run' = [run EXCEPT ![r].pc = pc]

\* The run ends with a reason; without one it has failed.
Finish(r, reason) ==
    run' = [run EXCEPT ![r] = [@ EXCEPT !.pc = "leave", !.stop = reason, !.pending = <<>>]]

\* The context has ended, or the model or a hook has returned an error.
Fail(r) == Finish(r, "none") /\ UNCHANGED gone

\* The consumer stops at an event, before these drained messages are injected.
Abandon(r, drained) == Finish(r, "none") /\ gone' = gone \cup Range(drained)

NextTurn(r, drained) ==
    run' = [run EXCEPT ![r] = [Idle EXCEPT
               !.pc = "turn", !.turn = run[r].turn + 1,
               !.pending = drained, !.salvaged = run[r].salvaged]]

\* drainQueue, and what it leaves queued.
Drained(queue) == IF DrainAll \/ queue = <<>> THEN queue ELSE <<Head(queue)>>
Rest(queue) == IF DrainAll \/ queue = <<>> THEN <<>> ELSE Tail(queue)

\* shouldStop: the turn limit is checked before the budget and the condition.
ShouldStop(r) ==
    IF run[r].turn >= MaxTurns THEN Finish(r, "max_turns")
    ELSE \E reason \in {"budget", "stop_when"} : Finish(r, reason)

-----------------------------------------------------------------------------
(* The loop.                                                               *)

\* Variant with a fault: calls left open do not hold a run back.
BeginAnyway(r) ==
    /\ At(r, "idle") /\ runs < MaxRuns
    /\ ~running
    /\ running' = TRUE /\ runs' = runs + 1 /\ Goto(r, "started")
    /\ UNCHANGED <<history, steering, followUps, asked, fresh, gone, buried>>

Begin(r) ==
    /\ At(r, "idle") /\ runs < MaxRuns
    /\ ~running /\ Pending(history) = {}
    /\ running' = TRUE /\ runs' = runs + 1 /\ Goto(r, "started")
    /\ UNCHANGED <<history, steering, followUps, asked, fresh, gone, buried>>

\* The input guardrails pass and the caller's messages are appended.
Open(r) ==
    /\ At(r, "started")
    /\ \/ Fail(r) /\ UNCHANGED <<history, fresh>>
       \/ Abandon(r, <<>>) /\ UNCHANGED <<history, fresh>>
       \/ /\ \E input \in {<<>>} \cup {<<m>> : m \in fresh} :
                /\ fresh' = fresh \ Range(input)
                /\ history' = history \o [i \in DOMAIN input |-> User(input[i])]
          /\ Goto(r, "poll") /\ UNCHANGED gone
    /\ UNCHANGED <<running, steering, followUps, asked, buried, runs>>

Poll(r) ==
    /\ At(r, "poll")
    /\ NextTurn(r, Drained(steering)) /\ steering' = Rest(steering)
    /\ UNCHANGED <<history, running, followUps, asked, fresh, gone, buried, runs>>

Turn(r) ==
    /\ At(r, "turn")
    /\ Abandon(r, run[r].pending) \/ (Goto(r, "inject") /\ UNCHANGED gone)
    /\ UNCHANGED <<session, asked, fresh, buried, runs>>

Inject(r) ==
    /\ At(r, "inject") /\ run[r].pending # <<>>
    /\ history' = Append(history, User(Head(run[r].pending)))
    /\ \/ Abandon(r, Tail(run[r].pending))
       \/ run' = [run EXCEPT ![r].pending = Tail(@)] /\ UNCHANGED gone
    /\ UNCHANGED <<running, steering, followUps, asked, fresh, buried, runs>>

\* Variant with a fault: the context is checked before the injection.
CallEarly(r) ==
    /\ At(r, "inject")
    /\ Fail(r) \/ (run[r].pending = <<>> /\ Goto(r, "model") /\ UNCHANGED gone)
    /\ UNCHANGED <<session, asked, fresh, buried, runs>>

\* After the injection the model is called with the history of now.
Call(r) ==
    /\ At(r, "inject") /\ run[r].pending = <<>>
    /\ Fail(r) \/ (Goto(r, "model") /\ UNCHANGED gone)
    /\ UNCHANGED <<session, asked, fresh, buried, runs>>

\* The run has its response; one without calls ends it naturally.
Answered(r, resp) ==
    run' = [run EXCEPT ![r] = [@ EXCEPT !.resp = resp,
               !.pc = IF resp.calls = 0 THEN "decide" ELSE "tools",
               !.stop = IF resp.calls = 0 THEN "end_turn" ELSE "none"]]

\* Only an answer without calls meets the output guardrails and may be
\* discarded for another candidate; what remains is committed.
ModelReturns(r) ==
    /\ At(r, "model")
    /\ \E n \in 0..MaxCalls, text \in BOOLEAN, cut \in BOOLEAN :
          LET resp == [calls |-> n, text |-> text, cut |-> cut, at |-> Len(history) + 1] IN
          \/ (Fail(r) \/ Abandon(r, <<>>)) /\ UNCHANGED history
          \/ n = 0 /\ Goto(r, "retry") /\ UNCHANGED <<history, gone>>
          \/ /\ history' = Append(history, Assistant(n))
             /\ \/ Abandon(r, <<>>)
                \/ Answered(r, resp) /\ UNCHANGED gone
    /\ UNCHANGED <<running, steering, followUps, asked, fresh, buried, runs>>

\* Variant with a fault: discarded candidates are not limited.
RetryUnlimited(r) ==
    /\ At(r, "retry")
    /\ \/ (Fail(r) \/ Abandon(r, <<>>)) /\ UNCHANGED steering
       \/ /\ NextTurn(r, Drained(steering)) /\ steering' = Rest(steering)
          /\ UNCHANGED gone
    /\ UNCHANGED <<history, running, followUps, asked, fresh, buried, runs>>

\* retryCandidate
Retry(r) ==
    /\ At(r, "retry")
    /\ \/ (Fail(r) \/ Abandon(r, <<>>)) /\ UNCHANGED steering
       \/ ShouldStop(r) /\ UNCHANGED <<steering, gone>>
       \/ /\ run[r].turn < MaxTurns
          /\ NextTurn(r, Drained(steering)) /\ steering' = Rest(steering)
          /\ UNCHANGED gone
    /\ UNCHANGED <<history, running, followUps, asked, fresh, buried, runs>>

Executed(r, stop) == run' = [run EXCEPT ![r] = [@ EXCEPT !.pc = "decide", !.stop = stop]]

\* toolPhase: the first n calls have results.  A response that was cut off
\* executes none and has an error for each call; otherwise the gate may leave
\* the rest pending, and the tools may ask to terminate.
Tools(r) ==
    LET resp == run[r].resp IN
    /\ At(r, "tools")
    /\ \E n \in 0..resp.calls :
          /\ history' = IF n = 0 THEN history
                        ELSE Append(history, Tool({resp.at} \X (1..n)))
          /\ \/ Abandon(r, <<>>) /\ (resp.cut => n > 0)
             \/ n < resp.calls /\ ~resp.cut /\ Finish(r, "paused") /\ UNCHANGED gone
             \/ /\ n = resp.calls /\ UNCHANGED gone
                /\ \E stop \in {"none", "terminated"} :
                      /\ resp.cut => stop = "none"
                      /\ Executed(r, stop)
    /\ UNCHANGED <<running, steering, followUps, asked, fresh, buried, runs>>

-----------------------------------------------------------------------------
(* What follows a turn (decide).                                           *)

\* An answer that was cut off, with text worth continuing.
LengthTruncated(r) == run[r].resp.cut /\ run[r].resp.calls = 0 /\ run[r].resp.text
Salvageable(r) == LengthTruncated(r) /\ run[r].salvaged < SalvageAttempts
Natural(r) == run[r].stop # "none"

\* Variant with a fault: the salvage is asked about the wrong way round.
NaturalStopInverted(r) ==
    IF run[r].stop = "end_turn" /\ LengthTruncated(r) /\ Salvageable(r)
    THEN "truncated" ELSE run[r].stop

NaturalStop(r) ==
    IF run[r].stop = "end_turn" /\ LengthTruncated(r) /\ ~Salvageable(r)
    THEN "truncated" ELSE run[r].stop

Proceed(r) ==
    run' = [run EXCEPT ![r] = [@ EXCEPT
               !.pc = "drain", !.stop = NaturalStop(r), !.salvage = Salvageable(r),
               !.salvaged = run[r].salvaged + (IF Salvageable(r) THEN 1 ELSE 0)]]

Decide(r) ==
    /\ At(r, "decide")
    /\ \/ Fail(r)
       \/ /\ UNCHANGED gone
          /\ IF Natural(r) /\ steering = <<>> /\ followUps = <<>> /\ ~Salvageable(r)
             THEN Finish(r, NaturalStop(r))
             ELSE \/ ShouldStop(r)
                  \/ /\ run[r].turn < MaxTurns
                     /\ Proceed(r)
    /\ UNCHANGED <<session, asked, fresh, buried, runs>>

DrainSteering(r) ==
    /\ At(r, "drain")
    /\ steering' = Rest(steering)
    /\ IF Natural(r) /\ steering = <<>> THEN Goto(r, "followups")
       ELSE NextTurn(r, Drained(steering))
    /\ UNCHANGED <<history, running, followUps, asked, fresh, gone, buried, runs>>

DrainFollowUps(r) ==
    /\ At(r, "followups")
    /\ followUps' = Rest(followUps)
    /\ IF followUps = <<>> /\ ~run[r].salvage THEN Finish(r, run[r].stop)
       ELSE NextTurn(r, Drained(followUps))
    /\ UNCHANGED <<history, running, steering, asked, fresh, gone, buried, runs>>

\* Variant with a fault: only a run with a reason gives the session back.
LeaveQuietly(r) ==
    /\ At(r, "leave")
    /\ running' = (run[r].stop = "none") /\ run' = [run EXCEPT ![r] = Idle]
    /\ UNCHANGED <<history, steering, followUps, asked, fresh, gone, buried, runs>>

\* end, deferred
Leave(r) ==
    /\ At(r, "leave")
    /\ running' = FALSE /\ run' = [run EXCEPT ![r] = Idle]
    /\ UNCHANGED <<history, steering, followUps, asked, fresh, gone, buried, runs>>

-----------------------------------------------------------------------------
(* What other goroutines do to the session.                                *)

Steer(m) ==
    /\ steering' = Append(steering, m)
    /\ UNCHANGED <<history, followUps, buried>>

Interject(m) ==
    /\ steering' = <<m>> \o steering
    /\ UNCHANGED <<history, followUps, buried>>

FollowUp(m) ==
    /\ followUps' = Append(followUps, m)
    /\ UNCHANGED <<history, steering, buried>>

\* Session.Append
AppendMessage(m) ==
    /\ history' = Append(history, User(m))
    /\ buried' = buried \cup OpenCalls(history)
    /\ UNCHANGED <<steering, followUps>>

Send ==
    /\ \E m \in fresh :
          /\ fresh' = fresh \ {m}
          /\ Steer(m) \/ Interject(m) \/ FollowUp(m) \/ AppendMessage(m)
    /\ UNCHANGED <<running, run, asked, gone, runs>>

\* ClearSteering, ClearFollowUps
Clear ==
    /\ \/ /\ steering # <<>> /\ steering' = <<>> /\ gone' = gone \cup Range(steering)
          /\ UNCHANGED followUps
       \/ /\ followUps # <<>> /\ followUps' = <<>> /\ gone' = gone \cup Range(followUps)
          /\ UNCHANGED steering
    /\ UNCHANGED <<history, running, run, asked, fresh, buried, runs>>

Resolve ==
    /\ ~running
    /\ \E some \in SUBSET Pending(history) :
          some # {} /\ history' = Append(history, Tool(some))
    /\ UNCHANGED <<running, steering, followUps, run, asked, fresh, gone, buried, runs>>

\* ResolvePending reads the calls, and asks its callback without the lock.
Ask ==
    /\ asked = {} /\ ~running
    /\ asked' = Pending(history) /\ asked' # {}
    /\ UNCHANGED <<session, run, fresh, gone, buried, runs>>

\* Variant with a fault: it appends the answers to whatever is there by now.
AnswerBlindly ==
    /\ asked # {} /\ asked' = {}
    /\ history' = IF ~running THEN Append(history, Tool(asked)) ELSE history
    /\ UNCHANGED <<running, steering, followUps, run, fresh, gone, buried, runs>>

\* It then resolves them all or, if one is not pending any more, none.
Answer ==
    /\ asked # {} /\ asked' = {}
    /\ history' = IF ~running /\ asked \subseteq Pending(history)
                  THEN Append(history, Tool(asked)) ELSE history
    /\ UNCHANGED <<running, steering, followUps, run, fresh, gone, buried, runs>>

Step(r) ==
    \/ Open(r) \/ Poll(r) \/ Turn(r) \/ Inject(r) \/ Call(r) \/ ModelReturns(r)
    \/ Retry(r) \/ Tools(r) \/ Decide(r) \/ DrainSteering(r) \/ DrainFollowUps(r)
    \/ Leave(r)

Next ==
    \/ \E r \in Runners : Begin(r) \/ Step(r)
    \/ Send \/ Clear \/ Resolve \/ Ask \/ Answer

Spec == Init /\ [][Next]_vars

-----------------------------------------------------------------------------
(* Properties.                                                             *)

Message == [role : {"user"}, message : Messages]
           \cup [role : {"assistant"}, calls : 0..MaxCalls]
           \cup [role : {"tool"}, answers : SUBSET (Nat \X (1..MaxCalls))]

Place == {"idle", "started", "poll", "turn", "inject", "model", "retry", "tools",
          "decide", "drain", "followups", "leave"}
Reason == {"none", "end_turn", "truncated", "terminated", "max_turns", "budget",
           "stop_when", "paused"}
RunState ==
    [pc : Place, turn : 0..MaxTurns, pending : Seq(Messages), salvaged : 0..SalvageAttempts,
     salvage : BOOLEAN,
     resp : [calls : 0..MaxCalls, text : BOOLEAN, cut : BOOLEAN, at : Nat],
     stop : Reason]

\* Every variable has its type, and a run its limit of turns.
TypeOK ==
    /\ history \in Seq(Message) /\ running \in BOOLEAN
    /\ steering \in Seq(Messages) /\ followUps \in Seq(Messages)
    /\ run \in [Runners -> RunState]
    /\ asked \subseteq Nat \X (1..MaxCalls) /\ buried \subseteq Nat \X (1..MaxCalls)
    /\ fresh \subseteq Messages /\ gone \subseteq Messages /\ runs \in 0..MaxRuns

\* A message given to the session is in one queue, drained for the next turn
\* or in the history, exactly once, until it is cleared or its stream
\* abandoned: no error, stop or race of the loop loses or repeats it.
MessagesKept ==
    \A m \in Messages :
        LET in(queue) == Cardinality({i \in DOMAIN queue : queue[i] = m})
            drained == {r \in Runners : m \in Range(run[r].pending)}
        IN Cardinality({s \in {"fresh", "gone"} :
                           m \in IF s = "fresh" THEN fresh ELSE gone})
           + in(steering) + in(followUps) + Cardinality(drained)
           + Cardinality({i \in DOMAIN history : history[i] = User(m)}) = 1

\* However runs, resolutions and callbacks without the lock interleave, a call
\* has at most one result, and it follows the call.
CallsAnsweredOnce ==
    \A p \in DOMAIN history : history[p].role = "tool" =>
        /\ history[p].answers \subseteq UNION {CallsAt(history, q) : q \in 1..(p - 1)}
        /\ \A q \in 1..(p - 1) :
              history[q].role = "tool" => history[q].answers \cap history[p].answers = {}

\* No model call sees an open tool call, whatever stopped or paused the runs
\* before, unless a caller has appended a message behind that call.
OpenCallsStopRuns ==
    [][\A r \in Runners : run[r].pc # "model" /\ run'[r].pc = "model"
          => OpenCalls(history) \subseteq buried]_vars

\* A run whose last answer has text and was cut off by the output limit never
\* stops as end_turn, whatever was queued meanwhile.  One without is neither
\* continued nor reported: the run stops as if the answer were whole.
TruncatedNeverSucceeds ==
    \A r \in Runners :
        run[r].pc = "leave" /\ run[r].stop = "end_turn" =>
            ~(run[r].resp.cut /\ run[r].resp.text)

\* One run at a time holds the session, from begin to its deferred end, by
\* whichever of its ways it leaves the loop.
OneRunHoldsSession ==
    LET active == {r \in Runners : run[r].pc # "idle"}
    IN Cardinality(active) = IF running THEN 1 ELSE 0

\* What session.go says and the code does not do: follow-ups run only after the
\* agent would otherwise stop, so not amid an answer that is being continued.
FollowUpsWaitForAnswer ==
    [][\A r \in Runners :
          run[r].pc = "followups" /\ run'[r].pending # <<>> => ~run[r].salvage]_vars
=============================================================================
