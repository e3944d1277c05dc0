------------------------------ MODULE CallTurn ------------------------------
(***************************************************************************)
(* The model call of one turn (agent, callTurn) over the retry middleware  *)
(* (ai/middleware/retry): streams that break, the two layers that repeat   *)
(* them from budgets of their own and from one they share, and the draft   *)
(* a consumer has seen by then.                                            *)
(*                                                                         *)
(* What a request streams is a set of kinds: text of an answer, a tool     *)
(* call, what can be dropped without retracting an answer (reasoning and   *)
(* blank text), and text a continuation repeats of its prefix, which the   *)
(* filter keeps from the consumer.  A fragment is a kind and the number of *)
(* the request it is from.  Time is left out but for the window in which   *)
(* repetitions may be scheduled, and so are turns that do not stream:      *)
(* nothing of them is shown before it is whole.                            *)
(***************************************************************************)
EXTENDS Naturals

CONSTANTS
    Attempts,       \* streamRecovery.attempts; none disables the recovery
    Replays,        \* the values streamReplayAttempts may have
    MaxAttempts     \* attempts the middleware makes for one stream

ASSUME BudgetAssumption ==
    Attempts \in Nat /\ Replays \subseteq Nat /\ MaxAttempts \in Nat \ {0}

VARIABLES
    policy,         \* how the agent is configured
    leg,            \* where the turn is
    tries,          \* attempts of the middleware for the present stream
    requests,       \* requests sent
    shown,          \* kinds the present request has streamed
    prefix,         \* requests whose text is retained
    havePrefix,     \* the next request continues the prefix
    fellBack,       \* the prefix has been given up
    spent,          \* repetitions that retracted an answer
    used,           \* claims on the allowance of replays
    begun, late,    \* the window has begun, and has passed
    ended,          \* the context of the turn has ended
    draft,          \* the live draft of the consumer
    answer          \* the message the turn returns

recovery == <<prefix, havePrefix, fellBack, spent, used, begun>>
turnVars == <<policy, leg, tries, requests, shown, recovery, late, ended, draft, answer>>

Kinds == {"text", "call", "droppable", "repeated"}
Fragments(n) == (Kinds \ {"repeated"}) \X (1..n)

Shared == Attempts > 0 /\ policy.replays > 0
Produced == shown # {}
ReplayTier == Shared /\ shown \subseteq {"droppable"}
Continues == policy.mode = "continue" /\ ~fellBack

(* retainPrefix: the text of the present request, unless a tool call is    *)
(* behind it.                                                              *)
Retained == {n \in {requests} : "text" \in shown /\ "call" \notin shown}

Claimable == used < policy.replays /\ ~late

-----------------------------------------------------------------------------
(* The middleware and the model behind it.                                 *)

(* The top of the middleware's loop.                                       *)
Request ==
    /\ leg = "request" /\ ~ended
    /\ leg' = "stream"
    /\ requests' = requests + 1
    /\ UNCHANGED <<policy, tries, shown, recovery, late, ended, draft, answer>>

(* An event of the stream reaches the consumer, if the filter lets it.     *)
Emit(kind) ==
    /\ leg = "stream"
    /\ kind = "repeated" => havePrefix
    /\ shown' = shown \cup {kind}
    /\ draft' = IF kind = "repeated" THEN draft ELSE draft \cup {<<kind, requests>>}
    /\ UNCHANGED <<policy, leg, tries, requests, recovery, late, ended, answer>>

(* Mutant: the middleware does not charge the shared allowance.            *)
ClaimedFree == Claimable /\ used' = used /\ begun' = TRUE

(* RetryAllowance.Claim.                                                   *)
Claimed == Claimable /\ used' = used + 1 /\ begun' = TRUE

(* The middleware repeats a request that produced nothing.                 *)
Repeat ==
    /\ leg = "stream" /\ ~ended
    /\ ~Produced
    /\ tries < MaxAttempts
    /\ tries' = tries + 1
    /\ leg' = "request"
    /\ IF Shared THEN Claimed ELSE UNCHANGED <<used, begun>>
    /\ UNCHANGED <<policy, requests, shown, prefix, havePrefix, fellBack, spent,
                   late, ended, draft, answer>>

(* The middleware gives the loop an error: the stream broke, or there was  *)
(* none any more when the context ended.                                   *)
Broken(retryable) ==
    \/ leg = "stream" /\ (~Produced /\ retryable /\ ~ended =>
                             tries = MaxAttempts \/ ~Shared \/ ~Claimable)
    \/ leg = "request" /\ ended /\ ~retryable

-----------------------------------------------------------------------------
(* The loop.                                                               *)

Close(message) == leg' = "over" /\ answer' = message

(* mergeContinuation.                                                      *)
Merged ==
    {f \in Fragments(requests) :
        \/ f[1] \in shown /\ f[2] = requests
        \/ f[1] = "text" /\ havePrefix /\ f[2] \in prefix}

(* continuationEmpty.                                                      *)
AddsNothing == havePrefix /\ shown \cap {"text", "call"} = {}

Answer ==
    /\ leg = "stream"
    /\ ~AddsNothing
    /\ Close(Merged)
    /\ UNCHANGED <<policy, tries, requests, shown, recovery, late, ended, draft>>

(* Mutant: the consumer is not told that the fragment is given up.         *)
AbandonQuietly ==
    /\ havePrefix
    /\ (leg = "stream" /\ AddsNothing) \/ (Broken(FALSE) /\ ~ended)
    /\ fellBack' = TRUE /\ havePrefix' = FALSE /\ prefix' = {}
    /\ leg' = "rest"
    /\ UNCHANGED <<policy, tries, requests, shown, spent, used, begun, late, ended,
                   draft, answer>>

(* The continuation was refused, or added nothing: the next request        *)
(* answers from the start.                                                 *)
Abandon ==
    /\ havePrefix
    /\ (leg = "stream" /\ AddsNothing) \/ (Broken(FALSE) /\ ~ended)
    /\ fellBack' = TRUE /\ havePrefix' = FALSE /\ prefix' = {}
    /\ draft' = {}
    /\ leg' = "rest"
    /\ UNCHANGED <<policy, tries, requests, shown, spent, used, begun, late, ended, answer>>

Exhausted ==
    IF ReplayTier THEN used >= policy.replays ELSE spent >= Attempts

(* The prefix as a failure leaves it.                                      *)
Extended ==
    IF Retained = {} THEN prefix
    ELSE IF Continues THEN prefix \cup Retained ELSE Retained

(* The turn gives up; reportAbandoned ends the draft with what is retained *)
(* or discards it.  The window may pass just before a replay is claimed.   *)
GiveUp(retryable) ==
    /\ Broken(retryable)
    /\ ~(havePrefix /\ ~retryable /\ ~ended)
    /\ ~Produced \/ Exhausted \/ ~retryable \/ ended \/ late \/ (ReplayTier /\ ~begun)
    /\ Close({})
    /\ prefix' = Extended
    /\ draft' = IF prefix' # {} \/ Produced THEN {} ELSE draft
    /\ UNCHANGED <<policy, tries, requests, shown, havePrefix, fellBack, spent, used,
                   begun, late, ended>>

(* The stream is issued again: with the prefix when there is one, else     *)
(* after the draft has been retracted.                                     *)
Reissue ==
    /\ Broken(TRUE) /\ ~ended
    /\ Produced /\ ~Exhausted /\ ~late
    /\ IF ReplayTier THEN Claimed /\ UNCHANGED spent
       ELSE spent' = spent + 1 /\ begun' = TRUE /\ UNCHANGED used
    /\ prefix' = Extended
    /\ havePrefix' = (havePrefix \/ (Continues /\ Retained # {}))
    /\ draft' = IF havePrefix' THEN draft ELSE {}
    /\ leg' = "rest"
    /\ UNCHANGED <<policy, tries, requests, shown, fellBack, late, ended, answer>>

(* sleepContext after a failure: it is over, or the context is.            *)
Rest ==
    /\ leg = "rest"
    /\ \/ leg' = "request" /\ tries' = 1 /\ shown' = {} /\ UNCHANGED answer
       \/ ended /\ Close({}) /\ UNCHANGED <<tries, shown>>
    /\ UNCHANGED <<policy, requests, recovery, late, ended, draft>>

(* The consumer stops wherever an event is emitted.                        *)
Quit ==
    /\ leg \in {"request", "stream", "rest"}
    /\ leg' = "quit"
    /\ UNCHANGED <<policy, tries, requests, shown, recovery, late, ended, draft, answer>>

EndContext ==
    /\ leg \notin {"over", "quit"} /\ ~ended /\ ended' = TRUE
    /\ UNCHANGED <<policy, leg, tries, requests, shown, recovery, late, draft, answer>>

(* Expired, or the time since episodeStart, from now on.                   *)
Expire ==
    /\ leg \notin {"over", "quit"} /\ begun /\ ~late /\ late' = TRUE
    /\ UNCHANGED <<policy, leg, tries, requests, shown, recovery, ended, draft, answer>>

TurnInit ==
    /\ policy \in [mode : {"discard", "continue"}, replays : Replays]
    /\ leg = "request" /\ tries = 1
    /\ requests = 0 /\ spent = 0 /\ used = 0
    /\ shown = {} /\ prefix = {} /\ draft = {} /\ answer = {}
    /\ havePrefix = FALSE /\ fellBack = FALSE
    /\ begun = FALSE /\ late = FALSE /\ ended = FALSE

TurnNext ==
    \/ Request \/ (\E kind \in Kinds : Emit(kind)) \/ Repeat
    \/ Answer \/ Abandon \/ Reissue \/ Rest
    \/ \E retryable \in BOOLEAN : GiveUp(retryable)
    \/ Quit \/ EndContext \/ Expire

TurnSpec == TurnInit /\ [][TurnNext]_turnVars

-----------------------------------------------------------------------------
TurnTypeOK ==
    /\ policy \in [mode : {"discard", "continue"}, replays : Replays]
    /\ leg \in {"request", "stream", "rest", "over", "quit"}
    /\ tries \in 1..MaxAttempts
    /\ requests \in Nat /\ spent \in 0..Attempts /\ used \in 0..policy.replays
    /\ shown \subseteq Kinds /\ prefix \subseteq 1..requests
    /\ draft \subseteq Fragments(requests) /\ answer \subseteq Fragments(requests)
    /\ havePrefix \in BOOLEAN /\ fellBack \in BOOLEAN
    /\ begun \in BOOLEAN /\ late \in BOOLEAN /\ ended \in BOOLEAN

(* The streams a turn may open: the first, the repetitions of its own      *)
(* budget, and the one that answers from the start.                        *)
Streams == 1 + Attempts + (IF policy.mode = "continue" /\ Attempts > 0 THEN 1 ELSE 0)

(* However the failures of the two layers alternate, a turn sends no more  *)
(* requests than its budgets add up to: they multiply only when the agent  *)
(* sets no allowance of replays for both.                                  *)
RequestsBounded ==
    requests <= IF Shared THEN Streams + policy.replays ELSE Streams * MaxAttempts

(* Text and calls the consumer still sees, of the message or of a          *)
(* continuation that broke behind a tool call it had streamed.             *)
Visible == {f \in draft : f[1] \in {"text", "call"}}
BrokeBehindCall(n) == n # requests /\ <<"call", n>> \in draft

(* When a turn is over, the draft its consumer has seen is the message it  *)
(* returns, however many requests the message is made of, or it has been   *)
(* ended.  Two cases are left out, which the code does not settle: the     *)
(* text of a continuation that broke behind a tool call is neither         *)
(* retained nor retracted, and a prefix stands when the context ends while *)
(* the turn waits to continue it.                                          *)
DraftSettled ==
    leg = "over" =>
        IF answer # {}
        THEN /\ answer \subseteq draft
             /\ \A f \in Visible : f \in answer \/ BrokeBehindCall(f[2])
        ELSE draft = {} \/ (ended /\ havePrefix)
=============================================================================
