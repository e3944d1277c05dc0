--------------------------- MODULE CallTurnProofs ---------------------------
(***************************************************************************)
(* Proofs about CallTurn, for any budgets.                                 *)
(***************************************************************************)
EXTENDS CallTurn, TLAPS

Live == leg \in {"request", "stream", "rest"}

\* The streams opened, or to be opened, after the first.
Opened == spent + (IF fellBack THEN 1 ELSE 0)
Pending == IF leg \in {"request", "rest"} THEN 1 ELSE 0

\* Only an agent that continues has a prefix, or one it has given up.
Modes ==
    /\ fellBack => policy.mode = "continue" /\ Attempts > 0
    /\ havePrefix => policy.mode = "continue" /\ Attempts > 0 /\ ~fellBack

\* Every request but the first is charged to a budget.
Charged ==
    /\ Shared => requests + Pending <= 1 + Opened + used
    /\ ~Shared =>
          /\ requests <= MaxAttempts * Opened + tries
          /\ leg = "request" => requests + 1 <= MaxAttempts * Opened + tries
          /\ leg = "rest" => requests <= MaxAttempts * Opened

\* The draft of a turn that goes on: what the present request has shown, and
\* behind it the prefix and what broke behind a tool call.
Drawn ==
    /\ leg = "request" => shown = {}
    /\ leg = "stream" =>
          /\ requests > 0
          /\ \A k \in shown \ {"repeated"} : <<k, requests>> \in draft
          /\ \A f \in draft : f[2] = requests => f[1] \in shown
          /\ ~havePrefix => \A f \in draft : f[2] = requests
    /\ leg \in {"request", "rest"} /\ ~havePrefix => draft = {}

Retaining ==
    Live =>
        /\ Continues /\ ~havePrefix => prefix = {}
        /\ havePrefix =>
              /\ prefix # {}
              /\ \A n \in prefix : <<"text", n>> \in draft
              /\ \A f \in draft :
                    f[1] = "text" /\ (leg # "stream" \/ f[2] # requests) =>
                        f[2] \in prefix \/ <<"call", f[2]>> \in draft

IInv == TurnTypeOK /\ Modes /\ Charged /\ Drawn /\ Retaining /\ DraftSettled

-----------------------------------------------------------------------------
(* One action at a time.                                                   *)

\* Names the actions of a step.
LEMMA Steps ==
    ASSUME [TurnNext]_turnVars,
           NEW P,
           Request => P, \A kind \in Kinds : Emit(kind) => P, Repeat => P,
           Answer => P, Abandon => P, Reissue => P, Rest => P,
           \A retryable \in BOOLEAN : GiveUp(retryable) => P,
           Quit => P, EndContext => P, Expire => P, UNCHANGED turnVars => P
    PROVE  P
BY DEF TurnNext

\* The fragments of a request are fragments of the requests after it.
LEMMA FragmentsGrow ==
    \A m, n \in Nat : m <= n => Fragments(m) \subseteq Fragments(n)
BY DEF Fragments

\* The type of the variables is kept.
LEMMA TypeStep ==
    ASSUME TurnTypeOK, Drawn, [TurnNext]_turnVars
    PROVE  TurnTypeOK'
<1> USE BudgetAssumption
<1>0. policy.replays \in Nat
  BY DEF TurnTypeOK
<1> DEFINE claim == (Claimed \/ UNCHANGED <<used, begun>>) /\ UNCHANGED policy
<1>a. ASSUME claim PROVE used' \in 0..policy'.replays /\ begun' \in BOOLEAN
  <2>1. CASE Claimed /\ UNCHANGED policy
    BY <2>1, <1>0 DEF Claimed, Claimable, TurnTypeOK
  <2>2. CASE UNCHANGED <<used, begun, policy>>
    BY <2>2 DEF TurnTypeOK
  <2> QED BY <1>a, <2>1, <2>2
<1>b. leg \in {"request", "stream"} => Retained \subseteq 1..requests
  <2>1. leg = "stream" => requests \in 1..requests
    BY DEF Drawn, TurnTypeOK
  <2>2. leg = "request" => Retained = {}
    BY DEF Retained, Drawn
  <2>3. leg = "stream" => Retained \subseteq 1..requests
    BY <2>1 DEF Retained
  <2> QED BY <2>2, <2>3 DEF TurnTypeOK
<1>c. leg \in {"request", "stream"} => Extended \subseteq 1..requests
  BY <1>b DEF Extended, TurnTypeOK
<1>1. ASSUME Request PROVE TurnTypeOK'
  <2>1. Fragments(requests) \subseteq Fragments(requests')
    BY <1>1, FragmentsGrow DEF Request, TurnTypeOK
  <2> QED BY <1>1, <2>1 DEF Request, recovery, TurnTypeOK
<1>2. ASSUME NEW kind \in Kinds, Emit(kind) PROVE TurnTypeOK'
  <2>1. kind # "repeated" => <<kind, requests>> \in Fragments(requests)
    BY <1>2 DEF Emit, Drawn, Fragments, TurnTypeOK
  <2> QED BY <1>2, <2>1 DEF Emit, recovery, TurnTypeOK
<1>3. ASSUME Repeat PROVE TurnTypeOK'
  <2>1. claim
    BY <1>3 DEF Repeat
  <2> QED BY <1>3, <1>a, <2>1 DEF Repeat, TurnTypeOK
<1>4. ASSUME Answer PROVE TurnTypeOK'
  BY <1>4 DEF Answer, Close, Merged, recovery, TurnTypeOK
<1>5. ASSUME Abandon PROVE TurnTypeOK'
  BY <1>5 DEF Abandon, TurnTypeOK
<1>6. ASSUME Reissue PROVE TurnTypeOK'
  <2>1. spent' \in 0..Attempts /\ used' \in 0..policy'.replays /\ begun' \in BOOLEAN
    <3>1. CASE ReplayTier
      BY <1>6, <3>1, <1>a DEF Reissue, TurnTypeOK
    <3>2. CASE ~ReplayTier
      BY <1>6, <3>2 DEF Reissue, Exhausted, TurnTypeOK
    <3> QED BY <3>1, <3>2
  <2>2. havePrefix' \in BOOLEAN /\ leg \in {"request", "stream"}
    BY <1>6 DEF Reissue, Broken
  <2> QED BY <1>6, <1>c, <2>1, <2>2 DEF Reissue, TurnTypeOK
<1>7. ASSUME Rest PROVE TurnTypeOK'
  BY <1>7 DEF Rest, Close, recovery, TurnTypeOK
<1>8. ASSUME NEW retryable \in BOOLEAN, GiveUp(retryable) PROVE TurnTypeOK'
  <2>1. leg \in {"request", "stream"}
    BY <1>8 DEF GiveUp, Broken
  <2> QED BY <1>8, <1>c, <2>1 DEF GiveUp, Close, TurnTypeOK
<1>9. CASE Quit
  BY <1>9 DEF Quit, recovery, TurnTypeOK
<1>10. CASE EndContext
  BY <1>10 DEF EndContext, recovery, TurnTypeOK
<1>11. CASE Expire
  BY <1>11 DEF Expire, recovery, TurnTypeOK
<1>12. CASE UNCHANGED turnVars
  BY <1>12 DEF turnVars, recovery, TurnTypeOK
<1> QED
  BY <1>1, <1>2, <1>3, <1>4, <1>5, <1>6, <1>7, <1>8, <1>9, <1>10, <1>11, <1>12, Steps

\* The counters are numbers within their budgets.
LEMMA Counters ==
    ASSUME TurnTypeOK
    PROVE  /\ requests \in Nat /\ used \in Nat /\ spent \in Nat /\ tries \in Nat
           /\ policy.replays \in Nat /\ used <= policy.replays /\ spent <= Attempts
           /\ tries <= MaxAttempts /\ tries >= 1
<1>1. policy.replays \in Nat
  BY BudgetAssumption DEF TurnTypeOK
<1>2. used \in 0..policy.replays /\ spent \in 0..Attempts /\ tries \in 1..MaxAttempts /\ requests \in Nat
  BY DEF TurnTypeOK
<1> QED BY <1>1, <1>2, BudgetAssumption

\* One more stream may be repeated as often as the middleware repeats one.
LEMMA OneMoreStream ==
    \A m, n \in Nat : m * (n + 1) = m * n + m /\ m * n \in Nat
OBVIOUS

\* The streams opened are a number, and one more when a budget is charged or
\* the prefix given up.
LEMMA OpenedType ==
    TurnTypeOK => Opened \in Nat /\ MaxAttempts * Opened \in Nat /\ MaxAttempts \in Nat
BY BudgetAssumption, OneMoreStream DEF TurnTypeOK, Opened

\* The modes and the charges are kept.
LEMMA BudgetStep ==
    ASSUME TurnTypeOK, TurnTypeOK', Modes, Charged, [TurnNext]_turnVars
    PROVE  Modes' /\ Charged'
<1>0. /\ requests \in Nat /\ used \in Nat /\ spent \in Nat /\ Opened \in Nat
      /\ MaxAttempts * Opened \in Nat /\ MaxAttempts \in Nat /\ tries \in Nat
      /\ MaxAttempts * (Opened + 1) = MaxAttempts * Opened + MaxAttempts
      /\ tries <= MaxAttempts /\ tries >= 1 /\ policy.replays \in Nat
  <2>1. MaxAttempts * (Opened + 1) = MaxAttempts * Opened + MaxAttempts
    BY OpenedType, OneMoreStream
  <2>2. Opened \in Nat /\ MaxAttempts * Opened \in Nat /\ MaxAttempts \in Nat
    BY OpenedType
  <2>3. /\ requests \in Nat /\ used \in Nat /\ spent \in Nat /\ tries \in Nat
        /\ tries <= MaxAttempts /\ tries >= 1 /\ policy.replays \in Nat
    BY Counters
  <2> QED BY <2>1, <2>2, <2>3
<1> USE BudgetAssumption DEF Modes, Charged, Opened, Pending
<1>s. policy' = policy => Shared' = Shared
  BY DEF Shared
<1> DEFINE Same == UNCHANGED <<policy, fellBack, spent>>
<1>same. Same => Opened' = Opened
  OBVIOUS
<1>q. ASSUME Same, UNCHANGED <<requests, used, tries, havePrefix>>,
             leg' = leg \/ leg' \in {"over", "quit"}
      PROVE  Modes' /\ Charged'
  BY <1>q, <1>0, <1>s, <1>same
<1>1. ASSUME Request PROVE Modes' /\ Charged'
  BY <1>1, <1>0, <1>s, <1>same DEF Request, recovery
<1>2. ASSUME NEW kind \in Kinds, Emit(kind) PROVE Modes' /\ Charged'
  BY <1>2, <1>q DEF Emit, recovery
<1>3. ASSUME Repeat PROVE Modes' /\ Charged'
  <2>1. CASE Shared
    BY <1>3, <2>1, <1>0, <1>s, <1>same DEF Repeat, Claimed
  <2>2. CASE ~Shared
    BY <1>3, <2>2, <1>0, <1>s, <1>same DEF Repeat
  <2> QED BY <2>1, <2>2
<1>4. ASSUME Answer PROVE Modes' /\ Charged'
  BY <1>4, <1>q DEF Answer, Close, recovery
<1>5. ASSUME Abandon PROVE Modes' /\ Charged'
  <2>1. Opened' = Opened + 1 /\ leg' = "rest" /\ Shared' = Shared /\ leg \in {"stream", "request"}
    BY <1>5, <1>0, <1>s DEF Abandon, Broken
  <2>2. leg = "stream"
    BY <1>5 DEF Abandon, Broken
  <2>3. Charged'
    BY <1>5, <2>1, <2>2, <1>0 DEF Abandon
  <2> QED BY <1>5, <2>3 DEF Abandon
<1>6. ASSUME Reissue PROVE Modes' /\ Charged'
  <2>1. leg = "stream" /\ leg' = "rest" /\ Shared' = Shared
    BY <1>6, <1>s DEF Reissue, Broken
  <2>2. Charged'
    <3>1. CASE ReplayTier
      <4>1. Shared /\ Opened' = Opened /\ used' = used + 1
        BY <1>6, <3>1 DEF Reissue, Claimed, ReplayTier
      <4> QED BY <1>6, <4>1, <2>1, <1>0 DEF Reissue
    <3>2. CASE ~ReplayTier
      <4>1. Opened' = Opened + 1 /\ used' = used
        BY <1>6, <3>2, <1>0 DEF Reissue
      <4> QED BY <1>6, <4>1, <2>1, <1>0 DEF Reissue
    <3> QED BY <3>1, <3>2
  <2>3. Attempts > 0
    BY <1>6 DEF Reissue, Exhausted, ReplayTier, Shared, TurnTypeOK
  <2>4. policy' = policy /\ fellBack' = fellBack
    BY <1>6 DEF Reissue
  <2>5. havePrefix' => havePrefix \/ (policy.mode = "continue" /\ ~fellBack)
    BY <1>6 DEF Reissue, Continues
  <2> QED BY <2>2, <2>3, <2>4, <2>5
<1>7. ASSUME Rest PROVE Modes' /\ Charged'
  <2>1. CASE leg' = "request"
    BY <1>7, <2>1, <1>0, <1>s, <1>same DEF Rest, Close, recovery
  <2>2. CASE leg' = "over"
    BY <1>7, <2>2, <1>q DEF Rest, Close, recovery
  <2> QED BY <1>7, <2>1, <2>2 DEF Rest, Close
<1>8. ASSUME NEW retryable \in BOOLEAN, GiveUp(retryable) PROVE Modes' /\ Charged'
  BY <1>8, <1>q DEF GiveUp, Close
<1>9. CASE Quit
  BY <1>9, <1>q DEF Quit, recovery
<1>10. CASE EndContext
  BY <1>10, <1>q DEF EndContext, recovery
<1>11. CASE Expire
  BY <1>11, <1>q DEF Expire, recovery
<1>12. CASE UNCHANGED turnVars
  BY <1>12, <1>q DEF turnVars, recovery
<1> QED
  BY <1>1, <1>2, <1>3, <1>4, <1>5, <1>6, <1>7, <1>8, <1>9, <1>10, <1>11, <1>12, Steps

-----------------------------------------------------------------------------
(* The draft.                                                              *)

\* What the consumer has seen, and how the turn ends for it, is kept.
LEMMA DraftStep ==
    ASSUME TurnTypeOK, Modes, Drawn, Retaining, DraftSettled, [TurnNext]_turnVars
    PROVE  Drawn' /\ Retaining' /\ DraftSettled'
<1> USE DEF Drawn, Retaining, Live
<1> DEFINE Goal == Drawn' /\ Retaining' /\ DraftSettled'
<1>0. /\ requests \in Nat
      /\ \A f \in draft : f \in Fragments(requests)
      /\ \A f \in draft : f[1] \in Kinds \ {"repeated"} /\ f[2] \in 1..requests /\ f = <<f[1], f[2]>>
  BY DEF TurnTypeOK, Fragments
<1>1. ASSUME Request PROVE Goal
  <2>1. \A f \in draft : f[2] # requests + 1
    BY <1>0
  <2> QED BY <1>1, <1>0, <2>1 DEF Request, recovery, Continues, DraftSettled
<1>2. ASSUME NEW kind \in Kinds, Emit(kind) PROVE Goal
  <2>1. <<kind, requests>>[1] = kind /\ <<kind, requests>>[2] = requests
    OBVIOUS
  <2>2. Drawn'
    BY <1>2, <2>1 DEF Emit, recovery
  <2>3. Retaining'
    BY <1>2, <2>1 DEF Emit, recovery, Continues
  <2> QED BY <1>2, <2>2, <2>3 DEF Emit, DraftSettled
<1>3. ASSUME Repeat PROVE Goal
  <2>1. \A f \in draft : f[2] # requests
    BY <1>3 DEF Repeat, Produced
  <2> QED BY <1>3, <2>1, <1>0 DEF Repeat, Produced, Continues, DraftSettled
<1>4. ASSUME Answer PROVE Goal
  <2>1. Merged \subseteq draft
    BY <1>4 DEF Answer, Merged, Fragments, Kinds
  <2>2. ASSUME NEW f \in Visible PROVE f \in Merged \/ BrokeBehindCall(f[2])
    <3>1. f \in draft /\ f[1] \in {"text", "call"} /\ f = <<f[1], f[2]>> /\ f \in Fragments(requests)
      BY <2>2, <1>0 DEF Visible
    <3>2. CASE f[2] = requests
      BY <1>4, <3>1, <3>2 DEF Answer, Merged
    <3>3. CASE f[2] # requests
      BY <1>4, <3>1, <3>3 DEF Answer, Merged, BrokeBehindCall
    <3> QED BY <3>2, <3>3
  <2>3. Merged = {} => draft = {}
    <3>1. ASSUME NEW f \in draft, f[2] = requests PROVE f \in Merged
      BY <1>4, <3>1, <1>0 DEF Answer, Merged
    <3>2. CASE havePrefix
      <4>1. PICK k \in {"text", "call"} : k \in shown
        BY <1>4, <3>2 DEF Answer, AddsNothing
      <4>2. <<k, requests>> \in draft
        BY <1>4, <4>1 DEF Answer
      <4> QED BY <3>1, <4>2
    <3>3. CASE ~havePrefix
      BY <1>4, <3>1, <3>3 DEF Answer
    <3> QED BY <3>2, <3>3
  <2>4. DraftSettled'
    BY <1>4, <2>1, <2>2, <2>3 DEF Answer, Close, DraftSettled, Visible, BrokeBehindCall
  <2> QED BY <1>4, <2>4 DEF Answer, Close
<1>5. ASSUME Abandon PROVE Goal
  BY <1>5 DEF Abandon, Continues, DraftSettled
<1>6. ASSUME Reissue PROVE Goal
  <2>1. leg = "stream" /\ leg' = "rest" /\ requests' = requests
    BY <1>6 DEF Reissue, Broken
  <2>2. Drawn' /\ DraftSettled'
    BY <1>6, <2>1 DEF Reissue, DraftSettled
  <2>3. ASSUME Continues', ~havePrefix' PROVE prefix' = {}
    BY <1>6, <2>3, <2>1 DEF Reissue, Continues, Extended
  <2>4. ASSUME havePrefix' PROVE Retaining'
    <3>1. Continues /\ draft' = draft /\ prefix' = prefix \cup Retained
      BY <1>6, <2>4 DEF Reissue, Continues, Modes, Extended
    <3>2. prefix' # {}
      BY <1>6, <2>1, <2>4, <3>1 DEF Reissue
    <3>3. ASSUME NEW n \in prefix' PROVE <<"text", n>> \in draft
      <4>1. CASE n \in Retained
        BY <4>1, <2>1 DEF Retained
      <4>2. CASE n \notin Retained
        BY <4>2, <3>1, <3>3, <2>1 DEF Retained
      <4> QED BY <4>1, <4>2
    <3>4. ASSUME NEW f \in draft, f[1] = "text"
          PROVE  f[2] \in prefix' \/ <<"call", f[2]>> \in draft
      <4>1. CASE f[2] = requests
        BY <4>1, <3>1, <3>4, <2>1 DEF Retained
      <4>2. CASE f[2] # requests
        BY <4>2, <3>1, <3>4, <2>1
      <4> QED BY <4>1, <4>2
    <3> QED BY <2>1, <2>3, <3>1, <3>2, <3>3, <3>4
  <2> QED BY <2>1, <2>2, <2>3, <2>4
<1>7. ASSUME Rest PROVE Goal
  <2>1. CASE leg' = "request"
    BY <1>7, <2>1 DEF Rest, Close, recovery, Continues, DraftSettled
  <2>2. CASE leg' = "over"
    BY <1>7, <2>2 DEF Rest, Close, recovery, DraftSettled
  <2> QED BY <1>7, <2>1, <2>2 DEF Rest, Close
<1>8. ASSUME NEW retryable \in BOOLEAN, GiveUp(retryable) PROVE Goal
  <2>1. leg \in {"stream", "request"} /\ leg' = "over"
    BY <1>8 DEF GiveUp, Broken, Close
  <2>2. draft' = {}
    <3>1. CASE havePrefix
      BY <1>8, <2>1, <3>1 DEF GiveUp, Extended, Continues, Modes
    <3>2. CASE ~havePrefix
      BY <1>8, <2>1, <3>2 DEF GiveUp, Produced
    <3> QED BY <3>1, <3>2
  <2> QED BY <1>8, <2>1, <2>2 DEF GiveUp, Close, DraftSettled
<1>9. CASE Quit
  BY <1>9 DEF Quit, recovery, Continues, DraftSettled
<1>10. CASE EndContext
  BY <1>10 DEF EndContext, recovery, Continues, DraftSettled
<1>11. CASE Expire
  BY <1>11 DEF Expire, recovery, Continues, DraftSettled
<1>12. CASE UNCHANGED turnVars
  BY <1>12 DEF turnVars, recovery, Continues, DraftSettled, Visible, BrokeBehindCall
<1> QED
  BY <1>1, <1>2, <1>3, <1>4, <1>5, <1>6, <1>7, <1>8, <1>9, <1>10, <1>11, <1>12, Steps

-----------------------------------------------------------------------------
(* The theorems.                                                           *)

\* The inductive invariant: what each request was charged to, and how the
\* draft is made up while the turn goes on.
THEOREM Invariance == TurnSpec => []IInv
<1>1. TurnInit => IInv
  <2>1. ASSUME TurnInit PROVE TurnTypeOK
    <3>1. policy \in [mode : {"discard", "continue"}, replays : Replays] /\ policy.replays \in Nat
      BY <2>1, BudgetAssumption DEF TurnInit
    <3>2. 0 \in 0..policy.replays /\ 0 \in 0..Attempts /\ 1 \in 1..MaxAttempts
      BY <3>1, BudgetAssumption
    <3> QED BY <2>1, <3>1, <3>2 DEF TurnInit, TurnTypeOK
  <2>2. ASSUME TurnInit PROVE Modes /\ Drawn /\ Retaining /\ DraftSettled
    BY <2>2 DEF TurnInit, Modes, Drawn, Retaining, DraftSettled
  <2>3. ASSUME TurnInit PROVE Charged
    <3>1. MaxAttempts * Opened \in Nat
      BY <2>1, <2>3, OpenedType
    <3>2. Opened = 0 /\ requests = 0 /\ tries = 1 /\ used = 0 /\ leg = "request"
      BY <2>3 DEF TurnInit, Opened
    <3> QED BY <3>1, <3>2 DEF Charged, Pending
  <2> QED BY <2>1, <2>2, <2>3 DEF IInv
<1>2. IInv /\ [TurnNext]_turnVars => IInv'
  <2> SUFFICES ASSUME IInv, [TurnNext]_turnVars PROVE IInv'
    OBVIOUS
  <2>1. TurnTypeOK'
    BY TypeStep DEF IInv
  <2>2. Modes' /\ Charged'
    BY <2>1, BudgetStep DEF IInv
  <2>3. Drawn' /\ Retaining' /\ DraftSettled'
    BY DraftStep DEF IInv
  <2> QED BY <2>1, <2>2, <2>3 DEF IInv
<1> QED BY <1>1, <1>2, PTL DEF TurnSpec

\* The budgets of the loop and of the middleware bound the requests of a
\* turn, for any values of them and any way the streams break.
THEOREM BudgetsHold == TurnSpec => []RequestsBounded
<1>1. IInv => RequestsBounded
  <2> SUFFICES ASSUME IInv PROVE RequestsBounded
    OBVIOUS
  <2>1. TurnTypeOK /\ Modes /\ Charged
    BY DEF IInv
  <2>2. /\ requests \in Nat /\ used \in Nat /\ tries \in Nat /\ policy.replays \in Nat
        /\ used <= policy.replays /\ tries <= MaxAttempts
    BY <2>1, Counters
  <2>3. Streams \in Nat /\ Opened \in Nat /\ Opened + 1 <= Streams
    BY <2>1, BudgetAssumption DEF Modes, Opened, Streams, TurnTypeOK
  <2>4. CASE Shared
    BY <2>1, <2>2, <2>3, <2>4 DEF Charged, Pending, RequestsBounded
  <2>5. CASE ~Shared
    <3>1. requests <= MaxAttempts * Opened + MaxAttempts
      BY <2>1, <2>2, <2>5, OpenedType DEF Charged
    <3>2. \A m, a, b \in Nat : a + 1 <= b => m * a + m <= b * m
      OBVIOUS
    <3>3. MaxAttempts * Opened + MaxAttempts <= Streams * MaxAttempts
      BY <2>1, <2>3, <3>2, OpenedType
    <3>4. MaxAttempts * Opened \in Nat /\ Streams * MaxAttempts \in Nat /\ MaxAttempts \in Nat
      BY <2>1, <2>3, OpenedType, OneMoreStream
    <3> QED BY <2>2, <2>5, <3>1, <3>3, <3>4 DEF RequestsBounded
  <2> QED BY <2>4, <2>5
<1> QED BY <1>1, Invariance, PTL

\* When a turn is over, its draft is the answer or has been ended.
THEOREM DraftsSettle == TurnSpec => []DraftSettled
<1>1. IInv => DraftSettled
  BY DEF IInv
<1> QED BY <1>1, Invariance, PTL
=============================================================================
