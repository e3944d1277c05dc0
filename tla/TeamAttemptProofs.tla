------------------------- MODULE TeamAttemptProofs -------------------------
(***************************************************************************)
(* Proofs about TeamAttempt, for any members, tasks, limits and runners:   *)
(* AttemptRuntime.Run over a team, with its crashes and repetitions.       *)
(*                                                                         *)
(* What a run has seen to be so stays so, whatever others do meanwhile:    *)
(* an attempt that began is not forgotten, an outcome of a child is        *)
(* final, a report stays the only one under its ID, and the ledger only    *)
(* grows.  The invariant says what each place of the code relies on of     *)
(* these, and the proof is that each step establishes it for the runner    *)
(* that takes it and disturbs it for no other.                             *)
(***************************************************************************)
EXTENDS TeamAttempt, TeamProofs

Applying == {"lookup", "load", "swap", "relookup"}
Completing == {"acknowledge", "message", "finish"}

\* The attempt is one of its task, and has come to an outcome.
Began(a) ==
    \E i \in DOMAIN team.tasks[TaskOf(a)].attempts :
        team.tasks[TaskOf(a)].attempts[i].id = a
EndedAs(a, outcome) ==
    \E i \in DOMAIN team.tasks[TaskOf(a)].attempts :
        /\ team.tasks[TaskOf(a)].attempts[i].id = a
        /\ team.tasks[TaskOf(a)].attempts[i].status = outcome

\* There is one message that is the report of the attempt.
Reporting(a) == {i \in DOMAIN team.mail : team.mail[i].id = a}
ReportedOnce(a) == \E i \in DOMAIN team.mail : Reporting(a) = {i}

\* What a command may say, given its stage.
Sayable(r) ==
    \/ run[r].stage = "claim" /\ run[r].content \in {"claims"} \X Members
    \/ run[r].stage \in {"start", "message"} /\ run[r].content = NoContent
    \/ run[r].stage = "acknowledge" /\ run[r].content \in {"through"} \X Nat
    \/ run[r].stage = "finish" /\ run[r].content = <<"ends", child[run[r].attempt]>>

\* What the code of each place relies on: a run past its start has an
\* attempt, a completion has an outcome, and the last command a report.
RunnerFits(r) ==
    LET a == run[r].attempt IN
    /\ run[r].at \in {"mailbox", "child", "create", "drive", "fetch"} => Began(a)
    /\ run[r].at \in Applying => Sayable(r)
    /\ run[r].at = "fetch" => run[r].stage \in Completing
    /\ run[r].at \in Applying \cup {"fetch"} /\ run[r].stage \in Completing =>
          Began(a) /\ child[a] \in Outcomes
    /\ run[r].at \in Applying \cup {"fetch"} /\ run[r].stage = "finish" =>
          (Reports => <<"message", a>> \in DOMAIN ledger)

\* What was committed under the ID of an attempt is in the team.
LedgerTrue ==
    \A a \in AttemptIds :
        /\ <<"start", a>> \in DOMAIN ledger => Began(a)
        /\ <<"message", a>> \in DOMAIN ledger => ReportedOnce(a)
        /\ <<"finish", a>> \in DOMAIN ledger =>
              /\ child[a] \in Outcomes /\ EndedAs(a, child[a])
              /\ Reports => <<"message", a>> \in DOMAIN ledger

ChildrenBegan == \A a \in AttemptIds : child[a] # "absent" => Began(a)

AInv ==
    /\ IInv /\ AttemptTypeOK /\ ChildrenBegan /\ LedgerTrue
    /\ \A r \in Runners : RunnerFits(r)

-----------------------------------------------------------------------------
(* What stays so.                                                          *)

LEMMA AttemptParts ==
    ASSUME NEW a \in AttemptIds
    PROVE  TaskOf(a) \in Tasks /\ a # NoAttempt
BY DEF AttemptIds, TaskOf, NoAttempt

\* An attempt is not forgotten, and its outcome is final.
LEMMA BeganStays ==
    ASSUME IInv, [Next]_team, NEW a \in AttemptIds
    PROVE  /\ Began(a) => Began(a)'
           /\ \A outcome \in Outcomes : EndedAs(a, outcome) => EndedAs(a, outcome)'
<1> DEFINE old == team.tasks[TaskOf(a)].attempts
           new == team'.tasks[TaskOf(a)].attempts
<1>1. CASE UNCHANGED team
  BY <1>1 DEF Began, EndedAs
<1>2. CASE Next
  <2>1. Final(old, new)
    BY <1>2, AttemptParts, NextFinal
  <2>2. old \in Seq(Attempt) /\ new \in Seq(Attempt)
    <3>1. TypeOK /\ TypeOK'
      BY NextIInv DEF IInv
    <3> QED
      BY <3>1, AttemptParts DEF TypeOK, TeamType, Task
  <2>3. \A i \in DOMAIN old :
           /\ i \in DOMAIN new /\ new[i].id = old[i].id
           /\ old[i].status \in Outcomes => new[i] = old[i]
    BY <2>1, <2>2 DEF Final, Outcomes
  <2> QED
    BY <2>3 DEF Began, EndedAs
<1> QED
  BY <1>1, <1>2

\* Mail of the same length and contents has the same reports, and mail with
\* one more message the reports of before, and that message.
LEMMA ReportsOf ==
    ASSUME TypeOK, NEW id \in AttemptIds \cup {NoAttempt}, NEW to \in Members,
           team'.mail = Append(team.mail, [to |-> to, id |-> id]),
           NEW a \in AttemptIds
    PROVE  /\ id # a => Reporting(a)' = Reporting(a)
           /\ id = a => Reporting(a)' = Reporting(a) \cup {Len(team.mail) + 1}
<1>1. team.mail \in Seq(Message) /\ Len(team.mail) \in Nat
  BY DEF TypeOK, TeamType
<1> DEFINE message == [to |-> to, id |-> id]
<1>2. message \in Message /\ message.id = id
  BY DEF Message
<1> HIDE DEF message
<1>3. /\ DOMAIN team'.mail = DOMAIN team.mail \cup {Len(team.mail) + 1}
      /\ Len(team.mail) + 1 \notin DOMAIN team.mail
      /\ \A i \in DOMAIN team.mail : team'.mail[i] = team.mail[i]
      /\ team'.mail[Len(team.mail) + 1] = message
  BY <1>1, <1>2 DEF message
<1> QED
  BY <1>2, <1>3 DEF Reporting

\* The commands that send nothing leave the mail alone.
LEMMA MailKept ==
    ASSUME TypeOK,
           \/ Govern \/ Plan
           \/ \E m \in Members, k \in Tasks : ClaimTask(m, k)
           \/ \E actor \in Actors, k \in Tasks : ReleaseTask(actor, k)
           \/ \E k \in Tasks, a \in AttemptIds : StartTaskAttempt(k, a)
           \/ \E actor \in Actors, k \in Tasks, a \in AttemptIds, outcome \in Outcomes :
                 FinishTaskAttempt(actor, k, a, outcome)
           \/ \E m \in Members, through \in Nat : AcknowledgeMessages(m, through)
    PROVE  team'.mail = team.mail
<1>1. ASSUME NEW k, NEW t, SetTask(k, t) PROVE team'.mail = team.mail
  BY <1>1 DEF SetTask, TypeOK, TeamType
<1>2. ASSUME NEW m, NEW s, SetMember(m, s) PROVE team'.mail = team.mail
  BY <1>2 DEF SetMember, TypeOK, TeamType
<1>3. CASE Govern
  BY <1>2, <1>3 DEF Govern, Create, RegisterMember, DisableMember, EnableMember,
                    CompleteTeam, TerminalizeTeam, TypeOK, TeamType
<1>4. CASE Plan
  BY <1>1, <1>4 DEF Plan, CreateTask, AssignTask, UnassignTask, RetryTask, CancelTask
<1>5. CASE \E m \in Members, k \in Tasks : ClaimTask(m, k)
  BY <1>1, <1>5 DEF ClaimTask
<1>6. CASE \E actor \in Actors, k \in Tasks : ReleaseTask(actor, k)
  BY <1>1, <1>6 DEF ReleaseTask
<1>7. CASE \E k \in Tasks, a \in AttemptIds : StartTaskAttempt(k, a)
  BY <1>1, <1>7 DEF StartTaskAttempt
<1>8. ASSUME NEW actor \in Actors, NEW k \in Tasks, NEW a \in AttemptIds,
             NEW outcome \in Outcomes, FinishTaskAttempt(actor, k, a, outcome)
      PROVE  team'.mail = team.mail
  BY <1>8 DEF FinishTaskAttempt, TypeOK, TeamType
<1>9. CASE \E m \in Members, through \in Nat : AcknowledgeMessages(m, through)
  BY <1>9 DEF AcknowledgeMessages, TypeOK, TeamType
<1> QED
  BY <1>3, <1>4, <1>5, <1>6, <1>7, <1>8, <1>9

-----------------------------------------------------------------------------
(* How a runner moves.                                                     *)

LEMMA IdleFrame == Idle \in Frame /\ Idle.at = "idle"
<1>1. (CHOOSE a \in AttemptIds : TRUE) \in AttemptIds
  <2>1. PICK k \in Tasks : TRUE
    BY AttemptAssumption
  <2>2. <<k, 1>> \in AttemptIds
    BY TeamAssumption DEF AttemptIds
  <2> QED
    BY <2>2
<1>2. 0 \in 0 .. ConflictLimit - 1
  BY AttemptAssumption
<1> QED
  BY <1>1, <1>2 DEF Idle, Frame, Places, Stages, Content, NoContent

\* Nobody else moves.
Alone(r) ==
    /\ run' \in [Runners -> Frame]
    /\ \A s \in Runners : s # r => run'[s] = run[s]

LEMMA Moved ==
    ASSUME AttemptTypeOK, NEW r \in Runners, NEW f \in Frame, Goto(r, f)
    PROVE  Alone(r) /\ run'[r] = f
BY DEF AttemptTypeOK, Goto, Alone

LEMMA FrameParts ==
    ASSUME AttemptTypeOK, NEW r \in Runners
    PROVE  /\ run[r] \in Frame
           /\ run[r].at \in Places /\ run[r].stage \in Stages
           /\ run[r].attempt \in AttemptIds /\ run[r].content \in Content
           /\ run[r].seen \in Nat /\ run[r].conflicts \in 0 .. ConflictLimit - 1
BY DEF AttemptTypeOK, Frame

LEMMA Returned ==
    ASSUME AttemptTypeOK, NEW r \in Runners, Return(r)
    PROVE  Alone(r) /\ run'[r].at = "idle"
BY IdleFrame, Moved DEF Return

LEMMA Stepped ==
    ASSUME AttemptTypeOK, NEW r \in Runners, NEW place \in Places, Step(r, place)
    PROVE  /\ Alone(r) /\ run'[r].at = place
           /\ run'[r].stage = run[r].stage /\ run'[r].attempt = run[r].attempt
           /\ run'[r].content = run[r].content
<1> DEFINE f == [run[r] EXCEPT !.at = place]
<1>1. /\ f \in Frame /\ f.at = place /\ f.stage = run[r].stage
      /\ f.attempt = run[r].attempt /\ f.content = run[r].content
  BY FrameParts DEF Frame
<1>2. Goto(r, f)
  BY DEF Step
<1> HIDE DEF f
<1> QED
  BY <1>1, <1>2, Moved

LEMMA Issued ==
    ASSUME AttemptTypeOK, NEW r \in Runners, NEW stage \in Stages, NEW content \in Content,
           Issue(r, stage, content)
    PROVE  /\ Alone(r) /\ run'[r].at = "lookup" /\ run'[r].stage = stage
           /\ run'[r].attempt = run[r].attempt /\ run'[r].content = content
<1> DEFINE f == [run[r] EXCEPT !.at = "lookup", !.stage = stage, !.content = content]
<1>1. /\ f \in Frame /\ f.at = "lookup" /\ f.stage = stage
      /\ f.attempt = run[r].attempt /\ f.content = content
  BY FrameParts DEF Frame, Places
<1>2. Goto(r, f)
  BY DEF Issue
<1> HIDE DEF f
<1> QED
  BY <1>1, <1>2, Moved

LEMMA CompleteMoves ==
    ASSUME AttemptTypeOK, NEW r \in Runners, NEW stage \in Stages, Complete(r, stage)
    PROVE  /\ Alone(r) /\ run'[r].at = "fetch" /\ run'[r].stage = stage
           /\ run'[r].attempt = run[r].attempt
<1> DEFINE seen == IF stage = "acknowledge" THEN run[r].seen ELSE 0
           f == [run[r] EXCEPT !.at = "fetch", !.stage = stage, !.content = NoContent,
                    !.conflicts = 0, !.seen = seen]
<1>1. seen \in Nat
  BY FrameParts
<1> HIDE DEF seen
<1>2. 0 \in 0 .. ConflictLimit - 1
  BY AttemptAssumption
<1>3. /\ f \in Frame /\ f.at = "fetch" /\ f.stage = stage
      /\ f.attempt = run[r].attempt
  BY <1>1, <1>2, FrameParts DEF Frame, Places, Content
<1>4. Goto(r, f)
  BY DEF Complete, seen
<1> HIDE DEF f
<1> QED
  BY <1>3, <1>4, Moved

\* After a conflict a run has ended, or fetches for the same command.
LEMMA ConflictMoves ==
    ASSUME AttemptTypeOK, NEW r \in Runners, Conflict(r)
    PROVE  /\ Alone(r)
           /\ \/ run'[r].at = "idle"
              \/ /\ run'[r].at = "fetch" /\ run[r].stage \in Completing
                 /\ run'[r].stage = run[r].stage /\ run'[r].attempt = run[r].attempt
<1>1. CASE Return(r)
  BY <1>1, Returned
<1>2. CASE ~Return(r)
  <2> DEFINE n == run[r].conflicts + 1
             f == [run[r] EXCEPT !.at = "fetch", !.content = NoContent, !.conflicts = n]
  <2>1. /\ Goto(r, f) /\ run[r].stage \notin {"claim", "start"}
        /\ n # ConflictLimit
    BY <1>2 DEF Conflict
  <2>2. n \in 0 .. ConflictLimit - 1
    BY <2>1, FrameParts, AttemptAssumption
  <2> HIDE DEF n
  <2>3. /\ f \in Frame /\ f.at = "fetch" /\ f.stage = run[r].stage
        /\ f.attempt = run[r].attempt
    BY <2>2, FrameParts DEF Frame, Places, Content
  <2>4. run[r].stage \in Completing
    BY <2>1, FrameParts DEF Stages, Completing
  <2> HIDE DEF f
  <2> QED
    BY <2>1, <2>3, <2>4, Moved
<1> QED
  BY <1>1, <1>2

-----------------------------------------------------------------------------
(* The steps of the system, and what they keep.                            *)

\* What every step does: the team is changed by its commands, reports are
\* not repeated, children belong to attempts and end once, and the ledger
\* only grows.
Onward ==
    /\ [Next]_team
    /\ \A a \in AttemptIds : ReportedOnce(a) => ReportedOnce(a)'
    /\ child' \in [AttemptIds -> ChildStatuses]
    /\ \A a \in AttemptIds :
          child'[a] # child[a] => child[a] \notin Outcomes /\ Began(a)
    /\ DOMAIN ledger \subseteq DOMAIN ledger'

\* What was so stays so, and with it what the runners that do not move
\* rely on.
LEMMA OnwardKeeps ==
    ASSUME AInv, Onward
    PROVE  /\ IInv' /\ ChildrenBegan'
           /\ \A a \in AttemptIds :
                 /\ Began(a) => Began(a)'
                 /\ child[a] \in Outcomes => child'[a] = child[a]
                 /\ \A outcome \in Outcomes : EndedAs(a, outcome) => EndedAs(a, outcome)'
           /\ \A s \in Runners : run'[s] = run[s] => RunnerFits(s)'
<1>1. IInv'
  BY NextIInv DEF AInv, Onward
<1>2. \A a \in AttemptIds :
         /\ Began(a) => Began(a)'
         /\ child[a] \in Outcomes => child'[a] = child[a]
         /\ \A outcome \in Outcomes : EndedAs(a, outcome) => EndedAs(a, outcome)'
  BY BeganStays DEF AInv, Onward
<1>3. ChildrenBegan'
  BY <1>2 DEF AInv, Onward, ChildrenBegan
<1>4. ASSUME NEW s \in Runners, run'[s] = run[s]
      PROVE  RunnerFits(s)'
  <2>1. RunnerFits(s) /\ run[s].attempt \in AttemptIds
    BY FrameParts DEF AInv
  <2>2. ASSUME Sayable(s), run[s].at \in Applying
        PROVE  Sayable(s)'
    <3>1. CASE run[s].stage = "finish"
      <4>1. child'[run[s].attempt] = child[run[s].attempt]
        BY <1>2, <2>1, <2>2, <3>1 DEF RunnerFits, Completing
      <4> QED
        BY <1>4, <2>2, <3>1, <4>1 DEF Sayable
    <3>2. CASE run[s].stage # "finish"
      BY <1>4, <2>2, <3>2 DEF Sayable
    <3> QED
      BY <3>1, <3>2
  <2>3. run[s].at \in Applying => Sayable(s)'
    BY <2>1, <2>2 DEF RunnerFits
  <2> QED
    BY <1>2, <1>4, <2>1, <2>3 DEF RunnerFits, Onward
<1> QED
  BY <1>1, <1>2, <1>3, <1>4

\* What the ledger says stays true.
LEMMA EntriesStay ==
    ASSUME AInv, Onward, NEW a \in AttemptIds
    PROVE  /\ <<"start", a>> \in DOMAIN ledger => Began(a)'
           /\ <<"message", a>> \in DOMAIN ledger => ReportedOnce(a)'
           /\ <<"finish", a>> \in DOMAIN ledger =>
                 /\ child'[a] \in Outcomes /\ EndedAs(a, child[a])'
                 /\ Reports => <<"message", a>> \in DOMAIN ledger'
<1>1. /\ <<"start", a>> \in DOMAIN ledger => Began(a)
      /\ <<"message", a>> \in DOMAIN ledger => ReportedOnce(a)
      /\ <<"finish", a>> \in DOMAIN ledger =>
            /\ child[a] \in Outcomes /\ EndedAs(a, child[a])
            /\ Reports => <<"message", a>> \in DOMAIN ledger
  BY DEF AInv, LedgerTrue
<1>2. ASSUME NEW outcome \in Outcomes, EndedAs(a, outcome), child[a] = outcome
      PROVE  child'[a] = outcome /\ EndedAs(a, outcome)'
  BY <1>2, OnwardKeeps
<1>3. ASSUME <<"finish", a>> \in DOMAIN ledger
      PROVE  child'[a] \in Outcomes /\ EndedAs(a, child[a])'
  BY <1>1, <1>2, <1>3 DEF EndedAs
<1> QED
  BY <1>1, <1>3, OnwardKeeps DEF Onward

LEMMA LedgerStays ==
    ASSUME AInv, Onward, ledger' = ledger
    PROVE  LedgerTrue'
BY EntriesStay DEF LedgerTrue

\* Nothing of the record, and at most a child, changes.
LEMMA Beside ==
    ASSUME AInv, UNCHANGED <<team, ledger>>,
           child' \in [AttemptIds -> ChildStatuses],
           \A a \in AttemptIds : child'[a] # child[a] => child[a] \notin Outcomes /\ Began(a)
    PROVE  Onward
BY DEF Onward, ReportedOnce, Reporting

\* A step of a runner that leaves the record alone.
LEMMA RunnerStep ==
    ASSUME AInv, Onward, NEW r \in Runners, ledger' = ledger, Alone(r), RunnerFits(r)',
           latest' \subseteq Runners \cup ({"claim"} \X AttemptIds)
    PROVE  AInv'
<1>1. AttemptTypeOK'
  <2>1. TypeOK'
    BY OnwardKeeps DEF IInv
  <2> QED
    BY <2>1 DEF AInv, AttemptTypeOK, Onward, Alone
<1>2. \A s \in Runners : RunnerFits(s)'
  BY OnwardKeeps DEF Alone
<1> QED
  BY <1>1, <1>2, OnwardKeeps, LedgerStays DEF AInv

-----------------------------------------------------------------------------
(* The steps of a runner that leave the record alone.                      *)

\* A run that ended relies on nothing.
LEMMA IdleFits ==
    ASSUME NEW r \in Runners, run'[r].at = "idle"
    PROVE  RunnerFits(r)'
BY DEF RunnerFits, Applying

\* A run that goes on after its command has what the next place relies on.
LEMMA ProceedFits ==
    ASSUME AInv, Onward, NEW r \in Runners, Proceed(r),
           run[r].at \in Applying \cup {"fetch"},
           NEW a \in AttemptIds, run[r].attempt = a,
           run[r].stage = "start" => Began(a)',
           run[r].stage = "message" => <<"message", a>> \in DOMAIN ledger'
    PROVE  Alone(r) /\ RunnerFits(r)'
<1>0. AttemptTypeOK /\ RunnerFits(r) /\ run[r].stage \in Stages
  BY FrameParts DEF AInv
<1>1. CASE run[r].stage = "claim"
  <2>1. Issue(r, "start", NoContent)
    BY <1>1 DEF Proceed
  <2>2. /\ Alone(r) /\ run'[r].at = "lookup" /\ run'[r].stage = "start"
        /\ run'[r].attempt = a /\ run'[r].content = NoContent
    BY <1>0, <2>1, Issued DEF Stages, Content
  <2> QED
    BY <2>2 DEF RunnerFits, Sayable, Applying, Completing
<1>2. CASE run[r].stage = "start"
  <2>1. Step(r, "mailbox")
    BY <1>2 DEF Proceed
  <2>2. Alone(r) /\ run'[r].at = "mailbox" /\ run'[r].attempt = a
    BY <1>0, <2>1, Stepped DEF Places
  <2> QED
    BY <1>2, <2>2 DEF RunnerFits, Applying
<1>3. CASE run[r].stage \in {"acknowledge", "message"}
  <2>1. PICK stage \in {"message", "finish"} :
           /\ Complete(r, stage)
           /\ stage = "finish" => run[r].stage = "message" \/ ~Reports
    BY <1>3, AttemptAssumption DEF Proceed
  <2>2. /\ Alone(r) /\ run'[r].at = "fetch" /\ run'[r].stage = stage
        /\ run'[r].attempt = a
    BY <1>0, <2>1, CompleteMoves DEF Stages
  <2>3. Began(a)' /\ child'[a] \in Outcomes
    BY <1>0, <1>3, OnwardKeeps DEF RunnerFits, Completing
  <2> QED
    BY <2>1, <2>2, <2>3 DEF RunnerFits, Applying, Completing
<1>4. CASE run[r].stage = "finish"
  BY <1>0, <1>4, Returned, IdleFits DEF Proceed
<1> QED
  BY <1>0, <1>1, <1>2, <1>3, <1>4 DEF Stages

LEMMA RunAttemptStep ==
    ASSUME AInv, NEW r \in Runners, NEW a \in AttemptIds, RunAttempt(r, a)
    PROVE  AInv'
<1> DEFINE frame == [Idle EXCEPT !.attempt = a]
<1>0. /\ AttemptTypeOK /\ TypeOK /\ Onward
      /\ latest' \subseteq Runners \cup ({"claim"} \X AttemptIds)
      /\ ledger' = ledger /\ team' = team
  BY Beside DEF AInv, IInv, AttemptTypeOK, RunAttempt
<1>1. frame \in Frame /\ frame.attempt = a
  BY IdleFrame DEF Frame
<1> HIDE DEF frame
<1>2. CASE Running(TaskOf(a), a) /\ Goto(r, [frame EXCEPT !.at = "mailbox"])
  <2> DEFINE f == [frame EXCEPT !.at = "mailbox"]
  <2>1. f \in Frame /\ f.at = "mailbox" /\ f.attempt = a
    BY <1>1 DEF Frame, Places
  <2> HIDE DEF f
  <2>2. Alone(r) /\ run'[r] = f
    BY <1>0, <1>2, <2>1, Moved DEF f
  <2>3. Began(a)
    <3>1. /\ team.tasks[TaskOf(a)].attempts # <<>>
          /\ Last(team.tasks[TaskOf(a)].attempts).id = a
          /\ team.tasks[TaskOf(a)].attempts \in Seq(Attempt)
      BY <1>0, <1>2, AttemptParts, TaskParts DEF Running
    <3> QED
      BY <3>1 DEF Began, Last
  <2>4. RunnerFits(r)'
    BY <1>0, <2>1, <2>2, <2>3 DEF RunnerFits, Applying, Began
  <2> QED
    BY <1>0, <2>2, <2>4, RunnerStep
<1>3. ASSUME NEW m \in Members,
             Goto(r, [frame EXCEPT !.at = "lookup", !.stage = "claim",
                          !.content = <<"claims", m>>])
      PROVE  AInv'
  <2> DEFINE f == [frame EXCEPT !.at = "lookup", !.stage = "claim",
                          !.content = <<"claims", m>>]
  <2>1. /\ f \in Frame /\ f.at = "lookup" /\ f.stage = "claim"
        /\ f.content = <<"claims", m>>
    BY <1>1 DEF Frame, Places, Stages, Content
  <2> HIDE DEF f
  <2>2. Alone(r) /\ run'[r] = f
    BY <1>0, <1>3, <2>1, Moved DEF f
  <2>3. RunnerFits(r)'
    BY <2>1, <2>2 DEF RunnerFits, Sayable, Applying, Completing
  <2> QED
    BY <1>0, <2>2, <2>3, RunnerStep
<1>4. CASE Goto(r, [frame EXCEPT !.at = "lookup", !.stage = "start"])
  <2> DEFINE f == [frame EXCEPT !.at = "lookup", !.stage = "start"]
  <2>1. /\ f \in Frame /\ f.at = "lookup" /\ f.stage = "start" /\ f.content = NoContent
    BY <1>1, IdleFrame DEF Frame, Places, Stages, Idle, frame
  <2> HIDE DEF f
  <2>2. Alone(r) /\ run'[r] = f
    BY <1>0, <1>4, <2>1, Moved DEF f
  <2>3. RunnerFits(r)'
    BY <2>1, <2>2 DEF RunnerFits, Sayable, Applying, Completing
  <2> QED
    BY <1>0, <2>2, <2>3, RunnerStep
<1>5. team.tasks[TaskOf(a)].assigned # NoMember => team.tasks[TaskOf(a)].assigned \in Members
  BY <1>0, AttemptParts, TaskParts
<1> QED
  BY <1>2, <1>3, <1>4, <1>5 DEF RunAttempt, frame

\* A recorded command is answered from the record.
LEMMA ReplayStep ==
    ASSUME AInv, NEW r \in Runners, run[r].at \in Applying, Replay(r)
    PROVE  AInv'
<1>1. /\ AttemptTypeOK /\ Onward /\ ledger' = ledger
      /\ latest' \subseteq Runners \cup ({"claim"} \X AttemptIds)
  BY Beside DEF AInv, AttemptTypeOK, Replay
<1>2. CASE Return(r)
  BY <1>1, <1>2, Returned, IdleFits, RunnerStep
<1>3. CASE Proceed(r)
  <2>1. PICK a \in AttemptIds : run[r].attempt = a
    BY <1>1, FrameParts
  <2>2. /\ run[r].stage = "start" => <<"start", a>> \in DOMAIN ledger
        /\ run[r].stage = "message" => <<"message", a>> \in DOMAIN ledger'
    BY <1>1, <2>1 DEF Replay, Recorded, Id
  <2>3. run[r].stage = "start" => Began(a)'
    BY <1>1, <2>2, OnwardKeeps DEF AInv, LedgerTrue
  <2>4. Alone(r) /\ RunnerFits(r)'
    BY <1>1, <1>3, <2>1, <2>2, <2>3, ProceedFits
  <2> QED
    BY <1>1, <2>4, RunnerStep
<1> QED
  BY <1>2, <1>3 DEF Replay

\* A runner that keeps its command, and goes to another of its places,
\* relies on what it relied on.
LEMMA StepFits ==
    ASSUME AInv, Onward, NEW r \in Runners, run[r].at \in Applying,
           NEW place \in Applying, Step(r, place)
    PROVE  Alone(r) /\ RunnerFits(r)'
<1>1. PICK a \in AttemptIds : run[r].attempt = a
  BY FrameParts DEF AInv
<1>2. /\ Alone(r) /\ run'[r].at = place /\ run'[r].stage = run[r].stage
      /\ run'[r].attempt = a /\ run'[r].content = run[r].content
  BY <1>1, Stepped DEF AInv, Applying, Places
<1>3. RunnerFits(r)
  BY DEF AInv
<1>4. run[r].stage \in Completing => Began(a)' /\ child[a] \in Outcomes /\ child'[a] = child[a]
  BY <1>1, <1>3, OnwardKeeps DEF RunnerFits
<1>5. Sayable(r)'
  BY <1>1, <1>2, <1>3, <1>4 DEF RunnerFits, Sayable, Completing
<1> QED
  BY <1>1, <1>2, <1>3, <1>4, <1>5 DEF RunnerFits, Applying, Onward

\* After a conflict it is rebased, or over.
LEMMA ConflictFits ==
    ASSUME AInv, Onward, NEW r \in Runners, run[r].at \in Applying, Conflict(r)
    PROVE  Alone(r) /\ RunnerFits(r)'
<1>1. PICK a \in AttemptIds : run[r].attempt = a
  BY FrameParts DEF AInv
<1>2. /\ Alone(r)
      /\ \/ run'[r].at = "idle"
         \/ /\ run'[r].at = "fetch" /\ run[r].stage \in Completing
            /\ run'[r].stage = run[r].stage /\ run'[r].attempt = a
  BY <1>1, ConflictMoves DEF AInv
<1>3. RunnerFits(r)
  BY DEF AInv
<1>4. run[r].stage \in Completing => Began(a)' /\ child[a] \in Outcomes /\ child'[a] = child[a]
  BY <1>1, <1>3, OnwardKeeps DEF RunnerFits
<1>5. CASE run'[r].at = "idle"
  BY <1>2, <1>5, IdleFits
<1>6. CASE run'[r].at # "idle"
  BY <1>1, <1>2, <1>3, <1>4, <1>6 DEF RunnerFits, Applying, Onward
<1> QED
  BY <1>2, <1>5, <1>6

\* Engine.apply up to the swap, and after a swap that failed.
LEMMA LookupStep ==
    ASSUME AInv, NEW r \in Runners, Lookup(r) \/ Relookup(r) \/ Load(r)
    PROVE  AInv'
<1>1. run[r].at \in Applying
  BY DEF Lookup, Relookup, Load, At, Applying
<1>2. CASE Replay(r)
  BY <1>1, <1>2, ReplayStep
<1>3. CASE ~Replay(r)
  <2>1. /\ UNCHANGED <<team, child, ledger, latest>>
        /\ \/ Return(r) \/ Conflict(r)
           \/ \E place \in {"load", "swap"} : Step(r, place)
    BY <1>3 DEF Lookup, Relookup, Load
  <2>2. /\ AttemptTypeOK /\ Onward /\ ledger' = ledger
        /\ latest' \subseteq Runners \cup ({"claim"} \X AttemptIds)
    BY <2>1, Beside DEF AInv, AttemptTypeOK
  <2>3. Alone(r) /\ RunnerFits(r)'
    BY <1>1, <2>1, <2>2, Returned, IdleFits, ConflictFits, StepFits DEF Applying
  <2> QED
    BY <2>2, <2>3, RunnerStep
<1> QED
  BY <1>2, <1>3

\* An attempt that began has its member.
LEMMA MemberOfType ==
    ASSUME TypeOK, NEW a \in AttemptIds, Began(a)
    PROVE  MemberOf(a) \in Members
<1> DEFINE attempts == team.tasks[TaskOf(a)].attempts
           i == CHOOSE i \in DOMAIN attempts : attempts[i].id = a
<1>1. attempts \in Seq(Attempt)
  BY AttemptParts, TaskParts
<1>2. i \in DOMAIN attempts
  BY DEF Began
<1> HIDE DEF i
<1>3. attempts[i] \in Attempt
  BY <1>1, <1>2
<1> QED
  BY <1>3 DEF MemberOf, Attempt, i

\* The result of a child with an outcome is projected into commands.
LEMMA ProjectFits ==
    ASSUME AInv, Onward, NEW r \in Runners, Project(r),
           NEW a \in AttemptIds, run[r].attempt = a, Began(a), child'[a] \in Outcomes
    PROVE  Alone(r) /\ RunnerFits(r)'
<1>1. CASE Return(r)
  BY <1>1, Returned, IdleFits DEF AInv
<1>2. CASE Complete(r, FirstStage(r))
  <2>1. PICK stage \in Completing : stage = FirstStage(r) /\ (stage = "finish" => ~Reports)
    BY AttemptAssumption DEF FirstStage, Completing
  <2>2. /\ Alone(r) /\ run'[r].at = "fetch" /\ run'[r].stage = stage
        /\ run'[r].attempt = a
    BY <1>2, <2>1, CompleteMoves DEF AInv, Stages, Completing
  <2>3. Began(a)'
    BY OnwardKeeps
  <2> QED
    BY <2>1, <2>2, <2>3 DEF RunnerFits, Applying, Completing
<1> QED
  BY <1>1, <1>2 DEF Project

LEMMA ReadMailboxStep ==
    ASSUME AInv, NEW r \in Runners, ReadMailbox(r)
    PROVE  AInv'
<1>1. /\ AttemptTypeOK /\ TypeOK /\ Onward /\ ledger' = ledger
      /\ latest' \subseteq Runners \cup ({"claim"} \X AttemptIds)
  BY Beside DEF AInv, AttemptTypeOK, ReadMailbox, IInv
<1>2. PICK a \in AttemptIds : run[r].attempt = a
  BY <1>1, FrameParts
<1>3. Began(a) /\ Began(a)'
  BY <1>1, <1>2, OnwardKeeps DEF AInv, RunnerFits, ReadMailbox, At
<1> DEFINE n == team.delivered[MemberOf(run[r].attempt)]
           f == [run[r] EXCEPT !.at = "child", !.stage = "finish", !.seen = n]
<1>4. n \in Nat
  <2>1. MemberOf(a) \in Members
    BY <1>1, <1>3, MemberOfType
  <2> QED
    BY <1>1, <1>2, <2>1 DEF TypeOK, TeamType
<1> HIDE DEF n
<1>5. f \in Frame /\ f.at = "child" /\ f.attempt = a
  BY <1>1, <1>2, <1>4, FrameParts DEF Frame, Places, Stages
<1>6. Goto(r, f)
  BY DEF ReadMailbox, n
<1> HIDE DEF f
<1>7. Alone(r) /\ run'[r] = f
  BY <1>1, <1>5, <1>6, Moved
<1>8. RunnerFits(r)'
  BY <1>3, <1>5, <1>7 DEF RunnerFits, Applying
<1> QED
  BY <1>1, <1>7, <1>8, RunnerStep

\* Looking for the child, creating it and driving it.
LEMMA ChildStep ==
    ASSUME AInv, NEW r \in Runners, FindChild(r) \/ CreateChild(r) \/ Drive(r)
    PROVE  AInv'
<1>1. PICK a \in AttemptIds : run[r].attempt = a
  BY FrameParts DEF AInv
<1>2. /\ run[r].at \in {"child", "create", "drive"}
      /\ UNCHANGED <<team, ledger, latest>>
  BY DEF FindChild, CreateChild, Drive, At
<1>3. Began(a)
  BY <1>1, <1>2 DEF AInv, RunnerFits
<1>4. \/ child' = child
      \/ /\ child[a] \notin Outcomes
         /\ \E status \in ChildStatuses : child' = [child EXCEPT ![a] = status]
  BY <1>1 DEF FindChild, CreateChild, Drive, ChildStatuses, Outcomes
<1>5. /\ child' \in [AttemptIds -> ChildStatuses]
      /\ \A x \in AttemptIds : child'[x] # child[x] => child[x] \notin Outcomes /\ Began(x)
  BY <1>3, <1>4 DEF AInv, AttemptTypeOK
<1>6. /\ AttemptTypeOK /\ Onward /\ ledger' = ledger
      /\ latest' \subseteq Runners \cup ({"claim"} \X AttemptIds)
  BY <1>2, <1>5, Beside DEF AInv, AttemptTypeOK
<1>7. \/ Return(r)
      \/ \E place \in {"create", "drive"} : Step(r, place)
      \/ Project(r) /\ child'[a] \in Outcomes
  BY <1>1 DEF FindChild, CreateChild, Drive, AInv, AttemptTypeOK
<1>8. ASSUME NEW place \in {"create", "drive"}, Step(r, place)
      PROVE  Alone(r) /\ RunnerFits(r)'
  <2>1. Alone(r) /\ run'[r].at = place /\ run'[r].attempt = a
    BY <1>1, <1>6, <1>8, Stepped DEF Places
  <2>2. Began(a)'
    BY <1>3, <1>6, OnwardKeeps
  <2> QED
    BY <2>1, <2>2 DEF RunnerFits, Applying
<1>9. Alone(r) /\ RunnerFits(r)'
  BY <1>1, <1>3, <1>6, <1>7, <1>8, Returned, IdleFits, ProjectFits
<1> QED
  BY <1>6, <1>9, RunnerStep

\* A command of the completion is made from the latest record.
LEMMA FetchStep ==
    ASSUME AInv, NEW r \in Runners, Fetch(r)
    PROVE  AInv'
<1>1. PICK a \in AttemptIds : run[r].attempt = a
  BY FrameParts DEF AInv
<1>2. /\ AttemptTypeOK /\ Onward /\ ledger' = ledger /\ child' = child /\ run[r].at = "fetch"
      /\ latest' \subseteq Runners \cup ({"claim"} \X AttemptIds)
  BY Beside DEF AInv, AttemptTypeOK, Fetch, At
<1>3. /\ Began(a) /\ Began(a)' /\ child[a] \in Outcomes
      /\ run[r].stage = "finish" => (Reports => <<"message", a>> \in DOMAIN ledger)
  BY <1>1, <1>2, OnwardKeeps DEF AInv, RunnerFits
<1>4. ASSUME NEW stage \in Completing, NEW content \in Content, run[r].stage = stage,
             Issue(r, stage, content),
             \/ stage = "acknowledge" /\ content \in {"through"} \X Nat
             \/ stage = "message" /\ content = NoContent
             \/ stage = "finish" /\ content = <<"ends", child[a]>>
      PROVE  Alone(r) /\ RunnerFits(r)'
  <2>1. /\ Alone(r) /\ run'[r].at = "lookup" /\ run'[r].stage = stage
        /\ run'[r].attempt = a /\ run'[r].content = content
    BY <1>1, <1>2, <1>4, Issued DEF Completing, Stages
  <2>2. Sayable(r)'
    BY <1>2, <1>4, <2>1 DEF Sayable
  <2> QED
    BY <1>2, <1>3, <1>4, <2>1, <2>2 DEF RunnerFits, Applying, Completing
<1>5. CASE run[r].stage = "acknowledge" /\ Proceed(r)
  BY <1>1, <1>2, <1>5, ProceedFits, RunnerStep
<1>6. CASE Issue(r, "acknowledge", <<"through", run[r].seen>>) /\ run[r].stage = "acknowledge"
  <2>1. <<"through", run[r].seen>> \in {"through"} \X Nat
    BY <1>2, FrameParts
  <2>2. Alone(r) /\ RunnerFits(r)'
    BY <1>4, <1>6, <2>1 DEF Completing, Content
  <2> QED
    BY <1>2, <2>2, RunnerStep
<1>7. CASE Issue(r, "message", NoContent) /\ run[r].stage = "message"
  <2>1. Alone(r) /\ RunnerFits(r)'
    BY <1>4, <1>7 DEF Completing, Content
  <2> QED
    BY <1>2, <2>1, RunnerStep
<1>8. CASE Issue(r, "finish", <<"ends", child[a]>>) /\ run[r].stage = "finish"
  <2>1. Alone(r) /\ RunnerFits(r)'
    BY <1>3, <1>4, <1>8 DEF Completing, Content
  <2> QED
    BY <1>2, <2>1, RunnerStep
<1> QED
  BY <1>1, <1>5, <1>6, <1>7, <1>8 DEF Fetch

LEMMA StopStep ==
    ASSUME AInv, NEW r \in Runners, Stop(r)
    PROVE  AInv'
<1>1. /\ AttemptTypeOK /\ Onward /\ ledger' = ledger
      /\ latest' \subseteq Runners \cup ({"claim"} \X AttemptIds)
  BY Beside DEF AInv, AttemptTypeOK, Stop
<1> QED
  BY <1>1, Returned, IdleFits, RunnerStep DEF Stop

-----------------------------------------------------------------------------
(* The steps of everyone else.                                             *)

\* Nobody who runs an attempt moves, and the ledger stays.
LEMMA BesideStep ==
    ASSUME AInv, Onward, UNCHANGED <<ledger, run>>,
           latest' \subseteq Runners \cup ({"claim"} \X AttemptIds)
    PROVE  AInv'
<1>1. AttemptTypeOK'
  <2>1. TypeOK'
    BY OnwardKeeps DEF IInv
  <2> QED
    BY <2>1 DEF AInv, AttemptTypeOK, Onward
<1>2. \A s \in Runners : RunnerFits(s)'
  BY OnwardKeeps
<1> QED
  BY <1>1, <1>2, OnwardKeeps, LedgerStays DEF AInv

LEMMA CancelChildStep ==
    ASSUME AInv, NEW a \in AttemptIds, CancelChild(a)
    PROVE  AInv'
<1>1. /\ UNCHANGED <<team, ledger, latest, run>>
      /\ child[a] = "open" /\ child' = [child EXCEPT ![a] = "failed"]
  BY DEF CancelChild
<1>2. /\ child' \in [AttemptIds -> ChildStatuses]
      /\ \A x \in AttemptIds : child'[x] # child[x] => child[x] \notin Outcomes /\ Began(x)
  BY <1>1 DEF AInv, AttemptTypeOK, ChildStatuses, Outcomes, ChildrenBegan
<1>3. Onward
  BY <1>1, <1>2, Beside
<1> QED
  BY <1>1, <1>3, BesideStep DEF AInv, AttemptTypeOK

\* Messages of others are not reports.
LEMMA OthersStep ==
    ASSUME AInv, Others
    PROVE  AInv' /\ [Next]_team
<1>1. TypeOK /\ child' = child /\ UNCHANGED <<ledger, run>> /\ latest' = {}
  BY DEF AInv, IInv, Others
<1>2. CASE \E sender, to \in Members : SendMessage(sender, to, NoAttempt)
  <2>1. PICK sender \in Members, to \in Members : SendMessage(sender, to, NoAttempt)
    BY <1>2
  <2>2. Next
    BY <2>1 DEF Next, Correspond
  <2>3. team'.mail = Append(team.mail, [to |-> to, id |-> NoAttempt])
    BY <1>1, <2>1 DEF SendMessage, TypeOK, TeamType
  <2>4. ASSUME NEW a \in AttemptIds
        PROVE  ReportedOnce(a) => ReportedOnce(a)'
    <3>1. NoAttempt # a
      BY AttemptParts
    <3>2. Reporting(a)' = Reporting(a)
      BY <1>1, <2>3, <3>1, ReportsOf
    <3> QED
      BY <3>2 DEF ReportedOnce, Reporting
  <2>5. Onward
    BY <1>1, <2>2, <2>4 DEF Onward, AInv, AttemptTypeOK
  <2> QED
    BY <1>1, <2>2, <2>5, BesideStep
<1>3. CASE ~\E sender, to \in Members : SendMessage(sender, to, NoAttempt)
  <2>1. Next
    BY <1>3 DEF Others, Next, Work, Correspond, Actors, Outcomes
  <2>2. team'.mail = team.mail
    BY <1>1, <1>3, MailKept DEF Others, Actors
  <2>3. Onward
    BY <1>1, <2>1, <2>2 DEF Onward, AInv, AttemptTypeOK, ReportedOnce, Reporting
  <2> QED
    BY <1>1, <2>1, <2>3, BesideStep
<1> QED
  BY <1>2, <1>3

-----------------------------------------------------------------------------
(* The swap: the one step that changes the record and the ledger.          *)

\* A committed command has an entry, which says what it did.
LEMMA LedgerGrows ==
    ASSUME AInv, Onward, child' = child, NEW stage \in Stages, NEW a \in AttemptIds,
           NEW content \in Content, ledger' = Entered(<<stage, a>>, content),
           stage = "start" => Began(a)',
           stage = "message" => ReportedOnce(a)',
           stage = "finish" =>
              /\ child[a] \in Outcomes /\ EndedAs(a, child[a])'
              /\ Reports => <<"message", a>> \in DOMAIN ledger
    PROVE  /\ LedgerTrue' /\ DOMAIN ledger' \subseteq CommandIds
           /\ \A id \in DOMAIN ledger' : ledger'[id] \in Content
<1>1. /\ DOMAIN ledger' = DOMAIN ledger \cup {<<stage, a>>}
      /\ ledger'[<<stage, a>>] = content
      /\ \A id \in DOMAIN ledger : id # <<stage, a>> => ledger'[id] = ledger[id]
  BY DEF Entered
<1>2. <<stage, a>> \in CommandIds
  BY DEF CommandIds
<1>3. /\ DOMAIN ledger' \subseteq CommandIds
      /\ \A id \in DOMAIN ledger' : ledger'[id] \in Content
  BY <1>1, <1>2 DEF AInv, AttemptTypeOK
<1>4. ASSUME NEW x \in AttemptIds
      PROVE  /\ <<"start", x>> \in DOMAIN ledger' => Began(x)'
             /\ <<"message", x>> \in DOMAIN ledger' => ReportedOnce(x)'
             /\ <<"finish", x>> \in DOMAIN ledger' =>
                   /\ child'[x] \in Outcomes /\ EndedAs(x, child[x])'
                   /\ Reports => <<"message", x>> \in DOMAIN ledger'
  <2>1. CASE <<"start", x>> = <<stage, a>>
    BY <1>1, <2>1, EntriesStay
  <2>2. CASE <<"message", x>> = <<stage, a>>
    BY <1>1, <2>2, EntriesStay
  <2>3. CASE <<"finish", x>> = <<stage, a>>
    BY <1>1, <2>3, EntriesStay
  <2>4. CASE <<stage, a>> \notin {<<"start", x>>, <<"message", x>>, <<"finish", x>>}
    BY <1>1, <2>4, EntriesStay
  <2> QED
    BY <2>1, <2>2, <2>3, <2>4
<1> QED
  BY <1>3, <1>4 DEF LedgerTrue

\* The command of each stage is a command of the team, and does what its
\* entry will say.
LEMMA EffectStep ==
    ASSUME AInv, NEW r \in Runners, run[r].at \in Applying, Effect(r), UNCHANGED child,
           NEW a \in AttemptIds, run[r].attempt = a,
           DOMAIN ledger \subseteq DOMAIN ledger'
    PROVE  /\ Next /\ Onward
           /\ run[r].stage = "start" => Began(a)'
           /\ run[r].stage = "message" => ReportedOnce(a)'
           /\ run[r].stage = "finish" => child[a] \in Outcomes /\ EndedAs(a, child[a])'
<1> DEFINE k == TaskOf(a)
           stage == run[r].stage
           content == run[r].content
<1>0. /\ AttemptTypeOK /\ TypeOK /\ IInv /\ k \in Tasks /\ Sayable(r) /\ RunnerFits(r)
      /\ stage \in Stages /\ child \in [AttemptIds -> ChildStatuses]
  BY AttemptParts, FrameParts DEF AInv, IInv, RunnerFits, AttemptTypeOK
<1>1. ASSUME Next, team'.mail = team.mail
      PROVE  Onward
  BY <1>0, <1>1 DEF Onward, ReportedOnce, Reporting
<1>2. CASE stage = "claim"
  <2>1. content[2] \in Members
    BY <1>0, <1>2 DEF Sayable
  <2>2. ClaimTask(content[2], k)
    BY <1>2 DEF Effect
  <2>3. Next /\ team'.mail = team.mail
    BY <1>0, <2>1, <2>2, MailKept DEF Next, Work
  <2> QED
    BY <1>1, <1>2, <2>3
<1>3. CASE stage = "start"
  <2>1. StartTaskAttempt(k, a)
    BY <1>3 DEF Effect
  <2>2. Next /\ team'.mail = team.mail
    BY <1>0, <2>1, MailKept DEF Next, Work
  <2>3. Began(a)'
    <3> DEFINE old == team.tasks[k]
               attempt == [id |-> a, member |-> old.claimed, status |-> "running"]
               attempts == Append(old.attempts, attempt)
               t == [old EXCEPT !.status = "running", !.attempts = attempts]
    <3>1. Active /\ TaskIs(k, {"claimed"}) /\ SetTask(k, t)
      BY <2>1 DEF StartTaskAttempt, CanStart
    <3>2. old \in Task /\ old.attempts \in Seq(Attempt) /\ old.claimed \in Members
      BY <1>0, <3>1, TaskFacts DEF ValidTaskState, TaskIs
    <3>3. attempt \in Attempt /\ attempt.id = a
      BY <3>2 DEF Attempt, AttemptStatuses
    <3> HIDE DEF attempt
    <3>4. /\ attempts \in Seq(Attempt) /\ Len(old.attempts) + 1 \in DOMAIN attempts
          /\ attempts[Len(old.attempts) + 1] = attempt
      BY <3>2, <3>3
    <3> HIDE DEF attempts
    <3>5. t \in Task /\ t.attempts = attempts
      BY <3>2, <3>4 DEF Task, TaskStatuses
    <3> HIDE DEF t
    <3>6. team'.tasks[k].attempts = attempts
      BY <1>0, <3>1, <3>5, TaskSet
    <3> QED
      BY <3>3, <3>4, <3>6 DEF Began
  <2> QED
    BY <1>1, <1>3, <2>2, <2>3
<1>4. CASE stage = "acknowledge"
  <2>1. PICK n \in Nat : content[2] = n
    BY <1>0, <1>4 DEF Sayable
  <2>2. AcknowledgeMessages(MemberOf(a), n)
    BY <1>4, <2>1 DEF Effect
  <2>3. PICK m \in Members : AcknowledgeMessages(m, n)
    <3>1. MemberOf(a) \in Members
      BY <1>0, <1>4, MemberOfType DEF RunnerFits, Completing
    <3> QED
      BY <2>2, <3>1
  <2>4. n \in 1 .. Len(team.mail)
    <3>1. /\ Active /\ n > team.acknowledged[m] /\ n <= team.delivered[m]
      BY <2>3 DEF AcknowledgeMessages, CanAcknowledge
    <3>2. team.delivered[m] <= Len(team.mail)
      BY <1>0, <3>1 DEF IInv, RecordsValid, Active, ValidMailbox
    <3>3. /\ team.acknowledged[m] \in Nat /\ team.delivered[m] \in Nat
          /\ Len(team.mail) \in Nat
      BY <1>0 DEF TypeOK, TeamType
    <3> QED
      BY <3>1, <3>2, <3>3
  <2>5. Next /\ team'.mail = team.mail
    BY <1>0, <2>3, <2>4, MailKept DEF Next, Correspond
  <2> QED
    BY <1>1, <1>4, <2>5
<1>5. CASE stage = "message"
  <2>1. SendMessage(MemberOf(a), Lead, a) /\ MemberOf(a) \in Members
    BY <1>0, <1>5, MemberOfType DEF Effect, RunnerFits, Completing
  <2>2. Next
    BY <2>1, TeamAssumption DEF Next, Correspond
  <2>3. team'.mail = Append(team.mail, [to |-> Lead, id |-> a])
    BY <1>0, <2>1 DEF SendMessage, TypeOK, TeamType
  <2>4. a # NoAttempt
    BY AttemptParts
  <2>5. Reporting(a) = {}
    BY <2>1, <2>4 DEF SendMessage, CanSend, Reporting
  <2>6. Reporting(a)' = {Len(team.mail) + 1}
    BY <1>0, <2>3, <2>5, TeamAssumption, ReportsOf
  <2>7. ReportedOnce(a)'
    BY <2>6 DEF ReportedOnce, Reporting
  <2>8. ASSUME NEW x \in AttemptIds, ReportedOnce(x)
        PROVE  ReportedOnce(x)'
    <3>1. CASE x = a
      BY <2>7, <3>1
    <3>2. CASE x # a
      <4>1. Reporting(x)' = Reporting(x)
        BY <1>0, <2>3, <3>2, TeamAssumption, ReportsOf
      <4> QED
        BY <2>8, <4>1 DEF ReportedOnce, Reporting
    <3> QED
      BY <3>1, <3>2
  <2> QED
    BY <1>0, <1>5, <2>2, <2>7, <2>8 DEF Onward
<1>6. CASE stage = "finish"
  <2>1. PICK outcome \in Outcomes : child[a] = outcome /\ content[2] = outcome
    BY <1>0, <1>6 DEF RunnerFits, Sayable, Completing
  <2>2. FinishTaskAttempt(Coordinator, k, a, outcome)
    BY <1>6, <2>1 DEF Effect
  <2>3. Next /\ team'.mail = team.mail
    BY <1>0, <2>2, MailKept DEF Next, Work, Actors, Outcomes
  <2>4. EndedAs(a, outcome)'
    <3> DEFINE old == team.tasks[k].attempts
               new == team'.tasks[k].attempts
    <3>1. /\ CanFinish(Coordinator, k, a) /\ Running(k, a)
      BY <2>2 DEF FinishTaskAttempt, CanFinish
    <3>2. /\ old \in Seq(Attempt) /\ old # <<>> /\ Last(old).id = a
          /\ Finished(team.tasks[k], outcome) \in Task
          /\ Finished(team.tasks[k], outcome).attempts = CloseLast(old, outcome)
      BY <1>0, <3>1, FinishFacts DEF Running, Outcomes
    <3>3. new = CloseLast(old, outcome)
      <4>1. CASE outcome = "completed"
        BY <1>0, <2>2, <3>2, <4>1, CompletedAttemptTasks
      <4>2. CASE outcome = "failed"
        BY <1>0, <2>2, <3>2, <4>2, FailedAttemptStep, TaskSet
      <4> QED
        BY <4>1, <4>2 DEF Outcomes
    <3>4. /\ Len(old) \in DOMAIN new /\ new[Len(old)].id = a
          /\ new[Len(old)].status = outcome
      BY <3>2, <3>3, ClosedLast DEF Last, AttemptStatuses, Outcomes
    <3> QED
      BY <3>4 DEF EndedAs
  <2>5. EndedAs(a, child[a])'
    BY <2>1, <2>4 DEF EndedAs
  <2> QED
    BY <1>1, <1>6, <2>1, <2>3, <2>5
<1> QED
  BY <1>0, <1>2, <1>3, <1>4, <1>5, <1>6 DEF Stages

LEMMA SwapStep ==
    ASSUME AInv, NEW r \in Runners, Swap(r)
    PROVE  AInv' /\ [Next]_team
<1>1. PICK a \in AttemptIds, stage \in Stages, content \in Content :
         run[r].attempt = a /\ run[r].stage = stage /\ run[r].content = content
  BY FrameParts DEF AInv
<1>2. /\ AttemptTypeOK /\ RunnerFits(r) /\ run[r].at = "swap" /\ child' = child
      /\ Id(r) = <<stage, a>>
  BY <1>1 DEF AInv, Swap, At, Id
<1>3. CASE UNCHANGED <<team, ledger, latest>> /\ (Return(r) \/ Step(r, "relookup"))
  <2>1. /\ Onward /\ ledger' = ledger
        /\ latest' \subseteq Runners \cup ({"claim"} \X AttemptIds)
    BY <1>2, <1>3, Beside DEF AttemptTypeOK
  <2>2. CASE Return(r)
    BY <1>2, <1>3, <2>1, <2>2, Returned, IdleFits, RunnerStep
  <2>3. CASE Step(r, "relookup")
    BY <1>2, <1>3, <2>1, <2>3, StepFits, RunnerStep DEF Applying
  <2> QED
    BY <1>3, <2>2, <2>3
<1>4. CASE /\ Effect(r) /\ ledger' = Entered(Id(r), content)
           /\ latest' = {r} \cup IF stage = "claim" THEN {Id(r)} ELSE {}
           /\ Proceed(r) \/ Return(r)
  <2>1. /\ DOMAIN ledger \subseteq DOMAIN ledger'
        /\ ledger' = Entered(<<stage, a>>, content) /\ <<stage, a>> \in DOMAIN ledger'
    BY <1>2, <1>4 DEF Entered
  <2>2. /\ Next /\ Onward
        /\ stage = "start" => Began(a)'
        /\ stage = "message" => ReportedOnce(a)'
        /\ stage = "finish" => child[a] \in Outcomes /\ EndedAs(a, child[a])'
    BY <1>1, <1>2, <1>4, <2>1, EffectStep DEF Applying
  <2>3. stage = "finish" => (Reports => <<"message", a>> \in DOMAIN ledger)
    BY <1>1, <1>2 DEF RunnerFits, Applying
  <2>4. /\ LedgerTrue' /\ DOMAIN ledger' \subseteq CommandIds
        /\ \A id \in DOMAIN ledger' : ledger'[id] \in Content
    BY <1>2, <2>1, <2>2, <2>3, LedgerGrows
  <2>5. Alone(r) /\ RunnerFits(r)'
    <3>1. CASE Proceed(r)
      BY <1>1, <1>2, <2>1, <2>2, <3>1, ProceedFits DEF Applying
    <3>2. CASE Return(r)
      BY <1>2, <3>2, Returned, IdleFits
    <3> QED
      BY <1>4, <3>1, <3>2
  <2>6. latest' \subseteq Runners \cup ({"claim"} \X AttemptIds)
    BY <1>2, <1>4
  <2>7. AttemptTypeOK'
    <3>1. TypeOK'
      BY <2>2, OnwardKeeps DEF IInv
    <3> QED
      BY <2>2, <2>4, <2>5, <2>6, <3>1 DEF AttemptTypeOK, Onward, Alone
  <2>8. \A s \in Runners : RunnerFits(s)'
    BY <2>2, <2>5, OnwardKeeps DEF Alone
  <2> QED
    BY <2>2, <2>4, <2>7, <2>8, OnwardKeeps DEF AInv
<1> QED
  BY <1>1, <1>3, <1>4 DEF Swap

-----------------------------------------------------------------------------
(* The theorems.                                                           *)

LEMMA AttemptInitial == AttemptInit => AInv
<1> SUFFICES ASSUME AttemptInit PROVE AInv
  OBVIOUS
<1>1. /\ Init /\ child = [a \in AttemptIds |-> "absent"] /\ DOMAIN ledger = {}
      /\ latest = {} /\ run = [r \in Runners |-> Idle]
  BY DEF AttemptInit
<1>2. IInv /\ TypeOK
  BY <1>1, InitIInv DEF IInv
<1>3. AttemptTypeOK
  BY <1>1, <1>2, IdleFrame DEF AttemptTypeOK, ChildStatuses
<1>4. \A r \in Runners : RunnerFits(r)
  BY <1>1, IdleFrame DEF RunnerFits, Applying
<1>5. ChildrenBegan /\ LedgerTrue
  BY <1>1 DEF ChildrenBegan, LedgerTrue
<1> QED
  BY <1>2, <1>3, <1>4, <1>5 DEF AInv

\* Every step keeps the invariant, and is a command of the team or leaves
\* it as it is.
LEMMA AttemptStep == AInv /\ [AttemptNext]_vars => AInv' /\ [Next]_team
<1> SUFFICES ASSUME AInv, [AttemptNext]_vars PROVE AInv' /\ [Next]_team
  OBVIOUS
<1>1. CASE Others
  BY <1>1, OthersStep
<1>2. CASE \E a \in AttemptIds : CancelChild(a)
  BY <1>2, CancelChildStep DEF CancelChild
<1>3. CASE \E r \in Runners, a \in AttemptIds : RunAttempt(r, a)
  BY <1>3, RunAttemptStep DEF RunAttempt
<1>4. CASE \E r \in Runners : Swap(r)
  BY <1>4, SwapStep
<1>5. CASE \E r \in Runners : \/ Lookup(r) \/ Load(r) \/ Relookup(r)
                              \/ ReadMailbox(r) \/ FindChild(r) \/ CreateChild(r)
                              \/ Drive(r) \/ Fetch(r) \/ Stop(r)
  <2>1. team' = team
    BY <1>5 DEF Lookup, Load, Relookup, Replay, ReadMailbox, FindChild, CreateChild, Drive,
                Fetch, Stop
  <2>2. AInv'
    BY <1>5, LookupStep, ReadMailboxStep, ChildStep, FetchStep, StopStep
  <2> QED
    BY <2>1, <2>2
<1>6. CASE UNCHANGED vars
  <2>1. UNCHANGED <<team, child, ledger, latest, run>>
    BY <1>6 DEF vars
  <2>2. Onward
    BY <2>1, Beside DEF AInv, AttemptTypeOK
  <2> QED
    BY <2>1, <2>2, BesideStep DEF AInv, AttemptTypeOK
<1> QED
  BY <1>1, <1>2, <1>3, <1>4, <1>5, <1>6 DEF AttemptNext, Progress

\* The invariant of a team whose attempts are run: what a run relies on at
\* each place of its code is so, wherever it and others were stopped.
THEOREM AttemptsInductive == AttemptSpec => []AInv
<1> QED
  BY AttemptInitial, AttemptStep, PTL DEF AttemptSpec

\* Every variable of AttemptRuntime.Run and its stores keeps its type; in
\* particular a completion is rebased fewer times than the limit.
THEOREM AttemptTypeCorrect == AttemptSpec => []AttemptTypeOK
<1>1. AInv => AttemptTypeOK
  BY DEF AInv
<1> QED
  BY <1>1, AttemptsInductive, PTL

\* Whoever crashed between the two stores, a child belongs to an attempt
\* that its team knows.
THEOREM ChildrenHaveAttempts == AttemptSpec => []ChildHasAttempt
<1>1. AInv => ChildHasAttempt
  BY AttemptParts DEF AInv, ChildrenBegan, ChildHasAttempt, Began, Started
<1> QED
  BY <1>1, AttemptsInductive, PTL

\* The finish of an attempt comes after its report, which was sent once,
\* and says what the child came to.
THEOREM FinishComesLast == AttemptSpec => []FinishIsLast
<1>1. ASSUME AInv, NEW a \in AttemptIds, <<"finish", a>> \in DOMAIN ledger
      PROVE  /\ child[a] \in Outcomes
             /\ EndedAs(a, child[a])
             /\ Reports => Cardinality(Reporting(a)) = 1
  <2>1. /\ child[a] \in Outcomes /\ EndedAs(a, child[a])
        /\ Reports => ReportedOnce(a)
    BY <1>1 DEF AInv, LedgerTrue
  <2>2. ReportedOnce(a) => Cardinality(Reporting(a)) = 1
    BY FS_Singleton DEF ReportedOnce
  <2> QED
    BY <2>1, <2>2
<1>2. AInv => FinishIsLast
  BY <1>1 DEF FinishIsLast, EndedAs, Reporting
<1> QED
  BY <1>2, AttemptsInductive, PTL

\* A team whose attempts are run, crash and are repeated is a team: what
\* the runtime does to it are commands, so all that holds of a team holds.
THEOREM AttemptsAreCommands == AttemptSpec => Spec
<1>1. AttemptInit => Init
  BY DEF AttemptInit
<1> QED
  BY <1>1, AttemptStep, AttemptsInductive, PTL DEF AttemptSpec, Spec

\* In particular its records stay valid, dependencies come first, results
\* are final, and it is a task board.
COROLLARY RunsKeepTheTeam ==
    AttemptSpec => []RecordsValid /\ []DependenciesFirst /\ AttemptsFinal /\ ImplementsBoard
BY AttemptsAreCommands, ValidRecords, DependenciesHonoured, FirstResultWins, BoardImplemented
=============================================================================
