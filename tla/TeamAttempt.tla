---------------------------- MODULE TeamAttempt ----------------------------
(***************************************************************************)
(* AttemptRuntime.Run over a team (agent/team/attempt_runtime.go): it      *)
(* claims and starts an attempt, creates or resumes the attempt's child    *)
(* execution in another store, and commits what the child came to as       *)
(* acknowledgement, message and finish, under command IDs derived from the *)
(* attempt, so that a run after a crash repeats them instead of issuing    *)
(* new ones.                                                               *)
(*                                                                         *)
(* Each command goes through the steps of Engine.apply: it looks for a     *)
(* record made under its ID, loads the latest record and compares its      *)
(* revision with the expected one, and swaps the next record in; a swap    *)
(* that fails looks for the command again.  Everyone else's commands are   *)
(* the actions of Team, at any point in between.                           *)
(*                                                                         *)
(* Revisions are compared for equality only, so the model keeps who holds  *)
(* the latest one: runners, and recorded claims, whose revision a run that *)
(* repeats them goes on with.  A child is what its store says of it; the   *)
(* engine that drives it is the module Continuation.                       *)
(***************************************************************************)
EXTENDS Team

CONSTANTS
    Runners,        \* goroutines that call Run, one attempt at a time
    Acknowledges,   \* completions acknowledge the mailbox
    Reports,        \* completions carry one message, to the lead
    ConflictLimit   \* attemptCompletionConflictLimit

(* A runner's frame names an attempt, so there is one to name.             *)
ASSUME AttemptAssumption ==
    /\ Tasks # {}
    /\ Acknowledges \in BOOLEAN /\ Reports \in BOOLEAN
    /\ ConflictLimit \in Nat \ {0}

VARIABLES
    child,      \* the child execution of each attempt, as its store has it
    ledger,     \* what was committed under each derived command ID
    latest,     \* the runners and claims whose revision is the latest
    run         \* the frame of each runner

vars == <<team, child, ledger, latest, run>>

Stages == {"claim", "start", "acknowledge", "message", "finish"}
CommandIds == Stages \X AttemptIds
Outcomes == {"completed", "failed"}
ChildStatuses == {"absent", "open"} \cup Outcomes

(* What a command says besides its ID: the claimant, the message it        *)
(* acknowledges through, the outcome.  Nothing else of it can vary.        *)
NoContent == <<>>
Content == {NoContent} \cup ({"claims"} \X Members)
           \cup ({"through"} \X Nat) \cup ({"ends"} \X Outcomes)

Places == {"idle", "lookup", "load", "swap", "relookup",
           "mailbox", "child", "create", "drive", "fetch"}

Frame == [at : Places, stage : Stages, attempt : AttemptIds, content : Content,
          seen : Nat, conflicts : 0 .. ConflictLimit - 1]

Idle == [at |-> "idle", stage |-> "claim", attempt |-> CHOOSE a \in AttemptIds : TRUE,
         content |-> NoContent, seen |-> 0, conflicts |-> 0]

TaskOf(a) == a[1]
Id(r) == <<run[r].stage, run[r].attempt>>
At(r, place) == run[r].at = place

(* The member of an attempt that has been started.                         *)
MemberOf(a) ==
    LET attempts == team.tasks[TaskOf(a)].attempts
    IN attempts[CHOOSE i \in DOMAIN attempts : attempts[i].id = a].member

Goto(r, frame) == run' = [run EXCEPT ![r] = frame]
Step(r, place) == Goto(r, [run[r] EXCEPT !.at = place])
Return(r) == Goto(r, Idle)
Issue(r, stage, content) ==
    Goto(r, [run[r] EXCEPT !.at = "lookup", !.stage = stage, !.content = content])

-----------------------------------------------------------------------------
(* Mutant: the child is created before the attempt is started.             *)
RunChildFirst(r, a) ==
    /\ At(r, "idle")
    /\ latest' = latest \cup {r}
    /\ \/ /\ Running(TaskOf(a), a)
          /\ Goto(r, [Idle EXCEPT !.at = "mailbox", !.attempt = a])
       \/ /\ TaskIs(TaskOf(a), {"ready", "claimed"})
          /\ Goto(r, [Idle EXCEPT !.at = "create", !.attempt = a])
    /\ UNCHANGED <<team, child, ledger>>

(* startOrResume.                                                          *)

(* The attempt the host asks for is the running one or, named by the       *)
(* number of attempts there were when it planned, the next.                *)
RunAttempt(r, a) ==
    LET k == TaskOf(a)
        task == team.tasks[k]
        frame == [Idle EXCEPT !.attempt = a]
    IN
    /\ At(r, "idle")
    /\ a[2] \in {Len(task.attempts), Len(task.attempts) + 1}
    /\ latest' = latest \cup {r}
    /\ \/ Running(k, a) /\ Goto(r, [frame EXCEPT !.at = "mailbox"])
       \/ /\ TaskIs(k, {"ready"}) /\ task.assigned # NoMember
          /\ Goto(r, [frame EXCEPT !.at = "lookup", !.stage = "claim",
                          !.content = <<"claims", task.assigned>>])
       \/ /\ TaskIs(k, {"claimed"})
          /\ Goto(r, [frame EXCEPT !.at = "lookup", !.stage = "start"])
    /\ UNCHANGED <<team, child, ledger>>

-----------------------------------------------------------------------------
(* Engine.apply, for the runner's command.                                 *)

(* The next command of a completion; what is not needed any more is let go. *)
Complete(r, stage) ==
    Goto(r, [run[r] EXCEPT !.at = "fetch", !.stage = stage, !.content = NoContent,
                !.conflicts = 0, !.seen = IF stage = "acknowledge" THEN run[r].seen ELSE 0])

(* The caller goes on with the record its command made.                    *)
Proceed(r) ==
    CASE run[r].stage = "claim" -> Issue(r, "start", NoContent)
      [] run[r].stage = "start" -> Step(r, "mailbox")
      [] run[r].stage = "acknowledge" -> Complete(r, IF Reports THEN "message" ELSE "finish")
      [] run[r].stage = "message" -> Complete(r, "finish")
      [] run[r].stage = "finish" -> Return(r)

(* Mutant: the rebases are counted and never stopped.                      *)
ConflictUnlimited(r) ==
    IF run[r].stage \in {"claim", "start"} THEN Return(r)
    ELSE Goto(r, [run[r] EXCEPT !.at = "fetch", !.content = NoContent,
                     !.conflicts = run[r].conflicts + 1])

(* A revision conflict ends the run, except of a completion's commands,    *)
(* which are rebased a limited number of times.                            *)
Conflict(r) ==
    IF run[r].stage \in {"claim", "start"} \/ run[r].conflicts + 1 = ConflictLimit
    THEN Return(r)
    ELSE Goto(r, [run[r] EXCEPT !.at = "fetch", !.content = NoContent,
                     !.conflicts = run[r].conflicts + 1])

Recorded(r) == Id(r) \in DOMAIN ledger

(* replay: the recorded answer, if the command says the same.              *)
Replay(r) ==
    /\ Recorded(r)
    /\ \/ /\ ledger[Id(r)] = run[r].content
          /\ latest' = IF Id(r) \in latest THEN latest \cup {r} ELSE latest \ {r}
          /\ Proceed(r)
       \/ /\ ledger[Id(r)] # run[r].content
          /\ Return(r)
          /\ UNCHANGED latest
    /\ UNCHANGED <<team, child, ledger>>

Lookup(r) ==
    /\ At(r, "lookup")
    /\ \/ Replay(r)
       \/ ~Recorded(r) /\ Step(r, "load") /\ UNCHANGED <<team, child, ledger, latest>>

Permitted(r) ==
    LET a == run[r].attempt
        k == TaskOf(a)
    IN CASE run[r].stage = "claim" -> CanClaim(run[r].content[2], k)
         [] run[r].stage = "start" -> CanStart(k, a)
         [] run[r].stage = "acknowledge" ->
               CanAcknowledge(MemberOf(a), run[r].content[2])
         [] run[r].stage = "message" ->
               CanSend(MemberOf(a), Lead, a)
         [] run[r].stage = "finish" -> CanFinish(Coordinator, k, a)

Load(r) ==
    /\ At(r, "load")
    /\ \/ r \notin latest /\ Conflict(r)
       \/ r \in latest /\ ~Permitted(r) /\ Return(r)
       \/ r \in latest /\ Permitted(r) /\ Step(r, "swap")
    /\ UNCHANGED <<team, child, ledger, latest>>

Effect(r) ==
    LET a == run[r].attempt
        k == TaskOf(a)
    IN CASE run[r].stage = "claim" -> ClaimTask(run[r].content[2], k)
         [] run[r].stage = "start" -> StartTaskAttempt(k, a)
         [] run[r].stage = "acknowledge" ->
               AcknowledgeMessages(MemberOf(a), run[r].content[2])
         [] run[r].stage = "message" ->
               SendMessage(MemberOf(a), Lead, a)
         [] run[r].stage = "finish" ->
               FinishTaskAttempt(Coordinator, k, a, run[r].content[2])

(* The ledger with one more entry.                                         *)
Entered(id, content) ==
    [x \in DOMAIN ledger \cup {id} |-> IF x = id THEN content ELSE ledger[x]]

(* The record is durable before anyone learns of it: the write may report  *)
(* an error although it took place (a failed sync), or before it did.      *)
Swap(r) ==
    /\ At(r, "swap")
    /\ \/ /\ r \in latest
          /\ Effect(r)
          /\ ledger' = Entered(Id(r), run[r].content)
          /\ latest' = {r} \cup IF run[r].stage = "claim" THEN {Id(r)} ELSE {}
          /\ Proceed(r) \/ Return(r)
       \/ /\ r \in latest
          /\ Return(r)
          /\ UNCHANGED <<team, ledger, latest>>
       \/ /\ r \notin latest
          /\ Step(r, "relookup")
          /\ UNCHANGED <<team, ledger, latest>>
    /\ UNCHANGED child

Relookup(r) ==
    /\ At(r, "relookup")
    /\ \/ Replay(r)
       \/ ~Recorded(r) /\ Conflict(r) /\ UNCHANGED <<team, child, ledger, latest>>

-----------------------------------------------------------------------------
(* The mailbox, the child, and the completion.                             *)

(* The page ends with the last message delivered to the member: a page     *)
(* holds a thousand messages, more than MaxMessages here.                  *)
ReadMailbox(r) ==
    /\ At(r, "mailbox")
    /\ Goto(r, [run[r] EXCEPT !.at = "child", !.stage = "finish",
                    !.seen = team.delivered[MemberOf(run[r].attempt)]])
    /\ UNCHANGED <<team, child, ledger, latest>>

(* Mutant: the attempt is finished before its report is sent.              *)
FirstStageFinish(r) ==
    IF Acknowledges /\ run[r].seen > 0 THEN "acknowledge" ELSE "finish"

FirstStage(r) ==
    IF Acknowledges /\ run[r].seen > 0 THEN "acknowledge"
    ELSE IF Reports THEN "message" ELSE "finish"

(* ProjectAttemptResult, which may fail, and the start of the completion.  *)
Project(r) ==
    \/ Complete(r, FirstStage(r))
    \/ Return(r)

(* Continuations.Get; a missing or unfinished child needs a worker, which  *)
(* the application may fail to prepare.                                    *)
FindChild(r) ==
    LET status == child[run[r].attempt] IN
    /\ At(r, "child")
    /\ \/ status = "absent" /\ (Step(r, "create") \/ Return(r))
       \/ status = "open" /\ (Step(r, "drive") \/ Return(r))
       \/ status \in Outcomes /\ Project(r)
    /\ UNCHANGED <<team, child, ledger, latest>>

(* createMissingChild: whoever finds it created meanwhile takes it as it   *)
(* is.                                                                     *)
CreateChild(r) ==
    LET a == run[r].attempt IN
    /\ At(r, "create")
    /\ \/ /\ child[a] \in {"absent", "open"}
          /\ child' = [child EXCEPT ![a] = "open"]
          /\ Step(r, "drive")
       \/ /\ child[a] \in Outcomes
          /\ Project(r)
          /\ UNCHANGED child
    /\ UNCHANGED <<team, ledger, latest>>

(* Drive brings the child to an end, or yields or fails before.            *)
Drive(r) ==
    LET a == run[r].attempt IN
    /\ At(r, "drive")
    /\ \/ /\ child[a] = "open"
          /\ \E outcome \in Outcomes : child' = [child EXCEPT ![a] = outcome]
          /\ Project(r)
       \/ Return(r) /\ UNCHANGED child
    /\ UNCHANGED <<team, ledger, latest>>

(* commitCompletionCommand: each try starts from the latest record.        *)
Fetch(r) ==
    LET a == run[r].attempt
        acknowledged == team.acknowledged[MemberOf(a)] >= run[r].seen
    IN
    /\ At(r, "fetch")
    /\ latest' = latest \cup {r}
    /\ \/ run[r].stage = "acknowledge" /\ acknowledged /\ Proceed(r)
       \/ /\ run[r].stage = "acknowledge" /\ ~acknowledged
          /\ Issue(r, "acknowledge", <<"through", run[r].seen>>)
       \/ run[r].stage = "message" /\ Issue(r, "message", NoContent)
       \/ run[r].stage = "finish" /\ Issue(r, "finish", <<"ends", child[a]>>)
    /\ UNCHANGED <<team, child, ledger>>

-----------------------------------------------------------------------------
(* The process of a runner dies, or its context ends.                      *)
Stop(r) ==
    /\ ~At(r, "idle")
    /\ Return(r)
    /\ UNCHANGED <<team, child, ledger, latest>>

(* The commands of everyone else; starting attempts is the runtime's.      *)
Others ==
    /\ \/ Govern
       \/ Plan
       \/ \E m \in Members, k \in Tasks : ClaimTask(m, k)
       \/ \E actor \in Actors, k \in Tasks : ReleaseTask(actor, k)
       \/ \E m \in Members, k \in Tasks, a \in AttemptIds, outcome \in Outcomes :
             FinishTaskAttempt(m, k, a, outcome)
       \/ \E sender, to \in Members : SendMessage(sender, to, NoAttempt)
       \/ \E m \in Members, through \in 1 .. Len(team.mail) : AcknowledgeMessages(m, through)
    /\ latest' = {}
    /\ UNCHANGED <<child, ledger, run>>

(* The host passes a cancellation on to the child.                         *)
CancelChild(a) ==
    /\ child[a] = "open"
    /\ child' = [child EXCEPT ![a] = "failed"]
    /\ UNCHANGED <<team, ledger, latest, run>>

Progress(r) ==
    \/ Lookup(r) \/ Load(r) \/ Swap(r) \/ Relookup(r)
    \/ ReadMailbox(r) \/ FindChild(r) \/ CreateChild(r) \/ Drive(r)
    \/ Fetch(r)

AttemptInit ==
    /\ Init
    /\ child = [a \in AttemptIds |-> "absent"]
    /\ ledger = <<>>
    /\ latest = {}
    /\ run = [r \in Runners |-> Idle]

AttemptNext ==
    \/ Others
    \/ \E a \in AttemptIds : CancelChild(a)
    \/ \E r \in Runners : \/ \E a \in AttemptIds : RunAttempt(r, a)
                          \/ Progress(r)
                          \/ Stop(r)

AttemptSpec == AttemptInit /\ [][AttemptNext]_vars

-----------------------------------------------------------------------------
AttemptTypeOK ==
    /\ TypeOK
    /\ child \in [AttemptIds -> ChildStatuses]
    /\ DOMAIN ledger \subseteq CommandIds
    /\ \A id \in DOMAIN ledger : ledger[id] \in Content
    /\ latest \subseteq Runners \cup ({"claim"} \X AttemptIds)
    /\ run \in [Runners -> Frame]

(* First the attempt, then its child: whatever crashed between the two     *)
(* stores, a child execution belongs to an attempt the team knows, so      *)
(* recovery finds every child.                                             *)
ChildHasAttempt == \A a \in AttemptIds : child[a] # "absent" => Started(a)

(* The finish of a run is the last of its commands and says what the child *)
(* came to: a run that finished the attempt, even after crashes that       *)
(* repeated it, has sent its report before, once, and the outcome in the   *)
(* team is that of the child.                                              *)
FinishIsLast ==
    \A a \in AttemptIds : <<"finish", a>> \in DOMAIN ledger =>
        LET attempts == team.tasks[TaskOf(a)].attempts IN
        /\ child[a] \in Outcomes
        /\ \E i \in DOMAIN attempts : attempts[i].id = a /\ attempts[i].status = child[a]
        /\ Reports => Cardinality({i \in DOMAIN team.mail : team.mail[i].id = a}) = 1

(* A run that crashed while it committed a completion is run again and     *)
(* commits it: its commands have the keys of the first run, and say what   *)
(* they said then, or they would be refused for ever.  It does not hold:   *)
(* the mailbox the acknowledgement speaks of is read anew.                 *)
CompletionRepeats ==
    \A r \in Runners :
        /\ At(r, "lookup") /\ Recorded(r)
        /\ run[r].stage \in {"acknowledge", "message", "finish"}
        => ledger[Id(r)] = run[r].content
=============================================================================
