-------------------------------- MODULE Team --------------------------------
(***************************************************************************)
(* One team of agents (agent/team): its members, its tasks with their      *)
(* dependencies, claims and attempts, and its mail.                        *)
(*                                                                         *)
(* The engine applies a command by loading the latest record, computing    *)
(* the next one and swapping it in only if the record loaded is still the  *)
(* latest (Engine.apply, Store.CompareAndSwap).  A command takes effect on *)
(* the record it was checked against or not at all, so each command is one *)
(* action here; which commands are repeated, and what a repeated command   *)
(* is answered, matters to TeamAttempt, which models the steps of apply.   *)
(*                                                                         *)
(* validateNextRecord is not a guard: RecordsValid states that it never    *)
(* has anything to refuse.  Texts, payloads, artifacts, reasons and times  *)
(* are left out, and so are the limits on the number of members and tasks  *)
(* (both are given by the constants) and the target of a reply, which a    *)
(* sender may always omit.  An attempt and its continuation are one name.  *)
(***************************************************************************)
EXTENDS Integers, Sequences, FiniteSets

CONSTANTS
    Members,        \* identities that may be registered
    Lead,           \* the member every team is created with
    NoMember,       \* no assignee, no claimant
    Coordinator,    \* the trusted host process as an actor
    Tasks,          \* task identities
    MaxActive,      \* Limits.MaxActiveTasks
    AttemptLimit,   \* Task.AttemptLimit
    MaxMessages     \* Limits.MaxMessages

ASSUME TeamAssumption ==
    /\ Lead \in Members
    /\ NoMember \notin Members
    /\ Coordinator \notin Members
    /\ IsFiniteSet(Tasks)
    /\ MaxActive \in Nat \ {0}
    /\ AttemptLimit \in Nat \ {0}
    /\ MaxMessages \in Nat

VARIABLE team       \* the team of the latest record

Actors == Members \cup {Coordinator}

(* The n-th attempt of a task, named as the coding host names it.          *)
AttemptIds == Tasks \X (1 .. AttemptLimit)
NoAttempt == <<>>

TeamStatuses == {"absent", "active", "completed", "failed", "cancelled"}
MemberStatuses == {"absent", "active", "disabled"}
AttemptStatuses == {"running", "completed", "failed", "cancelled"}
TaskStatuses == {"absent", "pending", "ready", "claimed", "running",
                 "completed", "failed", "cancelled"}

Attempt == [id : AttemptIds, member : Members, status : AttemptStatuses]
Task == [status : TaskStatuses, deps : SUBSET Tasks,
         assigned : Members \cup {NoMember}, claimed : Members \cup {NoMember},
         attempts : Seq(Attempt)]

(* A message: its recipient, and the attempt whose report it is.  The      *)
(* messages members write on their own have fresh IDs, all NoAttempt here. *)
Message == [to : Members, id : AttemptIds \cup {NoAttempt}]

TeamType == [status : TeamStatuses, members : [Members -> MemberStatuses],
             tasks : [Tasks -> Task], mail : Seq(Message),
             delivered : [Members -> Nat], acknowledged : [Members -> Nat]]

NoTask == [status |-> "absent", deps |-> {}, assigned |-> NoMember,
           claimed |-> NoMember, attempts |-> <<>>]

-----------------------------------------------------------------------------
(* What commands ask of the team.                                          *)

Active == team.status = "active"
ActiveMember(m) == m \in Members /\ team.members[m] = "active"
LeadOrCoordinator(actor) ==
    actor = Coordinator \/ (actor = Lead /\ ActiveMember(actor))
TaskOperator(actor, claimant) ==
    \/ actor = Coordinator
    \/ ActiveMember(actor) /\ actor \in {claimant, Lead}

TaskIs(k, statuses) == team.tasks[k].status \in statuses
Existing == {k \in Tasks : team.tasks[k].status # "absent"}
Held == {k \in Tasks : TaskIs(k, {"claimed", "running"})}
Busy(m) == \E k \in Held : team.tasks[k].claimed = m
Completed(tasks, D) == \A d \in D : tasks[d].status = "completed"
(* Mutant: a cancelled dependency counts as completed.                     *)
StatusForEnded(tasks, D) ==
    IF \A d \in D : tasks[d].status \in {"completed", "cancelled"}
    THEN "ready" ELSE "pending"

StatusFor(tasks, D) == IF Completed(tasks, D) THEN "ready" ELSE "pending"

Last(attempts) == attempts[Len(attempts)]
CloseLast(attempts, outcome) ==
    [attempts EXCEPT ![Len(attempts)] = [Last(attempts) EXCEPT !.status = outcome]]

SetTask(k, task) == team' = [team EXCEPT !.tasks = [team.tasks EXCEPT ![k] = task]]
SetMember(m, status) ==
    team' = [team EXCEPT !.members = [team.members EXCEPT ![m] = status]]

-----------------------------------------------------------------------------
(* The team and its members.                                               *)

Create ==
    /\ team.status = "absent"
    /\ team' = [team EXCEPT !.status = "active",
                    !.members = [team.members EXCEPT ![Lead] = "active"]]

RegisterMember(m) ==
    /\ Active
    /\ team.members[m] = "absent"
    /\ SetMember(m, "active")

DisableMember(m) ==
    /\ Active
    /\ m # Lead
    /\ team.members[m] = "active"
    /\ ~Busy(m)
    /\ SetMember(m, "disabled")

EnableMember(m) ==
    /\ Active
    /\ team.members[m] = "disabled"
    /\ SetMember(m, "active")

(* Mutant: the running attempt of a cancelled task is left running.        *)
CancelledKeepsAttempt(task) ==
    [task EXCEPT !.status = "cancelled", !.claimed = NoMember]

(* The cancelled form of a task: its running attempt is cancelled with it. *)
Cancelled(task) ==
    [task EXCEPT !.status = "cancelled", !.claimed = NoMember,
                 !.attempts = IF task.status = "running"
                              THEN CloseLast(task.attempts, "cancelled")
                              ELSE task.attempts]

CompleteTeam(actor) ==
    /\ Active
    /\ LeadOrCoordinator(actor)
    /\ \A k \in Existing : TaskIs(k, {"completed", "cancelled"})
    /\ team' = [team EXCEPT !.status = "completed"]

(* FailTeam and CancelTeam.                                                *)
TerminalizeTeam(actor, status) ==
    /\ Active
    /\ LeadOrCoordinator(actor)
    /\ team' = [team EXCEPT !.status = status, !.tasks =
          [k \in Tasks |->
              IF TaskIs(k, {"absent", "completed", "cancelled", "failed"})
              THEN team.tasks[k] ELSE Cancelled(team.tasks[k])]]

-----------------------------------------------------------------------------
(* Tasks.                                                                  *)

CreateTask(actor, k, D) ==
    /\ Active
    /\ LeadOrCoordinator(actor)
    /\ k \notin Existing
    /\ D \subseteq Existing
    /\ SetTask(k, [status |-> StatusFor(team.tasks, D), deps |-> D,
                   assigned |-> NoMember, claimed |-> NoMember, attempts |-> <<>>])

AssignTask(actor, k, m) ==
    /\ Active
    /\ LeadOrCoordinator(actor)
    /\ ActiveMember(m)
    /\ TaskIs(k, {"pending", "ready"})
    /\ team.tasks[k].assigned # m
    /\ SetTask(k, [team.tasks[k] EXCEPT !.assigned = m])

UnassignTask(actor, k) ==
    /\ Active
    /\ LeadOrCoordinator(actor)
    /\ TaskIs(k, {"pending", "ready"})
    /\ team.tasks[k].assigned # NoMember
    /\ SetTask(k, [team.tasks[k] EXCEPT !.assigned = NoMember])

CanClaim(m, k) ==
    /\ Active
    /\ ActiveMember(m)
    /\ TaskIs(k, {"ready"})
    /\ team.tasks[k].assigned \in {NoMember, m}
    /\ ~Busy(m)
    /\ Cardinality(Held) < MaxActive
ClaimTask(m, k) ==
    /\ CanClaim(m, k)
    /\ SetTask(k, [team.tasks[k] EXCEPT !.status = "claimed", !.claimed = m])

ReleaseTask(actor, k) ==
    /\ Active
    /\ TaskIs(k, {"claimed"})
    /\ TaskOperator(actor, team.tasks[k].claimed)
    /\ SetTask(k, [team.tasks[k] EXCEPT !.status = "ready", !.claimed = NoMember])

RetryTask(actor, k) ==
    /\ Active
    /\ LeadOrCoordinator(actor)
    /\ TaskIs(k, {"failed"})
    /\ Len(team.tasks[k].attempts) < AttemptLimit
    /\ SetTask(k, [team.tasks[k] EXCEPT
                      !.status = StatusFor(team.tasks, team.tasks[k].deps)])

CancelTask(actor, k) ==
    /\ Active
    /\ LeadOrCoordinator(actor)
    /\ k \in Existing
    /\ ~TaskIs(k, {"completed", "cancelled"})
    /\ SetTask(k, Cancelled(team.tasks[k]))

-----------------------------------------------------------------------------
(* Attempts.                                                               *)

Started(a) ==
    \E k \in Tasks : \E i \in DOMAIN team.tasks[k].attempts :
        team.tasks[k].attempts[i].id = a

CanStart(k, a) ==
    /\ Active
    /\ TaskIs(k, {"claimed"})
    /\ Len(team.tasks[k].attempts) < AttemptLimit
    /\ ~Started(a)
StartTaskAttempt(k, a) ==
    /\ CanStart(k, a)
    /\ SetTask(k, [team.tasks[k] EXCEPT !.status = "running",
           !.attempts = Append(team.tasks[k].attempts,
               [id |-> a, member |-> team.tasks[k].claimed, status |-> "running"])])

(* Mutant: a result of the last attempt is taken whenever it comes.        *)
RunningLate(k, a) ==
    /\ team.tasks[k].attempts # <<>>
    /\ Last(team.tasks[k].attempts).id = a

(* The attempt is the running one of its task (the code keeps the status   *)
(* of the task and of its last attempt apart, and asks for both).          *)
Running(k, a) ==
    /\ TaskIs(k, {"running"})
    /\ team.tasks[k].attempts # <<>>
    /\ Last(team.tasks[k].attempts).status = "running"
    /\ Last(team.tasks[k].attempts).id = a

CanFinish(actor, k, a) ==
    /\ Active
    /\ Running(k, a)
    /\ \/ actor = Coordinator
       \/ /\ ActiveMember(actor)
          /\ actor = Last(team.tasks[k].attempts).member
          /\ actor = team.tasks[k].claimed

Finished(task, outcome) ==
    [task EXCEPT !.status = outcome, !.claimed = NoMember,
                 !.attempts = CloseLast(task.attempts, outcome)]

(* Mutant: what waits is left waiting.                                     *)
PromotedLate(tasks) == tasks

(* promoteReadyTasks: what waited for the completed task only, is ready.   *)
Promoted(tasks) ==
    [k \in Tasks |-> IF tasks[k].status = "pending" /\ Completed(tasks, tasks[k].deps)
                     THEN [tasks[k] EXCEPT !.status = "ready"] ELSE tasks[k]]

FinishTaskAttempt(actor, k, a, outcome) ==
    /\ CanFinish(actor, k, a)
    /\ LET tasks == [team.tasks EXCEPT ![k] = Finished(team.tasks[k], outcome)]
       IN team' = [team EXCEPT !.tasks =
                      IF outcome = "completed" THEN Promoted(tasks) ELSE tasks]

-----------------------------------------------------------------------------
(* Mail.                                                                   *)

CanSend(sender, to, id) ==
    /\ Active
    /\ ActiveMember(sender)
    /\ Len(team.mail) < MaxMessages
    /\ team.members[to] # "absent"
    /\ id # NoAttempt => \A i \in DOMAIN team.mail : team.mail[i].id # id
SendMessage(sender, to, id) ==
    /\ CanSend(sender, to, id)
    /\ team' = [team EXCEPT !.mail = Append(team.mail, [to |-> to, id |-> id]),
           !.delivered = [team.delivered EXCEPT ![to] = Len(team.mail) + 1]]

CanAcknowledge(m, through) ==
    /\ Active
    /\ ActiveMember(m)
    /\ through > team.acknowledged[m]
    /\ through <= team.delivered[m]
AcknowledgeMessages(m, through) ==
    /\ CanAcknowledge(m, through)
    /\ team' = [team EXCEPT !.acknowledged = [team.acknowledged EXCEPT ![m] = through]]

-----------------------------------------------------------------------------
Init ==
    team = [status |-> "absent", members |-> [m \in Members |-> "absent"],
            tasks |-> [k \in Tasks |-> NoTask], mail |-> <<>>,
            delivered |-> [m \in Members |-> 0],
            acknowledged |-> [m \in Members |-> 0]]

(* The commands of the host, the lead and the members' tools.              *)
Govern ==
    \/ Create
    \/ \E m \in Members : RegisterMember(m) \/ DisableMember(m) \/ EnableMember(m)
    \/ \E actor \in Actors :
          \/ CompleteTeam(actor)
          \/ \E status \in {"failed", "cancelled"} : TerminalizeTeam(actor, status)
Plan ==
    \E actor \in Actors, k \in Tasks :
       \/ \E D \in SUBSET Tasks : CreateTask(actor, k, D)
       \/ \E m \in Members : AssignTask(actor, k, m)
       \/ UnassignTask(actor, k)
       \/ RetryTask(actor, k)
       \/ CancelTask(actor, k)
Work ==
    \/ \E m \in Members, k \in Tasks : ClaimTask(m, k)
    \/ \E actor \in Actors, k \in Tasks : ReleaseTask(actor, k)
    \/ \E k \in Tasks, a \in AttemptIds : StartTaskAttempt(k, a)
    \/ \E actor \in Actors, k \in Tasks, a \in AttemptIds,
          outcome \in {"completed", "failed"} : FinishTaskAttempt(actor, k, a, outcome)
Correspond ==
    \/ \E sender \in Members, to \in Members, id \in AttemptIds \cup {NoAttempt} :
          SendMessage(sender, to, id)
    \/ \E m \in Members, through \in 1 .. Len(team.mail) :
          AcknowledgeMessages(m, through)

Next == Govern \/ Plan \/ Work \/ Correspond

Spec == Init /\ [][Next]_team

-----------------------------------------------------------------------------
TypeOK == team \in TeamType

(* validateTaskState.                                                      *)
ValidTaskState(task) ==
    LET last == Last(task.attempts) IN
    /\ task.status = "absent" => task = NoTask
    /\ task.status = "pending" => ~Completed(team.tasks, task.deps)
    /\ task.status \in {"ready", "claimed"} => Completed(team.tasks, task.deps)
    /\ task.status \in {"claimed", "running"} <=> task.claimed # NoMember
    /\ task.status \in {"claimed", "cancelled"} =>
          (task.attempts # <<>> => last.status # "running")
    /\ task.status \in {"running", "completed", "failed"} =>
          task.attempts # <<>> /\ last.status = task.status
    /\ task.status = "running" => last.member = task.claimed

ValidTask(k) ==
    LET task == team.tasks[k] IN
    /\ task.deps \subseteq Existing
    /\ task.assigned # NoMember => team.members[task.assigned] # "absent"
    /\ task.claimed # NoMember => team.members[task.claimed] = "active"
    /\ Len(task.attempts) <= AttemptLimit
    /\ \A i \in DOMAIN task.attempts : team.members[task.attempts[i].member] # "absent"
    /\ ValidTaskState(task)

(* Attempt IDs name one attempt of one task.                               *)
UniqueAttempts ==
    \A j, k \in Tasks :
        \A x \in DOMAIN team.tasks[j].attempts, y \in DOMAIN team.tasks[k].attempts :
            team.tasks[j].attempts[x].id = team.tasks[k].attempts[y].id => j = k /\ x = y

(* A member holds one task, and no more tasks are held than the limit.     *)
HeldOnce ==
    /\ \A j, k \in Held : team.tasks[j].claimed = team.tasks[k].claimed => j = k
    /\ Cardinality(Held) <= MaxActive

(* validateDependencyGraph: among any tasks there is one that waits for    *)
(* none of them.                                                           *)
Acyclic ==
    \A S \in (SUBSET Tasks) \ {{}} : \E k \in S : team.tasks[k].deps \cap S = {}

ValidMailbox ==
    /\ Len(team.mail) <= MaxMessages
    /\ \A m \in Members : /\ team.acknowledged[m] <= team.delivered[m]
                          /\ team.delivered[m] <= Len(team.mail)

ValidLifecycle ==
    team.status \in {"completed", "failed", "cancelled"} =>
        \A k \in Existing :
            \/ TaskIs(k, {"completed", "cancelled"})
            \/ TaskIs(k, {"failed"}) /\ team.status # "completed"

(* Every record the engine computes passes the validation of the store     *)
(* (validateTeam): no legal command, in any order, leads to a team whose   *)
(* next record would be refused.  In particular a task is pending exactly  *)
(* while a dependency is incomplete, whatever was completed, retried or    *)
(* cancelled in between, and a claim or an attempt is never left behind.   *)
RecordsValid ==
    team.status # "absent" =>
        /\ team.members[Lead] = "active"
        /\ \A k \in Tasks : ValidTask(k)
        /\ UniqueAttempts
        /\ HeldOnce
        /\ Acyclic
        /\ ValidMailbox
        /\ ValidLifecycle

(* The first terminal result wins: an attempt that ended keeps its member  *)
(* and its outcome for ever, no attempt is forgotten, and a new one is     *)
(* only appended, by one, behind ended ones.  A late result, a retry or a  *)
(* cancellation never touches an earlier attempt.                          *)
AttemptsFinal ==
    [][\A k \in Tasks :
          LET old == team.tasks[k].attempts
              new == team'.tasks[k].attempts
          IN /\ Len(new) \in {Len(old), Len(old) + 1}
             /\ \A i \in DOMAIN old :
                   /\ new[i].id = old[i].id /\ new[i].member = old[i].member
                   /\ old[i].status # "running" => new[i] = old[i]
             /\ Len(new) > Len(old) => \A i \in DOMAIN old : old[i].status # "running"
      ]_team

(* A task is worked on only after its dependencies: whoever holds it or    *)
(* has ever attempted it did so when all it depends on was completed, and  *)
(* that stays so.                                                          *)
DependenciesFirst ==
    \A k \in Tasks :
        TaskIs(k, {"claimed", "running", "completed"}) \/ team.tasks[k].attempts # <<>>
            => Completed(team.tasks, team.tasks[k].deps)

(* The team as a board of tasks.                                           *)
Place(status) ==
    CASE status = "absent" -> "none"
      [] status = "pending" -> "waiting"
      [] status = "ready" -> "free"
      [] status \in {"claimed", "running"} -> "held"
      [] status = "completed" -> "done"
      [] status = "failed" -> "failed"
      [] status = "cancelled" -> "dropped"

Board == INSTANCE TaskBoard WITH
    open <- Active,
    needs <- [k \in Tasks |-> team.tasks[k].deps],
    board <- [k \in Tasks |-> Place(team.tasks[k].status)],
    holder <- [k \in Tasks |-> team.tasks[k].claimed]

(* Whatever is done to the team, by whom, and in whichever order, those    *)
(* who see the tasks only see a task board.                                *)
ImplementsBoard == Board!Spec
=============================================================================
