----------------------------- MODULE TeamProofs -----------------------------
(***************************************************************************)
(* Proofs about Team, for any members, tasks and limits.                   *)
(***************************************************************************)
EXTENDS Team, FiniteSetTheorems, TLAPS

\* There is nothing in a team that has not been created.
NothingYet ==
    team.status = "absent" =>
        /\ \A k \in Tasks : team.tasks[k] = NoTask
        /\ \A m \in Members : /\ team.members[m] = "absent"
                              /\ team.delivered[m] = 0 /\ team.acknowledged[m] = 0
        /\ team.mail = <<>>

\* Only the last attempt of a running task runs, and a task that waits for
\* others has not been attempted.
Settled ==
    \A k \in Tasks :
        /\ \A i \in DOMAIN team.tasks[k].attempts :
              team.tasks[k].attempts[i].status = "running" =>
                  i = Len(team.tasks[k].attempts) /\ TaskIs(k, {"running"})
        /\ TaskIs(k, {"absent", "pending"}) => team.tasks[k].attempts = <<>>

IInv == TypeOK /\ NothingYet /\ Settled /\ DependenciesFirst /\ RecordsValid

-----------------------------------------------------------------------------
(* What the parts of a team are made of.                                   *)

\* The fields of a task have their types.
LEMMA TaskParts ==
    ASSUME TypeOK, NEW k \in Tasks
    PROVE  /\ team.tasks[k] \in Task
           /\ team.tasks[k].status \in TaskStatuses
           /\ team.tasks[k].deps \in SUBSET Tasks
           /\ team.tasks[k].assigned \in Members \cup {NoMember}
           /\ team.tasks[k].claimed \in Members \cup {NoMember}
           /\ team.tasks[k].attempts \in Seq(Attempt)
BY DEF TypeOK, TeamType, Task

\* A task that does not exist is a task of the type.
LEMMA NoTaskType == NoTask \in Task
BY DEF NoTask, Task, TaskStatuses

\* Ending the last attempt changes the outcome of the last attempt only.
LEMMA ClosedLast ==
    ASSUME NEW s \in Seq(Attempt), s # <<>>, NEW outcome \in AttemptStatuses
    PROVE  /\ CloseLast(s, outcome) \in Seq(Attempt)
           /\ Len(CloseLast(s, outcome)) = Len(s)
           /\ DOMAIN CloseLast(s, outcome) = DOMAIN s
           /\ CloseLast(s, outcome) # <<>>
           /\ \A i \in DOMAIN s :
                 /\ CloseLast(s, outcome)[i].id = s[i].id
                 /\ CloseLast(s, outcome)[i].member = s[i].member
                 /\ i # Len(s) => CloseLast(s, outcome)[i] = s[i]
           /\ Last(CloseLast(s, outcome)).status = outcome
           /\ Last(CloseLast(s, outcome)).member = Last(s).member
           /\ Last(CloseLast(s, outcome)).id = Last(s).id
<1>1. Len(s) \in DOMAIN s /\ DOMAIN s = 1 .. Len(s)
  OBVIOUS
<1> DEFINE new == [Last(s) EXCEPT !.status = outcome]
<1>2. Last(s) \in Attempt
  BY <1>1 DEF Last
<1>3. new \in Attempt /\ new.status = outcome /\ new.id = Last(s).id /\ new.member = Last(s).member
  BY <1>2 DEF Attempt
<1> HIDE DEF new
<1>4. CloseLast(s, outcome) = [s EXCEPT ![Len(s)] = new]
  BY DEF CloseLast, new
<1> QED
  BY <1>1, <1>3, <1>4 DEF Last

\* A task that is cancelled keeps its attempts, but for a running one.
LEMMA CancelledTask ==
    ASSUME NEW task \in Task,
           task.status = "running" => task.attempts # <<>>
    PROVE  LET new == Cancelled(task) IN
           /\ new \in Task
           /\ new.status = "cancelled" /\ new.claimed = NoMember
           /\ new.deps = task.deps /\ new.assigned = task.assigned
           /\ new.attempts = IF task.status = "running"
                             THEN CloseLast(task.attempts, "cancelled") ELSE task.attempts
<1>1. task.attempts \in Seq(Attempt)
  BY DEF Task
<1>2. CASE task.status = "running"
  <2>1. CloseLast(task.attempts, "cancelled") \in Seq(Attempt)
    BY <1>1, <1>2, ClosedLast DEF AttemptStatuses
  <2> QED
    BY <1>2, <2>1 DEF Cancelled, Task, TaskStatuses
<1>3. CASE task.status # "running"
  BY <1>3 DEF Cancelled, Task, TaskStatuses
<1> QED
  BY <1>2, <1>3

\* So does a task whose attempt is finished.
LEMMA FinishedTask ==
    ASSUME NEW task \in Task, task.attempts # <<>>,
           NEW outcome \in {"completed", "failed"}
    PROVE  LET new == Finished(task, outcome) IN
           /\ new \in Task
           /\ new.status = outcome /\ new.claimed = NoMember
           /\ new.deps = task.deps /\ new.assigned = task.assigned
           /\ new.attempts = CloseLast(task.attempts, outcome)
<1>1. CloseLast(task.attempts, outcome) \in Seq(Attempt)
  BY ClosedLast DEF Task, AttemptStatuses
<1> QED
  BY <1>1 DEF Finished, Task, TaskStatuses

\* Setting a task changes that task and nothing else of the team.
LEMMA TaskSet ==
    ASSUME TypeOK, NEW k \in Tasks, NEW t \in Task, SetTask(k, t)
    PROVE  /\ TypeOK'
           /\ team'.status = team.status /\ team'.members = team.members
           /\ team'.mail = team.mail /\ team'.delivered = team.delivered
           /\ team'.acknowledged = team.acknowledged
           /\ team'.tasks[k] = t
           /\ \A j \in Tasks : j # k => team'.tasks[j] = team.tasks[j]
<1> DEFINE T == [team.tasks EXCEPT ![k] = t]
<1>1. T \in [Tasks -> Task] /\ T[k] = t /\ \A j \in Tasks : j # k => T[j] = team.tasks[j]
  BY DEF TypeOK, TeamType
<1> HIDE DEF T
<1>2. team' = [team EXCEPT !.tasks = T]
  BY DEF SetTask, T
<1> QED
  BY <1>1, <1>2 DEF TypeOK, TeamType

\* Setting a member changes that member and nothing else.
LEMMA MemberSet ==
    ASSUME TypeOK, NEW m \in Members, NEW s \in MemberStatuses, SetMember(m, s)
    PROVE  /\ TypeOK'
           /\ team'.status = team.status /\ team'.tasks = team.tasks
           /\ team'.mail = team.mail /\ team'.delivered = team.delivered
           /\ team'.acknowledged = team.acknowledged
           /\ team'.members[m] = s
           /\ \A n \in Members : n # m => team'.members[n] = team.members[n]
<1> DEFINE M == [team.members EXCEPT ![m] = s]
<1>1. /\ M \in [Members -> MemberStatuses] /\ M[m] = s
      /\ \A n \in Members : n # m => M[n] = team.members[n]
  BY DEF TypeOK, TeamType
<1> HIDE DEF M
<1>2. team' = [team EXCEPT !.members = M]
  BY DEF SetMember, M
<1> QED
  BY <1>1, <1>2 DEF TypeOK, TeamType

-----------------------------------------------------------------------------
(* A step that changes one task.                                           *)

\* Completing nothing and un-completing nothing, a task may become t.
Follows(k, t) ==
    /\ team.tasks[k].status # "completed"
    /\ t.status \notin {"absent", "completed"}
    /\ \/ k \in Existing /\ t.deps = team.tasks[k].deps
       \/ k \notin Existing /\ t.deps \subseteq Existing /\ t.attempts = <<>>

\* In the place of k's task, t is a task of a valid team.
Fits(k, t) ==
    /\ t.assigned # NoMember => team.members[t.assigned] # "absent"
    /\ t.claimed # NoMember => team.members[t.claimed] = "active"
    /\ ValidTaskState(t)
    /\ t.status = "pending" => t.attempts = <<>>
    /\ t.status \in {"claimed", "running"} \/ t.attempts # <<>>
          => Completed(team.tasks, t.deps)

\* Its attempts are those of k's task, and perhaps a new one.
Extends(k, t) ==
    LET old == team.tasks[k].attempts IN
    /\ Len(t.attempts) <= AttemptLimit
    /\ \A i \in DOMAIN t.attempts :
          /\ team.members[t.attempts[i].member] # "absent"
          /\ \/ i \in DOMAIN old /\ t.attempts[i].id = old[i].id
             \/ i = Len(old) + 1 /\ ~Started(t.attempts[i].id)
          /\ t.attempts[i].status = "running" =>
                i = Len(t.attempts) /\ t.status = "running"

\* It is held as k's task was, or by someone free while there is room.
Holds(k, t) ==
    t.status \in {"claimed", "running"} =>
        \/ k \in Held /\ t.claimed = team.tasks[k].claimed
        \/ ~Busy(t.claimed) /\ Cardinality(Held) < MaxActive

\* The state of a task speaks of the tasks it depends on only.
LEMMA StateKept ==
    ASSUME TypeOK, NEW t, NEW D \in SUBSET Tasks,
           \A d \in D : team'.tasks[d].status = "completed" <=>
                        team.tasks[d].status = "completed"
    PROVE  /\ Completed(team'.tasks, D) <=> Completed(team.tasks, D)
           /\ t.deps = D => (ValidTaskState(t) => ValidTaskState(t)')
<1>1. Completed(team'.tasks, D) <=> Completed(team.tasks, D)
  BY DEF Completed
<1> QED
  BY <1>1 DEF ValidTaskState

\* The held tasks are some of all tasks, and so can be counted.
LEMMA HeldFinite ==
    /\ Held \in SUBSET Tasks /\ IsFiniteSet(Held) /\ Cardinality(Held) \in Nat
    /\ Held' \in SUBSET Tasks /\ IsFiniteSet(Held') /\ Cardinality(Held') \in Nat
<1>1. Held \in SUBSET Tasks /\ Held' \in SUBSET Tasks
  BY DEF Held
<1> QED
  BY <1>1, TeamAssumption, FS_Subset, FS_CardinalityType

\* Who holds less, holds no more than the limit.
LEMMA HeldShrinks ==
    ASSUME Held' \subseteq Held, Cardinality(Held) <= MaxActive
    PROVE  Cardinality(Held') <= MaxActive
<1>1. Cardinality(Held') <= Cardinality(Held)
  BY HeldFinite, FS_Subset
<1> QED
  BY <1>1, HeldFinite, TeamAssumption

\* One more than what is below the limit is within it.
LEMMA HeldGrows ==
    ASSUME NEW k, Held' \subseteq Held \cup {k}, Cardinality(Held) < MaxActive
    PROVE  Cardinality(Held') <= MaxActive
<1>1. /\ IsFiniteSet(Held \cup {k})
      /\ Cardinality(Held \cup {k}) \in Nat
      /\ Cardinality(Held \cup {k}) <= Cardinality(Held) + 1
  <2>1. Cardinality(Held \cup {k}) \in {Cardinality(Held), Cardinality(Held) + 1}
    BY HeldFinite, FS_AddElement
  <2>2. IsFiniteSet(Held \cup {k})
    BY HeldFinite, FS_AddElement
  <2> QED
    BY <2>1, <2>2, HeldFinite
<1>2. Cardinality(Held') <= Cardinality(Held \cup {k})
  BY <1>1, FS_Subset
<1> QED
  BY <1>1, <1>2, HeldFinite, TeamAssumption

\* Such a step keeps the team valid.
LEMMA TaskStep ==
    ASSUME IInv, Active, NEW k \in Tasks, NEW t \in Task, SetTask(k, t),
           Follows(k, t), Fits(k, t), Extends(k, t), Holds(k, t)
    PROVE  IInv'
<1> USE DEF IInv
<1>1. /\ TypeOK' /\ Active'
      /\ team'.members = team.members
      /\ team'.mail = team.mail /\ team'.delivered = team.delivered
      /\ team'.acknowledged = team.acknowledged
      /\ team'.tasks[k] = t
      /\ \A j \in Tasks : j # k => team'.tasks[j] = team.tasks[j]
  BY TaskSet DEF Active
<1>2. \A j \in Tasks : team'.tasks[j].status = "completed" <=> team.tasks[j].status = "completed"
  BY <1>1 DEF Follows
<1>3. Existing' = Existing \cup {k}
  BY <1>1 DEF Existing, TaskIs, Follows
<1>4. /\ t.deps \in SUBSET Tasks /\ t.deps \subseteq Existing
      /\ t.status \in TaskStatuses /\ t.attempts \in Seq(Attempt)
  <2>1. CASE k \in Existing
    BY <2>1, TaskParts DEF Follows, RecordsValid, Active, ValidTask, Task
  <2>2. CASE k \notin Existing
    BY <2>2 DEF Follows, Existing, Task
  <2> QED
    BY <2>1, <2>2
<1>5. NothingYet'
  BY <1>1 DEF NothingYet, Active
<1>6. Settled'
  <2> SUFFICES ASSUME NEW j \in Tasks
               PROVE  /\ \A i \in DOMAIN team'.tasks[j].attempts :
                            team'.tasks[j].attempts[i].status = "running" =>
                               i = Len(team'.tasks[j].attempts) /\ TaskIs(j, {"running"})'
                      /\ TaskIs(j, {"absent", "pending"})' => team'.tasks[j].attempts = <<>>
    BY DEF Settled
  <2>1. CASE j = k
    BY <1>1, <2>1 DEF Extends, Follows, Fits, TaskIs
  <2>2. CASE j # k
    BY <1>1, <2>2 DEF Settled, TaskIs
  <2> QED
    BY <2>1, <2>2
<1>7. DependenciesFirst'
  <2> SUFFICES ASSUME NEW j \in Tasks,
                      \/ TaskIs(j, {"claimed", "running", "completed"})'
                      \/ team'.tasks[j].attempts # <<>>
               PROVE  Completed(team'.tasks, team'.tasks[j].deps)
    BY DEF DependenciesFirst
  <2>1. CASE j = k
    <3>1. Completed(team.tasks, t.deps)
      BY <1>1, <2>1 DEF Fits, Follows, TaskIs
    <3> QED
      BY <1>1, <1>2, <1>4, <2>1, <3>1 DEF Completed
  <2>2. CASE j # k
    <3>1. Completed(team.tasks, team.tasks[j].deps)
      BY <1>1, <2>2 DEF DependenciesFirst, TaskIs
    <3> QED
      BY <1>1, <1>2, <2>2, <3>1, TaskParts DEF Completed
  <2> QED
    BY <2>1, <2>2
<1>8. ASSUME NEW j \in Tasks
      PROVE  ValidTask(j)'
  <2>1. CASE j = k
    <3>1. ValidTaskState(t)'
      BY <1>2, <1>4, StateKept DEF Fits
    <3> QED
      BY <1>1, <1>3, <1>4, <2>1, <3>1 DEF ValidTask, Fits, Extends, ValidTaskState
  <2>2. CASE j # k
    <3>1. ValidTask(j)
      BY DEF RecordsValid, Active
    <3>2. ValidTaskState(team.tasks[j])'
      BY <1>1, <1>2, <2>2, <3>1, TaskParts, StateKept DEF ValidTask, ValidTaskState, Completed
    <3> QED
      BY <1>1, <1>3, <2>2, <3>1, <3>2 DEF ValidTask, ValidTaskState
  <2> QED
    BY <2>1, <2>2
<1>9. UniqueAttempts'
  <2> SUFFICES ASSUME NEW j1 \in Tasks, NEW j2 \in Tasks,
                      NEW x \in DOMAIN team'.tasks[j1].attempts,
                      NEW y \in DOMAIN team'.tasks[j2].attempts,
                      team'.tasks[j1].attempts[x].id = team'.tasks[j2].attempts[y].id
               PROVE  j1 = j2 /\ x = y
    BY DEF UniqueAttempts
  <2>1. UniqueAttempts
    BY DEF RecordsValid, Active
  <2>2. ASSUME NEW j \in Tasks, NEW i \in DOMAIN team'.tasks[j].attempts
        PROVE  \/ /\ i \in DOMAIN team.tasks[j].attempts
                  /\ team'.tasks[j].attempts[i].id = team.tasks[j].attempts[i].id
               \/ /\ j = k /\ i = Len(team.tasks[k].attempts) + 1
                  /\ ~Started(team'.tasks[j].attempts[i].id)
    BY <1>1, <2>2 DEF Extends
  <2> QED
    BY <2>1, <2>2 DEF UniqueAttempts, Started
<1>10. HeldOnce'
  <2>1. HeldOnce
    BY DEF RecordsValid, Active
  <2>2. CASE t.status \notin {"claimed", "running"}
    <3>1. Held' \subseteq Held /\ k \notin Held'
      BY <1>1, <2>2 DEF Held, TaskIs
    <3>2. \A j \in Held' : team'.tasks[j].claimed = team.tasks[j].claimed
      BY <1>1, <3>1 DEF Held
    <3> QED
      BY <2>1, <3>1, <3>2, HeldShrinks DEF HeldOnce
  <2>3. CASE t.status \in {"claimed", "running"} /\ k \in Held /\ t.claimed = team.tasks[k].claimed
    <3>1. Held' \subseteq Held
      BY <1>1, <2>3 DEF Held, TaskIs
    <3>2. \A j \in Held : team'.tasks[j].claimed = team.tasks[j].claimed
      BY <1>1, <2>3 DEF Held
    <3> QED
      BY <2>1, <3>1, <3>2, HeldShrinks DEF HeldOnce
  <2>4. CASE t.status \in {"claimed", "running"} /\ ~Busy(t.claimed) /\ Cardinality(Held) < MaxActive
    <3>1. Held' \subseteq Held \cup {k}
      BY <1>1, <2>4 DEF Held, TaskIs
    <3>2. \A j \in Held : j # k => team'.tasks[j].claimed # t.claimed /\ team'.tasks[j] = team.tasks[j]
      BY <1>1, <2>4 DEF Busy, Held
    <3> QED
      BY <1>1, <2>1, <2>4, <3>1, <3>2, HeldGrows DEF HeldOnce
  <2> QED
    BY <2>2, <2>3, <2>4 DEF Holds
<1>11. Acyclic'
  <2>1. Acyclic
    BY DEF RecordsValid, Active
  <2> SUFFICES ASSUME NEW S \in SUBSET Tasks, S # {}
               PROVE  \E j \in S : team'.tasks[j].deps \cap S = {}
    BY DEF Acyclic
  <2>2. CASE t.deps = team.tasks[k].deps
    BY <1>1, <2>1, <2>2 DEF Acyclic
  <2>3. CASE k \notin Existing /\ t.deps \subseteq Existing
    <3>1. ASSUME NEW j \in Tasks
          PROVE  k \notin team'.tasks[j].deps
      BY <1>1, <2>3 DEF RecordsValid, Active, ValidTask
    <3>2. CASE S = {k}
      BY <3>1, <3>2
    <3>3. CASE S # {k}
      <4> DEFINE R == S \ {k}
      <4>1. R \in (SUBSET Tasks) \ {{}}
        BY <3>3
      <4>2. PICK j \in R : team.tasks[j].deps \cap R = {}
        BY <2>1, <4>1 DEF Acyclic
      <4> QED
        BY <1>1, <3>1, <4>2
    <3> QED
      BY <3>2, <3>3
  <2> QED
    BY <2>2, <2>3 DEF Follows
<1>12. ValidMailbox' /\ ValidLifecycle' /\ team'.members[Lead] = "active"
  BY <1>1 DEF RecordsValid, Active, ValidMailbox, ValidLifecycle
<1> QED
  BY <1>1, <1>5, <1>6, <1>7, <1>8, <1>9, <1>10, <1>11, <1>12 DEF RecordsValid

-----------------------------------------------------------------------------
(* The actions on tasks.                                                   *)

\* What the invariant says of one task of an active team.
LEMMA TaskFacts ==
    ASSUME IInv, Active, NEW k \in Tasks
    PROVE  LET task == team.tasks[k] IN
           /\ ValidTask(k) /\ ValidTaskState(task)
           /\ task \in Task /\ task.attempts \in Seq(Attempt)
           /\ task.deps \in SUBSET Tasks /\ task.status \in TaskStatuses
           /\ task.assigned \in Members \cup {NoMember}
           /\ task.claimed \in Members \cup {NoMember}
           /\ \A i \in DOMAIN task.attempts :
                 /\ team.members[task.attempts[i].member] # "absent"
                 /\ task.attempts[i].status = "running" =>
                       i = Len(task.attempts) /\ task.status = "running"
           /\ task.status \in {"absent", "pending"} => task.attempts = <<>>
           /\ task.status \in {"claimed", "running", "completed"} \/ task.attempts # <<>>
                 => Completed(team.tasks, task.deps)
BY TaskParts DEF IInv, RecordsValid, Active, ValidTask, Settled, DependenciesFirst, TaskIs

\* A task with k's attempts extends it, if it runs whenever k's task does.
LEMMA SameAttempts ==
    ASSUME IInv, Active, NEW k \in Tasks, NEW t \in Task,
           t.attempts = team.tasks[k].attempts,
           TaskIs(k, {"running"}) => t.status = "running"
    PROVE  Extends(k, t)
BY TaskFacts DEF Extends, ValidTask, TaskIs

\* A task whose running attempt is closed extends it.
LEMMA ClosedAttempts ==
    ASSUME IInv, Active, NEW k \in Tasks, NEW t \in Task,
           TaskIs(k, {"running"}), NEW outcome \in {"completed", "failed", "cancelled"},
           t.attempts = CloseLast(team.tasks[k].attempts, outcome)
    PROVE  Extends(k, t)
<1> DEFINE old == team.tasks[k].attempts
<1>1. old \in Seq(Attempt) /\ old # <<>> /\ Len(old) \in DOMAIN old /\ DOMAIN old = 1 .. Len(old)
  BY TaskFacts DEF ValidTaskState, TaskIs
<1>2. /\ Len(t.attempts) = Len(old) /\ DOMAIN t.attempts = DOMAIN old
      /\ \A i \in DOMAIN old : /\ t.attempts[i].id = old[i].id
                               /\ t.attempts[i].member = old[i].member
                               /\ i # Len(old) => t.attempts[i] = old[i]
      /\ t.attempts[Len(old)].status = outcome
  BY <1>1, ClosedLast DEF AttemptStatuses, Last
<1>3. /\ Len(old) <= AttemptLimit
      /\ \A i \in DOMAIN old : /\ team.members[old[i].member] # "absent"
                               /\ old[i].status = "running" => i = Len(old)
  BY TaskFacts DEF ValidTask
<1>4. ASSUME NEW i \in DOMAIN t.attempts
      PROVE  t.attempts[i].status # "running"
  BY <1>1, <1>2, <1>3
<1> QED
  BY <1>2, <1>3, <1>4 DEF Extends

\* The dependencies that are all completed make a task ready.
LEMMA StatusForIs ==
    ASSUME NEW D
    PROVE  /\ StatusFor(team.tasks, D) \in {"ready", "pending"}
           /\ StatusFor(team.tasks, D) = "ready" <=> Completed(team.tasks, D)
BY DEF StatusFor

LEMMA CreateTaskStep ==
    ASSUME IInv, NEW actor, NEW k \in Tasks, NEW D \in SUBSET Tasks, CreateTask(actor, k, D)
    PROVE  IInv'
<1> DEFINE t == [status |-> StatusFor(team.tasks, D), deps |-> D,
                 assigned |-> NoMember, claimed |-> NoMember, attempts |-> <<>>]
<1>1. /\ t \in Task /\ t.deps = D /\ t.status = StatusFor(team.tasks, D)
      /\ t.assigned = NoMember /\ t.claimed = NoMember /\ t.attempts = <<>>
  <2>1. StatusFor(team.tasks, D) \in TaskStatuses
    BY StatusForIs DEF TaskStatuses
  <2> QED
    BY <2>1 DEF Task
<1>2. Active /\ SetTask(k, t) /\ k \notin Existing /\ D \subseteq Existing
  BY DEF CreateTask
<1> HIDE DEF t
<1>3. Follows(k, t)
  BY <1>1, <1>2, StatusForIs DEF Follows, Existing
<1>4. Fits(k, t) /\ Holds(k, t) /\ Extends(k, t)
  BY <1>1, StatusForIs, TeamAssumption DEF Fits, Holds, Extends, ValidTaskState
<1> QED
  BY <1>1, <1>2, <1>3, <1>4, TaskStep

LEMMA AssignTaskStep ==
    ASSUME IInv, NEW k \in Tasks, NEW m \in Members \cup {NoMember},
           Active, TaskIs(k, {"pending", "ready"}),
           m # NoMember => team.members[m] = "active",
           SetTask(k, [team.tasks[k] EXCEPT !.assigned = m])
    PROVE  IInv'
<1> DEFINE old == team.tasks[k]
           t == [old EXCEPT !.assigned = m]
<1>1. /\ t \in Task /\ t.deps = old.deps /\ t.status = old.status
      /\ t.assigned = m /\ t.claimed = old.claimed /\ t.attempts = old.attempts
  BY TaskFacts DEF Task
<1>2. Follows(k, t)
  BY <1>1 DEF Follows, Existing, TaskIs
<1>3. Fits(k, t) /\ Holds(k, t)
  BY <1>1, TaskFacts DEF Fits, Holds, ValidTask, ValidTaskState, TaskIs
<1>4. Extends(k, t)
  BY <1>1, SameAttempts DEF TaskIs
<1> QED
  BY <1>1, <1>2, <1>3, <1>4, TaskStep

LEMMA ClaimTaskStep ==
    ASSUME IInv, NEW m \in Members, NEW k \in Tasks, ClaimTask(m, k)
    PROVE  IInv'
<1> DEFINE old == team.tasks[k]
           t == [old EXCEPT !.status = "claimed", !.claimed = m]
<1>1. /\ Active /\ TaskIs(k, {"ready"}) /\ team.members[m] = "active"
      /\ ~Busy(m) /\ Cardinality(Held) < MaxActive /\ SetTask(k, t)
  BY DEF ClaimTask, CanClaim, ActiveMember
<1>2. /\ t \in Task /\ t.deps = old.deps /\ t.status = "claimed"
      /\ t.assigned = old.assigned /\ t.claimed = m /\ t.attempts = old.attempts
  <2>1. old \in Task /\ "claimed" \in TaskStatuses
    BY <1>1, TaskFacts DEF TaskStatuses
  <2> QED
    BY <2>1 DEF Task
<1> HIDE DEF t
<1>3. Follows(k, t) /\ Holds(k, t)
  BY <1>1, <1>2 DEF Follows, Existing, TaskIs, Holds
<1>4. Fits(k, t)
  <2>1. old.attempts # <<>> => Last(old.attempts).status # "running"
    <3>1. old.attempts \in Seq(Attempt) /\ old.status # "running"
      BY <1>1, TaskFacts DEF TaskIs
    <3>2. old.attempts # <<>> => Len(old.attempts) \in DOMAIN old.attempts
      BY <3>1
    <3> QED
      BY <1>1, <3>1, <3>2, TaskFacts DEF Last
  <2> QED
    BY <1>1, <1>2, <2>1, TaskFacts, TeamAssumption DEF Fits, ValidTask, ValidTaskState, TaskIs
<1>5. Extends(k, t)
  BY <1>1, <1>2, SameAttempts DEF TaskIs
<1> QED
  BY <1>1, <1>2, <1>3, <1>4, <1>5, TaskStep

LEMMA ReleaseTaskStep ==
    ASSUME IInv, NEW actor, NEW k \in Tasks, ReleaseTask(actor, k)
    PROVE  IInv'
<1> DEFINE old == team.tasks[k]
           t == [old EXCEPT !.status = "ready", !.claimed = NoMember]
<1>1. Active /\ TaskIs(k, {"claimed"}) /\ SetTask(k, t)
  BY DEF ReleaseTask
<1>2. /\ t \in Task /\ t.deps = old.deps /\ t.status = "ready"
      /\ t.assigned = old.assigned /\ t.claimed = NoMember /\ t.attempts = old.attempts
  <2>1. old \in Task /\ "ready" \in TaskStatuses
    BY <1>1, TaskFacts DEF TaskStatuses
  <2> QED
    BY <2>1 DEF Task
<1> HIDE DEF t
<1>3. Follows(k, t) /\ Holds(k, t)
  BY <1>1, <1>2 DEF Follows, Existing, TaskIs, Holds
<1>4. Fits(k, t)
  BY <1>1, <1>2, TaskFacts DEF Fits, ValidTask, ValidTaskState, TaskIs
<1>5. Extends(k, t)
  BY <1>1, <1>2, SameAttempts DEF TaskIs
<1> QED
  BY <1>1, <1>2, <1>3, <1>4, <1>5, TaskStep

\* A failed task has been attempted, so nothing keeps it from being ready.
LEMMA RetryTaskStep ==
    ASSUME IInv, NEW actor, NEW k \in Tasks, RetryTask(actor, k)
    PROVE  IInv' /\ StatusFor(team.tasks, team.tasks[k].deps) = "ready"
<1> DEFINE old == team.tasks[k]
           status == StatusFor(team.tasks, old.deps)
           t == [old EXCEPT !.status = status]
<1>1. Active /\ TaskIs(k, {"failed"}) /\ SetTask(k, t)
  BY DEF RetryTask
<1>2. status = "ready" /\ Completed(team.tasks, old.deps)
  BY <1>1, TaskFacts, StatusForIs DEF ValidTaskState, TaskIs
<1> HIDE DEF status
<1>3. /\ t \in Task /\ t.deps = old.deps /\ t.status = "ready"
      /\ t.assigned = old.assigned /\ t.claimed = NoMember /\ t.attempts = old.attempts
  BY <1>1, <1>2, TaskFacts DEF Task, TaskStatuses, ValidTaskState, TaskIs
<1> HIDE DEF t
<1>4. Follows(k, t) /\ Holds(k, t)
  BY <1>1, <1>3 DEF Follows, Existing, TaskIs, Holds
<1>5. Fits(k, t)
  BY <1>1, <1>2, <1>3, TaskFacts DEF Fits, ValidTask, ValidTaskState, TaskIs
<1>6. Extends(k, t)
  BY <1>1, <1>3, SameAttempts DEF TaskIs
<1> QED
  BY <1>1, <1>2, <1>3, <1>4, <1>5, <1>6, TaskStep DEF status

LEMMA CancelTaskStep ==
    ASSUME IInv, NEW actor, NEW k \in Tasks, CancelTask(actor, k)
    PROVE  IInv'
<1> DEFINE old == team.tasks[k]
           t == Cancelled(old)
<1>1. /\ Active /\ k \in Existing /\ ~TaskIs(k, {"completed", "cancelled"})
      /\ SetTask(k, t)
  BY DEF CancelTask
<1>2. /\ t \in Task /\ t.status = "cancelled" /\ t.claimed = NoMember
      /\ t.deps = old.deps /\ t.assigned = old.assigned
      /\ t.attempts = IF old.status = "running"
                      THEN CloseLast(old.attempts, "cancelled") ELSE old.attempts
  <2>1. old \in Task /\ (old.status = "running" => old.attempts # <<>>)
    BY <1>1, TaskFacts DEF ValidTaskState
  <2> QED
    BY <2>1, CancelledTask
<1> HIDE DEF t
<1>3. Follows(k, t) /\ Holds(k, t)
  BY <1>1, <1>2 DEF Follows, TaskIs, Holds
<1>4. Extends(k, t)
  BY <1>1, <1>2, SameAttempts, ClosedAttempts DEF TaskIs
<1>5. t.attempts # <<>> => Last(t.attempts).status # "running" /\ Completed(team.tasks, t.deps)
  <2>1. CASE old.status = "running"
    <3>1. old.attempts \in Seq(Attempt) /\ old.attempts # <<>> /\ Completed(team.tasks, old.deps)
      BY <1>1, <2>1, TaskFacts DEF ValidTaskState
    <3> QED
      BY <1>2, <2>1, <3>1, ClosedLast DEF AttemptStatuses
  <2>2. CASE old.status # "running"
    <3>1. old.attempts # <<>> => Len(old.attempts) \in DOMAIN old.attempts
      BY <1>1, TaskFacts
    <3> QED
      BY <1>1, <1>2, <2>2, <3>1, TaskFacts DEF Last
  <2> QED
    BY <2>1, <2>2
<1>6. Fits(k, t)
  BY <1>1, <1>2, <1>5, TaskFacts DEF Fits, ValidTask, ValidTaskState
<1> QED
  BY <1>1, <1>2, <1>3, <1>4, <1>6, TaskStep

\* A new attempt comes behind the others.
LEMMA Appended ==
    ASSUME NEW s \in Seq(Attempt), NEW e \in Attempt
    PROVE  LET new == Append(s, e) IN
           /\ new \in Seq(Attempt) /\ Len(new) = Len(s) + 1 /\ Len(s) \in Nat
           /\ new # <<>> /\ Last(new) = e
           /\ DOMAIN s = 1 .. Len(s) /\ DOMAIN new = 1 .. (Len(s) + 1)
           /\ new[Len(s) + 1] = e
           /\ \A i \in DOMAIN s : new[i] = s[i]
<1> DEFINE new == Append(s, e)
<1>1. /\ new \in Seq(Attempt) /\ Len(new) = Len(s) + 1 /\ Len(s) \in Nat
      /\ DOMAIN s = 1 .. Len(s) /\ DOMAIN new = 1 .. (Len(s) + 1)
      /\ new[Len(s) + 1] = e
      /\ \A i \in DOMAIN s : new[i] = s[i]
  OBVIOUS
<1> HIDE DEF new
<1>2. new # <<>> /\ Last(new) = e
  BY <1>1 DEF Last
<1> QED
  BY <1>1, <1>2 DEF new

LEMMA StartTaskAttemptStep ==
    ASSUME IInv, NEW k \in Tasks, NEW a \in AttemptIds, StartTaskAttempt(k, a)
    PROVE  IInv'
<1> DEFINE old == team.tasks[k]
           attempt == [id |-> a, member |-> old.claimed, status |-> "running"]
           attempts == Append(old.attempts, attempt)
           t == [old EXCEPT !.status = "running", !.attempts = attempts]
<1>1. /\ Active /\ TaskIs(k, {"claimed"}) /\ Len(old.attempts) < AttemptLimit
      /\ ~Started(a) /\ SetTask(k, t)
  BY DEF StartTaskAttempt, CanStart
<1>2. /\ old \in Task /\ old.attempts \in Seq(Attempt)
      /\ old.claimed \in Members /\ team.members[old.claimed] = "active"
      /\ Completed(team.tasks, old.deps)
  BY <1>1, TaskFacts DEF ValidTask, ValidTaskState, TaskIs
<1>3. attempt \in Attempt
  BY <1>2 DEF Attempt, AttemptStatuses
<1>4. /\ attempts \in Seq(Attempt) /\ Len(attempts) = Len(old.attempts) + 1
      /\ Len(old.attempts) \in Nat /\ attempts # <<>> /\ Last(attempts) = attempt
      /\ DOMAIN old.attempts = 1 .. Len(old.attempts)
      /\ DOMAIN attempts = 1 .. (Len(old.attempts) + 1)
      /\ attempts[Len(old.attempts) + 1] = attempt
      /\ \A i \in DOMAIN old.attempts : attempts[i] = old.attempts[i]
  BY <1>2, <1>3, Appended
<1> HIDE DEF attempts
<1>5. /\ t \in Task /\ t.deps = old.deps /\ t.status = "running"
      /\ t.assigned = old.assigned /\ t.claimed = old.claimed /\ t.attempts = attempts
  <2>1. "running" \in TaskStatuses
    BY DEF TaskStatuses
  <2> QED
    BY <1>2, <1>4, <2>1 DEF Task
<1> HIDE DEF t
<1>6. Follows(k, t) /\ Holds(k, t)
  BY <1>1, <1>5 DEF Follows, Existing, TaskIs, Holds, Held
<1>7. Fits(k, t)
  <2>1. ValidTaskState(t)
    BY <1>2, <1>4, <1>5, TeamAssumption DEF ValidTaskState
  <2> QED
    BY <1>1, <1>2, <1>4, <1>5, <2>1, TaskFacts DEF Fits, ValidTask
<1>8. Extends(k, t)
  <2>1. \A i \in DOMAIN old.attempts :
           /\ old.attempts[i].status # "running"
           /\ team.members[old.attempts[i].member] # "absent"
    BY <1>1, TaskFacts DEF TaskIs
  <2>2. \A i \in DOMAIN attempts : i \in DOMAIN old.attempts \/ i = Len(old.attempts) + 1
    BY <1>2, <1>4
  <2>3. Len(attempts) <= AttemptLimit
    BY <1>1, <1>2, <1>4, TeamAssumption
  <2>4. ASSUME NEW i \in DOMAIN attempts
        PROVE  /\ team.members[attempts[i].member] # "absent"
               /\ \/ i \in DOMAIN old.attempts /\ attempts[i].id = old.attempts[i].id
                  \/ i = Len(old.attempts) + 1 /\ ~Started(attempts[i].id)
               /\ attempts[i].status = "running" => i = Len(attempts)
    <3>1. CASE i \in DOMAIN old.attempts
      BY <1>4, <2>1, <3>1
    <3>2. CASE i = Len(old.attempts) + 1
      BY <1>1, <1>2, <1>4, <3>2
    <3> QED
      BY <2>2, <3>1, <3>2
  <2> QED
    BY <1>5, <2>3, <2>4 DEF Extends
<1> QED
  BY <1>1, <1>5, <1>6, <1>7, <1>8, TaskStep

\* What CanFinish knows of the task.
LEMMA FinishFacts ==
    ASSUME IInv, NEW actor, NEW k \in Tasks, NEW a, CanFinish(actor, k, a),
           NEW outcome \in {"completed", "failed"}
    PROVE  LET old == team.tasks[k]
               t == Finished(old, outcome)
           IN /\ Active /\ TaskIs(k, {"running"}) /\ Last(old.attempts).status = "running"
              /\ old.attempts \in Seq(Attempt) /\ old.attempts # <<>>
              /\ t \in Task /\ t.status = outcome /\ t.claimed = NoMember
              /\ t.deps = old.deps /\ t.assigned = old.assigned
              /\ t.attempts = CloseLast(old.attempts, outcome)
              /\ t.attempts # <<>> /\ Last(t.attempts).status = outcome
              /\ Completed(team.tasks, t.deps)
<1> DEFINE old == team.tasks[k]
<1>1. /\ Active /\ TaskIs(k, {"running"})
      /\ old.attempts # <<>> /\ Last(old.attempts).status = "running"
  BY DEF CanFinish, Running
<1>2. old \in Task /\ old.attempts \in Seq(Attempt) /\ Completed(team.tasks, old.deps)
  BY <1>1, TaskFacts DEF TaskIs
<1> QED
  BY <1>1, <1>2, FinishedTask, ClosedLast DEF AttemptStatuses

LEMMA FailedAttemptStep ==
    ASSUME IInv, NEW actor, NEW k \in Tasks, NEW a,
           FinishTaskAttempt(actor, k, a, "failed")
    PROVE  IInv' /\ SetTask(k, Finished(team.tasks[k], "failed"))
<1> DEFINE old == team.tasks[k]
           t == Finished(old, "failed")
<1>1. CanFinish(actor, k, a) /\ SetTask(k, t)
  BY DEF FinishTaskAttempt, SetTask
<1>2. /\ Active /\ TaskIs(k, {"running"}) /\ t \in Task /\ t.status = "failed"
      /\ t.claimed = NoMember /\ t.deps = old.deps /\ t.assigned = old.assigned
      /\ t.attempts = CloseLast(old.attempts, "failed")
      /\ t.attempts # <<>> /\ Last(t.attempts).status = "failed"
      /\ Completed(team.tasks, t.deps)
  BY <1>1, FinishFacts
<1> HIDE DEF t
<1>3. Follows(k, t) /\ Holds(k, t)
  BY <1>1, <1>2 DEF Follows, Existing, TaskIs, Holds
<1>4. Extends(k, t)
  BY <1>2, ClosedAttempts
<1>5. Fits(k, t)
  BY <1>2, TaskFacts DEF Fits, ValidTask, ValidTaskState
<1> QED
  BY <1>1, <1>2, <1>3, <1>4, <1>5, TaskStep DEF t

-----------------------------------------------------------------------------
(* The steps that change several tasks.                                    *)

\* Ending tasks keeps what only new ones and new claims could disturb.
LEMMA TasksEnd ==
    ASSUME IInv, Active, TypeOK', team'.status # "absent", team'.members = team.members,
           team'.mail = team.mail, team'.delivered = team.delivered,
           team'.acknowledged = team.acknowledged,
           \A j \in Tasks :
              LET old == team.tasks[j]
                  new == team'.tasks[j]
              IN /\ new.deps = old.deps
                 /\ new.status = "absent" <=> old.status = "absent"
                 /\ DOMAIN new.attempts = DOMAIN old.attempts
                 /\ \A i \in DOMAIN old.attempts : new.attempts[i].id = old.attempts[i].id
                 /\ new.status \in {"claimed", "running"} => new = old
    PROVE  /\ NothingYet' /\ Existing' = Existing /\ Held' \subseteq Held
           /\ UniqueAttempts' /\ HeldOnce' /\ Acyclic' /\ ValidMailbox'
           /\ team'.members[Lead] = "active"
<1>1. NothingYet' /\ ValidMailbox' /\ team'.members[Lead] = "active"
  BY DEF NothingYet, IInv, RecordsValid, Active, ValidMailbox
<1>2. Existing' = Existing /\ Held' \subseteq Held
  BY DEF Existing, Held, TaskIs
<1>3. UniqueAttempts'
  <2>1. UniqueAttempts
    BY DEF IInv, RecordsValid, Active
  <2> QED
    BY <2>1 DEF UniqueAttempts
<1>4. HeldOnce'
  <2>1. HeldOnce
    BY DEF IInv, RecordsValid, Active
  <2>2. \A j \in Held' : team'.tasks[j].claimed = team.tasks[j].claimed
    BY DEF Held, TaskIs
  <2> QED
    BY <1>2, <2>1, <2>2, HeldShrinks DEF HeldOnce
<1>5. Acyclic'
  BY DEF IInv, RecordsValid, Active, Acyclic
<1> QED
  BY <1>1, <1>2, <1>3, <1>4, <1>5

\* Completing an attempt completes its task and promotes what waited for it.
LEMMA CompletedAttemptTasks ==
    ASSUME IInv, NEW actor, NEW k \in Tasks, NEW a,
           FinishTaskAttempt(actor, k, a, "completed")
    PROVE  LET Freed(j) == /\ TaskIs(j, {"pending"})
                           /\ \A d \in team.tasks[j].deps : d = k \/ TaskIs(d, {"completed"})
           IN /\ TypeOK' /\ Active' /\ team'.members = team.members
              /\ team'.mail = team.mail /\ team'.delivered = team.delivered
              /\ team'.acknowledged = team.acknowledged
              /\ team'.tasks[k] = Finished(team.tasks[k], "completed")
              /\ \A j \in Tasks : j # k =>
                    IF Freed(j)
                    THEN /\ team'.tasks[j].status = "ready"
                         /\ team'.tasks[j].deps = team.tasks[j].deps
                         /\ team'.tasks[j].assigned = team.tasks[j].assigned
                         /\ team'.tasks[j].claimed = team.tasks[j].claimed
                         /\ team'.tasks[j].attempts = team.tasks[j].attempts
                    ELSE team'.tasks[j] = team.tasks[j]
<1> DEFINE new == Finished(team.tasks[k], "completed")
           T == [team.tasks EXCEPT ![k] = new]
           P == Promoted(T)
           Freed(j) == /\ TaskIs(j, {"pending"})
                       /\ \A d \in team.tasks[j].deps : d = k \/ TaskIs(d, {"completed"})
<1>1. CanFinish(actor, k, a) /\ team' = [team EXCEPT !.tasks = P]
  BY DEF FinishTaskAttempt
<1>2. Active /\ new \in Task /\ new.status = "completed"
  BY <1>1, FinishFacts
<1> HIDE DEF new
<1>3. team.tasks \in [Tasks -> Task] /\ team \in TeamType
  BY DEF IInv, TypeOK, TeamType
<1>4. T \in [Tasks -> Task] /\ T[k] = new /\ \A j \in Tasks : j # k => T[j] = team.tasks[j]
  BY <1>2, <1>3
<1> HIDE DEF T
<1>5. \A j \in Tasks : P[j] = IF T[j].status = "pending" /\ Completed(T, T[j].deps)
                              THEN [T[j] EXCEPT !.status = "ready"] ELSE T[j]
  BY DEF Promoted
<1>6. P[k] = new
  BY <1>2, <1>4, <1>5
<1>7. ASSUME NEW j \in Tasks, j # k
      PROVE  /\ P[j] \in Task
             /\ IF Freed(j)
                THEN /\ P[j].status = "ready"
                     /\ P[j].deps = team.tasks[j].deps
                     /\ P[j].assigned = team.tasks[j].assigned
                     /\ P[j].claimed = team.tasks[j].claimed
                     /\ P[j].attempts = team.tasks[j].attempts
                ELSE P[j] = team.tasks[j]
  <2>1. T[j] = team.tasks[j] /\ T[j] \in Task /\ T[j].deps \in SUBSET Tasks
    BY <1>4, <1>7 DEF Task
  <2>2. Completed(T, T[j].deps) <=>
           \A d \in team.tasks[j].deps : d = k \/ TaskIs(d, {"completed"})
    BY <1>2, <1>4, <2>1 DEF Completed, TaskIs
  <2>3. [T[j] EXCEPT !.status = "ready"] \in Task
    BY <2>1 DEF Task, TaskStatuses
  <2> QED
    BY <1>5, <1>7, <2>1, <2>2, <2>3 DEF TaskIs, Task
<1>8. P \in [Tasks -> Task]
  <2>1. P = [j \in Tasks |-> P[j]]
    BY DEF Promoted
  <2> QED
    BY <1>2, <1>6, <1>7, <2>1
<1> HIDE DEF P
<1>9. /\ TypeOK' /\ team'.status = team.status /\ team'.members = team.members
      /\ team'.mail = team.mail /\ team'.delivered = team.delivered
      /\ team'.acknowledged = team.acknowledged /\ team'.tasks = P
  BY <1>1, <1>3, <1>8 DEF TypeOK, TeamType
<1> QED
  BY <1>2, <1>6, <1>7, <1>9 DEF Active, new

LEMMA CompletedAttemptStep ==
    ASSUME IInv, NEW actor, NEW k \in Tasks, NEW a,
           FinishTaskAttempt(actor, k, a, "completed")
    PROVE  IInv'
<1> DEFINE new == Finished(team.tasks[k], "completed")
           Freed(j) == /\ TaskIs(j, {"pending"})
                       /\ \A d \in team.tasks[j].deps : d = k \/ TaskIs(d, {"completed"})
<1>1. CanFinish(actor, k, a)
  BY DEF FinishTaskAttempt
<1>2. /\ Active /\ TaskIs(k, {"running"})
      /\ team.tasks[k].attempts \in Seq(Attempt) /\ team.tasks[k].attempts # <<>>
      /\ new \in Task /\ new.status = "completed" /\ new.claimed = NoMember
      /\ new.deps = team.tasks[k].deps /\ new.assigned = team.tasks[k].assigned
      /\ new.attempts = CloseLast(team.tasks[k].attempts, "completed")
      /\ new.attempts # <<>> /\ Last(new.attempts).status = "completed"
      /\ Completed(team.tasks, new.deps)
  BY <1>1, FinishFacts
<1>3. /\ TypeOK' /\ Active' /\ team'.members = team.members
      /\ team'.mail = team.mail /\ team'.delivered = team.delivered
      /\ team'.acknowledged = team.acknowledged
      /\ team'.tasks[k] = new
      /\ \A j \in Tasks : j # k =>
            IF Freed(j)
            THEN /\ team'.tasks[j].status = "ready"
                 /\ team'.tasks[j].deps = team.tasks[j].deps
                 /\ team'.tasks[j].assigned = team.tasks[j].assigned
                 /\ team'.tasks[j].claimed = team.tasks[j].claimed
                 /\ team'.tasks[j].attempts = team.tasks[j].attempts
            ELSE team'.tasks[j] = team.tasks[j]
  BY CompletedAttemptTasks
<1>4. /\ Len(new.attempts) = Len(team.tasks[k].attempts)
      /\ DOMAIN new.attempts = DOMAIN team.tasks[k].attempts
      /\ \A i \in DOMAIN new.attempts :
            /\ new.attempts[i].id = team.tasks[k].attempts[i].id
            /\ new.attempts[i].member = team.tasks[k].attempts[i].member
            /\ i # Len(new.attempts) => new.attempts[i] = team.tasks[k].attempts[i]
      /\ new.attempts[Len(new.attempts)].status = "completed"
  BY <1>2, ClosedLast DEF AttemptStatuses, Last
<1> HIDE DEF new
<1>5. \A j \in Tasks : /\ team'.tasks[j].deps = team.tasks[j].deps
                       /\ j # k => team'.tasks[j].attempts = team.tasks[j].attempts
                       /\ team'.tasks[j].status = "completed" <=>
                             j = k \/ team.tasks[j].status = "completed"
  BY <1>2, <1>3 DEF TaskIs
<1>6. \A D \in SUBSET Tasks :
         /\ Completed(team.tasks, D) => Completed(team'.tasks, D)
         /\ Completed(team'.tasks, D) <=> \A d \in D : d = k \/ TaskIs(d, {"completed"})
  BY <1>5 DEF Completed, TaskIs
<1>7. /\ NothingYet' /\ Existing' = Existing
      /\ UniqueAttempts' /\ HeldOnce' /\ Acyclic' /\ ValidMailbox'
      /\ team'.members[Lead] = "active"
  <2>1. \A j \in Tasks :
           LET old == team.tasks[j]
               now == team'.tasks[j]
           IN /\ now.deps = old.deps
              /\ now.status = "absent" <=> old.status = "absent"
              /\ DOMAIN now.attempts = DOMAIN old.attempts
              /\ \A i \in DOMAIN old.attempts : now.attempts[i].id = old.attempts[i].id
              /\ now.status \in {"claimed", "running"} => now = old
    BY <1>2, <1>3, <1>4, <1>5 DEF TaskIs
  <2> QED
    BY <1>2, <1>3, <2>1, TasksEnd DEF Active
<1>8. Settled'
  <2> SUFFICES ASSUME NEW j \in Tasks
               PROVE  /\ \A i \in DOMAIN team'.tasks[j].attempts :
                            team'.tasks[j].attempts[i].status = "running" =>
                               i = Len(team'.tasks[j].attempts) /\ TaskIs(j, {"running"})'
                      /\ TaskIs(j, {"absent", "pending"})' => team'.tasks[j].attempts = <<>>
    BY DEF Settled
  <2>1. CASE j = k
    BY <1>2, <1>3, <1>4, <2>1, TaskFacts DEF TaskIs
  <2>2. CASE j # k
    BY <1>2, <1>3, <2>2, TaskFacts DEF TaskIs
  <2> QED
    BY <2>1, <2>2
<1>9. DependenciesFirst'
  <2> SUFFICES ASSUME NEW j \in Tasks,
                      \/ TaskIs(j, {"claimed", "running", "completed"})'
                      \/ team'.tasks[j].attempts # <<>>
               PROVE  Completed(team'.tasks, team'.tasks[j].deps)
    BY DEF DependenciesFirst
  <2>1. team.tasks[j].deps \in SUBSET Tasks
    BY <1>2, TaskFacts
  <2>2. Completed(team.tasks, team.tasks[j].deps)
    BY <1>2, <1>3, TaskFacts DEF TaskIs
  <2> QED
    BY <1>5, <1>6, <2>1, <2>2
<1>10. ASSUME NEW j \in Tasks
       PROVE  ValidTask(j)'
  <2>1. /\ ValidTask(j) /\ ValidTaskState(team.tasks[j])
        /\ team.tasks[j].deps \in SUBSET Tasks /\ team.tasks[j].status \in TaskStatuses
    BY <1>2, TaskFacts
  <2>2. CASE j = k
    <3>1. ValidTaskState(team.tasks[k])'
      BY <1>2, <1>3, <1>6, <2>1, <2>2, TeamAssumption DEF ValidTaskState
    <3>2. /\ team'.tasks[k].claimed = NoMember
          /\ team'.tasks[k].deps = team.tasks[k].deps
          /\ team'.tasks[k].assigned = team.tasks[k].assigned
          /\ team'.tasks[k].attempts = new.attempts
      BY <1>2, <1>3
    <3> QED
      BY <1>3, <1>4, <1>7, <2>1, <2>2, <3>1, <3>2 DEF ValidTask
  <2>3. CASE j # k /\ Freed(j)
    <3>1. Completed(team'.tasks, team.tasks[j].deps)
      BY <1>6, <2>1, <2>3
    <3>2. team.tasks[j].attempts = <<>> /\ team.tasks[j].claimed = NoMember
      BY <1>2, <2>1, <2>3, TaskFacts DEF ValidTaskState, TaskIs
    <3>3. ValidTaskState(team.tasks[j])'
      BY <1>3, <2>3, <3>1, <3>2 DEF ValidTaskState
    <3> QED
      BY <1>3, <1>7, <2>1, <2>3, <3>2, <3>3 DEF ValidTask, ValidTaskState
  <2>4. CASE j # k /\ ~Freed(j)
    <3>1. team'.tasks[j] = team.tasks[j]
      BY <1>3, <2>4
    <3>2. /\ team.tasks[j].status = "pending" => ~Completed(team'.tasks, team.tasks[j].deps)
          /\ Completed(team.tasks, team.tasks[j].deps) => Completed(team'.tasks, team.tasks[j].deps)
      BY <1>6, <2>1, <2>4 DEF TaskIs
    <3>3. ValidTaskState(team.tasks[j])'
      BY <2>1, <3>1, <3>2 DEF ValidTaskState
    <3> QED
      BY <1>3, <1>7, <2>1, <3>1, <3>3 DEF ValidTask, ValidTaskState
  <2> QED
    BY <2>2, <2>3, <2>4
<1>11. ValidLifecycle'
  BY <1>3 DEF ValidLifecycle, Active
<1> QED
  BY <1>3, <1>7, <1>8, <1>9, <1>10, <1>11 DEF IInv, RecordsValid

\* Ending the team cancels the tasks that have not ended.
LEMMA TerminalTasks ==
    ASSUME IInv, NEW actor, NEW status \in {"failed", "cancelled"},
           TerminalizeTeam(actor, status)
    PROVE  /\ TypeOK' /\ Active /\ team'.status = status /\ team'.members = team.members
           /\ team'.mail = team.mail /\ team'.delivered = team.delivered
           /\ team'.acknowledged = team.acknowledged
           /\ \A k \in Tasks :
                 team'.tasks[k] = IF TaskIs(k, {"absent", "completed", "cancelled", "failed"})
                                  THEN team.tasks[k] ELSE Cancelled(team.tasks[k])
<1> DEFINE T == [k \in Tasks |->
                   IF TaskIs(k, {"absent", "completed", "cancelled", "failed"})
                   THEN team.tasks[k] ELSE Cancelled(team.tasks[k])]
<1>1. Active /\ team' = [team EXCEPT !.status = status, !.tasks = T]
  BY DEF TerminalizeTeam
<1>2. T \in [Tasks -> Task]
  <2>1. ASSUME NEW k \in Tasks
        PROVE  T[k] \in Task
    <3>1. team.tasks[k] \in Task /\ Cancelled(team.tasks[k]) \in Task
      BY <1>1, TaskFacts, CancelledTask DEF ValidTaskState
    <3> QED
      BY <3>1
  <2> QED
    BY <2>1
<1>3. \A k \in Tasks :
         T[k] = IF TaskIs(k, {"absent", "completed", "cancelled", "failed"})
                THEN team.tasks[k] ELSE Cancelled(team.tasks[k])
  OBVIOUS
<1> HIDE DEF T
<1>4. /\ TypeOK' /\ team'.status = status /\ team'.members = team.members
      /\ team'.mail = team.mail /\ team'.delivered = team.delivered
      /\ team'.acknowledged = team.acknowledged /\ team'.tasks = T
  BY <1>1, <1>2 DEF IInv, TypeOK, TeamType, TeamStatuses
<1> QED
  BY <1>1, <1>3, <1>4

LEMMA TerminalizeTeamStep ==
    ASSUME IInv, NEW actor, NEW status \in {"failed", "cancelled"},
           TerminalizeTeam(actor, status)
    PROVE  IInv'
<1>1. /\ TypeOK' /\ Active /\ team'.status = status /\ team'.members = team.members
      /\ team'.mail = team.mail /\ team'.delivered = team.delivered
      /\ team'.acknowledged = team.acknowledged
  BY TerminalTasks
<1>2. ASSUME NEW k \in Tasks
      PROVE  \/ /\ team'.tasks[k] = team.tasks[k]
                /\ TaskIs(k, {"absent", "completed", "cancelled", "failed"})
             \/ LET old == team.tasks[k]
                    new == team'.tasks[k]
                IN /\ old.status \in {"pending", "ready", "claimed", "running"}
                   /\ new.status = "cancelled" /\ new.claimed = NoMember
                   /\ new.deps = old.deps /\ new.assigned = old.assigned
                   /\ Len(new.attempts) = Len(old.attempts)
                   /\ DOMAIN new.attempts = DOMAIN old.attempts
                   /\ new.attempts # <<>> => Last(new.attempts).status # "running"
                   /\ new.attempts = <<>> <=> old.attempts = <<>>
                   /\ \A i \in DOMAIN old.attempts :
                         /\ new.attempts[i].id = old.attempts[i].id
                         /\ new.attempts[i].member = old.attempts[i].member
                         /\ new.attempts[i].status # "running"
  <2> DEFINE old == team.tasks[k]
             new == team'.tasks[k]
  <2>1. /\ old \in Task /\ old.attempts \in Seq(Attempt) /\ ValidTaskState(old)
        /\ old.status \in TaskStatuses /\ DOMAIN old.attempts = 1 .. Len(old.attempts)
    BY <1>1, TaskFacts
  <2>2. CASE TaskIs(k, {"absent", "completed", "cancelled", "failed"})
    BY <2>2, TerminalTasks
  <2>3. CASE ~TaskIs(k, {"absent", "completed", "cancelled", "failed"})
    <3>1. new = Cancelled(old) /\ old.status \in {"pending", "ready", "claimed", "running"}
      BY <2>1, <2>3, TerminalTasks DEF TaskIs, TaskStatuses
    <3>2. /\ new.status = "cancelled" /\ new.claimed = NoMember
          /\ new.deps = old.deps /\ new.assigned = old.assigned
          /\ new.attempts = IF old.status = "running"
                            THEN CloseLast(old.attempts, "cancelled") ELSE old.attempts
      BY <2>1, <3>1, CancelledTask DEF ValidTaskState
    <3>3. CASE old.status = "running"
      <4>1. old.attempts # <<>>
        BY <2>1, <3>3 DEF ValidTaskState
      <4>2. /\ Len(new.attempts) = Len(old.attempts)
            /\ DOMAIN new.attempts = DOMAIN old.attempts /\ new.attempts # <<>>
            /\ Last(new.attempts).status = "cancelled"
            /\ \A i \in DOMAIN old.attempts :
                  /\ new.attempts[i].id = old.attempts[i].id
                  /\ new.attempts[i].member = old.attempts[i].member
                  /\ i # Len(old.attempts) => new.attempts[i] = old.attempts[i]
        BY <2>1, <3>2, <3>3, <4>1, ClosedLast DEF AttemptStatuses
      <4> QED
        BY <1>1, <3>1, <3>2, <4>1, <4>2, TaskFacts DEF Last
    <3>4. CASE old.status # "running"
      <4>1. \A i \in DOMAIN old.attempts : old.attempts[i].status # "running"
        BY <1>1, <3>4, TaskFacts
      <4>2. old.attempts # <<>> => Len(old.attempts) \in DOMAIN old.attempts
        BY <2>1
      <4> QED
        BY <3>1, <3>2, <3>4, <4>1, <4>2 DEF Last
    <3> QED
      BY <3>3, <3>4
  <2> QED
    BY <2>2, <2>3
<1>3. \A k \in Tasks : /\ team'.tasks[k].deps = team.tasks[k].deps
                       /\ team'.tasks[k].status = "completed" <=> team.tasks[k].status = "completed"
  BY <1>2
<1>4. \A k \in Tasks : Completed(team'.tasks, team.tasks[k].deps) <=>
                       Completed(team.tasks, team.tasks[k].deps)
  BY <1>1, <1>3, TaskFacts DEF Completed
<1>5. /\ NothingYet' /\ Existing' = Existing
      /\ UniqueAttempts' /\ HeldOnce' /\ Acyclic' /\ ValidMailbox'
      /\ team'.members[Lead] = "active"
  <2>1. \A j \in Tasks :
           LET old == team.tasks[j]
               new == team'.tasks[j]
           IN /\ new.deps = old.deps
              /\ new.status = "absent" <=> old.status = "absent"
              /\ DOMAIN new.attempts = DOMAIN old.attempts
              /\ \A i \in DOMAIN old.attempts : new.attempts[i].id = old.attempts[i].id
              /\ new.status \in {"claimed", "running"} => new = old
    BY <1>2, <1>3
  <2> QED
    BY <1>1, <2>1, TasksEnd
<1>6. Settled'
  <2> SUFFICES ASSUME NEW j \in Tasks
               PROVE  /\ \A i \in DOMAIN team'.tasks[j].attempts :
                            team'.tasks[j].attempts[i].status = "running" =>
                               i = Len(team'.tasks[j].attempts) /\ TaskIs(j, {"running"})'
                      /\ TaskIs(j, {"absent", "pending"})' => team'.tasks[j].attempts = <<>>
    BY DEF Settled
  <2> QED
    BY <1>1, <1>2, TaskFacts DEF TaskIs
<1>7. DependenciesFirst'
  <2> SUFFICES ASSUME NEW j \in Tasks,
                      \/ TaskIs(j, {"claimed", "running", "completed"})'
                      \/ team'.tasks[j].attempts # <<>>
               PROVE  Completed(team'.tasks, team'.tasks[j].deps)
    BY DEF DependenciesFirst
  <2>1. Completed(team.tasks, team.tasks[j].deps)
    BY <1>1, <1>2, TaskFacts DEF TaskIs
  <2> QED
    BY <1>3, <1>4, <2>1
<1>8. ASSUME NEW j \in Tasks
      PROVE  ValidTask(j)'
  <2>1. ValidTask(j) /\ ValidTaskState(team.tasks[j])
    BY <1>1, TaskFacts
  <2>2. ValidTaskState(team.tasks[j])'
    BY <1>2, <1>4, <2>1 DEF ValidTaskState, TaskIs
  <2> QED
    BY <1>1, <1>2, <1>5, <2>1, <2>2 DEF ValidTask, ValidTaskState, TaskIs
<1>9. ValidLifecycle'
  BY <1>1, <1>2 DEF ValidLifecycle, TaskIs, Existing
<1> QED
  BY <1>1, <1>5, <1>6, <1>7, <1>8, <1>9 DEF IInv, RecordsValid

-----------------------------------------------------------------------------
(* The steps that change no task.                                          *)

\* A step that keeps the tasks keeps what is said of them.
LEMMA TasksKept ==
    ASSUME IInv, team'.tasks = team.tasks
    PROVE  /\ Settled' /\ DependenciesFirst'
           /\ UniqueAttempts' <=> UniqueAttempts
           /\ Acyclic' <=> Acyclic
           /\ HeldOnce' <=> HeldOnce
           /\ Existing' = Existing /\ Held' = Held
           /\ \A k \in Tasks : ValidTaskState(team.tasks[k])' <=> ValidTaskState(team.tasks[k])
<1>1. Existing' = Existing /\ Held' = Held
  BY DEF Existing, Held, TaskIs
<1>2. Settled' /\ DependenciesFirst'
  BY DEF IInv, Settled, DependenciesFirst, TaskIs
<1>3. (UniqueAttempts' <=> UniqueAttempts) /\ (Acyclic' <=> Acyclic)
  BY DEF UniqueAttempts, Acyclic
<1>4. HeldOnce' <=> HeldOnce
  BY <1>1 DEF HeldOnce
<1>5. \A k \in Tasks : ValidTaskState(team.tasks[k])' <=> ValidTaskState(team.tasks[k])
  BY DEF ValidTaskState
<1> QED
  BY <1>1, <1>2, <1>3, <1>4, <1>5

\* A status, and members, that a valid team may take while its tasks stay.
LEMMA TasksStay ==
    ASSUME IInv, Active, TypeOK', team'.tasks = team.tasks,
           team'.status # "absent", ValidMailbox', ValidLifecycle',
           team'.members[Lead] = "active",
           \A m \in Members :
              /\ team.members[m] # "absent" => team'.members[m] # "absent"
              /\ team.members[m] = "active" /\ team'.members[m] # "active" => ~Busy(m)
    PROVE  IInv'
<1>1. ASSUME NEW k \in Tasks
      PROVE  ValidTask(k)'
  <2>1. /\ ValidTask(k) /\ ValidTaskState(team.tasks[k])
        /\ team.tasks[k] \in Task /\ team.tasks[k].attempts \in Seq(Attempt)
        /\ team.tasks[k].assigned \in Members \cup {NoMember}
        /\ team.tasks[k].claimed \in Members \cup {NoMember}
    BY TaskFacts
  <2>2. ValidTaskState(team.tasks[k])'
    BY <2>1, TasksKept
  <2>3. team.tasks[k].claimed # NoMember => Busy(team.tasks[k].claimed)
    BY <2>1 DEF ValidTaskState, Busy, Held, TaskIs
  <2>4. ASSUME NEW i \in DOMAIN team.tasks[k].attempts
        PROVE  team.tasks[k].attempts[i].member \in Members
    <3>1. team.tasks[k].attempts[i] \in Attempt
      BY <2>1
    <3> QED
      BY <3>1 DEF Attempt
  <2> QED
    BY <2>1, <2>2, <2>3, <2>4, TasksKept DEF ValidTask, ValidTaskState
<1>2. UniqueAttempts' /\ Acyclic' /\ HeldOnce' /\ Settled' /\ DependenciesFirst'
  BY TasksKept DEF IInv, RecordsValid, Active
<1>3. NothingYet'
  BY DEF NothingYet
<1> QED
  BY <1>1, <1>2, <1>3 DEF IInv, RecordsValid

LEMMA CompleteTeamStep ==
    ASSUME IInv, NEW actor, CompleteTeam(actor)
    PROVE  /\ IInv' /\ team'.status = "completed" /\ team'.tasks = team.tasks
           /\ \A k \in Existing : TaskIs(k, {"completed", "cancelled"})
<1>1. /\ Active /\ team' = [team EXCEPT !.status = "completed"]
      /\ \A k \in Existing : TaskIs(k, {"completed", "cancelled"})
  BY DEF CompleteTeam
<1>2. /\ TypeOK' /\ team'.status = "completed" /\ team'.tasks = team.tasks
      /\ team'.members = team.members /\ team'.mail = team.mail
      /\ team'.delivered = team.delivered /\ team'.acknowledged = team.acknowledged
  BY <1>1 DEF IInv, TypeOK, TeamType, TeamStatuses
<1>3. ValidMailbox' /\ team'.members[Lead] = "active"
  BY <1>1, <1>2 DEF IInv, RecordsValid, Active, ValidMailbox
<1>4. ValidLifecycle'
  BY <1>1, <1>2 DEF ValidLifecycle, Existing, TaskIs
<1> QED
  BY <1>1, <1>2, <1>3, <1>4, TasksStay

LEMMA MemberStep ==
    ASSUME IInv, NEW m \in Members,
           RegisterMember(m) \/ DisableMember(m) \/ EnableMember(m)
    PROVE  IInv' /\ Active' /\ team'.tasks = team.tasks
<1>1. PICK s \in {"active", "disabled"} :
         /\ Active /\ SetMember(m, s)
         /\ s = "disabled" => m # Lead /\ ~Busy(m)
  BY DEF RegisterMember, DisableMember, EnableMember
<1>2. /\ TypeOK' /\ team'.status = team.status /\ team'.tasks = team.tasks
      /\ team'.mail = team.mail /\ team'.delivered = team.delivered
      /\ team'.acknowledged = team.acknowledged
      /\ team'.members[m] = s
      /\ \A n \in Members : n # m => team'.members[n] = team.members[n]
  BY <1>1, MemberSet DEF IInv, MemberStatuses
<1>3. ValidMailbox' /\ ValidLifecycle' /\ team'.members[Lead] = "active"
  BY <1>1, <1>2, TeamAssumption
     DEF IInv, RecordsValid, Active, ValidMailbox, ValidLifecycle, Existing, TaskIs
<1> QED
  BY <1>1, <1>2, <1>3, TasksStay DEF Active

LEMMA CreateStep ==
    ASSUME IInv, Create
    PROVE  IInv' /\ Active' /\ team'.tasks = team.tasks
<1> DEFINE M == [team.members EXCEPT ![Lead] = "active"]
<1>1. /\ M \in [Members -> MemberStatuses] /\ M[Lead] = "active"
  BY TeamAssumption DEF IInv, TypeOK, TeamType, MemberStatuses
<1> HIDE DEF M
<1>2. team.status = "absent" /\ team' = [team EXCEPT !.status = "active", !.members = M]
  BY DEF Create, M
<1>3. /\ TypeOK' /\ team'.status = "active" /\ team'.tasks = team.tasks
      /\ team'.members = M /\ team'.mail = team.mail
      /\ team'.delivered = team.delivered /\ team'.acknowledged = team.acknowledged
  BY <1>1, <1>2 DEF IInv, TypeOK, TeamType, TeamStatuses
<1>4. /\ \A k \in Tasks : team.tasks[k] = NoTask
      /\ \A m \in Members : team.delivered[m] = 0 /\ team.acknowledged[m] = 0
      /\ team.mail = <<>>
  BY <1>2 DEF IInv, NothingYet
<1>5. /\ NoTask.status = "absent" /\ NoTask.deps = {} /\ NoTask.assigned = NoMember
      /\ NoTask.claimed = NoMember /\ NoTask.attempts = <<>>
  BY DEF NoTask
<1>6. \A k \in Tasks : ValidTask(k)'
  BY <1>3, <1>4, <1>5, TeamAssumption DEF ValidTask, ValidTaskState
<1>7. UniqueAttempts' /\ Acyclic'
  BY <1>3, <1>4, <1>5 DEF UniqueAttempts, Acyclic
<1>8. HeldOnce'
  <2>1. Held' = {}
    BY <1>3, <1>4, <1>5 DEF Held, TaskIs
  <2> QED
    BY <2>1, FS_EmptySet, TeamAssumption DEF HeldOnce
<1>9. ValidMailbox' /\ ValidLifecycle'
  BY <1>3, <1>4, TeamAssumption DEF ValidMailbox, ValidLifecycle
<1>10. Settled' /\ DependenciesFirst'
  BY <1>3, TasksKept
<1> QED
  BY <1>1, <1>3, <1>6, <1>7, <1>8, <1>9, <1>10 DEF IInv, RecordsValid, NothingYet, Active

LEMMA SendMessageStep ==
    ASSUME IInv, NEW sender, NEW to \in Members, NEW id \in AttemptIds \cup {NoAttempt},
           SendMessage(sender, to, id)
    PROVE  IInv' /\ Active' /\ team'.tasks = team.tasks
<1> DEFINE message == [to |-> to, id |-> id]
           mail == Append(team.mail, message)
           D == [team.delivered EXCEPT ![to] = Len(team.mail) + 1]
<1>1. /\ Active /\ Len(team.mail) < MaxMessages
      /\ team' = [team EXCEPT !.mail = mail, !.delivered = D]
  BY DEF SendMessage, CanSend
<1>2. /\ team.mail \in Seq(Message) /\ team.delivered \in [Members -> Nat]
      /\ team.acknowledged \in [Members -> Nat] /\ Len(team.mail) \in Nat
  BY DEF IInv, TypeOK, TeamType
<1>3. mail \in Seq(Message) /\ Len(mail) = Len(team.mail) + 1
  <2>1. message \in Message
    BY DEF Message
  <2> QED
    BY <1>2, <2>1
<1>4. /\ D \in [Members -> Nat] /\ D[to] = Len(team.mail) + 1
      /\ \A m \in Members : m # to => D[m] = team.delivered[m]
  BY <1>2
<1> HIDE DEF mail, D
<1>5. /\ TypeOK' /\ team'.status = team.status /\ team'.tasks = team.tasks
      /\ team'.members = team.members /\ team'.mail = mail
      /\ team'.delivered = D /\ team'.acknowledged = team.acknowledged
  BY <1>1, <1>3, <1>4 DEF IInv, TypeOK, TeamType
<1>6. ValidMailbox'
  <2>1. ValidMailbox
    BY <1>1 DEF IInv, RecordsValid, Active
  <2>2. Len(mail) <= MaxMessages
    BY <1>1, <1>2, <1>3, TeamAssumption
  <2>3. ASSUME NEW m \in Members
        PROVE  team.acknowledged[m] <= D[m] /\ D[m] <= Len(mail)
    <3>1. /\ team.acknowledged[m] \in Nat /\ team.delivered[m] \in Nat
          /\ team.acknowledged[m] <= team.delivered[m]
          /\ team.delivered[m] <= Len(team.mail)
      BY <1>2, <2>1 DEF ValidMailbox
    <3>2. D[m] = Len(team.mail) + 1 \/ D[m] = team.delivered[m]
      BY <1>4
    <3> QED
      BY <1>2, <1>3, <3>1, <3>2
  <2> QED
    BY <1>5, <2>2, <2>3 DEF ValidMailbox
<1>7. ValidLifecycle' /\ team'.members[Lead] = "active"
  BY <1>1, <1>5 DEF IInv, RecordsValid, Active, ValidLifecycle
<1> QED
  BY <1>1, <1>5, <1>6, <1>7, TasksStay DEF Active

LEMMA AcknowledgeMessagesStep ==
    ASSUME IInv, NEW m \in Members, NEW through \in Nat, AcknowledgeMessages(m, through)
    PROVE  IInv' /\ Active' /\ team'.tasks = team.tasks
<1> DEFINE A == [team.acknowledged EXCEPT ![m] = through]
<1>1. /\ Active /\ through <= team.delivered[m]
      /\ team' = [team EXCEPT !.acknowledged = A]
  BY DEF AcknowledgeMessages, CanAcknowledge
<1>2. /\ A \in [Members -> Nat] /\ A[m] = through
      /\ \A n \in Members : n # m => A[n] = team.acknowledged[n]
  BY DEF IInv, TypeOK, TeamType
<1> HIDE DEF A
<1>3. /\ TypeOK' /\ team'.status = team.status /\ team'.tasks = team.tasks
      /\ team'.members = team.members /\ team'.mail = team.mail
      /\ team'.delivered = team.delivered /\ team'.acknowledged = A
  BY <1>1, <1>2 DEF IInv, TypeOK, TeamType
<1>4. ValidMailbox' /\ ValidLifecycle' /\ team'.members[Lead] = "active"
  BY <1>1, <1>2, <1>3 DEF IInv, RecordsValid, Active, ValidMailbox, ValidLifecycle
<1> QED
  BY <1>1, <1>3, <1>4, TasksStay DEF Active

-----------------------------------------------------------------------------
(* The theorems.                                                           *)

\* A team that is not created has nothing to be wrong.
LEMMA InitIInv == Init => IInv
<1> SUFFICES ASSUME Init PROVE IInv
  OBVIOUS
<1>1. /\ team.status = "absent" /\ team.members = [m \in Members |-> "absent"]
      /\ team.tasks = [k \in Tasks |-> NoTask] /\ team.mail = <<>>
      /\ team.delivered = [m \in Members |-> 0]
      /\ team.acknowledged = [m \in Members |-> 0]
  BY DEF Init
<1>2. TypeOK
  <2>1. NoTask \in Task
    BY NoTaskType
  <2> QED
    BY <2>1 DEF Init, TypeOK, TeamType, TeamStatuses, MemberStatuses
<1>3. NoTask.status = "absent" /\ NoTask.attempts = <<>>
  BY DEF NoTask
<1>4. NothingYet /\ Settled /\ DependenciesFirst
  BY <1>1, <1>3 DEF NothingYet, Settled, DependenciesFirst, TaskIs
<1> QED
  BY <1>1, <1>2, <1>4 DEF IInv, RecordsValid

\* Every command keeps the team valid.
LEMMA NextIInv == IInv /\ [Next]_team => IInv'
<1> SUFFICES ASSUME IInv, [Next]_team PROVE IInv'
  OBVIOUS
<1>1. CASE Govern
  BY <1>1, CreateStep, MemberStep, CompleteTeamStep, TerminalizeTeamStep DEF Govern
<1>2. CASE Plan
  <2> SUFFICES ASSUME NEW actor \in Actors, NEW k \in Tasks,
                      \/ \E D \in SUBSET Tasks : CreateTask(actor, k, D)
                      \/ \E m \in Members : AssignTask(actor, k, m)
                      \/ UnassignTask(actor, k)
                      \/ RetryTask(actor, k)
                      \/ CancelTask(actor, k)
               PROVE  IInv'
    BY <1>2 DEF Plan
  <2>1. CASE \E D \in SUBSET Tasks : CreateTask(actor, k, D)
    BY <2>1, CreateTaskStep
  <2>2. CASE \E m \in Members : AssignTask(actor, k, m)
    BY <2>2, AssignTaskStep DEF AssignTask, ActiveMember
  <2>3. CASE UnassignTask(actor, k)
    BY <2>3, AssignTaskStep DEF UnassignTask
  <2> QED
    BY <2>1, <2>2, <2>3, RetryTaskStep, CancelTaskStep
<1>3. CASE Work
  <2>1. CASE \E m \in Members, k \in Tasks : ClaimTask(m, k)
    BY <2>1, ClaimTaskStep
  <2>2. CASE \E actor \in Actors, k \in Tasks : ReleaseTask(actor, k)
    BY <2>2, ReleaseTaskStep
  <2>3. CASE \E k \in Tasks, a \in AttemptIds : StartTaskAttempt(k, a)
    BY <2>3, StartTaskAttemptStep
  <2>4. CASE \E actor \in Actors, k \in Tasks, a \in AttemptIds,
                outcome \in {"completed", "failed"} : FinishTaskAttempt(actor, k, a, outcome)
    BY <2>4, CompletedAttemptStep, FailedAttemptStep
  <2> QED
    BY <1>3, <2>1, <2>2, <2>3, <2>4 DEF Work
<1>4. CASE Correspond
  <2>1. CASE \E sender \in Members, to \in Members, id \in AttemptIds \cup {NoAttempt} :
                SendMessage(sender, to, id)
    BY <2>1, SendMessageStep
  <2>2. CASE \E m \in Members, through \in 1 .. Len(team.mail) : AcknowledgeMessages(m, through)
    BY <2>2, AcknowledgeMessagesStep
  <2> QED
    BY <1>4, <2>1, <2>2 DEF Correspond
<1>5. CASE UNCHANGED team
  BY <1>5 DEF IInv, TypeOK, NothingYet, Settled, DependenciesFirst, RecordsValid, TaskIs,
              Existing, Held, Completed, ValidTask, ValidTaskState, UniqueAttempts, HeldOnce,
              Acyclic, ValidMailbox, ValidLifecycle
<1> QED
  BY <1>1, <1>2, <1>3, <1>4, <1>5 DEF Next

\* The invariant holds of every team.
THEOREM Invariance == Spec => []IInv
<1> QED
  BY InitIInv, NextIInv, PTL DEF Spec

\* Every team of the engine has the types of its record.
THEOREM TypeCorrect == Spec => []TypeOK
<1>1. IInv => TypeOK
  BY DEF IInv
<1> QED
  BY <1>1, Invariance, PTL

\* Every record the engine computes passes the store's validation.
THEOREM ValidRecords == Spec => []RecordsValid
<1>1. IInv => RecordsValid
  BY DEF IInv
<1> QED
  BY <1>1, Invariance, PTL

\* Tasks are worked on after what they depend on.
THEOREM DependenciesHonoured == Spec => []DependenciesFirst
<1>1. IInv => DependenciesFirst
  BY DEF IInv
<1> QED
  BY <1>1, Invariance, PTL

-----------------------------------------------------------------------------
(* Attempts are final.                                                     *)

\* What a step may make of the attempts of a task.
Final(old, new) ==
    /\ Len(new) \in {Len(old), Len(old) + 1}
    /\ \A i \in DOMAIN old :
          /\ new[i].id = old[i].id /\ new[i].member = old[i].member
          /\ old[i].status # "running" => new[i] = old[i]
    /\ Len(new) > Len(old) => \A i \in DOMAIN old : old[i].status # "running"

LEMMA FinalSame == ASSUME NEW s \in Seq(Attempt) PROVE Final(s, s)
BY DEF Final

LEMMA FinalClosed ==
    ASSUME NEW s \in Seq(Attempt), s # <<>>, Last(s).status = "running",
           NEW outcome \in AttemptStatuses
    PROVE  Final(s, CloseLast(s, outcome))
<1>1. Len(s) \in DOMAIN s /\ Len(s) \in Nat
  OBVIOUS
<1> QED
  BY <1>1, ClosedLast DEF Final, Last

LEMMA FinalAppended ==
    ASSUME NEW s \in Seq(Attempt), NEW e \in Attempt,
           \A i \in DOMAIN s : s[i].status # "running"
    PROVE  Final(s, Append(s, e))
BY Appended DEF Final

\* Setting a task is final when it is for the task that is set.
LEMMA FinalSet ==
    ASSUME IInv, NEW k \in Tasks, NEW t, SetTask(k, t), Final(team.tasks[k].attempts, t.attempts),
           NEW j \in Tasks
    PROVE  Final(team.tasks[j].attempts, team'.tasks[j].attempts)
<1>1. team'.tasks = [team.tasks EXCEPT ![k] = t]
  BY DEF SetTask, IInv, TypeOK, TeamType
<1>2. team'.tasks[j] = IF j = k THEN t ELSE team.tasks[j]
  BY <1>1 DEF IInv, TypeOK, TeamType
<1> QED
  BY <1>2, TaskParts, FinalSame DEF IInv

\* The attempts of a cancelled task are final.
LEMMA FinalCancelled ==
    ASSUME IInv, Active, NEW k \in Tasks
    PROVE  Final(team.tasks[k].attempts, Cancelled(team.tasks[k]).attempts)
<1>1. /\ team.tasks[k] \in Task /\ team.tasks[k].attempts \in Seq(Attempt)
      /\ team.tasks[k].status = "running" =>
            team.tasks[k].attempts # <<>> /\ Last(team.tasks[k].attempts).status = "running"
  BY TaskFacts DEF ValidTaskState
<1> QED
  BY <1>1, CancelledTask, FinalSame, FinalClosed DEF AttemptStatuses

\* Every command leaves the attempts that ended as they are.
LEMMA NextFinal ==
    ASSUME IInv, Next, NEW j \in Tasks
    PROVE  Final(team.tasks[j].attempts, team'.tasks[j].attempts)
<1>1. ASSUME team'.tasks = team.tasks
      PROVE  Final(team.tasks[j].attempts, team'.tasks[j].attempts)
  BY <1>1, TaskParts, FinalSame DEF IInv
<1>2. CASE Govern
  <2>1. ASSUME NEW actor \in Actors, NEW status \in {"failed", "cancelled"},
               TerminalizeTeam(actor, status)
        PROVE  Final(team.tasks[j].attempts, team'.tasks[j].attempts)
    BY <2>1, TerminalTasks, FinalCancelled, TaskParts, FinalSame DEF IInv
  <2> QED
    BY <1>1, <1>2, <2>1, CreateStep, MemberStep, CompleteTeamStep DEF Govern
<1>3. CASE Plan
  <2> SUFFICES ASSUME NEW actor \in Actors, NEW k \in Tasks,
                      \/ \E D \in SUBSET Tasks : CreateTask(actor, k, D)
                      \/ \E m \in Members : AssignTask(actor, k, m)
                      \/ UnassignTask(actor, k)
                      \/ RetryTask(actor, k)
                      \/ CancelTask(actor, k)
               PROVE  Final(team.tasks[j].attempts, team'.tasks[j].attempts)
    BY <1>3 DEF Plan
  <2>1. CASE \E D \in SUBSET Tasks : CreateTask(actor, k, D)
    <3>1. Active /\ TaskIs(k, {"absent"})
      BY <2>1 DEF CreateTask, Existing, TaskIs
    <3>2. team.tasks[k].attempts = <<>>
      BY <3>1, TaskFacts DEF TaskIs
    <3>3. PICK D \in SUBSET Tasks :
             SetTask(k, [status |-> StatusFor(team.tasks, D), deps |-> D,
                         assigned |-> NoMember, claimed |-> NoMember, attempts |-> <<>>])
      BY <2>1 DEF CreateTask
    <3>4. Final(<<>>, <<>>)
      BY DEF Final
    <3> QED
      BY <3>2, <3>3, <3>4, FinalSet
  <2>2. CASE \E m \in Members : AssignTask(actor, k, m)
    <3>1. PICK m \in Members : SetTask(k, [team.tasks[k] EXCEPT !.assigned = m])
      BY <2>2 DEF AssignTask
    <3>2. [team.tasks[k] EXCEPT !.assigned = m].attempts = team.tasks[k].attempts
      BY TaskParts DEF IInv, Task
    <3> QED
      BY <3>1, <3>2, FinalSet, FinalSame, TaskParts DEF IInv
  <2>3. CASE UnassignTask(actor, k)
    <3>1. SetTask(k, [team.tasks[k] EXCEPT !.assigned = NoMember])
      BY <2>3 DEF UnassignTask
    <3>2. [team.tasks[k] EXCEPT !.assigned = NoMember].attempts = team.tasks[k].attempts
      BY TaskParts DEF IInv, Task
    <3> QED
      BY <3>1, <3>2, FinalSet, FinalSame, TaskParts DEF IInv
  <2>4. CASE RetryTask(actor, k)
    <3> DEFINE status == StatusFor(team.tasks, team.tasks[k].deps)
    <3>1. SetTask(k, [team.tasks[k] EXCEPT !.status = status])
      BY <2>4 DEF RetryTask
    <3>2. [team.tasks[k] EXCEPT !.status = status].attempts = team.tasks[k].attempts
      BY TaskParts DEF IInv, Task
    <3> QED
      BY <3>1, <3>2, FinalSet, FinalSame, TaskParts DEF IInv
  <2>5. CASE CancelTask(actor, k)
    BY <2>5, FinalSet, FinalCancelled DEF CancelTask
  <2> QED
    BY <2>1, <2>2, <2>3, <2>4, <2>5
<1>4. CASE Work
  <2>1. ASSUME NEW m \in Members, NEW k \in Tasks, ClaimTask(m, k)
        PROVE  Final(team.tasks[j].attempts, team'.tasks[j].attempts)
    <3>1. [team.tasks[k] EXCEPT !.status = "claimed", !.claimed = m].attempts
             = team.tasks[k].attempts
      BY TaskParts DEF IInv, Task
    <3> QED
      BY <2>1, <3>1, FinalSet, FinalSame, TaskParts DEF IInv, ClaimTask
  <2>2. ASSUME NEW actor \in Actors, NEW k \in Tasks, ReleaseTask(actor, k)
        PROVE  Final(team.tasks[j].attempts, team'.tasks[j].attempts)
    <3>1. [team.tasks[k] EXCEPT !.status = "ready", !.claimed = NoMember].attempts
             = team.tasks[k].attempts
      BY TaskParts DEF IInv, Task
    <3> QED
      BY <2>2, <3>1, FinalSet, FinalSame, TaskParts DEF IInv, ReleaseTask
  <2>3. ASSUME NEW k \in Tasks, NEW a \in AttemptIds, StartTaskAttempt(k, a)
        PROVE  Final(team.tasks[j].attempts, team'.tasks[j].attempts)
    <3> DEFINE old == team.tasks[k]
               attempt == [id |-> a, member |-> old.claimed, status |-> "running"]
               attempts == Append(old.attempts, attempt)
               t == [old EXCEPT !.status = "running", !.attempts = attempts]
    <3>1. Active /\ TaskIs(k, {"claimed"}) /\ SetTask(k, t)
      BY <2>3 DEF StartTaskAttempt, CanStart
    <3>2. /\ old \in Task /\ old.attempts \in Seq(Attempt) /\ old.claimed \in Members
          /\ \A i \in DOMAIN old.attempts : old.attempts[i].status # "running"
      BY <3>1, TaskFacts DEF ValidTaskState, TaskIs
    <3>3. attempt \in Attempt
      BY <3>2 DEF Attempt, AttemptStatuses
    <3>4. Final(old.attempts, attempts)
      BY <3>2, <3>3, FinalAppended
    <3> HIDE DEF attempts
    <3>5. t.attempts = attempts
      BY <3>2 DEF Task
    <3> QED
      BY <3>1, <3>4, <3>5, FinalSet
  <2>4. ASSUME NEW actor \in Actors, NEW k \in Tasks, NEW a \in AttemptIds,
               NEW outcome \in {"completed", "failed"}, FinishTaskAttempt(actor, k, a, outcome)
        PROVE  Final(team.tasks[j].attempts, team'.tasks[j].attempts)
    <3> DEFINE t == Finished(team.tasks[k], outcome)
    <3>1. CanFinish(actor, k, a)
      BY <2>4 DEF FinishTaskAttempt
    <3>2. Final(team.tasks[k].attempts, t.attempts)
      BY <3>1, FinishFacts, FinalClosed DEF AttemptStatuses
    <3>3. CASE outcome = "failed"
      BY <2>4, <3>2, <3>3, FailedAttemptStep, FinalSet
    <3>4. CASE outcome = "completed"
      <4>1. \/ j = k /\ team'.tasks[j] = t
            \/ team'.tasks[j].attempts = team.tasks[j].attempts
        BY <2>4, <3>4, CompletedAttemptTasks
      <4> QED
        BY <3>2, <4>1, FinalSame, TaskParts DEF IInv
    <3> QED
      BY <3>3, <3>4
  <2> QED
    BY <1>4, <2>1, <2>2, <2>3, <2>4 DEF Work
<1>5. CASE Correspond
  <2>1. team'.tasks = team.tasks
    BY <1>5, SendMessageStep, AcknowledgeMessagesStep DEF Correspond
  <2> QED
    BY <1>1, <2>1
<1> QED
  BY <1>2, <1>3, <1>4, <1>5 DEF Next

\* An attempt that ended stays as it is, and none is forgotten.
THEOREM FirstResultWins == Spec => AttemptsFinal
<1>1. IInv /\ [Next]_team =>
        [\A k \in Tasks :
            LET old == team.tasks[k].attempts
                new == team'.tasks[k].attempts
            IN /\ Len(new) \in {Len(old), Len(old) + 1}
               /\ \A i \in DOMAIN old :
                     /\ new[i].id = old[i].id /\ new[i].member = old[i].member
                     /\ old[i].status # "running" => new[i] = old[i]
               /\ Len(new) > Len(old) => \A i \in DOMAIN old : old[i].status # "running"
        ]_team
  BY NextFinal DEF Final
<1> QED
  BY <1>1, Invariance, PTL DEF Spec, AttemptsFinal

-----------------------------------------------------------------------------
(* The team is a board of tasks.                                           *)

\* What the board shows of a task.
LEMMA PlacesShown ==
    /\ Place("absent") = "none" /\ Place("pending") = "waiting" /\ Place("ready") = "free"
    /\ Place("claimed") = "held" /\ Place("running") = "held"
    /\ Place("completed") = "done" /\ Place("failed") = "failed"
    /\ Place("cancelled") = "dropped"
BY DEF Place

LEMMA PlaceOf ==
    ASSUME NEW status \in TaskStatuses
    PROVE  /\ Place(status) = "none" <=> status = "absent"
           /\ Place(status) = "waiting" <=> status = "pending"
           /\ Place(status) = "free" <=> status = "ready"
           /\ Place(status) = "held" <=> status \in {"claimed", "running"}
           /\ Place(status) = "done" <=> status = "completed"
           /\ Place(status) = "failed" <=> status = "failed"
           /\ Place(status) = "dropped" <=> status = "cancelled"
BY PlacesShown DEF TaskStatuses

NeedsNow == [k \in Tasks |-> team.tasks[k].deps]
BoardNow == [k \in Tasks |-> Place(team.tasks[k].status)]
HolderNow == [k \in Tasks |-> team.tasks[k].claimed]

\* Setting a task moves that task on the board.
LEMMA BoardSet ==
    ASSUME IInv, Active, NEW k \in Tasks, NEW t, SetTask(k, t)
    PROVE  /\ Active'
           /\ NeedsNow' = [NeedsNow EXCEPT ![k] = t.deps]
           /\ BoardNow' = [BoardNow EXCEPT ![k] = Place(t.status)]
           /\ HolderNow' = [HolderNow EXCEPT ![k] = t.claimed]
<1>1. team'.tasks = [team.tasks EXCEPT ![k] = t] /\ Active'
  BY DEF SetTask, IInv, TypeOK, TeamType, Active
<1>2. \A j \in Tasks : team'.tasks[j] = IF j = k THEN t ELSE team.tasks[j]
  BY <1>1 DEF IInv, TypeOK, TeamType
<1> QED
  BY <1>1, <1>2 DEF NeedsNow, BoardNow, HolderNow

\* A step that keeps the tasks, and keeps the team open, is not seen.
LEMMA BoardKept ==
    ASSUME team'.tasks = team.tasks
    PROVE  NeedsNow' = NeedsNow /\ BoardNow' = BoardNow /\ HolderNow' = HolderNow
BY DEF NeedsNow, BoardNow, HolderNow

\* A task that does not move, and whose holder stays, is not seen to change.
LEMMA BoardSame ==
    ASSUME IInv, Active, NEW k \in Tasks, NEW t, SetTask(k, t),
           t.deps = team.tasks[k].deps, Place(t.status) = Place(team.tasks[k].status),
           t.claimed = team.tasks[k].claimed
    PROVE  UNCHANGED <<Active, NeedsNow, BoardNow, HolderNow>>
<1>1. NeedsNow[k] = t.deps /\ BoardNow[k] = Place(t.status) /\ HolderNow[k] = t.claimed
  BY DEF NeedsNow, BoardNow, HolderNow
<1>2. /\ NeedsNow = [j \in Tasks |-> NeedsNow[j]]
      /\ BoardNow = [j \in Tasks |-> BoardNow[j]]
      /\ HolderNow = [j \in Tasks |-> HolderNow[j]]
  BY DEF NeedsNow, BoardNow, HolderNow
<1>3. NeedsNow' = NeedsNow /\ BoardNow' = BoardNow /\ HolderNow' = HolderNow
  <2> QED
    BY <1>1, <1>2, BoardSet
<1> QED
  BY <1>3, BoardSet DEF Active

LEMMA BoardInit == Init => Board!Init
<1> SUFFICES ASSUME Init PROVE Board!Init
  OBVIOUS
<1>1. team.status = "absent" /\ team.tasks = [k \in Tasks |-> NoTask]
  BY DEF Init
<1>2. NoTask.status = "absent" /\ NoTask.deps = {} /\ NoTask.claimed = NoMember
  BY DEF NoTask
<1> QED
  BY <1>1, <1>2, PlacesShown DEF Board!Init, Active

\* Governing opens the board, closes it, or is not seen.
LEMMA GovernBoard ==
    ASSUME IInv, Govern
    PROVE  \/ UNCHANGED <<Active, NeedsNow, BoardNow, HolderNow>>
           \/ Board!Open
           \/ Active /\ Board!Close
<1>1. CASE Create
  <2>1. ~Active /\ Active' /\ team'.tasks = team.tasks
    BY <1>1, CreateStep DEF Create, Active
  <2>2. \A k \in Tasks : Place(team.tasks[k].status) = "none"
    BY <1>1, PlacesShown DEF Create, IInv, NothingYet, NoTask
  <2>3. Board!Open
    BY <2>1, <2>2 DEF Board!Open, Board!Posted, Active
  <2> QED
    BY <2>3
<1>2. CASE \E m \in Members : RegisterMember(m) \/ DisableMember(m) \/ EnableMember(m)
  <2>1. Active /\ Active' /\ team'.tasks = team.tasks
    BY <1>2, MemberStep DEF RegisterMember, DisableMember, EnableMember
  <2> QED
    BY <2>1, BoardKept DEF Active
<1>3. ASSUME NEW actor \in Actors, CompleteTeam(actor)
      PROVE  Active /\ Board!Close
  <2>1. /\ Active /\ ~Active' /\ team'.tasks = team.tasks
        /\ \A k \in Existing : TaskIs(k, {"completed", "cancelled"})
    BY <1>3, CompleteTeamStep DEF CompleteTeam, Active
  <2>2. ASSUME NEW k \in Tasks
        PROVE  /\ Place(team.tasks[k].status) \notin {"waiting", "free", "held"}
               /\ team.tasks[k].claimed = NoMember
    BY <2>1, TaskFacts, PlaceOf DEF Existing, TaskIs, ValidTaskState
  <2> QED
    BY <2>1, <2>2 DEF Board!Close, Active
<1>4. ASSUME NEW actor \in Actors, NEW status \in {"failed", "cancelled"},
             TerminalizeTeam(actor, status)
      PROVE  Active /\ Board!Close
  <2>1. /\ Active /\ ~Active'
        /\ \A k \in Tasks :
              team'.tasks[k] = IF TaskIs(k, {"absent", "completed", "cancelled", "failed"})
                               THEN team.tasks[k] ELSE Cancelled(team.tasks[k])
    BY <1>4, TerminalTasks DEF Active
  <2>2. ASSUME NEW k \in Tasks
        PROVE  /\ team'.tasks[k].deps = team.tasks[k].deps
               /\ team'.tasks[k].claimed = NoMember
               /\ Place(team'.tasks[k].status) =
                     IF Place(team.tasks[k].status) \in {"waiting", "free", "held"}
                     THEN "dropped" ELSE Place(team.tasks[k].status)
    <3>1. /\ team.tasks[k] \in Task /\ team.tasks[k].status \in TaskStatuses
          /\ ValidTaskState(team.tasks[k])
      BY <2>1, TaskFacts
    <3>2. CASE TaskIs(k, {"absent", "completed", "cancelled", "failed"})
      BY <2>1, <3>1, <3>2, PlaceOf DEF TaskIs, ValidTaskState
    <3>3. CASE ~TaskIs(k, {"absent", "completed", "cancelled", "failed"})
      <4>1. /\ Cancelled(team.tasks[k]).status = "cancelled"
            /\ Cancelled(team.tasks[k]).claimed = NoMember
            /\ Cancelled(team.tasks[k]).deps = team.tasks[k].deps
        BY <3>1, CancelledTask DEF ValidTaskState
      <4>2. team.tasks[k].status \in {"pending", "ready", "claimed", "running"}
        BY <3>1, <3>3 DEF TaskIs, TaskStatuses
      <4> QED
        BY <2>1, <3>3, <4>1, <4>2, PlacesShown
    <3> QED
      BY <3>2, <3>3
  <2> QED
    BY <2>1, <2>2 DEF Board!Close, Active
<1> QED
  BY <1>1, <1>2, <1>3, <1>4 DEF Govern

\* Planning posts, retries or drops a task, or is not seen.
LEMMA PlanBoard ==
    ASSUME IInv, Plan
    PROVE  \/ UNCHANGED <<Active, NeedsNow, BoardNow, HolderNow>>
           \/ Active /\ \E k \in Tasks : Board!Change(k)
<1> SUFFICES ASSUME NEW actor \in Actors, NEW k \in Tasks,
                    \/ \E D \in SUBSET Tasks : CreateTask(actor, k, D)
                    \/ \E m \in Members : AssignTask(actor, k, m)
                    \/ UnassignTask(actor, k)
                    \/ RetryTask(actor, k)
                    \/ CancelTask(actor, k)
             PROVE  \/ UNCHANGED <<Active, NeedsNow, BoardNow, HolderNow>>
                    \/ Active /\ Board!Change(k)
  BY DEF Plan
<1> DEFINE old == team.tasks[k]
<1>0. Active
  BY DEF CreateTask, AssignTask, UnassignTask, RetryTask, CancelTask
<1>f. /\ old \in Task /\ old.status \in TaskStatuses /\ ValidTaskState(old)
      /\ \A j \in Tasks : team.tasks[j].status \in TaskStatuses
  BY <1>0, TaskFacts
<1>1. ASSUME NEW D \in SUBSET Tasks, CreateTask(actor, k, D)
      PROVE  Board!Post(k, D)
  <2> DEFINE t == [status |-> StatusFor(team.tasks, D), deps |-> D,
                   assigned |-> NoMember, claimed |-> NoMember, attempts |-> <<>>]
  <2>1. SetTask(k, t) /\ k \notin Existing /\ D \subseteq Existing
    BY <1>1 DEF CreateTask
  <2>2. t.deps = D /\ t.claimed = NoMember /\ t.status = StatusFor(team.tasks, D)
    OBVIOUS
  <2> HIDE DEF t
  <2>3. Board!Posted = Existing /\ Board!Done = {j \in Tasks : TaskIs(j, {"completed"})}
    BY <1>f, PlaceOf DEF Board!Posted, Board!Done, Existing, TaskIs
  <2>4. Place(t.status) = IF D \subseteq Board!Done THEN "free" ELSE "waiting"
    BY <2>2, <2>3, PlacesShown DEF StatusFor, Completed, TaskIs
  <2>5. old.claimed = NoMember
    BY <1>f, <2>1 DEF Existing, ValidTaskState
  <2>6. HolderNow' = HolderNow
    <3>1. HolderNow[k] = NoMember /\ HolderNow = [j \in Tasks |-> HolderNow[j]]
      BY <2>5 DEF HolderNow
    <3> QED
      BY <1>0, <2>1, <2>2, <3>1, BoardSet
  <2>7. /\ Active' /\ NeedsNow' = [NeedsNow EXCEPT ![k] = D]
        /\ BoardNow' = [BoardNow EXCEPT ![k] = IF D \subseteq Board!Done THEN "free" ELSE "waiting"]
    BY <1>0, <2>1, <2>2, <2>4, BoardSet
  <2> QED
    BY <1>0, <2>1, <2>3, <2>6, <2>7
       DEF Board!Post, Active, NeedsNow, BoardNow, HolderNow
<1>2. ASSUME NEW m \in Members \cup {NoMember}, SetTask(k, [old EXCEPT !.assigned = m])
      PROVE  UNCHANGED <<Active, NeedsNow, BoardNow, HolderNow>>
  <2> DEFINE t == [old EXCEPT !.assigned = m]
  <2>1. t.deps = old.deps /\ t.status = old.status /\ t.claimed = old.claimed
    BY <1>f DEF Task
  <2> HIDE DEF t
  <2> QED
    BY <1>0, <1>2, <2>1, BoardSame DEF t
<1>3. CASE RetryTask(actor, k)
  <2> DEFINE t == [old EXCEPT !.status = StatusFor(team.tasks, old.deps)]
  <2>1. StatusFor(team.tasks, old.deps) = "ready" /\ SetTask(k, t) /\ TaskIs(k, {"failed"})
    BY <1>3, RetryTaskStep DEF RetryTask
  <2>2. t.deps = old.deps /\ t.status = "ready" /\ t.claimed = old.claimed
    BY <1>f, <2>1 DEF Task
  <2> HIDE DEF t
  <2>3. NeedsNow' = NeedsNow /\ HolderNow' = HolderNow
    <3>1. /\ NeedsNow[k] = old.deps /\ NeedsNow = [j \in Tasks |-> NeedsNow[j]]
          /\ HolderNow[k] = old.claimed /\ HolderNow = [j \in Tasks |-> HolderNow[j]]
      BY DEF NeedsNow, HolderNow
    <3> QED
      BY <1>0, <2>1, <2>2, <3>1, BoardSet
  <2>4. /\ Active' /\ BoardNow[k] = "failed"
        /\ BoardNow' = [BoardNow EXCEPT ![k] = "free"]
    BY <1>0, <2>1, <2>2, BoardSet, PlacesShown DEF BoardNow, TaskIs
  <2>5. Board!Retry(k)
    BY <1>0, <2>3, <2>4 DEF Board!Retry, Active, NeedsNow, BoardNow, HolderNow
  <2> QED
    BY <1>0, <2>5 DEF Board!Change
<1>4. CASE CancelTask(actor, k)
  <2> DEFINE t == Cancelled(old)
  <2>1. SetTask(k, t) /\ k \in Existing /\ ~TaskIs(k, {"completed", "cancelled"})
    BY <1>4 DEF CancelTask
  <2>2. t.deps = old.deps /\ t.status = "cancelled" /\ t.claimed = NoMember
    BY <1>f, CancelledTask DEF ValidTaskState
  <2> HIDE DEF t
  <2>3. NeedsNow' = NeedsNow
    <3>1. NeedsNow[k] = old.deps /\ NeedsNow = [j \in Tasks |-> NeedsNow[j]]
      BY DEF NeedsNow
    <3> QED
      BY <1>0, <2>1, <2>2, <3>1, BoardSet
  <2>4. BoardNow[k] \notin {"none", "done", "dropped"}
    BY <1>f, <2>1, PlaceOf DEF BoardNow, TaskIs, Existing
  <2>5. /\ Active' /\ BoardNow' = [BoardNow EXCEPT ![k] = "dropped"]
        /\ HolderNow' = [HolderNow EXCEPT ![k] = NoMember]
    BY <1>0, <2>1, <2>2, BoardSet, PlacesShown
  <2>6. Board!Drop(k)
    BY <1>0, <2>3, <2>4, <2>5
       DEF Board!Drop, Board!Posted, Active, NeedsNow, BoardNow, HolderNow
  <2> QED
    BY <1>0, <2>6 DEF Board!Change
<1>5. CASE \E D \in SUBSET Tasks : CreateTask(actor, k, D)
  BY <1>0, <1>1, <1>5 DEF Board!Change
<1>6. CASE (\E m \in Members : AssignTask(actor, k, m)) \/ UnassignTask(actor, k)
  BY <1>2, <1>6 DEF AssignTask, UnassignTask
<1> QED
  BY <1>3, <1>4, <1>5, <1>6

\* Working takes, puts back or ends a task, or is not seen.
LEMMA WorkBoard ==
    ASSUME IInv, Work
    PROVE  \/ UNCHANGED <<Active, NeedsNow, BoardNow, HolderNow>>
           \/ Active /\ \E k \in Tasks : Board!Change(k)
<1>1. ASSUME NEW m \in Members, NEW k \in Tasks, ClaimTask(m, k)
      PROVE  Active /\ Board!Change(k)
  <2> DEFINE old == team.tasks[k]
             t == [old EXCEPT !.status = "claimed", !.claimed = m]
  <2>1. Active /\ TaskIs(k, {"ready"}) /\ ~Busy(m) /\ SetTask(k, t)
    BY <1>1 DEF ClaimTask, CanClaim
  <2>2. t.deps = old.deps /\ t.status = "claimed" /\ t.claimed = m
    BY TaskParts DEF IInv, Task
  <2> HIDE DEF t
  <2>3. NeedsNow' = NeedsNow
    <3>1. NeedsNow[k] = old.deps /\ NeedsNow = [j \in Tasks |-> NeedsNow[j]]
      BY DEF NeedsNow
    <3> QED
      BY <2>1, <2>2, <3>1, BoardSet
  <2>4. \A j \in Tasks : team.tasks[j].claimed # m
    BY <2>1, TaskFacts, TeamAssumption DEF ValidTaskState, Busy, Held, TaskIs
  <2>5. /\ Active' /\ BoardNow[k] = "free" /\ \A j \in Tasks : HolderNow[j] # m
        /\ BoardNow' = [BoardNow EXCEPT ![k] = "held"]
        /\ HolderNow' = [HolderNow EXCEPT ![k] = m]
    <3>1. BoardNow[k] = "free" /\ \A j \in Tasks : HolderNow[j] # m
      BY <2>1, <2>4, PlacesShown DEF BoardNow, HolderNow, TaskIs
    <3> QED
      BY <2>1, <2>2, <3>1, BoardSet, PlacesShown
  <2>6. Board!Take(k, m)
    BY <2>1, <2>3, <2>5 DEF Board!Take, Active, NeedsNow, BoardNow, HolderNow
  <2> QED
    BY <2>1, <2>6 DEF Board!Change
<1>2. ASSUME NEW actor \in Actors, NEW k \in Tasks, ReleaseTask(actor, k)
      PROVE  Active /\ Board!Change(k)
  <2> DEFINE old == team.tasks[k]
             t == [old EXCEPT !.status = "ready", !.claimed = NoMember]
  <2>1. Active /\ TaskIs(k, {"claimed"}) /\ SetTask(k, t)
    BY <1>2 DEF ReleaseTask
  <2>2. t.deps = old.deps /\ t.status = "ready" /\ t.claimed = NoMember
    BY TaskParts DEF IInv, Task
  <2> HIDE DEF t
  <2>3. NeedsNow' = NeedsNow
    <3>1. NeedsNow[k] = old.deps /\ NeedsNow = [j \in Tasks |-> NeedsNow[j]]
      BY DEF NeedsNow
    <3> QED
      BY <2>1, <2>2, <3>1, BoardSet
  <2>4. /\ Active' /\ BoardNow[k] = "held"
        /\ BoardNow' = [BoardNow EXCEPT ![k] = "free"]
        /\ HolderNow' = [HolderNow EXCEPT ![k] = NoMember]
    BY <2>1, <2>2, BoardSet, PlacesShown DEF BoardNow, TaskIs
  <2>5. Board!PutBack(k)
    BY <2>1, <2>3, <2>4 DEF Board!PutBack, Active, NeedsNow, BoardNow, HolderNow
  <2> QED
    BY <2>1, <2>5 DEF Board!Change
<1>3. ASSUME NEW k \in Tasks, NEW a \in AttemptIds, StartTaskAttempt(k, a)
      PROVE  UNCHANGED <<Active, NeedsNow, BoardNow, HolderNow>>
  <2> DEFINE old == team.tasks[k]
             attempts == Append(old.attempts,
                            [id |-> a, member |-> old.claimed, status |-> "running"])
             t == [old EXCEPT !.status = "running", !.attempts = attempts]
  <2>1. Active /\ TaskIs(k, {"claimed"}) /\ SetTask(k, t)
    BY <1>3 DEF StartTaskAttempt, CanStart
  <2> HIDE DEF attempts
  <2>2. t.deps = old.deps /\ t.status = "running" /\ t.claimed = old.claimed
    BY TaskParts DEF IInv, Task
  <2> HIDE DEF t
  <2> QED
    BY <2>1, <2>2, BoardSame, PlacesShown DEF TaskIs
<1>4. ASSUME NEW actor \in Actors, NEW k \in Tasks, NEW a \in AttemptIds,
             FinishTaskAttempt(actor, k, a, "failed")
      PROVE  Active /\ Board!Change(k)
  <2> DEFINE old == team.tasks[k]
             t == Finished(old, "failed")
  <2>1. /\ Active /\ TaskIs(k, {"running"}) /\ t.deps = old.deps
        /\ t.status = "failed" /\ t.claimed = NoMember
    BY <1>4, FinishFacts DEF FinishTaskAttempt
  <2>2. SetTask(k, t)
    BY <1>4, FailedAttemptStep
  <2> HIDE DEF t
  <2>3. NeedsNow' = NeedsNow
    <3>1. NeedsNow[k] = old.deps /\ NeedsNow = [j \in Tasks |-> NeedsNow[j]]
      BY DEF NeedsNow
    <3> QED
      BY <2>1, <2>2, <3>1, BoardSet
  <2>4. /\ Active' /\ BoardNow[k] = "held"
        /\ BoardNow' = [BoardNow EXCEPT ![k] = "failed"]
        /\ HolderNow' = [HolderNow EXCEPT ![k] = NoMember]
    BY <2>1, <2>2, BoardSet, PlacesShown DEF BoardNow, TaskIs
  <2>5. Board!Fail(k)
    BY <2>1, <2>3, <2>4 DEF Board!Fail, Active, NeedsNow, BoardNow, HolderNow
  <2> QED
    BY <2>1, <2>5 DEF Board!Change
<1>5. ASSUME NEW actor \in Actors, NEW k \in Tasks, NEW a \in AttemptIds,
             FinishTaskAttempt(actor, k, a, "completed")
      PROVE  Active /\ Board!Change(k)
  <2> DEFINE t == Finished(team.tasks[k], "completed")
             Freed(j) == /\ TaskIs(j, {"pending"})
                         /\ \A d \in team.tasks[j].deps : d = k \/ TaskIs(d, {"completed"})
  <2>1. /\ Active /\ TaskIs(k, {"running"}) /\ t.deps = team.tasks[k].deps
        /\ t.status = "completed" /\ t.claimed = NoMember
    BY <1>5, FinishFacts DEF FinishTaskAttempt
  <2>2. /\ Active' /\ team'.tasks[k] = t
        /\ \A j \in Tasks : j # k =>
              /\ team'.tasks[j].deps = team.tasks[j].deps
              /\ team'.tasks[j].claimed = team.tasks[j].claimed
              /\ team'.tasks[j].status = IF Freed(j) THEN "ready" ELSE team.tasks[j].status
    BY <1>5, CompletedAttemptTasks
  <2> HIDE DEF t
  <2>3. Board!Done = {j \in Tasks : TaskIs(j, {"completed"})}
    BY <2>1, TaskFacts, PlaceOf DEF Board!Done, TaskIs
  <2>4. ASSUME NEW j \in Tasks
        PROVE  Freed(j) <=> /\ Place(team.tasks[j].status) = "waiting"
                            /\ team.tasks[j].deps \subseteq Board!Done \cup {k}
    BY <2>1, <2>3, TaskFacts, PlaceOf DEF TaskIs
  <2>5. BoardNow' = [j \in Tasks |->
                       IF j = k THEN "done"
                       ELSE IF Place(team.tasks[j].status) = "waiting"
                               /\ team.tasks[j].deps \subseteq Board!Done \cup {k}
                       THEN "free" ELSE Place(team.tasks[j].status)]
    BY <2>1, <2>2, <2>4, PlacesShown DEF BoardNow
  <2>6. /\ NeedsNow' = NeedsNow
        /\ HolderNow' = [HolderNow EXCEPT ![k] = NoMember]
    BY <2>1, <2>2 DEF NeedsNow, HolderNow
  <2>7. Board!Complete(k)
    BY <2>1, <2>2, <2>5, <2>6, PlacesShown
       DEF Board!Complete, Active, NeedsNow, BoardNow, HolderNow, TaskIs
  <2> QED
    BY <2>1, <2>7 DEF Board!Change
<1> QED
  BY <1>1, <1>2, <1>3, <1>4, <1>5 DEF Work

\* The engine, whatever it does to attempts and mail, is a task board.
THEOREM BoardImplemented == Spec => ImplementsBoard
<1>1. IInv /\ [Next]_team => [Board!Next]_(Board!vars)
  <2> SUFFICES ASSUME IInv, [Next]_team PROVE [Board!Next]_(Board!vars)
    OBVIOUS
  <2>1. ASSUME UNCHANGED <<Active, NeedsNow, BoardNow, HolderNow>>
        PROVE  UNCHANGED Board!vars
    BY <2>1 DEF Board!vars, Active, NeedsNow, BoardNow, HolderNow
  <2>2. CASE Govern
    BY <2>1, <2>2, GovernBoard DEF Board!Next, Active
  <2>3. CASE Plan
    BY <2>1, <2>3, PlanBoard DEF Board!Next, Active
  <2>4. CASE Work
    BY <2>1, <2>4, WorkBoard DEF Board!Next, Active
  <2>5. CASE Correspond
    <3>1. Active' /\ team'.tasks = team.tasks
      BY <2>5, SendMessageStep, AcknowledgeMessagesStep DEF Correspond
    <3>2. Active
      BY <2>5 DEF Correspond, SendMessage, CanSend, AcknowledgeMessages, CanAcknowledge
    <3> QED
      BY <2>1, <3>1, <3>2, BoardKept DEF Active
  <2>6. CASE UNCHANGED team
    BY <2>1, <2>6, BoardKept DEF Active
  <2> QED
    BY <2>2, <2>3, <2>4, <2>5, <2>6 DEF Next
<1> QED
  BY <1>1, BoardInit, Invariance, PTL DEF Spec, ImplementsBoard, Board!Spec
=============================================================================
