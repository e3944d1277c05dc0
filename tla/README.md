# A verification of pips

pips is a Go library and coding assistant for running language-model agents:
a model interface (`ai/`), an agent loop with tools (`agent/`), durable
executions that continue over many runs (`agent/continuation`), teams of agents
(`agent/team`), a workflow engine (`workflow/`), and the coding application that
puts them together (`internal/coding`, `cmd/pips`). This directory holds TLA+
modules that model its concurrent and durable parts, the TLC configurations that
check them on small instances, and TLAPS proofs for every value of the constants.

Paths below are relative to `src/`.

## 1. Inventory

For each component: the state it keeps, its operations, and what makes it
correct. `PROJECT.json` gives the files of each one and its status.

### 1.1 The agent library

**Continuation engine** (`agent/continuation`). *State*: per execution a journal
of immutable records with a revision (status, phase, wait, block, suspension,
current and last attempt, accounting, cause); in memory, `Engine.active`, the
slot of the stage that runs. *Operations*: `Create`, `Get`, `List`, `Advance`
(a work stage by a `Worker`, then a decision stage by a `Controller`), `Pause`,
`Resume`, `RetryWork`, `RetryDecision`, `ResolveBlock`, `ResumeDue`, `Signal`,
`Cancel`, `Fail`. *Interactions*: hosts (goal, loop, team) call it from several
goroutines; it calls back into workers and controllers without holding a lock;
the store compares and swaps revisions. *Hard*: control operations race the
outcome of a stage; a write may fail before or after it is durable; a crash
leaves an active status without an owner; limits and signals are checked before
the write they guard. *Correct when*: the running stage owns the record it
started, persisted intents are never lost, work is charged once and never
silently rerun, a wakeup reaches a worker that returns unless a write fails or the
process dies, a signal wakes once.

**Agent run, session and tool batch** (`agent/session.go`, `run.go`, `exec.go`).
*State*: the session's messages, its steering and follow-up queues and its
running flag; per run the turn, the injected messages and the next request; per
batch the outcomes by index, a semaphore, the channel of finished workers and a
bounded progress buffer. *Operations*: `Run`/`Stream`, `Steer`, `Interject`,
`FollowUp`, `ClearSteering`, `Append`, `Replace`, `ResolveToolCalls`,
`ResolvePending`. *Hard*: queues are filled while a run drains them; a consumer
stops or a context ends between any two events; parallel tools finish in any
order; a callback runs outside the lock between reading and answering the
pending calls. *Correct when*: every tool call has exactly one result, in call
order; one run at a time; serial tools run alone; a queued message is injected
at most once and in order.

**Team** (`agent/team`). *State*: a durable record per team with members, tasks
(status, dependencies, assignee, claim, attempts), mailboxes with
acknowledgement cursors, command IDs. *Operations*: register, disable and enable
members; create, assign, unassign, claim, release, retry and cancel tasks; start
and finish attempts; send and acknowledge messages; complete, fail and cancel the
team; `AttemptRuntime` drives one attempt as a continuation execution. *Hard*:
claims race cancellations and disabled members; a crash between the attempt's
start and its execution; commands repeated with the same ID. *Correct when*: one
claim per task, no attempt starts before its dependencies complete, a task ends
with its attempt, a message is read in order and not lost.

**Harness** (`agent/harness`). *State*: a tree of session entries in a journal,
the active leaf, caches of the path and context, the phase (idle, running,
compacting). *Operations*: prompts, resolving pending calls, compaction,
navigation to an entry, labels, forks. *Correct when*: the replayed journal
equals the live tree, compaction keeps what follows its cut, no tool call of the
context lacks its result, one operation at a time.

**Goal and loop controllers** (`agent/goal`, `agent/loop`): controllers of the
continuation engine that call a model and map its verdict to a decision; no state
of their own beyond counters in the controller state they return.

**Catalog, bundle, extension, MCP, observability**: assembly and adapters.

### 1.2 The workflow engine

**Compiler** (`workflow/compiler*.go`): a pure function from a definition to a
graph with resolved edges and bindings. **Runner** (`runner*.go`, `batch.go`,
`loop.go`): *State*: the state of each edge (pending, taken, skipped) and node,
the ready queue, the nodes in flight, interrupts, the checkpoint. *Hard*: nodes
complete in any order; an interrupt arrives while nodes run and forces some to
rerun; a failed node may be caught by an error route; batches and loops nest
executions; a checkpoint must resume to the same result. *Correct when*: a node
runs at most once per run and only after its incoming edges are resolved and one
is taken; a run ends only when nothing is in flight; what is checkpointed is not
run again. **Partial runs and node debugging**: the runner over a part of a graph.

### 1.3 The coding application (`internal/coding`)

**Subagent manager**: admission under concurrency and spawn limits with waiting
starts, the life cycle of children with cancellation and finalization, resume,
messages to a parent or child with quotas and parking, a durable inbox of
notifications. **Approval controller**: durable requests, permits bound to a
fingerprint, execution of pending calls, receipts, unknown results after a
crash. **Question and plan review**: request and answer protocols over pending
tool calls. **Background registry**: tasks with output, kill, wait, reap and one
completion report each. **Event hub**: ordered records, replay from a cursor,
bounded subscribers that may lag. **Scheduler store**: tasks with their next fire
time in a file. **Session repository**: journals, locks, migration, archives.
**Team host**: workers, resume, worktrees, journalled integration. **File
transaction** (`tools/mutation_tx.go`): staged replacement of several files with
rollback. **Runtime**: ties them together, routes interactions, closes in order.

### 1.4 The rest

**Model interface and providers** (`ai/`): value types and wire formats; retry
and rate limiting middleware. **User interfaces** (`tui`, `cli`, `acp`): rendering
and input. **Execution and sandbox**: the operating system. They are listed in
`PROJECT.json` with the reason they are left out.

## 2. Plan

Modules are written from the inside out: what every other part relies on first.

| | module | composes | abstract specification | status |
|-|-|-|-|-|
| 1 | `ContinuationRecords`, `Continuation` | records under the engine | `ContinuationLifecycle` | done, proved |
| 2 | `ToolBatch` | | `ToolTurn` | done, proved |
| 3 | `AgentRun` | takes `ToolBatch`'s outcomes | | done, proved |
| 4 | `Team`, `TeamAttempt` | the team under the runtime of an attempt and its child | `TaskBoard` | done, proved |
| 5 | `Workflow` | | | done, proved |
| 6 | `CallTurn` | the model call inside `AgentRun`'s turn over the retry middleware | | done, proved |
| 7 | `Subagent` | | parent's view of a child: started, told, ended once | not begun |
| 8 | `Approval` (with questions and plan reviews) | | a permit is used once, for what was shown | not begun |
| 9 | `Background`, `EventHub`, `Scheduler` | | a reader of the hub sees a suffix of the log, in order | not begun |
| 10 | `Harness`, `SessionJournal`, `FileTransaction` | | the tree; all or nothing | not begun |
| 11 | `GoalHost` | the host that retries control operations on a `Continuation` | | not begun |

Runs: one per component with all its operations and one fault of each kind it
handles, a second one with liveness and fewer operations where the first is too
large for it, and one for each disagreement met on the way. The team, the
workflow and the model call share no state with each other, and are checked as
scenarios of one run, `engines`.

Theorems: first of each component its type invariant and the safety properties
its inductive invariant gives, then refinements. Section 5 says which are proved
and which are left.

## 3. What is modelled

### 3.1 Continuation

`ContinuationRecords` holds the pure part: what a record is, which records
`validateRecord` admits (`ValidRecord`), and the record each transition computes
(`Started`, `WorkOutcome`, `DecisionOutcome`, `Recovered`, `Limited`, `Applied`
for the control operations), with what each operation demands of the record it
loaded (`Permitted`, `AlreadyDone`).

`Continuation` is the engine. `rec` is the latest durable record of one execution
(executions share nothing: store and slot are keyed by ID), `deliveries` what the
history says of signals, `active` the slot `Engine.active[id]`, and `call` the
frame of each goroutine that is in an operation. An operation of the code is a
sequence of steps here, split where the code touches the store or the slot; these
are the points at which another goroutine can act. `Advance` is `Admit`, `Load`,
`Orphan`, `Recover`, `Limit`, `Reserve`, `Start`, `Stage`, `Finish`, `Commit`,
`Settle`, `Handoff`, `Release`; a control operation is `Load`, `Orphan`,
`Recover`, `Write`, `CancelActive`; a signal adds `Dedupe` and `Recheck`. A
write (`CAS`) conflicts, finds the journal full, is refused by validation, or
fails before or after the record is durable. `Crash` empties the slot and the
frames and keeps the record.

Reasons, evidence, payloads, timestamps, tokens, cost and durations are left out:
turns stand for every cumulative usage, and the deadline is an event.

`ContinuationLifecycle` is the life cycle the documentation draws, over what a
host can see: status, phase, whether the work is partial or whole, where a
suspended execution resumes, and which stage runs. It has no journal, no callers
and no conflicts. `ImplementsLifecycle` is the refinement.

### 3.2 Tool batch

`ToolBatch` is one batch: the gate decides how many calls are run and which are
denied; the walker starts them in order, parallel ones as workers that need a
slot of the semaphore, serial ones after a barrier, and forwards progress and
completions from two channels; the consumer may stop at any event and the context
may end at any time. `outcome[i]` is the result slot that another goroutine
writes, `life[i]` what the consumer was told. `ToolTurn` is the promise to the
tools: those answered are a prefix, a serial tool executes alone, at most
`ParallelTools` execute, a denied call never does, and all are answered at the end.

### 3.3 Agent run

`AgentRun` is the loop over a session with several callers. Each action is one
access to the session under its lock with the loop's local work up to the next
one: `Begin`, `Open` (guardrails and input), `Poll`, `Turn`, `Inject` (one drained
message each), `Call`, `ModelReturns`, `Retry`, `Tools`, `Decide`,
`DrainSteering`, `DrainFollowUps`, `Leave`. `ModelReturns` takes the model call,
the output guardrails and the candidate's evaluation together, since nothing
between them touches the session. A context that ends, a failing hook and a
failing model are the free alternative `Fail` where the code checks; a consumer
that stops is `Abandon` at each event. The others' operations are `Send`, `Clear`,
`Resolve`, and `Ask` and `Answer` for `ResolvePending`, which gives up the lock
for its callback.

A call is its position in the history and its index. The code goes by the
provider's ID; providers without IDs get one made of the index of the call
(`ai/gemini/convert.go:506`), so IDs are unique in a message, and what follows
when they repeat across messages is not modelled. `Replace`, usage and JSON are
left out. Of a response the number of its calls, whether it has text that is not
blank and whether the output limit cut it off remain (`LengthTruncated`). What
happens inside `Call` is the subject of `CallTurn`.

### 3.4 Team

`Team` is the record of one team and the commands on it, each an action: what
`Engine.apply` computes from the latest record and swaps in if it still is the
latest. The variable `team` holds status, members, tasks (with assignee, claimant,
dependencies and attempts) and mail. `validateNextRecord` is not a guard but the
property `RecordsValid`, so that an engine that refused a legal command would be
seen. `TaskBoard` is what planners rely on: tasks that wait, are free, are held by
one member, and end; `ImplementsBoard` maps a team to it.

`TeamAttempt` puts `AttemptRuntime.Run` on top. A run claims and starts an attempt,
reads the mailbox, finds or creates the child continuation in another store,
drives it, and commits its outcome as three commands (acknowledge, report,
finish), each with the steps of `apply`: look for the command ID, load, compute,
swap, look again. `child` is the children's store, `ledger` what has been recorded
under the derived command IDs, `run` the frame of each runner, `latest` who holds
the latest revision (revisions are compared for equality only). A runner may stop
at any step, which is a crash or an error, and run again; everyone else's commands
are `Team`'s actions, in between.

### 3.5 Workflow

`Workflow` is one run of a compiled plan, which is a constant: any graph that
`validateGraph` accepts (`GraphAssumption`). `status`, `edge`, `ready`, `paused`,
`passed` and `handled` are the execution's frontier, which a checkpoint keeps;
`work` is the goroutine of each node, `pause` what the execution has been asked to
report, `targets` the interruptions a resumption answers, `saved` the checkpoint.
The loop of `execution.run` is at `top`, where it pauses, ends, reports boundaries
(`RequestBeforeInterrupt`) or launches (`LaunchReady`), or at `select`, where it
takes a completion (`Succeed`, `FailHandled`, `FailRun`, `Interrupt`). `Advance` is
the whole cascade of skips and wakeups, as a fixed point. A composite node shares
one thing with the run while it is invoked, the flag that a failure was handled:
`HandleInside` sets it, and `inside` remembers for which nodes. The host interrupts
(`HostInterrupt`), loses patience (`ForceHostReruns`) or ends the context; the
process crashes; `Resume` goes on from the checkpoint, whatever became of the
execution before, with some of the outstanding interruptions answered. A store may
fail to take a checkpoint and report so with the checkpoint written or not
(`FinishInterrupted`); a node may fail although its policy handles failures, when
the description of the failure cannot be made a value (`FailRun`).

### 3.6 The model call

`CallTurn` is `run.callTurn` over the stream of the retry middleware. A request
streams kinds of content and breaks, or is answered. The middleware repeats a
request that produced nothing (`Repeat`); the loop re-issues one that did
(`Reissue`), from one of two budgets, with the retained text as a prefix or after
retracting the draft, or gives up (`GiveUp`) or the prefix up (`Abandon`). Both
layers draw on one allowance (`ai.RetryAllowance`) when the agent sets one. `draft`
is what the consumer sees, as fragments; the filter that keeps a repeated prefix
from it is the kind `repeated`.

## 4. What the runs show

| run | instance | states | shows |
|-|-|-|-|
| `continuation` | 2 callers, all 11 requests, a journal of 7 records, 1 failed write, 1 crash, 2 attempts and 2 turns allowed | 2,745,773 | the type invariant, eight safety and action properties, the refinement |
| `continuation_waits` | the same with signals, pause and cancel only, a deadline, a journal of 12 records | 488,700 | a signal wakes once, attempts are limited, a request settles |
| `continuation_stale_cancel`, `continuation_signal_retry`, `continuation_limit` | 2 callers, no faults | | three findings |
| `tool_batch` | 3 calls of every kind, 2 slots, a buffer of 1, 2 reports | 375,577 | answers, announcements, the refinement, termination |
| `tool_batch_progress` | 2 calls | | a finding |
| `agent_run` | 2 runners, 2 messages, 2 turns, 1 salvage, 2 calls a response, 2 runs, one message a drain | 1,346,006 | messages are kept, calls answered once, one run at a time |
| `agent_run_follow_up` | 1 runner, 1 message | | a finding |
| `engines` | four scenarios: 2 members and 2 tasks with 2 attempts; 1 runner, 2 members, 1 attempt and 1 foreign message; 7 nodes with 2 at a time; 2 re-issues, 0 or 1 replays and 2 attempts of the middleware | 1,120,057 | records, attempts, dependencies, the refinement to the task board; joins, checkpoints, boundaries, outcomes, progress; budgets and drafts |
| `team_rerun` | 1 runner, 1 task | | a finding |
| `workflow_resume` | the same graph | | a finding |

**Bounds.** *Continuation*: each hazard is a race of one operation against one
other, so two callers meet all of them; seven records hold a create, a work stage
and its outcome, a decision stage and its outcome, and two control operations in
between; twelve hold two waits with their wakeups. `MaxTransitions` is the code's
own limit, so the full journal is also a case. The proofs do not depend on any of
these. *Tool batch*: three calls give every order of serial, parallel and unknown
tools around a barrier, two slots are fewer than the calls, a buffer of one is
full after one report. *Agent run*: two turns spend the one salvage and reach the
turn limit (the code allows two salvages; the bound is `SalvageAttempts`); two
messages make order and loss visible; `DrainAll` FALSE leaves a rest in the queue,
which TRUE cannot. `CHECK_DEADLOCK FALSE` in its runs because runs and messages
are bounded: when both are spent and nothing is open, nobody has anything to do.
Runners and messages, and callers where no liveness is checked, are symmetric.

*Engines*: the scenario is chosen in the initial state and the others stand still,
so the states are the sum, not the product. Two tasks make a dependency, a retry
and a busy member; a second attempt makes a late result of the first one visible;
one foreign message is enough to move the mailbox between a completion and its
repetition. `ConflictLimit` is 2 where `attemptCompletionConflictLimit` is 32. The
graph has two branches that join, a third with an error route of its own that
meets them, a composite node, nodes that interrupt themselves, a boundary before
one node and one behind another; two nodes at a time are fewer than the branches
(the invariants have also been checked with one and three). Two re-issues let a
prefix grow twice or be given up and restarted; one replay shared by the two
layers makes them compete for it. `CHECK_DEADLOCK FALSE` in these runs because
teams, runs and turns end.

**Fairness.** `Continuation!Fairness`: a goroutine inside the engine is scheduled,
and a handler whose context was cancelled returns. A handler left alone may run
for ever, and nobody is obliged to start an operation. `RequestSettles` is checked
without failed writes and crashes, and is false with them: after a crash the code
waits for the next `Get` or `Advance`, and after a request whose write failed once
it was durable the stage may run on (see below). `ToolBatch!Fairness`: walker and workers are scheduled, and a
tool whose context ended returns; `BatchEnds` holds only because a consumer that
stops cancels the context (`EmitUncancelled` breaks it).

**Disagreements** (each a run that violates what a document or comment states):

1. `Pause`, `Cancel` and `Fail` cancel whatever stage holds the slot by then, which
   may be a later one nobody asked to stop.
2. A repeated delivery of a signal may be answered with a conflict although the
   signal is in the history.
3. Work that exhausts a limit makes the execution limited before its decision; the
   document promises the decision (a test of the repository expects the code).
4. A tool's progress may be emitted after its completion.
5. A follow-up reaches the model in the middle of an answer that is being continued.
6. A team's completion, repeated after a crash, acknowledges another message under
   the same command ID and is refused for ever.
7. A workflow resumed with some of its interruptions answered, which pauses again
   before it comes to the others, writes a checkpoint that cannot be loaded.

Others were met and have no run. `Session.Append` behind open calls hides them
from the session, and the next run is accepted, although
`docs/agent/tools-control.md:127` refuses runs until every call is resolved;
`OpenCallsStopRuns` exempts exactly those calls (`buried`), and nobody in the
repository appends so. A crash that loses only the final newline of a journal
makes it unreadable (`agent/continuation/jsonl.go:335`); bytes are not modelled.

A `Pause` or `Cancel` whose fsync fails after its append
(`agent/continuation/jsonl.go:202`) is durable, but returns before `cancelActive`
(`control.go:60`). Repeating it finds it already requested (`control.go:27` and
`:395`) and answers with success, so nobody cancels the stage in this process,
although `docs/agent/orchestration-continuation.md:151` says that the engine
cancels the context after it has persisted the request. `RequestIsHeard` exempts
it (`faults = 0`); TLC refutes the invariant without that, and `RequestSettles`
with one failed write.

A `Start` whose fsync fails after its append returns before its Worker runs; the
attempt holds the wakeup, recovery leaves it interrupted, and `RetryWork` opens
another attempt without it (`agent/continuation/control.go:144`). A crash right
behind the start comes to the same. The document promises nothing of the activation
of a retried attempt (`docs/agent/orchestration-continuation.md:157`);
`WakeupReachesWorker` says that nothing but that retry drops the wakeup, and that it
takes a failed write or a crash to come there.

An answer that the output limit cut off, with blank text and no calls, is neither
continued nor reported as truncated (`agent/run.go:482`): the run stops as
`end_turn`, which `agent/stop.go:12` describes as a completed turn and which the
comment at `agent/run.go:434` rules out for any response that was cut off. `TruncatedNeverSucceeds` speaks of
answers with text.

In the team: a claim that was committed before a crash is replayed for an attempt
that has been reassigned since and conflicts (`internal/coding/team_scheduler.go:552`);
with the mailbox at `MaxMessages` an attempt that reports can never finish;
dependents of a cancelled task stay pending, which nothing documents.

In the workflow: a host interrupt that meets an empty queue, followed by handled
failures of all nodes in flight, ends in `scheduler interruption has no context`
(`runner_checkpoint.go:58`, phase `unexplained` of the model) although
`interrupt_host.go:26` calls the interruption resumable. A forced cancellation that reaches a
node in the wait before a retry fails it (`runner_invoke.go:309`), where an invoked
node is run again after the resumption.

In the model call: a context that ends while the turn waits to continue a prefix
leaves the draft live (`agent/run.go:825`), though the comment of `reportAbandoned`
says that a turn that gives up must not; `DraftSettled` exempts it, as it does a
continuation that streams a tool call and breaks, whose text is neither retained
nor retracted, though `agent/agent.go:264` says that a turn with calls is
discarded. When attempts are retracted and the last one produces nothing,
`CandidateIncomplete` reports text of a retracted attempt.

## 5. What is proved

For every value of the constants that satisfies the named assumptions
(`RecordsAssumption`, `ConstantsAssumption`, `BatchAssumption`, `RunAssumption`,
`TeamAssumption`, `AttemptAssumption`, `GraphAssumption`, `BudgetAssumption`: limits
are numbers, the free slot is not a caller, a batch has calls, a run may take a
turn, there is a task to run). Callers, signals, runners, members, tasks and
messages may be any sets, infinite ones included. Every invariant, action property
and refinement that a passing run checks is the statement of a theorem.

**`ContinuationProofs`**: `TypeCorrect`, `StageOwnership`, `AttemptsAreLimited`,
`SignalsWakeOnce`, `IntentsAreHonoured`, from the invariant `IInv`.

- *Why an invariant.* `StageOwnsRecord` is not inductive: it must be known that
  only the slot's holder executes (`Slot`), that a compare-and-swap that succeeds
  writes over the very record its caller computed from (`Fresh`), and that what was
  checked of it when it was loaded therefore still holds (`Checked`). Recovery is
  the delicate case: it acts on an active record while the slot was free, so
  while its record is still the latest, no stage may be executing
  (`RecoversAlone`): any start would have written a revision.
- `AttemptsWithinLimit` follows since `Limit` was passed with the record that
  `Start` replaces. `SignalOnce` needs `Undelivered`: whoever is about to write a
  delivery has a record, or expects a revision, in whose history it is missing.
- The steps are first reduced to what they do to the record (`Transitions`) and to
  the frame of their caller (`Edges`); each part of the invariant then has one
  lemma.

**`ContinuationRecordProofs`**: `NothingIsRefused`, `ReconciliationsAreFew`,
`OnlyCompleteWorkIsJudged`, `NoWorkIsRerunSilently`, `WorkIsChargedOnce`,
`WakeupsReachTheWorker`, `RequestsAreHeard` and `LifecycleIsImplemented`, from the
invariant `RInv` (`RecordsInductive`), which builds on `IInv`.

- `Coherent` says of one record what the engine, unlike `validateRecord`, takes care
  of: what is open, what was saved of it and where it is to go on fit together.
  Each transition yields a coherent record from a coherent one (the lemmas up to
  `OutcomeCoherent`), and a coherent record passes validation (`CoherentValid`).
  A caller computes from a record that may be stale; it was the latest once and
  coherent then, so nothing is ever refused.
- `OutcomeFits`: an outcome is of the phase of the record it will be applied to, and
  that record is active. Without it `Outcome` could be asked for what it does not
  define.
- `ReconciliationsAreFew` needs an argument about who can make `finishStage` load
  again. While a stage executes, another caller's write is a stronger request
  (`OthersRequest`): pause, then cancel, then fail. So each round after the first is
  paid for by a higher `Rank` of the status, of which there are three (`TriesPaid`).
- The action properties are read off `RecordSteps`: the five things a write can do
  to attempt, evidence, turns and wakeup.
- `WakeupsReachTheWorker` needs more: that an attempt whose Worker has not returned
  is out of the reach of `RetryWork` while nothing has gone wrong (`Attended`): its
  status is active, some caller executes its stage (`StageEnds`, `StartRuns`), and so
  nobody recovers it (`RecoversAlone`). Where a write has failed or a process died it
  is not so, and the theorem says only that an explicit `RetryWork` is needed.
  `ConstantsAssumption` therefore asks that `finishStage` may load more than four
  times (16 in the code): with fewer it would give up, and leave a stage without one.
- `RequestsAreHeard` is what `RequestSettles` needs of the state: a request that is
  stored has cancelled the stage that runs, or its caller is at `cancelActive`. A
  stage can only start from a ready record, so none starts in between.
- `LifecycleIsImplemented` goes by who executes: nobody (`QuietStep`), the caller
  that moves (`ExecutingStep`), another one (`BesideStep`, where only a stronger
  request may change the record). What a control operation writes is one of the
  host's calls (`CalledStep`).

**`ToolBatchProofs`**: `TypeCorrect`, `AllAnswered`, `AnnouncedStays`,
`TurnImplemented` and `BatchNeverStuck`, for any calls, slots, buffer and reports (`BatchAssumption`).

- The invariant speaks of the calls the walker has reached (`Behind`), those it has
  not (`Ahead`) and what ties workers to channel and counter: `inflight` is the
  workers not yet exited and those in the channel (`Counted`), each of them there
  once (`Booked`). It stays below the index of the present call, so the channel, as
  long as the batch, never fills and no worker waits for the walker.
- `Announced` is what `AnnouncedResultIsFinal` needs: a call that is open, in a worker,
  in the channel or in the walker's hands, has not been announced, and only open
  calls get or change a result.
- `TurnImplemented`: with nothing in flight no worker runs, so a serial tool that
  starts finds every earlier call answered (`TurnExecutes`); while a parallel one
  executes something is in flight, so the walker is at no serial tool.
- `BatchNeverStuck`: a full semaphore holds a worker that can go on, and what is in
  flight at a barrier is in the channel or in a worker (`Counted`), so walker and
  workers never wait for one another; and a consumer that stopped has ended the
  context. `WalkerReady` and `ToolReady` spell out when the actions are enabled; TLC
  has compared them with ENABLED on the instance of the run.

**`AgentRunProofs`**: `TypeCorrect`, `OneResultPerCall`, `TruncationReported`,
`SessionExclusive`, `OpenCallsHeldBack`, from the invariant `IInv`, and
`MessagesNeverLost`.

- `Holder`: the session's flag and the one run in the loop. `TurnLeft`: the turn
  limit was checked wherever another turn may follow, with which the types are
  inductive. `Whole`: a cut answer with text on its way to `end_turn` is
  being continued.
- `OneResultPerCall` needs `Executing`: the calls a run executes are in the history,
  unanswered. It holds since resolving requires that no run is active, and the
  resolver's stale list is compared with the pending calls under the lock.
- `OpenCallsHeldBack` needs `OpenFound` and `OpenHeld`. The session looks for open
  calls behind the trailing tool messages only; that it finds all that nobody has
  buried is an invariant of what may be appended after a call (`HistoryStep`), and
  what makes `Begin`'s check enough.
- The lemmas on `Pending` and `OpenCalls` say what appending a message of each
  role does to them.
- `MessagesNeverLost` counts the places a message is in, so its invariant `Kept` first
  says the same without numbers: each message is in one of six stores (not yet sent,
  given up, the two queues, drained by a run, told to the model) and in no other
  (`InOneStore`), no queue and no history has one twice, and only a run at `turn` or
  `inject` has drained messages (`Pendings`), which by `SessionExclusive` is one run.
  A step moves messages between two stores at most, and each kind of move has its
  lemma (`QuietMoves`, `DrainMoves`, `TurnMoves`, `InjectMoves`, `OpenMoves`,
  `BeginMoves`, `SendMoves`, `ClearMoves`); the count of one follows
  (`CountedOnce`).

**`TeamProofs`**: `TypeCorrect`, `ValidRecords`, `DependenciesHonoured`,
`FirstResultWins`, `BoardImplemented`, for any members, tasks and limits
(`TeamAssumption`).

- `ValidRecords` is nearly inductive by itself, as the validation of a durable
  record should be: every command has one lemma that it keeps the tasks it does not
  touch valid and makes the one it does touch valid. What it lacks is what the
  validation does not ask for: that only the last attempt of a running task runs and
  a task that waits has not been attempted (`Settled`), that there is nothing in a
  team not yet created (`NothingYet`), and `DependenciesFirst` itself.
- `FirstResultWins` is an action property: an attempt that has ended is never the
  running last one that `FinishTaskAttempt` and `CancelTask` close.
- `BoardImplemented` takes each command to a step of the board. The delicate ones
  are those that end a task, where others are freed in the same step: the set
  `promoteReadyTasks` makes ready is the set whose needs are now met.

**`TeamAttemptProofs`**: `AttemptTypeCorrect`, `ChildrenHaveAttempts`,
`FinishComesLast` and `AttemptsAreCommands`, from the invariant `AInv`
(`AttemptsInductive`), for any runners (`AttemptAssumption`; a task exists, since
the frame of a runner at rest names an attempt).

- What a run has seen to be so stays so, whatever the other runners, the host's
  commands and crashes do meanwhile: an attempt that began is not forgotten
  and its outcome is final (`BeganStays`), the report of an attempt remains the only
  message under its ID, a child's outcome does not change, the ledger only grows
  (`OnwardKeeps`). So what each place in the code relies on (`RunnerFits`) survives
  everyone else's steps, and is left to prove for the runner that moves.
- `LedgerTrue` is why a repeated command may be answered from the ledger alone: under
  the ID of an attempt it holds a command only when its effect is in the team.
  `FinishIsLast` follows, since a run comes to `finish` past its report.
- `AttemptsAreCommands` is `AttemptSpec => Spec`: whatever the runtime does, what
  happens to the team is a command of `Team` with its guard or nothing, also when
  the swap of a retried command succeeds long after it was computed (`SwapStep`).
  Therefore every theorem of `TeamProofs` holds of teams driven by runs
  (`RunsKeepTheTeam`).

**`WorkflowProofs`**: `TypeCorrect`, `JoinsHold`, `FinishedNodesStay`,
`CheckpointsValid`, `BoundariesRespected`, `OutcomesTrue`, from the invariant
`IInv`, and `NeverStuck`, for any plan that satisfies `GraphAssumption`.

- What advance does to nodes and edges is one lemma (`AdvanceMoves`): a dead node is
  reached by skipped edges only, an awake one by settled edges, and what was settled
  stays. `Working` ties nodes, queue and goroutines, `Resumable` says the same of
  the checkpoint, and `Told` what the host knows while no pause is due, without
  which `BoundariesHold` is not inductive: a boundary seen in one step forbids
  launches in later ones. `OutcomesTrue` needs that the flag, the exceptions and the
  composite nodes in which a failure was handled agree, in the run and in the
  checkpoint (`Coherent`, `Insides`), since the flag outlives the node that set it.
- `NeverStuck` needs three more: `Started`, `Single` (one node at a time leaves one
  interruption at most) and `Busy`: an execution that is not about to pause has
  what it waits for in its queue, nothing is left for advance, and when a node waits
  unanswered there is other work, as much as fits. Were the scheduler stuck, no node
  would be ready, invoked or waiting; then some are pending, and a first one of
  those in the order of the graph has only settled edges, so advance would have
  woken or skipped it (`QuietIsDone`).

**`CallTurnProofs`**: `BudgetsHold` and `DraftsSettle`. The invariant counts the
streams opened and the repetitions inside each against the three budgets
(`BudgetsHold` when the allowance is shared, the product when it is not), and says
of each fragment in the draft which request it is from and why it is still there:
it is in the prefix, or of the present request, or behind a call that broke.

TLC checks the same invariants as part of the runs or, for the strengthenings,
has checked them on the same instances before they were proved.

**Only model-checked**: the liveness properties `RequestSettles` and `BatchEnds`,
since fairness and ENABLED are beyond the prover; `RequestsAreHeard` and
`BatchNeverStuck` prove what they need of the state. The runs that show a
disagreement are counterexamples and need no proof.

## 6. What is not modelled

- Payloads, texts, reasons, token counts, cost, clocks: no property depends on
  them; where a limit does, turns stand for the rest.
- The bytes of journals and the repair of a torn tail, file and path locks: the
  engine sees a compare-and-swap with failures, which is what is modelled.
- `Drive`, goal and loop controllers: they call the engine, and their histories
  are among those of callers that do anything.
- The inside of composite workflow nodes (batches, loops, subworkflows), partial
  runs and node debugging: a composite node completes, fails or pauses as a whole,
  and may set the run's flag that a failure was handled before it does.
- Two resumptions of one workflow run at the same time: `Resume` takes no lock in the
  code, and the model resumes one at a time.
- Two processes over one team: admission (`internal/coding/team_admission.go:688`)
  and resumption (`team_resume.go:136`) both take the team's exclusive lease before
  workers start, and a coordinator gives it back after its owners have ended, so
  there is one engine over a team's files at a time.
- What the plan has not begun: subagents, approvals, background tasks, the event
  hub, the session tree and journals, the coding runtime; providers, rendering,
  sandboxes and assembly are external or without a protocol. `PROJECT.json` gives
  the reason for each component.
