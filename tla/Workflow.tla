------------------------------ MODULE Workflow ------------------------------
(***************************************************************************)
(* The workflow runner (workflow): one run of a compiled plan, its         *)
(* scheduler, the goroutines that invoke nodes, the interruptions that     *)
(* pause it, and the checkpoint it is resumed from.                        *)
(*                                                                         *)
(* execution.run is a loop over one event at a time: what it decides at    *)
(* the top of the loop and what it does with an event are actions of their *)
(* own, and the goroutines, the host and the end of the process come in    *)
(* between.  A goroutine's last step and the receipt of its completion are *)
(* one action, since nobody looks at a completion in the channel.          *)
(*                                                                         *)
(* Left out: values, bindings and schemas (a node whose inputs cannot be   *)
(* resolved is one that fails), the number of attempts and steps (a node   *)
(* may fail for any reason at any attempt), the order of the ready queue   *)
(* (any ready node may be the next), and what goes on inside a composite   *)
(* node, which completes, fails or pauses as the executor of its child     *)
(* does, but for the one thing a child shares with the run: the flag that  *)
(* a failure was handled.  A node has one dynamic interruption outstanding *)
(* at most.                                                                *)
(***************************************************************************)
EXTENDS Naturals, FiniteSets

CONSTANTS
    Nodes, Start, End,
    Edges,              \* records [from, to, route]
    Routes,
    Policy,             \* what an exhausted failure of each node does
    Composite,          \* nodes that run plans of their own
    Interruptible,      \* nodes whose executors may interrupt themselves
    Before, After,      \* boundaries the plan is compiled with
    MaxConcurrency      \* Limits.MaxConcurrency

Out == [n \in Nodes |-> {e \in Edges : e.from = n}]
In == [n \in Nodes |-> {e \in Edges : e.to = n}]

(* validateGraph: a DAG from Start to End, error edges where they are due. *)
ASSUME GraphAssumption ==
    /\ IsFiniteSet(Nodes) /\ Start \in Nodes /\ End \in Nodes /\ Start # End
    /\ Edges \subseteq [from : Nodes, to : Nodes, route : Routes]
    /\ \A n \in Nodes : In[n] = {} <=> n = Start
    /\ \A n \in Nodes : Out[n] = {} <=> n = End
    /\ \A S \in (SUBSET Nodes) \ {{}} : \E n \in S : \A e \in In[n] : e.from \notin S
    /\ Policy \in [Nodes -> {"stop", "route_error", "continue_with_default"}]
    /\ \A n \in Nodes : (\E e \in Out[n] : e.route = "error") <=> Policy[n] = "route_error"
    /\ Composite \subseteq Nodes /\ Interruptible \subseteq Nodes
    /\ Before \subseteq Nodes /\ After \subseteq Nodes
    /\ MaxConcurrency \in Nat \ {0}

VARIABLES
    phase,      \* where the process of the run is
    status,     \* of each node
    edge,       \* state of each edge
    ready,      \* nodes to launch
    paused,     \* why a node that is to be resumed was paused
    passed,     \* nodes whose before-boundary has been reported
    handled,    \* a failure was handled
    inside,     \* history: the composite nodes in which one was
    work,       \* the goroutine of each node
    forced,     \* invocations the host cancelled to run them again
    pause,      \* what asked the execution to pause
    targets,    \* dynamic interruptions this execution was resumed with
    saved       \* the checkpoint in the store

volatile == <<work, forced, pause, targets>>
frontier == <<status, edge, ready, paused, passed, handled, inside>>
flowVars == <<phase, frontier, volatile, saved>>

NodeStatuses == {"pending", "ready", "running", "succeeded", "exception",
                 "failed", "skipped", "interrupted"}
EdgeStates == {"pending", "taken", "skipped"}
Reasons == {"none", "dynamic", "nested", "rerun"}
Phases == {"new", "top", "select", "interrupted", "succeeded", "partial",
           "failed", "stuck", "unexplained", "canceled", "crashed"}

Pause == [wanted : BOOLEAN, host : BOOLEAN, contexts : SUBSET Nodes, addressed : BOOLEAN]
NoPause == [wanted |-> FALSE, host |-> FALSE, contexts |-> {}, addressed |-> FALSE]

Checkpoint == [status : [Nodes -> NodeStatuses], edge : [Edges -> EdgeStates],
               ready : SUBSET Nodes, paused : [Nodes -> Reasons],
               passed : SUBSET Nodes, handled : BOOLEAN, inside : SUBSET Nodes,
               contexts : SUBSET Nodes]
NoCheckpoint == <<>>

Alive == phase \in {"top", "select"}
Inflight == {n \in Nodes : work[n] # "none"}
Done(st) == {n \in Nodes : st[n] \in {"succeeded", "exception", "failed", "skipped"}}

(* The next event is awaited: at select, or on the way to it.              *)
Waiting == phase = "select" \/ (phase = "top" /\ pause.wanted /\ Inflight # {})

Wanted(addressed) == [pause EXCEPT !.wanted = TRUE, !.addressed = pause.addressed \/ addressed]

-----------------------------------------------------------------------------
(* resolveOutgoing, and advance with the skips it cascades.                *)

Resolved(n, route) ==
    [e \in Edges |-> IF e.from # n THEN edge[e]
                     ELSE IF e.route = route THEN "taken" ELSE "skipped"]

(* The pending nodes no taken edge can reach any more.                     *)
Dead(st, ed) ==
    UNION {S \in SUBSET {n \in Nodes \ {Start} : st[n] = "pending"} :
              \A n \in S : \A e \in In[n] : ed[e] = "skipped" \/ e.from \in S}

(* Mutant: a node is ready as soon as one branch has reached it.           *)
AwakeEarly(st, ed) ==
    {n \in Nodes \ {Start} : st[n] = "pending" /\ \E e \in In[n] : ed[e] = "taken"}

(* The pending nodes whose branches have all come to an end, one of them   *)
(* here.                                                                   *)
Awake(st, ed) ==
    {n \in Nodes \ {Start} :
        st[n] = "pending" /\ (\A e \in In[n] : ed[e] # "pending")
                          /\ \E e \in In[n] : ed[e] = "taken"}

Advance(st, ed, queue) ==
    LET dead == Dead(st, ed)
        settled == [e \in Edges |-> IF e.from \in dead THEN "skipped" ELSE ed[e]]
        awake == Awake(st, settled)
    IN /\ edge' = settled
       /\ status' = [n \in Nodes |-> IF n \in dead THEN "skipped"
                                     ELSE IF n \in awake THEN "ready" ELSE st[n]]
       /\ ready' = queue \cup awake

-----------------------------------------------------------------------------
(* The end of an execution.                                                *)

Stopped == work' = [n \in Nodes |-> "none"] /\ forced' = {}

(* drain waits for the goroutines and records what they came to; nothing   *)
(* follows from it any more.                                               *)
Drained(st, waiting) ==
    \E S \in SUBSET waiting :
        status' = [n \in Nodes |-> IF n \in S THEN "succeeded"
                                   ELSE IF n \in waiting THEN "failed" ELSE st[n]]

(* Mutant: interrupted nodes wait in the frontier too.                     *)
FrontierWithPaused(contexts) ==
    [status |-> status, edge |-> edge, ready |-> ready, paused |-> paused,
     passed |-> passed, handled |-> handled, inside |-> inside, contexts |-> contexts]

(* Mutant: handled failures are not remembered.                            *)
FrontierForgets(contexts) ==
    [status |-> status, edge |-> edge,
     ready |-> {n \in ready : paused[n] = "none"}, paused |-> paused,
     passed |-> passed, handled |-> FALSE, inside |-> inside, contexts |-> contexts]

(* The checkpoint of an execution, with the interruptions it reports.      *)
Frontier(contexts) ==
    [status |-> status, edge |-> edge,
     ready |-> {n \in ready : paused[n] = "none"}, paused |-> paused,
     passed |-> passed, handled |-> handled, inside |-> inside, contexts |-> contexts]

(* finishInterrupted; the store may fail, with the checkpoint written or   *)
(* not.                                                                    *)
FinishInterrupted ==
    /\ phase = "top" /\ pause.wanted /\ Inflight = {}
    /\ \/ /\ pause.contexts = {} /\ ~pause.addressed
          /\ phase' = "unexplained"
          /\ UNCHANGED saved
       \/ /\ pause.contexts # {} \/ pause.addressed
          /\ \/ phase' \in {"interrupted", "failed"} /\ saved' = Frontier(pause.contexts)
             \/ phase' = "failed" /\ UNCHANGED saved
    /\ UNCHANGED <<frontier, volatile>>

FinishSucceeded ==
    /\ phase = "top"
    /\ ~(pause.wanted /\ Inflight = {})
    /\ Done(status) = Nodes
    /\ phase' = IF handled THEN "partial" ELSE "succeeded"
    /\ UNCHANGED <<frontier, volatile, saved>>

(* The context of the run ends.                                            *)
FinishCanceled ==
    /\ Alive
    /\ phase' = "canceled"
    /\ Drained(status, Inflight)
    /\ Stopped
    /\ UNCHANGED <<edge, ready, paused, passed, handled, inside, pause, targets, saved>>

Crash ==
    /\ Alive
    /\ phase' = "crashed"
    /\ Stopped
    /\ UNCHANGED <<frontier, pause, targets, saved>>

-----------------------------------------------------------------------------
(* The top of the loop.                                                    *)

Unreported == (ready \cap Before) \ passed
Launching == phase = "top" /\ ~pause.wanted /\ Done(status) # Nodes

RequestBeforeInterrupt ==
    /\ Launching
    /\ Unreported # {}
    /\ passed' = passed \cup Unreported
    /\ pause' = Wanted(TRUE)
    /\ UNCHANGED <<phase, status, edge, ready, paused, handled, inside, work, forced, targets, saved>>

(* Mutant: answers are not looked up.                                      *)
UnansweredAll == {n \in ready : paused[n] = "dynamic"}

(* A node with a dynamic interruption nobody answered is not invoked: its  *)
(* interruption is reported again.                                         *)
Unanswered == {n \in ready : paused[n] = "dynamic" /\ n \notin targets}

(* Mutant: one invocation too many.                                        *)
FitsOneMore(running) == Cardinality(running) <= MaxConcurrency + 1

Fits(running) == Cardinality(running) <= MaxConcurrency

(* launchReady takes ready nodes until there are none or the limit is met. *)
LaunchReady ==
    /\ Launching
    /\ Unreported = {}
    /\ \E L \in SUBSET (ready \ Unanswered), R \in SUBSET Unanswered :
          LET running == Inflight \cup L IN
          /\ Fits(running)
          /\ Cardinality(running) >= MaxConcurrency \/ L \cup R = ready
          /\ phase' = IF running = {} THEN "stuck" ELSE "select"
          /\ ready' = ready \ (L \cup R)
          /\ status' = [n \in Nodes |-> IF n \in L THEN "running" ELSE status[n]]
          /\ paused' = [n \in Nodes |-> IF n \in L THEN "none" ELSE paused[n]]
          /\ work' = [n \in Nodes |-> IF n \in L THEN "invoking" ELSE work[n]]
          /\ pause' = IF R = {} THEN pause
                      ELSE [Wanted(FALSE) EXCEPT !.contexts = pause.contexts \cup R]
    /\ UNCHANGED <<edge, passed, handled, inside, forced, targets, saved>>

-----------------------------------------------------------------------------
(* Completions.                                                            *)

Received(n) ==
    /\ work' = [work EXCEPT ![n] = "none"]
    /\ forced' = forced \ {n}
    /\ UNCHANGED <<targets, saved>>

(* advance is left for the resumed execution when this one pauses.         *)
Proceeding(st, ed) ==
    IF pause'.wanted THEN status' = st /\ edge' = ed /\ UNCHANGED ready
    ELSE Advance(st, ed, ready)

(* Mutant: the boundary behind a node is not seen.                         *)
PauseAfterHost(n) == IF pause.host THEN Wanted(TRUE) ELSE pause

PauseAfter(n) == IF n \in After \/ pause.host THEN Wanted(TRUE) ELSE pause

Succeed(n, route) ==
    /\ Waiting
    /\ work[n] = "invoking"
    /\ Out[n] # {} => \E e \in Out[n] : e.route = route /\ route # "error"
    /\ phase' = "top"
    /\ passed' = passed \ {n}
    /\ pause' = PauseAfter(n)
    /\ Proceeding([status EXCEPT ![n] = "succeeded"], Resolved(n, route))
    /\ Received(n)
    /\ UNCHANGED <<paused, handled, inside>>

(* A failed attempt that is not the last is repeated after a while.  While *)
(* it waits, the host's cancellation is taken for any other.               *)
Retry(n) ==
    /\ Alive
    /\ \/ work[n] = "invoking" /\ n \notin forced /\ work' = [work EXCEPT ![n] = "backoff"]
       \/ work[n] = "backoff" /\ n \notin forced /\ work' = [work EXCEPT ![n] = "invoking"]
    /\ UNCHANGED <<phase, frontier, forced, pause, targets, saved>>

CanFail(n) ==
    /\ Waiting
    /\ \/ work[n] = "invoking"
       \/ work[n] = "backoff" /\ n \in forced

FailHandled(n) ==
    /\ CanFail(n)
    /\ Policy[n] # "stop"
    /\ phase' = "top"
    /\ handled' = TRUE
    /\ pause' = pause
    /\ Proceeding([status EXCEPT ![n] = "exception"],
           Resolved(n, IF Policy[n] = "route_error" THEN "error" ELSE "success"))
    /\ Received(n)
    /\ UNCHANGED <<paused, passed, inside>>

(* The policy has nothing to handle the failure with, or its description   *)
(* cannot be made a value.                                                 *)
FailRun(n) ==
    /\ CanFail(n)
    /\ phase' = "failed"
    /\ Drained([status EXCEPT ![n] = "failed"], Inflight \ {n})
    /\ Stopped
    /\ UNCHANGED <<edge, ready, paused, passed, handled, inside, pause, targets, saved>>

(* The child of a composite node handles a failure, or a batch goes on     *)
(* behind an item that failed: the flag is that of the whole run, whatever *)
(* becomes of the node.                                                    *)
HandleInside(n) ==
    /\ Alive
    /\ n \in Composite /\ work[n] = "invoking"
    /\ handled' = TRUE
    /\ inside' = inside \cup {n}
    /\ UNCHANGED <<phase, status, edge, ready, paused, passed, volatile, saved>>

(* The three ways an invocation pauses: a dynamic interruption of its own  *)
(* or of a descendant, a nested execution that paused without one, and the *)
(* host's cancellation, after which it is run again from its inputs.       *)
Interrupt(n, reason) ==
    /\ Waiting
    /\ work[n] = "invoking"
    /\ \/ reason = "dynamic" /\ n \in Interruptible
       \/ reason = "nested" /\ n \in Composite
       \/ reason = "rerun" /\ n \in forced
    /\ phase' = "top"
    /\ status' = [status EXCEPT ![n] = "interrupted"]
    /\ paused' = [paused EXCEPT ![n] = reason]
    /\ pause' = IF reason = "dynamic"
                THEN [Wanted(FALSE) EXCEPT !.contexts = pause.contexts \cup {n}]
                ELSE Wanted(TRUE)
    /\ Received(n)
    /\ UNCHANGED <<edge, ready, passed, handled, inside>>

-----------------------------------------------------------------------------
(* The host.                                                               *)

(* The signal is noticed; nodes that are ready are reported.               *)
HostInterrupt ==
    /\ Alive
    /\ ~pause.host
    /\ pause' = [Wanted(ready # {}) EXCEPT !.host = TRUE]
    /\ phase' = "top"
    /\ UNCHANGED <<frontier, work, forced, targets, saved>>

(* The host's patience, if it set a limit to it, is over.                  *)
ForceHostReruns ==
    /\ Alive
    /\ pause.host
    /\ forced = {} /\ Inflight \ Composite # {}
    /\ forced' = Inflight \ Composite
    /\ UNCHANGED <<phase, frontier, work, pause, targets, saved>>

Run ==
    /\ phase = "new"
    /\ phase' = "top"
    /\ status' = [status EXCEPT ![Start] = "ready"]
    /\ ready' = {Start}
    /\ UNCHANGED <<edge, paused, passed, handled, inside, volatile, saved>>

(* validateCheckpointDynamicAlignment: the interruptions a checkpoint      *)
(* reports are those its paused nodes wait for.                            *)
Aligned(c) == c.contexts = {n \in Nodes : c.paused[n] = "dynamic"}

(* Mutant: whatever was started before is launched again.                  *)
RestoredStarted(c) == {n \in Nodes : c.status[n] \notin {"pending", "skipped"}}

Restored(c) == c.ready \cup {n \in Nodes : c.paused[n] # "none"}

(* Resume, at least one outstanding interruption answered: the execution   *)
(* is restored and advanced.  A run may be resumed as long as its          *)
(* checkpoint is there, whatever became of the execution before.           *)
Resume(T) ==
    /\ ~Alive
    /\ saved # NoCheckpoint
    /\ Aligned(saved)
    /\ saved.contexts # {} => T # {}
    /\ T \subseteq saved.contexts
    /\ phase' = "top"
    /\ targets' = T
    /\ pause' = NoPause
    /\ paused' = saved.paused /\ passed' = saved.passed /\ handled' = saved.handled
    /\ inside' = saved.inside
    /\ Advance(saved.status, saved.edge, Restored(saved))
    /\ Stopped
    /\ UNCHANGED saved

FlowInit ==
    /\ phase = "new"
    /\ status = [n \in Nodes |-> "pending"]
    /\ edge = [e \in Edges |-> "pending"]
    /\ ready = {} /\ passed = {} /\ forced = {} /\ targets = {}
    /\ paused = [n \in Nodes |-> "none"]
    /\ work = [n \in Nodes |-> "none"]
    /\ handled = FALSE /\ inside = {}
    /\ pause = NoPause
    /\ saved = NoCheckpoint

FlowNext ==
    \/ Run \/ (\E T \in SUBSET Nodes : Resume(T))
    \/ FinishInterrupted \/ FinishSucceeded \/ FinishCanceled \/ Crash
    \/ RequestBeforeInterrupt \/ LaunchReady
    \/ HostInterrupt \/ ForceHostReruns
    \/ \E n \in Nodes :
          \/ \E route \in Routes : Succeed(n, route)
          \/ Retry(n) \/ FailHandled(n) \/ FailRun(n) \/ HandleInside(n)
          \/ \E reason \in Reasons \ {"none"} : Interrupt(n, reason)

FlowSpec == FlowInit /\ [][FlowNext]_flowVars

-----------------------------------------------------------------------------
FlowTypeOK ==
    /\ phase \in Phases
    /\ status \in [Nodes -> NodeStatuses]
    /\ edge \in [Edges -> EdgeStates]
    /\ ready \subseteq Nodes /\ passed \subseteq Nodes
    /\ forced \subseteq Nodes /\ targets \subseteq Nodes
    /\ paused \in [Nodes -> Reasons]
    /\ handled \in BOOLEAN /\ inside \subseteq Nodes
    /\ work \in [Nodes -> {"none", "invoking", "backoff"}]
    /\ pause \in Pause
    /\ saved \in Checkpoint \cup {NoCheckpoint}
    /\ Cardinality(Inflight) <= MaxConcurrency

(* What the nodes and the edges of a run, or of its checkpoint, say of     *)
(* each other: a node is invoked or finished only when every branch that   *)
(* leads to it has come to its end and one has reached it, it is skipped   *)
(* when none has, and the edges of one route of it are taken when it is    *)
(* finished.                                                               *)
Reached(n, ed) ==
    n = Start \/ ((\A e \in In[n] : ed[e] # "pending") /\ \E e \in In[n] : ed[e] = "taken")
Left(n, ed) ==
    \E route \in Routes \cup {"success"} : \A e \in Out[n] :
        ed[e] = IF e.route = route THEN "taken" ELSE "skipped"

AgreeAt(n, st, ed) ==
    /\ st[n] \notin {"pending", "skipped"} => Reached(n, ed)
    /\ st[n] = "skipped" =>
          n # Start /\ (\A e \in In[n] : ed[e] = "skipped") /\ \A e \in Out[n] : ed[e] = "skipped"
    /\ st[n] \in {"succeeded", "exception"} => Left(n, ed)
    /\ st[n] \notin {"succeeded", "exception", "skipped"} => \A e \in Out[n] : ed[e] = "pending"

Agree(st, ed) == \A n \in Nodes : AgreeAt(n, st, ed)

(* Interruptions, resumptions and crashes do not break the joins.          *)
JoinsAgree ==
    /\ Alive => Agree(status, edge)
    /\ saved # NoCheckpoint => Agree(saved.status, saved.edge)

(* What a checkpoint holds finished stays as it is: no execution resumed   *)
(* from it, whatever became of the ones before, runs a finished node again *)
(* or decides another way.                                                 *)
FinishedStays ==
    saved # NoCheckpoint =>
        /\ \A n \in Done(saved.status) : work[n] = "none" /\ status[n] = saved.status[n]
        /\ \A e \in Edges : saved.edge[e] # "pending" => edge[e] = saved.edge[e]

(* What decodeWorkflowCheckpoint asks of a checkpoint, but for the         *)
(* alignment, holds of every checkpoint finishInterrupted writes: nothing  *)
(* runs, every ready node is in the frontier, every interrupted one has a  *)
(* record and no other has, a pause is reported, and a failure that was    *)
(* handled is known.                                                       *)
CheckpointValid ==
    saved # NoCheckpoint =>
        \A n \in Nodes :
            /\ saved.status[n] # "running"
            /\ saved.status[n] = "ready" <=> n \in saved.ready
            /\ saved.status[n] = "interrupted" <=> saved.paused[n] # "none"
            /\ n \in saved.passed => n \in Before
            /\ saved.status[n] = "exception" \/ n \in saved.inside => saved.handled

(* The scheduler never stands before a run it cannot finish with nothing   *)
(* to launch: its "scheduler made no progress" is unreachable, also when   *)
(* only some of several interruptions are answered.                        *)
SchedulerProgresses == phase # "stuck"

(* A node with a boundary before it is invoked, and a node behind a        *)
(* boundary is, only by an execution resumed from a checkpoint that tells  *)
(* the host of the boundary: boundaries hold across the branches that run  *)
(* beside them.                                                            *)
BoundariesHold ==
    \A n \in Nodes : work[n] # "none" =>
        /\ n \in Before => saved # NoCheckpoint /\ n \in saved.passed
        /\ \A e \in In[n] : e.from \in After /\ status[e.from] = "succeeded" =>
              saved # NoCheckpoint /\ saved.status[e.from] = "succeeded"

(* A run that ends well has run or skipped every node to the end.  It says *)
(* it succeeded only if no failure was handled, and that it succeeded in   *)
(* part only if one was: by the policy of a node, which is an exception    *)
(* now, or inside a composite node, which need not be one; in this         *)
(* execution or before a pause.                                            *)
OutcomeTruthful ==
    phase \in {"succeeded", "partial"} =>
        /\ \A n \in Nodes : status[n] \in {"succeeded", "exception", "skipped"}
        /\ phase = "partial" <=> inside # {} \/ \E n \in Nodes : status[n] = "exception"

(* "InterruptError reports a successfully checkpointed, resumable Run."    *)
(* It does not hold: an execution that pauses before it comes to a node    *)
(* that waits for an answer since an earlier execution does not report the *)
(* node's interruption, and the checkpoint it writes is refused when it is *)
(* loaded.                                                                 *)
InterruptedIsResumable == phase = "interrupted" => Aligned(saved)
=============================================================================
