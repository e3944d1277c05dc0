--------------------------- MODULE WorkflowProofs ---------------------------
(***************************************************************************)
(* Proofs about Workflow, for any plan.                                    *)
(***************************************************************************)
EXTENDS Workflow, FiniteSetTheorems, TLAPS

\* What the parts of a frontier say of each other.
Coherent(st, reasons, reported, failed, within) ==
    /\ \A n \in Nodes : st[n] = "interrupted" <=> reasons[n] # "none"
    /\ \A n \in Nodes : st[n] # "failed"
    /\ failed <=> within # {} \/ \E n \in Nodes : st[n] = "exception"
    /\ reported \subseteq Before

\* A run that has not been started.
Fresh ==
    phase = "new" =>
        /\ status = [n \in Nodes |-> "pending"] /\ edge = [e \in Edges |-> "pending"]
        /\ ready = {} /\ passed = {} /\ handled = FALSE /\ inside = {}
        /\ paused = [n \in Nodes |-> "none"]
        /\ pause = NoPause /\ saved = NoCheckpoint

\* A run that goes on: its goroutines and its queue are those of its nodes.
Working ==
    Alive =>
        /\ Agree(status, edge)
        /\ Coherent(status, paused, passed, handled, inside)
        /\ \A n \in Nodes : status[n] = "running" <=> work[n] # "none"
        /\ \A n \in Nodes : status[n] = "ready" => n \in ready
        /\ \A n \in ready : status[n] \in {"ready", "interrupted"}

Idle == ~Alive => \A n \in Nodes : work[n] = "none"

\* What the host has been told, unless the run is about to tell it.
Told ==
    Alive /\ ~pause.wanted =>
        /\ \A n \in passed : saved # NoCheckpoint /\ n \in saved.passed
        /\ \A n \in After : status[n] = "succeeded" =>
              saved # NoCheckpoint /\ saved.status[n] = "succeeded"

Resumable ==
    saved # NoCheckpoint =>
        /\ Agree(saved.status, saved.edge)
        /\ Coherent(saved.status, saved.paused, saved.passed, saved.handled, saved.inside)

IInv == /\ FlowTypeOK /\ Fresh /\ Working /\ Idle /\ Told /\ Resumable
        /\ FinishedStays /\ CheckpointValid /\ BoundariesHold /\ OutcomeTruthful

-----------------------------------------------------------------------------
(* The graph, and what advance does with it.                               *)

\* Edges join nodes; the edges of a node are those that leave or reach it.
LEMMA EdgeEnds ==
    ASSUME NEW e \in Edges
    PROVE  /\ e.from \in Nodes /\ e.to \in Nodes /\ e.route \in Routes
           /\ e \in Out[e.from] /\ e \in In[e.to]
BY GraphAssumption DEF Out, In

\* An edge of a node is an edge.
LEMMA NodeEdges ==
    ASSUME NEW n \in Nodes
    PROVE  /\ \A e \in Out[n] : e \in Edges /\ e.from = n
           /\ \A e \in In[n] : e \in Edges /\ e.to = n
BY DEF Out, In

\* What a step of the scheduler makes of nodes st and edges ed.
MovedOn(st, ed, queue) ==
    /\ status' \in [Nodes -> NodeStatuses] /\ edge' \in [Edges -> EdgeStates]
    /\ ready' \subseteq Nodes /\ queue \subseteq ready'
    /\ \A n \in Nodes :
          \/ status'[n] = st[n]
          \/ st[n] = "pending" /\ status'[n] = "skipped"
          \/ st[n] = "pending" /\ status'[n] = "ready" /\ n \in ready'
    /\ \A n \in ready' : n \in queue \/ status'[n] = "ready"
    /\ \A e \in Edges : ed[e] # "pending" => edge'[e] = ed[e]

\* The dead nodes are pending, and only they lead to each other.
LEMMA DeadNodes ==
    ASSUME NEW st, NEW ed, NEW n \in Dead(st, ed)
    PROVE  /\ n \in Nodes /\ n # Start /\ st[n] = "pending"
           /\ \A e \in In[n] : ed[e] = "skipped" \/ e.from \in Dead(st, ed)
BY DEF Dead

\* advance keeps the agreement of the joins and changes nothing that is
\* settled.
LEMMA AdvanceMoves ==
    ASSUME NEW st \in [Nodes -> NodeStatuses], NEW ed \in [Edges -> EdgeStates],
           NEW queue \in SUBSET Nodes, Agree(st, ed), Advance(st, ed, queue)
    PROVE  MovedOn(st, ed, queue) /\ Agree(status', edge')
<1> DEFINE dead == Dead(st, ed)
           settled == [e \in Edges |-> IF e.from \in dead THEN "skipped" ELSE ed[e]]
           awake == Awake(st, settled)
<1>1. /\ edge' = settled
      /\ status' = [n \in Nodes |-> IF n \in dead THEN "skipped"
                                    ELSE IF n \in awake THEN "ready" ELSE st[n]]
      /\ ready' = queue \cup awake
  BY DEF Advance
<1>2. \A n \in dead : /\ n \in Nodes /\ n # Start /\ st[n] = "pending"
                      /\ \A e \in In[n] : ed[e] = "skipped" \/ e.from \in dead
  BY DeadNodes
<1>3. \A n \in awake : /\ n \in Nodes /\ n # Start /\ st[n] = "pending"
                       /\ \A e \in In[n] : settled[e] # "pending"
                       /\ \E e \in In[n] : settled[e] = "taken"
  BY DEF Awake
<1> HIDE DEF dead, awake
<1>4. \A e \in Edges : edge'[e] = IF e.from \in dead THEN "skipped" ELSE ed[e]
  BY <1>1
<1>5. \A n \in Nodes : status'[n] = IF n \in dead THEN "skipped"
                                     ELSE IF n \in awake THEN "ready" ELSE st[n]
  BY <1>1
<1>6. \A n \in Nodes : st[n] = "pending" => \A e \in Out[n] : ed[e] = "pending"
  BY DEF Agree, AgreeAt
<1>7. \A e \in Edges : ed[e] # "pending" => edge'[e] = ed[e]
  BY <1>2, <1>4, <1>6, EdgeEnds
<1>8. \A n \in awake : n \notin dead
  BY <1>1, <1>2, <1>3, <1>4, NodeEdges
<1>9. status' \in [Nodes -> NodeStatuses] /\ edge' \in [Edges -> EdgeStates]
  BY <1>1 DEF NodeStatuses, EdgeStates
<1>10. MovedOn(st, ed, queue)
  BY <1>1, <1>2, <1>3, <1>5, <1>7, <1>8, <1>9 DEF MovedOn
<1>11. ASSUME NEW n \in Nodes PROVE AgreeAt(n, status', edge')
  <2>0. AgreeAt(n, st, ed)
    BY DEF Agree
  <2>1. CASE n \in dead
    <3>1. status'[n] = "skipped" /\ n # Start
      BY <1>2, <1>5, <2>1
    <3>2. \A e \in In[n] : edge'[e] = "skipped"
      BY <1>2, <1>4, <2>1, NodeEdges
    <3>3. \A e \in Out[n] : edge'[e] = "skipped"
      BY <1>4, <2>1, NodeEdges
    <3> QED BY <3>1, <3>2, <3>3 DEF AgreeAt
  <2>2. CASE n \in awake
    <3>1. status'[n] = "ready" /\ n \notin dead
      BY <1>5, <1>8, <2>2
    <3>2. Reached(n, edge')
      BY <1>1, <1>3, <2>2 DEF Reached
    <3>3. \A e \in Out[n] : edge'[e] = "pending"
      BY <1>3, <1>4, <1>6, <2>2, <3>1, NodeEdges
    <3> QED BY <3>1, <3>2, <3>3 DEF AgreeAt
  <2>3. CASE n \notin dead /\ n \notin awake
    <3>1. status'[n] = st[n]
      BY <1>5, <2>3
    <3>2. \A e \in Out[n] : edge'[e] = ed[e]
      BY <1>4, <2>3, NodeEdges
    <3>3. Reached(n, ed) => Reached(n, edge')
      BY <1>7, NodeEdges DEF Reached
    <3>4. Left(n, ed) => Left(n, edge')
      BY <3>2 DEF Left
    <3>5. (\A e \in In[n] : ed[e] = "skipped") => \A e \in In[n] : edge'[e] = "skipped"
      BY <1>7, NodeEdges
    <3> QED BY <2>0, <3>1, <3>2, <3>3, <3>4, <3>5 DEF AgreeAt
  <2> QED BY <2>1, <2>2, <2>3
<1> QED BY <1>10, <1>11 DEF Agree

\* A node that finishes decides its edges, and the joins still agree.
LEMMA ResolvedAgrees ==
    ASSUME FlowTypeOK, Agree(status, edge),
           NEW n \in Nodes, status[n] = "running",
           NEW route \in Routes \cup {"success"}, NEW end \in {"succeeded", "exception"}
    PROVE  /\ [status EXCEPT ![n] = end] \in [Nodes -> NodeStatuses]
           /\ Resolved(n, route) \in [Edges -> EdgeStates]
           /\ \A e \in Edges : edge[e] # "pending" => Resolved(n, route)[e] = edge[e]
           /\ Agree([status EXCEPT ![n] = end], Resolved(n, route))
<1> DEFINE st == [status EXCEPT ![n] = end]
           ed == Resolved(n, route)
<1>1. st \in [Nodes -> NodeStatuses] /\ ed \in [Edges -> EdgeStates]
  BY DEF FlowTypeOK, Resolved, NodeStatuses, EdgeStates
<1>2. \A e \in Edges : ed[e] = IF e.from # n THEN edge[e]
                               ELSE IF e.route = route THEN "taken" ELSE "skipped"
  BY DEF Resolved
<1>3. \A m \in Nodes : st[m] = IF m = n THEN end ELSE status[m]
  BY DEF FlowTypeOK
<1> HIDE DEF st, ed
<1>4. \A e \in Edges : edge[e] # "pending" => ed[e] = edge[e]
  <2>1. \A e \in Out[n] : edge[e] = "pending"
    BY DEF Agree, AgreeAt
  <2> QED BY <1>2, <2>1, EdgeEnds
<1>5. ASSUME NEW m \in Nodes PROVE AgreeAt(m, st, ed)
  <2>0. AgreeAt(m, status, edge)
    BY DEF Agree
  <2>1. Reached(m, edge) => Reached(m, ed)
    BY <1>4, NodeEdges DEF Reached
  <2>2. CASE m = n
    <3>1. Left(m, ed)
      BY <1>2, <2>2, NodeEdges DEF Left
    <3> QED BY <1>3, <2>0, <2>1, <2>2, <3>1 DEF AgreeAt
  <2>3. CASE m # n
    <3>1. st[m] = status[m] /\ \A e \in Out[m] : ed[e] = edge[e]
      BY <1>2, <1>3, <2>3, NodeEdges
    <3>2. Left(m, edge) => Left(m, ed)
      BY <3>1 DEF Left
    <3>3. (\A e \in In[m] : edge[e] = "skipped") => \A e \in In[m] : ed[e] = "skipped"
      BY <1>4, NodeEdges
    <3> QED BY <2>0, <2>1, <3>1, <3>2, <3>3 DEF AgreeAt
  <2> QED BY <2>2, <2>3
<1> QED BY <1>1, <1>4, <1>5 DEF Agree, st, ed

\* What follows the end of a node, in this execution or the resumed one.
LEMMA EndMoves ==
    ASSUME FlowTypeOK, Working, Alive,
           NEW n \in Nodes, work[n] # "none",
           NEW route \in Routes \cup {"success"}, NEW end \in {"succeeded", "exception"},
           Proceeding([status EXCEPT ![n] = end], Resolved(n, route))
    PROVE  /\ status' \in [Nodes -> NodeStatuses] /\ edge' \in [Edges -> EdgeStates]
           /\ ready' \subseteq Nodes /\ ready \subseteq ready'
           /\ Agree(status', edge')
           /\ status'[n] = end /\ status[n] = "running"
           /\ \A m \in Nodes \ {n} :
                 \/ status'[m] = status[m]
                 \/ status[m] = "pending" /\ status'[m] = "skipped"
                 \/ status[m] = "pending" /\ status'[m] = "ready" /\ m \in ready'
           /\ \A m \in ready' : m \in ready \/ status'[m] = "ready"
           /\ \A e \in Edges : edge[e] # "pending" => edge'[e] = edge[e]
<1> DEFINE st == [status EXCEPT ![n] = end]
           ed == Resolved(n, route)
<1>1. status[n] = "running" /\ Agree(status, edge)
  BY DEF Working
<1>2. /\ st \in [Nodes -> NodeStatuses] /\ ed \in [Edges -> EdgeStates]
      /\ \A e \in Edges : edge[e] # "pending" => ed[e] = edge[e]
      /\ Agree(st, ed)
  BY <1>1, ResolvedAgrees
<1>3. \A m \in Nodes : st[m] = IF m = n THEN end ELSE status[m]
  BY DEF FlowTypeOK
<1>p. Proceeding(st, ed)
  OBVIOUS
<1> HIDE DEF st, ed
<1>4. MovedOn(st, ed, ready) /\ Agree(status', edge')
  <2>1. CASE pause'.wanted
    <3>1. status' = st /\ edge' = ed /\ ready' = ready
      BY <1>p, <2>1 DEF Proceeding
    <3> QED BY <1>2, <3>1 DEF MovedOn, FlowTypeOK
  <2>2. CASE ~pause'.wanted
    <3>1. Advance(st, ed, ready)
      BY <1>p, <2>2 DEF Proceeding
    <3> QED BY <1>2, <3>1, AdvanceMoves DEF FlowTypeOK
  <2> QED BY <2>1, <2>2
<1>5. /\ status' \in [Nodes -> NodeStatuses] /\ edge' \in [Edges -> EdgeStates]
      /\ ready' \subseteq Nodes /\ ready \subseteq ready'
      /\ \A m \in ready' : m \in ready \/ status'[m] = "ready"
  BY <1>4 DEF MovedOn
<1>6. \A m \in Nodes :
          \/ status'[m] = st[m]
          \/ st[m] = "pending" /\ status'[m] = "skipped"
          \/ st[m] = "pending" /\ status'[m] = "ready" /\ m \in ready'
  BY <1>4 DEF MovedOn
<1>7. \A e \in Edges : edge[e] # "pending" => edge'[e] = edge[e]
  BY <1>2, <1>4 DEF MovedOn
<1> QED BY <1>1, <1>3, <1>4, <1>5, <1>6, <1>7

-----------------------------------------------------------------------------
(* One action at a time.                                                   *)

\* Names the actions of a step.
LEMMA Steps ==
    ASSUME [FlowNext]_flowVars,
           NEW P,
           Run => P, \A T \in SUBSET Nodes : Resume(T) => P,
           FinishInterrupted => P, FinishSucceeded => P, FinishCanceled => P, Crash => P,
           RequestBeforeInterrupt => P, LaunchReady => P,
           HostInterrupt => P, ForceHostReruns => P,
           \A n \in Nodes, route \in Routes : Succeed(n, route) => P,
           \A n \in Nodes : Retry(n) => P,
           \A n \in Nodes : FailHandled(n) => P,
           \A n \in Nodes : FailRun(n) => P,
           \A n \in Nodes : HandleInside(n) => P,
           \A n \in Nodes, reason \in Reasons \ {"none"} : Interrupt(n, reason) => P,
           UNCHANGED flowVars => P
    PROVE  P
BY DEF FlowNext

\* The route of a handled failure is one the plan may have.
LEMMA FailureRoute ==
    ASSUME NEW n \in Nodes
    PROVE  (IF Policy[n] = "route_error" THEN "error" ELSE "success") \in Routes \cup {"success"}
<1>1. Policy[n] = "route_error" => \E e \in Out[n] : e.route = "error"
  BY GraphAssumption
<1> QED BY <1>1, NodeEdges, EdgeEnds

\* What an execution does next, without the queue and the goroutines.
LEMMA Ends ==
    ASSUME FlowTypeOK, Working, NEW n \in Nodes,
           (\E route \in Routes : Succeed(n, route)) \/ FailHandled(n)
    PROVE  /\ Alive /\ Alive' /\ work[n] # "none" /\ status[n] = "running"
           /\ work' = [work EXCEPT ![n] = "none"] /\ forced' = forced \ {n}
           /\ UNCHANGED <<targets, saved, paused, inside>>
           /\ passed' \subseteq passed
           /\ status' \in [Nodes -> NodeStatuses] /\ edge' \in [Edges -> EdgeStates]
           /\ ready' \subseteq Nodes /\ ready \subseteq ready'
           /\ Agree(status', edge')
           /\ \A m \in Nodes \ {n} :
                 \/ status'[m] = status[m]
                 \/ status[m] = "pending" /\ status'[m] = "skipped"
                 \/ status[m] = "pending" /\ status'[m] = "ready" /\ m \in ready'
           /\ \A m \in ready' : m \in ready \/ status'[m] = "ready"
           /\ \A e \in Edges : edge[e] # "pending" => edge'[e] = edge[e]
           /\ \/ status'[n] = "succeeded" /\ handled' = handled /\ pause' = PauseAfter(n)
              \/ status'[n] = "exception" /\ handled' = TRUE /\ pause' = pause
<1>1. ASSUME NEW route \in Routes, Succeed(n, route)
      PROVE  /\ Alive /\ work[n] # "none" /\ phase' = "top" /\ passed' \subseteq passed
             /\ Proceeding([status EXCEPT ![n] = "succeeded"], Resolved(n, route))
             /\ Received(n) /\ UNCHANGED <<paused, handled, inside>> /\ pause' = PauseAfter(n)
  BY <1>1 DEF Succeed, Waiting, Alive
<1>2. CASE \E route \in Routes : Succeed(n, route)
  <2>1. PICK route \in Routes : Succeed(n, route)
    BY <1>2
  <2>2. /\ Alive /\ work[n] # "none" /\ phase' = "top" /\ passed' \subseteq passed
        /\ Proceeding([status EXCEPT ![n] = "succeeded"], Resolved(n, route))
        /\ Received(n) /\ UNCHANGED <<paused, handled, inside>> /\ pause' = PauseAfter(n)
    BY <1>1, <2>1
  <2>3. /\ status' \in [Nodes -> NodeStatuses] /\ edge' \in [Edges -> EdgeStates]
        /\ ready' \subseteq Nodes /\ ready \subseteq ready'
        /\ Agree(status', edge')
        /\ status'[n] = "succeeded" /\ status[n] = "running"
        /\ \A m \in Nodes \ {n} :
                 \/ status'[m] = status[m]
                 \/ status[m] = "pending" /\ status'[m] = "skipped"
                 \/ status[m] = "pending" /\ status'[m] = "ready" /\ m \in ready'
        /\ \A m \in ready' : m \in ready \/ status'[m] = "ready"
        /\ \A e \in Edges : edge[e] # "pending" => edge'[e] = edge[e]
    BY <2>2, EndMoves
  <2> QED BY <2>2, <2>3 DEF Received, Alive
<1>3. CASE FailHandled(n)
  <2>1. /\ Alive /\ work[n] # "none" /\ phase' = "top" /\ passed' = passed
        /\ Received(n) /\ UNCHANGED <<paused, inside>> /\ handled' = TRUE /\ pause' = pause
    BY <1>3 DEF FailHandled, CanFail, Waiting, Alive
  <2> DEFINE route == IF Policy[n] = "route_error" THEN "error" ELSE "success"
  <2>2. route \in Routes \cup {"success"}
    BY FailureRoute
  <2>p. Proceeding([status EXCEPT ![n] = "exception"], Resolved(n, route))
    BY <1>3 DEF FailHandled
  <2> HIDE DEF route
  <2>3. /\ status' \in [Nodes -> NodeStatuses] /\ edge' \in [Edges -> EdgeStates]
        /\ ready' \subseteq Nodes /\ ready \subseteq ready'
        /\ Agree(status', edge')
        /\ status'[n] = "exception" /\ status[n] = "running"
        /\ \A m \in Nodes \ {n} :
                 \/ status'[m] = status[m]
                 \/ status[m] = "pending" /\ status'[m] = "skipped"
                 \/ status[m] = "pending" /\ status'[m] = "ready" /\ m \in ready'
        /\ \A m \in ready' : m \in ready \/ status'[m] = "ready"
        /\ \A e \in Edges : edge[e] # "pending" => edge'[e] = edge[e]
    BY <2>1, <2>2, <2>p, EndMoves
  <2> QED BY <2>1, <2>3 DEF Received, Alive
<1> QED BY <1>2, <1>3

\* A failure handled inside a composite node leaves nothing but the mark.
LEMMA Insides ==
    ASSUME NEW n \in Nodes, HandleInside(n)
    PROVE  /\ Alive /\ Alive' /\ work[n] # "none"
           /\ handled' = TRUE /\ inside' = inside \cup {n}
           /\ UNCHANGED <<phase, status, edge, ready, paused, passed, work, forced, pause, targets, saved>>
BY DEF HandleInside, volatile, Alive

\* A resumed execution takes up the checkpoint where it was left.
LEMMA Resumes ==
    ASSUME FlowTypeOK, Resumable, NEW T \in SUBSET Nodes, Resume(T)
    PROVE  /\ saved # NoCheckpoint /\ saved \in Checkpoint /\ ~Alive /\ Alive'
           /\ MovedOn(saved.status, saved.edge, Restored(saved)) /\ Agree(status', edge')
           /\ pause' = NoPause /\ targets' = T /\ saved' = saved
           /\ paused' = saved.paused /\ passed' = saved.passed
           /\ handled' = saved.handled /\ inside' = saved.inside
           /\ work' = [n \in Nodes |-> "none"] /\ forced' = {}
<1>1. saved # NoCheckpoint /\ saved \in Checkpoint
  BY DEF Resume, FlowTypeOK
<1>2. /\ saved.status \in [Nodes -> NodeStatuses] /\ saved.edge \in [Edges -> EdgeStates]
      /\ Restored(saved) \in SUBSET Nodes
  BY <1>1 DEF Checkpoint, Restored
<1>3. Agree(saved.status, saved.edge) /\ Advance(saved.status, saved.edge, Restored(saved))
  BY <1>1 DEF Resumable, Resume
<1>4. MovedOn(saved.status, saved.edge, Restored(saved)) /\ Agree(status', edge')
  BY <1>2, <1>3, AdvanceMoves
<1> QED BY <1>1, <1>4 DEF Resume, Stopped, Alive

\* The nodes a step of launchReady starts.
LEMMA Launches ==
    ASSUME FlowTypeOK, LaunchReady
    PROVE  \E L \in SUBSET ready :
              /\ Fits(Inflight \cup L)
              /\ Alive /\ ~pause.wanted /\ Unreported = {}
              /\ phase' = IF Inflight \cup L = {} THEN "stuck" ELSE "select"
              /\ ready' \subseteq ready \ L
              /\ \A n \in ready \ ready' : n \in L \/ paused[n] = "dynamic"
              /\ status' = [n \in Nodes |-> IF n \in L THEN "running" ELSE status[n]]
              /\ paused' = [n \in Nodes |-> IF n \in L THEN "none" ELSE paused[n]]
              /\ work' = [n \in Nodes |-> IF n \in L THEN "invoking" ELSE work[n]]
              /\ \/ pause' = pause
                 \/ pause' \in Pause /\ pause'.wanted
              /\ UNCHANGED <<edge, passed, handled, inside, forced, targets, saved>>
<1>1. PICK L \in SUBSET (ready \ Unanswered), R \in SUBSET Unanswered :
          LET running == Inflight \cup L IN
          /\ Fits(running)
          /\ phase' = IF running = {} THEN "stuck" ELSE "select"
          /\ ready' = ready \ (L \cup R)
          /\ status' = [n \in Nodes |-> IF n \in L THEN "running" ELSE status[n]]
          /\ paused' = [n \in Nodes |-> IF n \in L THEN "none" ELSE paused[n]]
          /\ work' = [n \in Nodes |-> IF n \in L THEN "invoking" ELSE work[n]]
          /\ pause' = IF R = {} THEN pause
                      ELSE [Wanted(FALSE) EXCEPT !.contexts = pause.contexts \cup R]
  BY DEF LaunchReady
<1>2. \A n \in R : n \in Nodes /\ paused[n] = "dynamic"
  BY DEF Unanswered, FlowTypeOK
<1>3. pause' = pause \/ (pause' \in Pause /\ pause'.wanted)
  BY <1>1, <1>2 DEF Wanted, FlowTypeOK, Pause
<1>4. /\ Alive /\ ~pause.wanted /\ Unreported = {}
      /\ UNCHANGED <<edge, passed, handled, inside, forced, targets, saved>>
  BY DEF LaunchReady, Launching, Alive
<1> QED BY <1>1, <1>2, <1>3, <1>4

\* No more goroutines, no more of them than the limit.
LEMMA FewerInflight ==
    ASSUME FlowTypeOK, Inflight' \subseteq Inflight
    PROVE  Cardinality(Inflight') <= MaxConcurrency
<1>1. IsFiniteSet(Nodes) /\ MaxConcurrency \in Nat
  BY GraphAssumption
<1>2. Inflight \subseteq Nodes
  BY DEF Inflight
<1>3. IsFiniteSet(Inflight)
  BY <1>1, <1>2, FS_Subset
<1>4. IsFiniteSet(Inflight') /\ Cardinality(Inflight') <= Cardinality(Inflight)
  BY <1>3, FS_Subset
<1>5. Cardinality(Inflight) \in Nat /\ Cardinality(Inflight') \in Nat
  BY <1>3, <1>4, FS_CardinalityType
<1> QED BY <1>1, <1>4, <1>5 DEF FlowTypeOK

\* The type of the variables and the limit of the goroutines are kept.
LEMMA TypeStep ==
    ASSUME FlowTypeOK, Working, Fresh, Resumable, [FlowNext]_flowVars
    PROVE  FlowTypeOK'
<1> DEFINE Small == Cardinality(Inflight') <= MaxConcurrency
<1>a. ASSUME work' = work PROVE Small
  BY <1>a, FewerInflight DEF Inflight
<1>b. ASSUME \A n \in Nodes : work'[n] # "none" => work[n] # "none" PROVE Small
  BY <1>b, FewerInflight DEF Inflight
<1>c. Start \in Nodes
  BY GraphAssumption
<1>w. \A addressed \in BOOLEAN : Wanted(addressed) \in Pause
  BY DEF Wanted, FlowTypeOK, Pause
<1> HIDE DEF Small
<1>1. ASSUME Run PROVE FlowTypeOK'
  <2>1. Small
    BY <1>1, <1>a DEF Run, volatile
  <2> QED BY <1>1, <1>c, <2>1 DEF Run, volatile, FlowTypeOK, Phases, NodeStatuses, Small
<1>2. ASSUME NEW T \in SUBSET Nodes, Resume(T) PROVE FlowTypeOK'
  <2>1. /\ saved \in Checkpoint /\ Alive'
        /\ MovedOn(saved.status, saved.edge, Restored(saved))
        /\ pause' = NoPause /\ targets' = T /\ saved' = saved
        /\ paused' = saved.paused /\ passed' = saved.passed
        /\ handled' = saved.handled /\ inside' = saved.inside
        /\ work' = [n \in Nodes |-> "none"] /\ forced' = {}
    BY <1>2, Resumes
  <2>2. Small
    BY <2>1, <1>b
  <2>3. /\ status' \in [Nodes -> NodeStatuses] /\ edge' \in [Edges -> EdgeStates]
        /\ ready' \subseteq Nodes
    BY <2>1 DEF MovedOn
  <2>4. phase' \in Phases /\ pause' \in Pause
    BY <2>1 DEF Alive, Phases, NoPause, Pause
  <2>5. /\ paused' \in [Nodes -> Reasons] /\ passed' \subseteq Nodes
        /\ handled' \in BOOLEAN /\ inside' \subseteq Nodes
    BY <2>1 DEF Checkpoint
  <2> QED BY <2>1, <2>2, <2>3, <2>4, <2>5 DEF FlowTypeOK, Small
<1>3. ASSUME FinishInterrupted PROVE FlowTypeOK'
  <2>1. Small
    BY <1>3, <1>a DEF FinishInterrupted, volatile
  <2>2. Frontier(pause.contexts) \in Checkpoint
    BY DEF Frontier, Checkpoint, FlowTypeOK, Pause
  <2> QED BY <1>3, <2>1, <2>2 DEF FinishInterrupted, frontier, volatile, FlowTypeOK, Phases, Small
<1>4. ASSUME FinishSucceeded PROVE FlowTypeOK'
  <2>1. Small
    BY <1>4, <1>a DEF FinishSucceeded, volatile
  <2> QED BY <1>4, <2>1 DEF FinishSucceeded, frontier, volatile, FlowTypeOK, Phases, Small
<1>5. ASSUME FinishCanceled PROVE FlowTypeOK'
  <2>1. Small
    BY <1>5, <1>b DEF FinishCanceled, Stopped
  <2> QED BY <1>5, <2>1 DEF FinishCanceled, Stopped, Drained, FlowTypeOK, Phases, NodeStatuses, Small
<1>6. ASSUME Crash PROVE FlowTypeOK'
  <2>1. Small
    BY <1>6, <1>b DEF Crash, Stopped
  <2> QED BY <1>6, <2>1 DEF Crash, Stopped, frontier, FlowTypeOK, Phases, Small
<1>7. ASSUME RequestBeforeInterrupt PROVE FlowTypeOK'
  <2>1. Small
    BY <1>7, <1>a DEF RequestBeforeInterrupt
  <2> QED BY <1>7, <1>w, <2>1 DEF RequestBeforeInterrupt, Unreported, FlowTypeOK, Small
<1>8. ASSUME LaunchReady PROVE FlowTypeOK'
  <2>1. PICK L \in SUBSET ready :
              /\ Fits(Inflight \cup L)
              /\ phase' = IF Inflight \cup L = {} THEN "stuck" ELSE "select"
              /\ ready' \subseteq ready \ L
              /\ status' = [n \in Nodes |-> IF n \in L THEN "running" ELSE status[n]]
              /\ paused' = [n \in Nodes |-> IF n \in L THEN "none" ELSE paused[n]]
              /\ work' = [n \in Nodes |-> IF n \in L THEN "invoking" ELSE work[n]]
              /\ pause' = pause \/ (pause' \in Pause /\ pause'.wanted)
              /\ UNCHANGED <<edge, passed, handled, inside, forced, targets, saved>>
    BY <1>8, Launches
  <2>2. Inflight' = Inflight \cup L
    BY <2>1 DEF Inflight, FlowTypeOK
  <2>3. Small
    BY <2>1, <2>2 DEF Fits, Small
  <2>4. /\ status' \in [Nodes -> NodeStatuses] /\ paused' \in [Nodes -> Reasons]
        /\ work' \in [Nodes -> {"none", "invoking", "backoff"}]
    BY <2>1 DEF FlowTypeOK, NodeStatuses, Reasons
  <2>5. phase' \in Phases
    BY <2>1 DEF Phases
  <2> QED BY <2>1, <2>3, <2>4, <2>5 DEF FlowTypeOK, Small
<1>9. ASSUME HostInterrupt PROVE FlowTypeOK'
  <2>1. Small
    BY <1>9, <1>a DEF HostInterrupt
  <2>2. pause' \in Pause
    BY <1>9, <1>w DEF HostInterrupt, Pause
  <2> QED BY <1>9, <2>1, <2>2 DEF HostInterrupt, frontier, FlowTypeOK, Phases, Small
<1>10. ASSUME ForceHostReruns PROVE FlowTypeOK'
  <2>1. Small
    BY <1>10, <1>a DEF ForceHostReruns
  <2> QED BY <1>10, <2>1 DEF ForceHostReruns, frontier, Inflight, FlowTypeOK, Small
<1>11. ASSUME NEW n \in Nodes, (\E route \in Routes : Succeed(n, route)) \/ FailHandled(n)
       PROVE  FlowTypeOK'
  <2>1. /\ Alive' /\ work' = [work EXCEPT ![n] = "none"] /\ forced' = forced \ {n}
        /\ UNCHANGED <<targets, saved, paused, inside>> /\ passed' \subseteq passed
        /\ status' \in [Nodes -> NodeStatuses] /\ edge' \in [Edges -> EdgeStates]
        /\ ready' \subseteq Nodes
        /\ handled' \in BOOLEAN
        /\ pause' = PauseAfter(n) \/ pause' = pause
    BY <1>11, Ends DEF FlowTypeOK
  <2>2. Small
    BY <2>1, <1>b DEF FlowTypeOK
  <2>3. pause' \in Pause /\ phase' \in Phases
    BY <2>1, <1>w DEF PauseAfter, FlowTypeOK, Alive, Phases
  <2> QED BY <2>1, <2>2, <2>3 DEF FlowTypeOK, Small
<1>12. ASSUME NEW n \in Nodes, Retry(n) PROVE FlowTypeOK'
  <2>1. Small
    BY <1>12, <1>b DEF Retry, FlowTypeOK
  <2> QED BY <1>12, <2>1 DEF Retry, frontier, FlowTypeOK, Small
<1>13. ASSUME NEW n \in Nodes, FailRun(n) PROVE FlowTypeOK'
  <2>1. Small
    BY <1>13, <1>b DEF FailRun, Stopped
  <2> QED BY <1>13, <2>1 DEF FailRun, Stopped, Drained, FlowTypeOK, Phases, NodeStatuses, Small
<1>14. ASSUME NEW n \in Nodes, NEW reason \in Reasons \ {"none"}, Interrupt(n, reason)
       PROVE  FlowTypeOK'
  <2>1. Small
    BY <1>14, <1>b DEF Interrupt, Received, FlowTypeOK
  <2>2. pause' \in Pause
    BY <1>14, <1>w DEF Interrupt, FlowTypeOK, Pause
  <2> QED BY <1>14, <2>1, <2>2 DEF Interrupt, Received, FlowTypeOK, Phases, NodeStatuses, Small
<1>15. CASE UNCHANGED flowVars
  <2>1. Small
    BY <1>15, <1>a DEF flowVars, volatile
  <2> QED BY <1>15, <2>1 DEF flowVars, volatile, frontier, FlowTypeOK, Small
<1>16. ASSUME NEW n \in Nodes, HandleInside(n) PROVE FlowTypeOK'
  <2>1. /\ handled' = TRUE /\ inside' = inside \cup {n}
        /\ UNCHANGED <<phase, status, edge, ready, paused, passed, work, forced, pause, targets, saved>>
    BY <1>16, Insides
  <2>2. Small
    BY <2>1, <1>a
  <2> QED BY <2>1, <2>2 DEF FlowTypeOK, Small
<1> QED
  BY <1>1, <1>2, <1>3, <1>4, <1>5, <1>6, <1>7, <1>8, <1>9, <1>10, <1>11, <1>12, <1>13, <1>14,
     <1>15, <1>16, Steps

\* A node that is invoked has not been decided yet: its edges are pending and
\* the nodes behind it wait.
LEMMA RunningWaits ==
    ASSUME Agree(status, edge), NEW n \in Nodes, status[n] = "running",
           NEW e \in Out[n]
    PROVE  edge[e] = "pending" /\ status[e.to] \in {"pending"}
<1>1. edge[e] = "pending" /\ e \in Edges /\ e \in In[e.to] /\ e.to \in Nodes /\ n \in Nodes
  BY NodeEdges, EdgeEnds DEF Agree, AgreeAt
<1>2. AgreeAt(e.to, status, edge)
  BY <1>1 DEF Agree
<1>3. e.to # Start
  BY <1>1, GraphAssumption
<1>4. ~Reached(e.to, edge)
  BY <1>1, <1>3 DEF Reached
<1>5. status[e.to] # "skipped"
  BY <1>1, <1>2 DEF AgreeAt
<1> QED BY <1>1, <1>2, <1>4, <1>5 DEF AgreeAt

\* A node that has been started stays as its joins left it when it pauses or
\* is launched.
LEMMA SameAgrees ==
    ASSUME Agree(status, edge), NEW st,
           \A n \in Nodes :
              st[n] = status[n] \/
              (status[n] \in {"ready", "running", "interrupted"} /\
               st[n] \in {"ready", "running", "interrupted"})
    PROVE  Agree(st, edge)
<1>1. ASSUME NEW n \in Nodes PROVE AgreeAt(n, st, edge)
  BY DEF Agree, AgreeAt
<1> QED BY <1>1 DEF Agree

\* What nodes, edges, goroutines and queue say of each other is kept.
LEMMA WorkingStep ==
    ASSUME FlowTypeOK, Fresh, Working, Idle, Resumable, CheckpointValid, [FlowNext]_flowVars
    PROVE  Fresh' /\ Working' /\ Idle'
<1> DEFINE Goal == Fresh' /\ Working' /\ Idle'
<1>a. ASSUME phase' # "new", ~Alive', \A n \in Nodes : work'[n] = "none" PROVE Goal
  BY <1>a DEF Fresh, Working, Idle
<1>b. ASSUME Alive, Alive', UNCHANGED <<status, edge, ready, paused, handled, inside>>,
             passed' \subseteq passed \cup Before,
             \A n \in Nodes : work'[n] = "none" <=> work[n] = "none"
      PROVE  Goal
  BY <1>b DEF Fresh, Working, Idle, Coherent, Alive
<1>s. Stopped => \A n \in Nodes : work'[n] = "none"
  BY DEF Stopped
<1>1. ASSUME Run PROVE Goal
  <2>0. Start \in Nodes
    BY GraphAssumption
  <2>1. /\ Alive' /\ phase' # "new" /\ phase = "new" /\ Start \in Nodes
        /\ status' = [n \in Nodes |-> IF n = Start THEN "ready" ELSE "pending"]
        /\ edge' = [e \in Edges |-> "pending"]
        /\ ready' = {Start} /\ passed' = {} /\ handled' = FALSE /\ inside' = {}
        /\ paused' = [n \in Nodes |-> "none"]
    BY <1>1, <2>0 DEF Run, Fresh, Alive
  <2>2. \A n \in Nodes : work'[n] = "none"
    BY <1>1 DEF Run, Idle, Alive, volatile
  <2>3. Agree(status', edge')
    <3>1. ASSUME NEW n \in Nodes PROVE AgreeAt(n, status', edge')
      BY <2>1, NodeEdges DEF AgreeAt, Reached
    <3> QED BY <3>1 DEF Agree
  <2>4. Coherent(status', paused', passed', handled', inside')
    BY <2>1 DEF Coherent
  <2> QED BY <2>1, <2>2, <2>3, <2>4 DEF Fresh, Working, Idle
<1>2. ASSUME NEW T \in SUBSET Nodes, Resume(T) PROVE Goal
  <2>1. /\ saved # NoCheckpoint /\ saved \in Checkpoint /\ Alive'
        /\ MovedOn(saved.status, saved.edge, Restored(saved)) /\ Agree(status', edge')
        /\ paused' = saved.paused /\ passed' = saved.passed
        /\ handled' = saved.handled /\ inside' = saved.inside
        /\ work' = [n \in Nodes |-> "none"]
    BY <1>2, Resumes
  <2>2. /\ \A n \in Nodes : saved.status[n] # "running"
        /\ \A n \in Nodes : saved.status[n] = "ready" <=> n \in saved.ready
        /\ \A n \in Nodes : saved.status[n] = "interrupted" <=> saved.paused[n] # "none"
        /\ Coherent(saved.status, saved.paused, saved.passed, saved.handled, saved.inside)
    BY <2>1 DEF CheckpointValid, Resumable
  <2>3. \A n \in Restored(saved) : n \in Nodes /\ saved.status[n] \in {"ready", "interrupted"}
    BY <2>1, <2>2 DEF Restored, Checkpoint
  <2>4. \A n \in Nodes : saved.status[n] = "ready" => n \in Restored(saved)
    BY <2>2 DEF Restored
  <2>5. Coherent(status', paused', passed', handled', inside')
    BY <2>1, <2>2 DEF MovedOn, Coherent
  <2>6. \A n \in Nodes : status'[n] # "running"
    BY <2>1, <2>2 DEF MovedOn
  <2>7. \A n \in Nodes : status'[n] = "ready" => n \in ready'
    BY <2>1, <2>4 DEF MovedOn
  <2>8. \A n \in ready' : status'[n] \in {"ready", "interrupted"}
    BY <2>1, <2>3 DEF MovedOn
  <2> QED BY <2>1, <2>5, <2>6, <2>7, <2>8 DEF Fresh, Working, Idle, Alive
<1>3. ASSUME FinishInterrupted PROVE Goal
  BY <1>3, <1>a DEF FinishInterrupted, Inflight, volatile, Alive
<1>4. ASSUME FinishSucceeded PROVE Goal
  <2>1. Alive /\ ~Alive' /\ phase' # "new" /\ work' = work /\ Done(status) = Nodes
    BY <1>4 DEF FinishSucceeded, Alive, volatile
  <2>2. \A n \in Nodes : work'[n] = "none"
    BY <2>1 DEF Working, Done
  <2> QED BY <1>a, <2>1, <2>2
<1>5. ASSUME FinishCanceled PROVE Goal
  BY <1>5, <1>a, <1>s DEF FinishCanceled, Alive
<1>6. ASSUME Crash PROVE Goal
  BY <1>6, <1>a, <1>s DEF Crash, Alive
<1>7. ASSUME RequestBeforeInterrupt PROVE Goal
  BY <1>7, <1>b DEF RequestBeforeInterrupt, Launching, Unreported, Alive
<1>8. ASSUME LaunchReady PROVE Goal
  <2>1. PICK L \in SUBSET ready :
              /\ Alive
              /\ phase' = IF Inflight \cup L = {} THEN "stuck" ELSE "select"
              /\ ready' \subseteq ready \ L
              /\ \A n \in ready \ ready' : n \in L \/ paused[n] = "dynamic"
              /\ status' = [n \in Nodes |-> IF n \in L THEN "running" ELSE status[n]]
              /\ paused' = [n \in Nodes |-> IF n \in L THEN "none" ELSE paused[n]]
              /\ work' = [n \in Nodes |-> IF n \in L THEN "invoking" ELSE work[n]]
              /\ UNCHANGED <<edge, passed, handled, inside>>
    BY <1>8, Launches
  <2>2. CASE Inflight \cup L = {}
    <3>1. \A n \in Nodes : work'[n] = "none"
      BY <2>1, <2>2 DEF Inflight
    <3> QED BY <1>a, <2>1, <2>2, <3>1 DEF Alive
  <2>3. CASE Inflight \cup L # {}
    <3>0. /\ \A n \in L : n \in Nodes /\ status[n] \in {"ready", "interrupted"}
          /\ ready \subseteq Nodes /\ phase' = "select"
      BY <2>1, <2>3 DEF Working, FlowTypeOK
    <3>1. Agree(status', edge')
      <4>1. \A n \in Nodes : status'[n] = status[n] \/
              (status[n] \in {"ready", "running", "interrupted"} /\
               status'[n] \in {"ready", "running", "interrupted"})
        BY <2>1, <3>0
      <4> QED BY <2>1, <4>1, SameAgrees DEF Working
    <3>2. Coherent(status', paused', passed', handled', inside')
      BY <2>1, <3>0 DEF Working, Coherent
    <3>3. \A n \in Nodes : status'[n] = "running" <=> work'[n] # "none"
      BY <2>1 DEF Working
    <3>4. \A n \in Nodes : status'[n] = "ready" => n \in ready'
      BY <2>1 DEF Working, Coherent
    <3>5. \A n \in ready' : status'[n] \in {"ready", "interrupted"}
      BY <2>1, <3>0 DEF Working
    <3> QED BY <3>0, <3>1, <3>2, <3>3, <3>4, <3>5 DEF Fresh, Working, Idle, Alive
  <2> QED BY <2>2, <2>3
<1>9. ASSUME HostInterrupt PROVE Goal
  BY <1>9, <1>b DEF HostInterrupt, frontier, Alive
<1>10. ASSUME ForceHostReruns PROVE Goal
  BY <1>10, <1>b DEF ForceHostReruns, frontier, Alive
<1>11. ASSUME NEW n \in Nodes, (\E route \in Routes : Succeed(n, route)) \/ FailHandled(n)
       PROVE  Goal
  <2>1. /\ Alive /\ Alive' /\ status[n] = "running"
        /\ work' = [work EXCEPT ![n] = "none"]
        /\ UNCHANGED <<paused, inside>> /\ passed' \subseteq passed
        /\ ready' \subseteq Nodes /\ ready \subseteq ready'
        /\ Agree(status', edge')
        /\ \A m \in Nodes \ {n} :
                 \/ status'[m] = status[m]
                 \/ status[m] = "pending" /\ status'[m] = "skipped"
                 \/ status[m] = "pending" /\ status'[m] = "ready" /\ m \in ready'
        /\ \A m \in ready' : m \in ready \/ status'[m] = "ready"
        /\ \/ status'[n] = "succeeded" /\ handled' = handled
           \/ status'[n] = "exception" /\ handled' = TRUE
    BY <1>11, Ends
  <2>2. Coherent(status', paused', passed', handled', inside')
    BY <2>1 DEF Working, Coherent
  <2>3. \A m \in Nodes : status'[m] = "running" <=> work'[m] # "none"
    BY <2>1 DEF Working, FlowTypeOK
  <2>4. \A m \in Nodes : status'[m] = "ready" => m \in ready'
    BY <2>1 DEF Working
  <2>5. \A m \in ready' : status'[m] \in {"ready", "interrupted"}
    BY <2>1 DEF Working
  <2> QED BY <2>1, <2>2, <2>3, <2>4, <2>5 DEF Fresh, Working, Idle, Alive
<1>12. ASSUME NEW n \in Nodes, Retry(n) PROVE Goal
  BY <1>12, <1>b DEF Retry, frontier, Alive, FlowTypeOK
<1>13. ASSUME NEW n \in Nodes, FailRun(n) PROVE Goal
  BY <1>13, <1>a, <1>s DEF FailRun, Alive
<1>14. ASSUME NEW n \in Nodes, NEW reason \in Reasons \ {"none"}, Interrupt(n, reason)
       PROVE  Goal
  <2>1. /\ Alive /\ Alive' /\ work[n] # "none" /\ reason # "none"
        /\ status' = [status EXCEPT ![n] = "interrupted"]
        /\ paused' = [paused EXCEPT ![n] = reason]
        /\ work' = [work EXCEPT ![n] = "none"]
        /\ UNCHANGED <<edge, ready, passed, handled, inside>>
    BY <1>14 DEF Interrupt, Received, Waiting, Alive
  <2>2. status[n] = "running"
    BY <2>1 DEF Working
  <2>3. \A m \in Nodes : /\ status'[m] = IF m = n THEN "interrupted" ELSE status[m]
                         /\ paused'[m] = IF m = n THEN reason ELSE paused[m]
                         /\ work'[m] = IF m = n THEN "none" ELSE work[m]
    BY <2>1 DEF FlowTypeOK
  <2>4. Agree(status', edge')
    <3>1. Agree(status', edge)
      BY <2>1, <2>2, <2>3, SameAgrees DEF Working
    <3> QED BY <2>1, <3>1
  <2>5. Coherent(status', paused', passed', handled', inside')
    BY <2>1, <2>2, <2>3 DEF Working, Coherent
  <2>6. n \notin ready
    BY <2>1, <2>2 DEF Working
  <2>7. \A m \in ready' : m \in Nodes /\ status'[m] \in {"ready", "interrupted"}
    BY <2>1, <2>3 DEF Working, FlowTypeOK
  <2>8. \A m \in Nodes : /\ status'[m] = "running" <=> work'[m] # "none"
                         /\ status'[m] = "ready" => m \in ready'
    BY <2>1, <2>3 DEF Working
  <2> QED BY <2>1, <2>4, <2>5, <2>7, <2>8 DEF Fresh, Working, Idle, Alive
<1>15. CASE UNCHANGED flowVars
  BY <1>15 DEF flowVars, volatile, frontier, Fresh, Working, Idle, Alive, Coherent, Agree, AgreeAt,
     Reached, Left
<1>16. ASSUME NEW n \in Nodes, HandleInside(n) PROVE Goal
  <2>1. /\ Alive /\ Alive' /\ handled' = TRUE /\ inside' # {}
        /\ UNCHANGED <<status, edge, ready, paused, passed, work>>
    BY <1>16, Insides
  <2>2. Agree(status', edge') /\ Coherent(status', paused', passed', handled', inside')
    BY <2>1 DEF Working, Coherent
  <2> QED BY <2>1, <2>2 DEF Fresh, Working, Idle, Alive
<1> QED
  BY <1>1, <1>2, <1>3, <1>4, <1>5, <1>6, <1>7, <1>8, <1>9, <1>10, <1>11, <1>12, <1>13, <1>14,
     <1>15, <1>16, Steps

\* What a checkpoint says of itself, and of the run after it, is kept.
LEMMA SavedStep ==
    ASSUME FlowTypeOK, Fresh, Working, Idle, Resumable, CheckpointValid, FinishedStays,
           [FlowNext]_flowVars
    PROVE  Resumable' /\ CheckpointValid' /\ FinishedStays'
<1> DEFINE Goal == Resumable' /\ CheckpointValid' /\ FinishedStays'
           Settled == \A n \in Nodes : saved # NoCheckpoint /\ n \in Done(saved.status) =>
                          work[n] = "none" /\ status[n] = saved.status[n]
<1>0. Settled
  BY DEF FinishedStays
<1>a. ASSUME saved' = saved,
             saved # NoCheckpoint =>
                \A n \in Done(saved.status) :
                    n \in Nodes => work'[n] = "none" /\ status'[n] = status[n],
             \A e \in Edges : edge[e] # "pending" => edge'[e] = edge[e]
      PROVE  Goal
  <2>1. Resumable' /\ CheckpointValid'
    BY <1>a DEF Resumable, CheckpointValid, Coherent, Agree, AgreeAt, Reached, Left
  <2>2. FinishedStays'
    BY <1>a DEF FinishedStays, Done
  <2> QED BY <2>1, <2>2
<1>b. ASSUME saved' = saved, edge' = edge,
             \A n \in Nodes : work[n] = "none" /\ status[n] \notin {"ready", "interrupted"} =>
                                 work'[n] = "none" /\ status'[n] = status[n]
      PROVE  Goal
  <2>1. saved # NoCheckpoint =>
          \A n \in Done(saved.status) : n \in Nodes => work'[n] = "none" /\ status'[n] = status[n]
    BY <1>b, <1>0 DEF Done
  <2> QED BY <1>a, <1>b, <2>1
<1>1. ASSUME Run PROVE Goal
  <2>1. saved' = saved /\ saved = NoCheckpoint
    BY <1>1 DEF Run, Fresh
  <2> QED BY <2>1 DEF Resumable, CheckpointValid, FinishedStays
<1>2. ASSUME NEW T \in SUBSET Nodes, Resume(T) PROVE Goal
  <2>1. /\ saved # NoCheckpoint /\ saved' = saved
        /\ MovedOn(saved.status, saved.edge, Restored(saved))
        /\ work' = [n \in Nodes |-> "none"]
    BY <1>2, Resumes
  <2>2. Resumable' /\ CheckpointValid'
    BY <2>1 DEF Resumable, CheckpointValid, Coherent, Agree, AgreeAt, Reached, Left
  <2>3. FinishedStays'
    BY <2>1 DEF FinishedStays, MovedOn, Done
  <2> QED BY <2>2, <2>3
<1>3. ASSUME FinishInterrupted PROVE Goal
  <2>1. CASE saved' = saved
    BY <1>3, <1>b, <2>1 DEF FinishInterrupted, frontier, volatile
  <2>2. CASE saved' # saved
    <3>1. /\ saved' = Frontier(pause.contexts) /\ Alive /\ Inflight = {}
          /\ UNCHANGED <<status, edge, work>>
      BY <1>3, <2>2 DEF FinishInterrupted, frontier, volatile, Alive
    <3>2. /\ saved'.status = status /\ saved'.edge = edge /\ saved'.paused = paused
          /\ saved'.passed = passed /\ saved'.handled = handled /\ saved'.inside = inside
          /\ saved'.ready = {n \in ready : paused[n] = "none"}
      BY <3>1 DEF Frontier
    <3>3. Agree(status, edge) /\ Coherent(status, paused, passed, handled, inside)
      BY <3>1 DEF Working
    <3>4. Resumable'
      BY <3>2, <3>3 DEF Resumable, Coherent, Agree, AgreeAt, Reached, Left
    <3>5. \A n \in Nodes : work[n] = "none" /\ status[n] # "running"
      BY <3>1 DEF Inflight, Working
    <3>6. CheckpointValid'
      <4>1. \A n \in Nodes : status[n] = "ready" <=> n \in ready /\ paused[n] = "none"
        BY <3>1, <3>3 DEF Working, Coherent
      <4>2. \A n \in Nodes : status[n] = "exception" \/ n \in inside => handled
        BY <3>3 DEF Coherent
      <4>3. \A n \in Nodes : status[n] = "interrupted" <=> paused[n] # "none"
        BY <3>3 DEF Coherent
      <4>4. \A n \in Nodes : n \in passed => n \in Before
        BY <3>3 DEF Coherent
      <4> QED BY <3>2, <3>5, <4>1, <4>2, <4>3, <4>4 DEF CheckpointValid
    <3>7. FinishedStays'
      BY <3>1, <3>2, <3>5 DEF FinishedStays, Done
    <3> QED BY <3>4, <3>6, <3>7
  <2> QED BY <2>1, <2>2
<1>4. ASSUME FinishSucceeded PROVE Goal
  BY <1>4, <1>b DEF FinishSucceeded, frontier, volatile
<1>5. ASSUME FinishCanceled PROVE Goal
  BY <1>5, <1>b DEF FinishCanceled, Drained, Stopped, Inflight
<1>6. ASSUME Crash PROVE Goal
  BY <1>6, <1>b DEF Crash, Stopped, frontier
<1>7. ASSUME RequestBeforeInterrupt PROVE Goal
  BY <1>7, <1>b DEF RequestBeforeInterrupt
<1>8. ASSUME LaunchReady PROVE Goal
  <2>1. PICK L \in SUBSET ready :
              /\ Alive
              /\ status' = [n \in Nodes |-> IF n \in L THEN "running" ELSE status[n]]
              /\ work' = [n \in Nodes |-> IF n \in L THEN "invoking" ELSE work[n]]
              /\ UNCHANGED <<edge, saved>>
    BY <1>8, Launches
  <2>2. \A n \in L : status[n] \in {"ready", "interrupted"}
    BY <2>1 DEF Working
  <2> QED BY <1>b, <2>1, <2>2
<1>9. ASSUME HostInterrupt PROVE Goal
  BY <1>9, <1>b DEF HostInterrupt, frontier
<1>10. ASSUME ForceHostReruns PROVE Goal
  BY <1>10, <1>b DEF ForceHostReruns, frontier
<1>11. ASSUME NEW n \in Nodes, (\E route \in Routes : Succeed(n, route)) \/ FailHandled(n)
       PROVE  Goal
  <2>1. /\ work[n] # "none" /\ work' = [work EXCEPT ![n] = "none"] /\ saved' = saved
        /\ \A m \in Nodes \ {n} : status'[m] = status[m] \/ status[m] = "pending"
        /\ \A e \in Edges : edge[e] # "pending" => edge'[e] = edge[e]
    BY <1>11, Ends
  <2>2. saved # NoCheckpoint =>
          \A m \in Done(saved.status) : m \in Nodes => work'[m] = "none" /\ status'[m] = status[m]
    BY <2>1, <1>0 DEF Done, FlowTypeOK
  <2> QED BY <1>a, <2>1, <2>2
<1>12. ASSUME NEW n \in Nodes, Retry(n) PROVE Goal
  BY <1>12, <1>b DEF Retry, frontier, FlowTypeOK
<1>13. ASSUME NEW n \in Nodes, FailRun(n) PROVE Goal
  <2>1. work[n] # "none" /\ status \in [Nodes -> NodeStatuses]
    BY <1>13 DEF FailRun, CanFail, FlowTypeOK
  <2> QED BY <1>13, <1>b, <2>1 DEF FailRun, Drained, Stopped, Inflight
<1>14. ASSUME NEW n \in Nodes, NEW reason \in Reasons \ {"none"}, Interrupt(n, reason)
       PROVE  Goal
  BY <1>14, <1>b DEF Interrupt, Received, FlowTypeOK
<1>15. CASE UNCHANGED flowVars
  BY <1>15, <1>b DEF flowVars, volatile, frontier
<1>16. ASSUME NEW n \in Nodes, HandleInside(n) PROVE Goal
  BY <1>16, <1>b, Insides
<1> QED
  BY <1>1, <1>2, <1>3, <1>4, <1>5, <1>6, <1>7, <1>8, <1>9, <1>10, <1>11, <1>12, <1>13, <1>14,
     <1>15, <1>16, Steps

\* What the host has been told before the nodes beyond a boundary are invoked
\* is kept.
LEMMA BoundaryStep ==
    ASSUME FlowTypeOK, Fresh, Working, Idle, Resumable, FinishedStays, Told, BoundariesHold,
           Idle', [FlowNext]_flowVars
    PROVE  Told' /\ BoundariesHold'
<1> DEFINE Goal == Told' /\ BoundariesHold'
<1>a. ASSUME \A n \in Nodes : work'[n] = "none", ~Alive' \/ pause'.wanted PROVE Goal
  BY <1>a DEF Told, BoundariesHold
<1>i. ASSUME ~Alive' PROVE Goal
  BY <1>a, <1>i DEF Idle
<1>b. ASSUME saved' = saved, status' = status, passed' \subseteq passed \/ pause'.wanted,
             Alive, \A n \in Nodes : work'[n] # "none" => work[n] # "none",
             ~pause'.wanted => ~pause.wanted
      PROVE  Goal
  BY <1>b DEF Told, BoundariesHold
<1>1. ASSUME Run PROVE Goal
  <2>1. /\ \A n \in Nodes : work'[n] = "none"
        /\ passed' = {} /\ \A n \in Nodes : status'[n] # "succeeded"
    BY <1>1 DEF Run, Idle, Fresh, Alive, volatile
  <2>2. After \subseteq Nodes
    BY GraphAssumption
  <2> QED BY <2>1, <2>2 DEF Told, BoundariesHold
<1>2. ASSUME NEW T \in SUBSET Nodes, Resume(T) PROVE Goal
  <2>1. /\ saved # NoCheckpoint /\ saved' = saved /\ passed' = saved.passed
        /\ MovedOn(saved.status, saved.edge, Restored(saved))
        /\ work' = [n \in Nodes |-> "none"]
    BY <1>2, Resumes
  <2>2. After \subseteq Nodes
    BY GraphAssumption
  <2>3. \A n \in Nodes : status'[n] = "succeeded" => saved.status[n] = "succeeded"
    BY <2>1 DEF MovedOn
  <2> QED BY <2>1, <2>2, <2>3 DEF Told, BoundariesHold
<1>3. ASSUME FinishInterrupted PROVE Goal
  BY <1>3, <1>i DEF FinishInterrupted, Alive
<1>4. ASSUME FinishSucceeded PROVE Goal
  BY <1>4, <1>i DEF FinishSucceeded, Alive
<1>5. ASSUME FinishCanceled PROVE Goal
  BY <1>5, <1>i DEF FinishCanceled, Alive
<1>6. ASSUME Crash PROVE Goal
  BY <1>6, <1>i DEF Crash, Alive
<1>w. \A addressed \in BOOLEAN : Wanted(addressed).wanted
  BY DEF Wanted, FlowTypeOK, Pause
<1>7. ASSUME RequestBeforeInterrupt PROVE Goal
  BY <1>7, <1>b, <1>w DEF RequestBeforeInterrupt, Launching, Alive
<1>8. ASSUME LaunchReady PROVE Goal
  <2>1. PICK L \in SUBSET ready :
              /\ Alive /\ ~pause.wanted /\ Unreported = {}
              /\ status' = [n \in Nodes |-> IF n \in L THEN "running" ELSE status[n]]
              /\ work' = [n \in Nodes |-> IF n \in L THEN "invoking" ELSE work[n]]
              /\ UNCHANGED <<passed, saved>>
    BY <1>8, Launches
  <2>2. /\ \A n \in passed : saved # NoCheckpoint /\ n \in saved.passed
        /\ \A n \in After : status[n] = "succeeded" =>
              saved # NoCheckpoint /\ saved.status[n] = "succeeded"
        /\ After \subseteq Nodes
    BY <2>1, GraphAssumption DEF Told
  <2>3. \A n \in Nodes : status'[n] = "succeeded" => status[n] = "succeeded"
    BY <2>1
  <2>4. \A n \in L : n \in Before => n \in passed
    BY <2>1 DEF Unreported
  <2>5. Told'
    BY <2>1, <2>2, <2>3 DEF Told
  <2>6. ASSUME NEW n \in Nodes, work'[n] # "none"
        PROVE  /\ n \in Before => saved # NoCheckpoint /\ n \in saved.passed
               /\ \A e \in In[n] : e.from \in After /\ status'[e.from] = "succeeded" =>
                     saved # NoCheckpoint /\ saved.status[e.from] = "succeeded"
    <3>1. \A e \in In[n] : e.from \in After /\ status'[e.from] = "succeeded" =>
                     saved # NoCheckpoint /\ saved.status[e.from] = "succeeded"
      BY <2>2, <2>3
    <3>2. n \in L \/ work[n] # "none"
      BY <2>1, <2>6
    <3> QED BY <2>2, <2>4, <3>1, <3>2 DEF BoundariesHold
  <2> QED BY <2>1, <2>5, <2>6 DEF BoundariesHold
<1>9. ASSUME HostInterrupt PROVE Goal
  <2>1. pause'.wanted
    BY <1>9, <1>w DEF HostInterrupt, Wanted, FlowTypeOK, Pause
  <2> QED BY <1>9, <1>b, <2>1 DEF HostInterrupt, frontier
<1>10. ASSUME ForceHostReruns PROVE Goal
  BY <1>10, <1>b DEF ForceHostReruns, frontier
<1>11. ASSUME NEW n \in Nodes, (\E route \in Routes : Succeed(n, route)) \/ FailHandled(n)
       PROVE  Goal
  <2>1. /\ Alive /\ status[n] = "running"
        /\ work' = [work EXCEPT ![n] = "none"]
        /\ saved' = saved /\ passed' \subseteq passed
        /\ \A m \in Nodes \ {n} :
                 \/ status'[m] = status[m]
                 \/ status[m] = "pending" /\ status'[m] = "skipped"
                 \/ status[m] = "pending" /\ status'[m] = "ready" /\ m \in ready'
        /\ \/ status'[n] = "succeeded" /\ pause' = PauseAfter(n)
           \/ status'[n] = "exception" /\ pause' = pause
    BY <1>11, Ends
  <2>2. After \subseteq Nodes
    BY GraphAssumption
  <2>3. \A m \in Nodes : status'[m] = "succeeded" => m = n \/ status[m] = "succeeded"
    BY <2>1
  <2>4. ~pause'.wanted => ~pause.wanted /\ (n \in After => status'[n] = "exception")
    BY <2>1, <1>w DEF PauseAfter
  <2>5. Told'
    BY <2>1, <2>2, <2>3, <2>4 DEF Told
  <2>6. ASSUME NEW m \in Nodes, work'[m] # "none", NEW e \in In[m], e.from = n PROVE FALSE
    <3>1. work[m] # "none" /\ status[m] = "running" /\ Agree(status, edge)
      BY <2>1, <2>6 DEF Working, FlowTypeOK
    <3>2. e \in Edges /\ e.to = m /\ e \in Out[n]
      BY <2>6, NodeEdges, EdgeEnds
    <3> QED BY <2>1, <3>1, <3>2, RunningWaits
  <2>7. \A m \in Nodes : work'[m] # "none" => work[m] # "none"
    BY <2>1 DEF FlowTypeOK
  <2>8. BoundariesHold'
    BY <2>1, <2>2, <2>3, <2>6, <2>7 DEF BoundariesHold
  <2> QED BY <2>5, <2>8
<1>12. ASSUME NEW n \in Nodes, Retry(n) PROVE Goal
  BY <1>12, <1>b DEF Retry, frontier, FlowTypeOK
<1>13. ASSUME NEW n \in Nodes, FailRun(n) PROVE Goal
  BY <1>13, <1>i DEF FailRun, Alive
<1>14. ASSUME NEW n \in Nodes, NEW reason \in Reasons \ {"none"}, Interrupt(n, reason)
       PROVE  Goal
  <2>1. pause'.wanted
    BY <1>14, <1>w DEF Interrupt, Wanted, FlowTypeOK, Pause
  <2>2. /\ saved' = saved /\ status' = [status EXCEPT ![n] = "interrupted"]
        /\ work' = [work EXCEPT ![n] = "none"]
    BY <1>14 DEF Interrupt, Received
  <2>3. \A m \in Nodes : /\ status'[m] = "succeeded" => status[m] = "succeeded"
                         /\ work'[m] # "none" => work[m] # "none"
    BY <2>2 DEF FlowTypeOK
  <2>4. BoundariesHold'
    BY <2>2, <2>3, NodeEdges, EdgeEnds DEF BoundariesHold
  <2> QED BY <2>1, <2>4 DEF Told
<1>15. CASE UNCHANGED flowVars
  BY <1>15 DEF flowVars, volatile, frontier, Told, BoundariesHold, Alive
<1>16. ASSUME NEW n \in Nodes, HandleInside(n) PROVE Goal
  BY <1>16, <1>b, Insides
<1> QED
  BY <1>1, <1>2, <1>3, <1>4, <1>5, <1>6, <1>7, <1>8, <1>9, <1>10, <1>11, <1>12, <1>13, <1>14,
     <1>15, <1>16, Steps

\* A run that has ended well stays as it ended.
LEMMA OutcomeStep ==
    ASSUME FlowTypeOK, Working, OutcomeTruthful, [FlowNext]_flowVars
    PROVE  OutcomeTruthful'
<1> DEFINE Well == {"succeeded", "partial"}
<1>a. ASSUME phase' \notin Well PROVE OutcomeTruthful'
  BY <1>a DEF OutcomeTruthful
<1>b. ASSUME FinishSucceeded PROVE OutcomeTruthful'
  <2>1. /\ Coherent(status, paused, passed, handled, inside)
        /\ \A n \in Nodes : status[n] \in {"succeeded", "exception", "skipped", "failed"}
        /\ phase' = IF handled THEN "partial" ELSE "succeeded"
        /\ UNCHANGED <<status, inside>>
    BY <1>b DEF FinishSucceeded, Working, Alive, Done, frontier
  <2> QED BY <2>1 DEF OutcomeTruthful, Coherent
<1>c. ASSUME Alive, phase' = phase PROVE OutcomeTruthful'
  BY <1>a, <1>c DEF Alive
<1>d. CASE UNCHANGED flowVars
  BY <1>d DEF flowVars, frontier, OutcomeTruthful
<1>1. Run => phase' \notin Well
  BY DEF Run
<1>2. \A T \in SUBSET Nodes : Resume(T) => phase' \notin Well
  BY DEF Resume
<1>3. FinishInterrupted => phase' \notin Well
  BY DEF FinishInterrupted
<1>4. FinishCanceled \/ Crash => phase' \notin Well
  BY DEF FinishCanceled, Crash
<1>5. RequestBeforeInterrupt \/ ForceHostReruns => Alive /\ phase' = phase
  BY DEF RequestBeforeInterrupt, Launching, ForceHostReruns, Alive
<1>6. LaunchReady \/ HostInterrupt => phase' \notin Well
  BY DEF LaunchReady, HostInterrupt
<1>7. \A n \in Nodes, route \in Routes : Succeed(n, route) => phase' \notin Well
  BY DEF Succeed
<1>8. \A n \in Nodes : FailHandled(n) \/ FailRun(n) => phase' \notin Well
  BY DEF FailHandled, FailRun
<1>9. \A n \in Nodes : Retry(n) \/ HandleInside(n) => Alive /\ phase' = phase
  BY DEF Retry, HandleInside
<1>10. \A n \in Nodes, reason \in Reasons \ {"none"} : Interrupt(n, reason) => phase' \notin Well
  BY DEF Interrupt
<1> HIDE DEF Well
<1> QED
  BY <1>a, <1>b, <1>c, <1>d, <1>1, <1>2, <1>3, <1>4, <1>5, <1>6, <1>7, <1>8, <1>9, <1>10, Steps

-----------------------------------------------------------------------------
(* The theorems.                                                           *)

\* The inductive invariant: what the nodes, the edges, the queue and the
\* goroutines of a run say of each other, and its checkpoint of it.
THEOREM Invariance == FlowSpec => []IInv
<1>1. FlowInit => IInv
  <2> SUFFICES ASSUME FlowInit PROVE IInv
    OBVIOUS
  <2>1. FlowTypeOK
    <3>1. Inflight = {} /\ MaxConcurrency \in Nat
      BY GraphAssumption DEF FlowInit, Inflight
    <3>2. Cardinality(Inflight) <= MaxConcurrency
      BY <3>1, FS_EmptySet
    <3> QED BY <3>2 DEF FlowInit, FlowTypeOK, Phases, NodeStatuses, EdgeStates, Reasons, NoPause, Pause
  <2>2. Fresh /\ Working /\ Idle /\ Told /\ BoundariesHold /\ OutcomeTruthful
    BY DEF FlowInit, Fresh, Working, Idle, Told, BoundariesHold, OutcomeTruthful, Alive
  <2>3. Resumable /\ FinishedStays /\ CheckpointValid
    BY DEF FlowInit, Resumable, FinishedStays, CheckpointValid
  <2> QED BY <2>1, <2>2, <2>3 DEF IInv
<1>2. IInv /\ [FlowNext]_flowVars => IInv'
  <2> SUFFICES ASSUME IInv, [FlowNext]_flowVars PROVE IInv'
    OBVIOUS
  <2>1. FlowTypeOK'
    BY TypeStep DEF IInv
  <2>2. Fresh' /\ Working' /\ Idle'
    BY WorkingStep DEF IInv
  <2>3. Resumable' /\ CheckpointValid' /\ FinishedStays'
    BY SavedStep DEF IInv
  <2>4. Told' /\ BoundariesHold'
    BY <2>2, BoundaryStep DEF IInv
  <2>5. OutcomeTruthful'
    BY OutcomeStep DEF IInv
  <2> QED BY <2>1, <2>2, <2>3, <2>4, <2>5 DEF IInv
<1> QED BY <1>1, <1>2, PTL DEF FlowSpec

\* Every variable keeps its type and no more nodes are invoked at once than
\* the plan allows.
THEOREM TypeCorrect == FlowSpec => []FlowTypeOK
<1>1. IInv => FlowTypeOK
  BY DEF IInv
<1> QED BY <1>1, Invariance, PTL

\* Joins agree in every run of every plan and in each of its checkpoints.
THEOREM JoinsHold == FlowSpec => []JoinsAgree
<1>1. IInv => JoinsAgree
  BY DEF IInv, Working, Resumable, JoinsAgree
<1> QED BY <1>1, Invariance, PTL

\* No execution runs a node again that the checkpoint holds finished.
THEOREM FinishedNodesStay == FlowSpec => []FinishedStays
<1>1. IInv => FinishedStays
  BY DEF IInv
<1> QED BY <1>1, Invariance, PTL

\* Every checkpoint that is written is complete and consistent.
THEOREM CheckpointsValid == FlowSpec => []CheckpointValid
<1>1. IInv => CheckpointValid
  BY DEF IInv
<1> QED BY <1>1, Invariance, PTL

\* No node beyond a boundary is invoked before the host has been told.
THEOREM BoundariesRespected == FlowSpec => []BoundariesHold
<1>1. IInv => BoundariesHold
  BY DEF IInv
<1> QED BY <1>1, Invariance, PTL

\* A run that ends well says truly whether a failure was handled.
THEOREM OutcomesTrue == FlowSpec => []OutcomeTruthful
<1>1. IInv => OutcomeTruthful
  BY DEF IInv
<1> QED BY <1>1, Invariance, PTL

-----------------------------------------------------------------------------
(* The scheduler always has something to do.                               *)

\* Nothing is left for advance.
Quiescent == Dead(status, edge) = {} /\ Awake(status, edge) = {}

Started ==
    /\ Alive => status[Start] # "pending"
    /\ saved # NoCheckpoint => saved.status[Start] # "pending"

\* What an execution that is not about to pause has to do: the nodes that
\* wait for an answer are in its queue, and when one of them has none, there
\* is other work, as much as fits while it is awaited.
Busy ==
    Alive /\ ~pause.wanted =>
        /\ \A n \in Nodes : status[n] = "interrupted" => n \in ready
        /\ Quiescent \/ status[Start] \in {"ready", "running"}
        /\ phase = "top" /\ Unanswered # {} => Inflight # {} \/ ready \ Unanswered # {}
        /\ phase = "select" /\ Unanswered # {} => Cardinality(Inflight) >= MaxConcurrency
        /\ pause.contexts = {}

\* Where one node is invoked at a time, one interruption is outstanding.
Single ==
    MaxConcurrency = 1 =>
        /\ Alive => /\ Unanswered = {}
                    /\ pause.contexts # {} => Inflight = {}
                    /\ \A a, b \in pause.contexts : a = b
        /\ saved # NoCheckpoint => \A a, b \in saved.contexts : a = b

Going == Started /\ Busy /\ Single /\ SchedulerProgresses

\* advance leaves nothing for another advance.
LEMMA AdvanceQuiesces ==
    ASSUME NEW st \in [Nodes -> NodeStatuses], NEW ed \in [Edges -> EdgeStates],
           NEW queue \in SUBSET Nodes, Advance(st, ed, queue)
    PROVE  Quiescent'
<1> DEFINE dead == Dead(st, ed)
           settled == [e \in Edges |-> IF e.from \in dead THEN "skipped" ELSE ed[e]]
           awake == Awake(st, settled)
<1>1. /\ edge' = settled
      /\ status' = [n \in Nodes |-> IF n \in dead THEN "skipped"
                                    ELSE IF n \in awake THEN "ready" ELSE st[n]]
  BY DEF Advance
<1>2. ASSUME NEW n \in Nodes, status'[n] = "pending"
      PROVE  n \notin dead /\ n \notin awake /\ st[n] = "pending"
  BY <1>1, <1>2
<1>3. ASSUME NEW n \in Awake(status', edge') PROVE FALSE
  <2>1. n \in Nodes \ {Start} /\ status'[n] = "pending"
    BY <1>3 DEF Awake
  <2>2. n \in awake
    BY <1>1, <1>2, <1>3, <2>1 DEF Awake
  <2> QED BY <1>2, <2>1, <2>2
<1>4. ASSUME NEW n \in Dead(status', edge') PROVE FALSE
  <2>1. PICK S \in SUBSET {m \in Nodes \ {Start} : status'[m] = "pending"} :
            n \in S /\ \A m \in S : \A e \in In[m] : edge'[e] = "skipped" \/ e.from \in S
    BY <1>4 DEF Dead
  <2>2. \A m \in S : m \in Nodes \ {Start} /\ st[m] = "pending" /\ m \notin dead
    BY <1>2, <2>1
  <2>3. \A m \in dead : /\ m \in Nodes \ {Start} /\ st[m] = "pending"
                        /\ \A e \in In[m] : ed[e] = "skipped" \/ e.from \in dead
    BY DeadNodes
  <2>4. \A e \in Edges : edge'[e] = IF e.from \in dead THEN "skipped" ELSE ed[e]
    BY <1>1
  <2> HIDE DEF dead
  <2>5. \A m \in S \cup dead : \A e \in In[m] : ed[e] = "skipped" \/ e.from \in S \cup dead
    <3>1. ASSUME NEW m \in S, NEW e \in In[m] PROVE ed[e] = "skipped" \/ e.from \in S \cup dead
      <4>1. e \in Edges
        BY <2>2, NodeEdges
      <4> QED BY <2>1, <2>4, <4>1
    <3> QED BY <2>3, <3>1
  <2>6. S \cup dead \in SUBSET {m \in Nodes \ {Start} : st[m] = "pending"}
    BY <2>2, <2>3
  <2>7. n \in Dead(st, ed)
    BY <2>1, <2>5, <2>6 DEF Dead
  <2> QED BY <2>1, <2>2, <2>7 DEF dead
<1> QED BY <1>3, <1>4 DEF Quiescent

\* When nothing runs, waits or is ready, and nothing is left for advance, the
\* run is over: a pending node would be behind others for ever.
LEMMA QuietIsDone ==
    ASSUME FlowTypeOK, Agree(status, edge), Quiescent, status[Start] # "pending",
           \A n \in Nodes : status[n] \notin {"ready", "running", "interrupted", "failed"}
    PROVE  Done(status) = Nodes
<1> DEFINE waiting == {n \in Nodes : status[n] = "pending"}
<1>1. CASE waiting = {}
  BY <1>1 DEF Done, FlowTypeOK, NodeStatuses
<1>2. CASE waiting # {}
  <2>1. waiting \in (SUBSET Nodes) \ {{}}
    BY <1>2
  <2> HIDE DEF waiting
  <2>2. PICK n \in waiting : \A e \in In[n] : e.from \notin waiting
    BY <2>1, GraphAssumption
  <2> USE DEF waiting
  <2>3. n \in Nodes /\ n # Start /\ status[n] = "pending"
    BY <2>2
  <2>4. ASSUME NEW e \in In[n] PROVE edge[e] \in {"taken", "skipped"}
    <3>1. e \in Edges /\ e.from \in Nodes /\ e \in Out[e.from] /\ status[e.from] # "pending"
      BY <2>2, <2>3, NodeEdges, EdgeEnds
    <3>2. status[e.from] \in {"succeeded", "exception", "skipped"}
      BY <3>1 DEF FlowTypeOK, NodeStatuses
    <3>3. AgreeAt(e.from, status, edge)
      BY <3>1 DEF Agree
    <3> QED BY <3>1, <3>2, <3>3 DEF AgreeAt, Left
  <2>5. CASE \E e \in In[n] : edge[e] = "taken"
    <3>1. n \in Awake(status, edge)
      BY <2>3, <2>4, <2>5 DEF Awake
    <3> QED BY <3>1 DEF Quiescent
  <2>6. CASE \A e \in In[n] : edge[e] = "skipped"
    <3>1. {n} \in SUBSET {m \in Nodes \ {Start} : status[m] = "pending"}
      BY <2>3
    <3>2. n \in Dead(status, edge)
      BY <2>6, <3>1 DEF Dead
    <3> QED BY <3>2 DEF Quiescent
  <2> QED BY <2>4, <2>5, <2>6
<1> QED BY <1>1, <1>2

\* What is left in the queue when launchReady reports nothing, and when it
\* can do nothing.
LEMMA LaunchesAll ==
    ASSUME FlowTypeOK, LaunchReady
    PROVE  \E L \in SUBSET (ready \ Unanswered), R \in SUBSET Unanswered :
              /\ Cardinality(Inflight \cup L) >= MaxConcurrency \/ L \cup R = ready
              /\ Inflight' = Inflight \cup L
              /\ ready' = ready \ (L \cup R)
              /\ status' = [n \in Nodes |-> IF n \in L THEN "running" ELSE status[n]]
              /\ paused' = [n \in Nodes |-> IF n \in L THEN "none" ELSE paused[n]]
              /\ phase' = IF Inflight \cup L = {} THEN "stuck" ELSE "select"
              /\ R = {} => pause' = pause
              /\ R # {} => pause'.wanted /\ pause'.contexts = pause.contexts \cup R
              /\ UNCHANGED <<edge, targets, saved>>
<1>1. PICK L \in SUBSET (ready \ Unanswered), R \in SUBSET Unanswered :
          LET running == Inflight \cup L IN
          /\ Cardinality(running) >= MaxConcurrency \/ L \cup R = ready
          /\ phase' = IF running = {} THEN "stuck" ELSE "select"
          /\ ready' = ready \ (L \cup R)
          /\ status' = [n \in Nodes |-> IF n \in L THEN "running" ELSE status[n]]
          /\ paused' = [n \in Nodes |-> IF n \in L THEN "none" ELSE paused[n]]
          /\ work' = [n \in Nodes |-> IF n \in L THEN "invoking" ELSE work[n]]
          /\ pause' = IF R = {} THEN pause
                      ELSE [Wanted(FALSE) EXCEPT !.contexts = pause.contexts \cup R]
  BY DEF LaunchReady
<1>2. Inflight' = Inflight \cup L
  BY <1>1 DEF Inflight, FlowTypeOK
<1>3. R # {} => pause'.wanted /\ pause'.contexts = pause.contexts \cup R
  BY <1>1 DEF Wanted, FlowTypeOK, Pause
<1>4. UNCHANGED <<edge, targets, saved>>
  BY DEF LaunchReady
<1> QED BY <1>1, <1>2, <1>3, <1>4

\* There is work for the scheduler at the top of its loop.
LEMMA WorkLeft ==
    ASSUME IInv, Started, Busy, Launching, Inflight = {}
    PROVE  ready \ Unanswered # {}
<1>1. /\ Alive /\ ~pause.wanted /\ phase = "top" /\ FlowTypeOK /\ Working
      /\ status[Start] # "pending" /\ Start \in Nodes
  BY GraphAssumption DEF IInv, Started, Launching, Alive
<1>2. \A n \in Nodes : status[n] # "running"
  BY <1>1 DEF Working, Inflight
<1>3. SUFFICES ASSUME Unanswered = {} PROVE ready # {}
  BY <1>1 DEF Busy
<1>4. SUFFICES ASSUME ready = {} PROVE FALSE
  OBVIOUS
<1>5. \A n \in Nodes : status[n] \notin {"ready", "running", "interrupted", "failed"}
  BY <1>1, <1>2, <1>4 DEF Working, Coherent, Busy
<1>6. Quiescent
  BY <1>1, <1>5 DEF Busy
<1>7. Done(status) = Nodes
  BY <1>1, <1>5, <1>6, QuietIsDone DEF Working
<1> QED BY <1>7 DEF Launching

\* One goroutine less.
LEMMA OneLess ==
    ASSUME FlowTypeOK, NEW n \in Inflight, Inflight' = Inflight \ {n}
    PROVE  /\ MaxConcurrency = 1 => Inflight' = {}
           /\ MaxConcurrency # 1 /\ Cardinality(Inflight) >= MaxConcurrency => Inflight' # {}
<1>1. MaxConcurrency \in Nat \ {0} /\ IsFiniteSet(Inflight)
  BY GraphAssumption, FS_Subset DEF Inflight
<1>2. Cardinality(Inflight) \in Nat /\ IsFiniteSet(Inflight')
      /\ Cardinality(Inflight') = Cardinality(Inflight) - 1
  BY <1>1, FS_CardinalityType, FS_RemoveElement
<1>3. Cardinality(Inflight') \in Nat /\ (Cardinality(Inflight') = 0 <=> Inflight' = {})
  BY <1>2, FS_CardinalityType, FS_EmptySet
<1> QED BY <1>1, <1>2, <1>3 DEF FlowTypeOK

\* A completion makes no other node wait for an answer.
LEMMA NoneForgotten ==
    ASSUME FlowTypeOK, Working, Working', NEW n \in Nodes,
           (\E route \in Routes : Succeed(n, route)) \/ FailHandled(n)
    PROVE  Unanswered' \subseteq Unanswered /\ Inflight' = Inflight \ {n} /\ n \in Inflight
<1>1. /\ Alive' /\ work[n] # "none" /\ work' = [work EXCEPT ![n] = "none"]
      /\ UNCHANGED <<targets, paused>> /\ ready' \subseteq Nodes
      /\ \A m \in ready' : m \in ready \/ status'[m] = "ready"
  BY Ends
<1>2. \A m \in Nodes : status'[m] = "interrupted" <=> paused'[m] # "none"
  BY <1>1 DEF Working, Coherent
<1>3. Unanswered' \subseteq Unanswered
  BY <1>1, <1>2 DEF Unanswered
<1>4. Inflight' = Inflight \ {n} /\ n \in Inflight
  BY <1>1 DEF Inflight, FlowTypeOK
<1> QED BY <1>3, <1>4

\* The first node is never pending again.
LEMMA StartedStep ==
    ASSUME FlowTypeOK, Working, Fresh, Resumable, Started, [FlowNext]_flowVars
    PROVE  Started'
<1>0. Start \in Nodes
  BY GraphAssumption
<1>a. ASSUME Alive, status' = status \/ \A n \in Nodes : status[n] # "pending" => status'[n] # "pending",
             saved' = saved \/ saved'.status = status
      PROVE  Started'
  BY <1>0, <1>a DEF Started
<1>b. ASSUME ~Alive', saved' = saved PROVE Started'
  BY <1>b DEF Started
<1>1. ASSUME Run PROVE Started'
  BY <1>0, <1>1 DEF Run, Started, Fresh, FlowTypeOK
<1>2. ASSUME NEW T \in SUBSET Nodes, Resume(T) PROVE Started'
  <2>1. /\ saved # NoCheckpoint /\ saved' = saved
        /\ MovedOn(saved.status, saved.edge, Restored(saved))
    BY <1>2, Resumes
  <2> QED BY <1>0, <2>1 DEF Started, MovedOn
<1>3. ASSUME FinishInterrupted PROVE Started'
  BY <1>3, <1>a DEF FinishInterrupted, Frontier, frontier, Alive
<1>4. ASSUME FinishSucceeded PROVE Started'
  BY <1>4, <1>b DEF FinishSucceeded, Alive
<1>5. ASSUME FinishCanceled PROVE Started'
  BY <1>5, <1>b DEF FinishCanceled, Alive
<1>6. ASSUME Crash PROVE Started'
  BY <1>6, <1>b DEF Crash, Alive
<1>7. ASSUME RequestBeforeInterrupt PROVE Started'
  BY <1>7, <1>a DEF RequestBeforeInterrupt, Launching, Alive
<1>8. ASSUME LaunchReady PROVE Started'
  <2>1. PICK L \in SUBSET ready :
              /\ Alive /\ saved' = saved
              /\ status' = [n \in Nodes |-> IF n \in L THEN "running" ELSE status[n]]
    BY <1>8, Launches
  <2> QED BY <1>a, <2>1
<1>9. ASSUME HostInterrupt PROVE Started'
  BY <1>9, <1>a DEF HostInterrupt, frontier
<1>10. ASSUME ForceHostReruns PROVE Started'
  BY <1>10, <1>a DEF ForceHostReruns, frontier
<1>11. ASSUME NEW n \in Nodes, (\E route \in Routes : Succeed(n, route)) \/ FailHandled(n)
       PROVE  Started'
  <2>1. /\ Alive /\ saved' = saved
        /\ \A m \in Nodes \ {n} : status'[m] = status[m] \/ status[m] = "pending"
        /\ status'[n] # "pending"
    BY <1>11, Ends
  <2>2. status[Start] # "pending" /\ (saved # NoCheckpoint => saved.status[Start] # "pending")
    BY <2>1 DEF Started
  <2> QED BY <1>0, <2>1, <2>2 DEF Started
<1>12. ASSUME NEW n \in Nodes, Retry(n) PROVE Started'
  BY <1>12, <1>a DEF Retry, frontier
<1>13. ASSUME NEW n \in Nodes, FailRun(n) PROVE Started'
  BY <1>13, <1>b DEF FailRun, Alive
<1>14. ASSUME NEW n \in Nodes, NEW reason \in Reasons \ {"none"}, Interrupt(n, reason)
       PROVE  Started'
  <2>1. Alive /\ saved' = saved /\ status' = [status EXCEPT ![n] = "interrupted"]
    BY <1>14 DEF Interrupt, Received, Waiting, Alive
  <2> QED BY <1>a, <2>1 DEF FlowTypeOK
<1>15. CASE UNCHANGED flowVars
  BY <1>15 DEF flowVars, frontier, Started, Alive
<1>16. ASSUME NEW n \in Nodes, HandleInside(n) PROVE Started'
  BY <1>16, <1>a, Insides
<1> QED
  BY <1>1, <1>2, <1>3, <1>4, <1>5, <1>6, <1>7, <1>8, <1>9, <1>10, <1>11, <1>12, <1>13, <1>14,
     <1>15, <1>16, Steps

\* With one node invoked at a time, one interruption at most is outstanding.
LEMMA SingleStep ==
    ASSUME FlowTypeOK, Working, Working', Fresh, Idle, Resumable, Busy, Single, [FlowNext]_flowVars
    PROVE  Single'
<1> SUFFICES ASSUME MaxConcurrency = 1 PROVE Single'
  BY DEF Single
<1>0. saved # NoCheckpoint => \A a, b \in saved.contexts : a = b
  BY DEF Single
<1>a. ASSUME ~Alive', saved' = saved PROVE Single'
  BY <1>0, <1>a DEF Single
<1>b. ASSUME Alive, saved' = saved, Unanswered' \subseteq Unanswered,
             pause'.contexts = pause.contexts, Inflight' \subseteq Inflight
      PROVE  Single'
  BY <1>b DEF Single
<1>w. \A addressed \in BOOLEAN : Wanted(addressed).contexts = pause.contexts
  BY DEF Wanted, FlowTypeOK, Pause
<1>1. ASSUME Run PROVE Single'
  <2>1. paused' = [n \in Nodes |-> "none"] /\ pause' = NoPause /\ saved' = NoCheckpoint
        /\ ready' \subseteq Nodes
    BY <1>1, GraphAssumption DEF Run, Fresh, volatile
  <2>2. Unanswered' = {}
    BY <2>1 DEF Unanswered
  <2> QED BY <2>1, <2>2 DEF Single, NoPause
<1>2. ASSUME NEW T \in SUBSET Nodes, Resume(T) PROVE Single'
  <2>1. /\ saved # NoCheckpoint /\ saved' = saved /\ saved \in Checkpoint
        /\ MovedOn(saved.status, saved.edge, Restored(saved))
        /\ pause' = NoPause /\ targets' = T /\ paused' = saved.paused
    BY <1>2, Resumes
  <2>2. /\ Aligned(saved) /\ T \subseteq saved.contexts /\ (saved.contexts # {} => T # {})
    BY <1>2 DEF Resume
  <2>3. \A m \in Unanswered' : m \in saved.contexts /\ m \notin T
    BY <2>1, <2>2 DEF Unanswered, MovedOn, Aligned
  <2>4. Unanswered' = {}
    BY <1>0, <2>1, <2>2, <2>3
  <2> QED BY <1>0, <2>1, <2>4 DEF Single, NoPause
<1>3. ASSUME FinishInterrupted PROVE Single'
  <2>1. Alive /\ ~Alive' /\ (saved' = saved \/ saved'.contexts = pause.contexts)
    BY <1>3 DEF FinishInterrupted, Frontier, Alive
  <2> QED BY <1>0, <2>1 DEF Single
<1>4. ASSUME FinishSucceeded PROVE Single'
  BY <1>4, <1>a DEF FinishSucceeded, Alive
<1>5. ASSUME FinishCanceled PROVE Single'
  BY <1>5, <1>a DEF FinishCanceled, Alive
<1>6. ASSUME Crash PROVE Single'
  BY <1>6, <1>a DEF Crash, Alive
<1>7. ASSUME RequestBeforeInterrupt PROVE Single'
  BY <1>7, <1>b, <1>w DEF RequestBeforeInterrupt, Launching, Alive, Unanswered, Inflight
<1>8. ASSUME LaunchReady PROVE Single'
  <2>1. PICK L \in SUBSET (ready \ Unanswered), R \in SUBSET Unanswered :
              /\ ready' = ready \ (L \cup R)
              /\ paused' = [n \in Nodes |-> IF n \in L THEN "none" ELSE paused[n]]
              /\ R = {} => pause' = pause
              /\ UNCHANGED <<targets, saved>>
    BY <1>8, LaunchesAll
  <2>2. Alive /\ ~pause.wanted /\ ready \subseteq Nodes
    BY <1>8 DEF LaunchReady, Launching, Alive, FlowTypeOK
  <2>3. Unanswered = {} /\ pause.contexts = {}
    BY <2>2 DEF Single, Busy
  <2>4. pause' = pause
    BY <2>1, <2>3
  <2>5. Unanswered' \subseteq Unanswered
    BY <2>1, <2>2 DEF Unanswered
  <2> QED BY <1>0, <2>1, <2>3, <2>4, <2>5 DEF Single
<1>9. ASSUME HostInterrupt PROVE Single'
  <2>1. pause'.contexts = pause.contexts
    BY <1>9, <1>w DEF HostInterrupt, Wanted, FlowTypeOK, Pause
  <2> QED BY <1>9, <1>b, <2>1 DEF HostInterrupt, frontier, Unanswered, Inflight
<1>10. ASSUME ForceHostReruns PROVE Single'
  BY <1>10, <1>b DEF ForceHostReruns, frontier, Unanswered, Inflight
<1>11. ASSUME NEW n \in Nodes, (\E route \in Routes : Succeed(n, route)) \/ FailHandled(n)
       PROVE  Single'
  <2>1. Alive /\ saved' = saved /\ (pause' = PauseAfter(n) \/ pause' = pause)
    BY <1>11, Ends
  <2>2. Unanswered' \subseteq Unanswered /\ Inflight' = Inflight \ {n}
    BY <1>11, NoneForgotten
  <2>3. pause'.contexts = pause.contexts
    BY <2>1, <1>w DEF PauseAfter
  <2> QED BY <1>b, <2>1, <2>2, <2>3
<1>12. ASSUME NEW n \in Nodes, Retry(n) PROVE Single'
  <2>1. Inflight' = Inflight
    BY <1>12 DEF Retry, Inflight, FlowTypeOK
  <2> QED BY <1>12, <1>b, <2>1 DEF Retry, frontier, Unanswered
<1>13. ASSUME NEW n \in Nodes, FailRun(n) PROVE Single'
  BY <1>13, <1>a DEF FailRun, Alive
<1>14. ASSUME NEW n \in Nodes, NEW reason \in Reasons \ {"none"}, Interrupt(n, reason)
       PROVE  Single'
  <2>1. /\ Alive /\ n \in Inflight /\ saved' = saved /\ targets' = targets /\ ready' = ready
        /\ work' = [work EXCEPT ![n] = "none"]
        /\ paused' = [paused EXCEPT ![n] = reason]
        /\ \/ pause' = [Wanted(FALSE) EXCEPT !.contexts = pause.contexts \cup {n}]
           \/ pause' = Wanted(TRUE)
    BY <1>14 DEF Interrupt, Received, Waiting, Alive, Inflight
  <2>2. Inflight' = Inflight \ {n}
    BY <2>1 DEF Inflight, FlowTypeOK
  <2>3. Inflight' = {}
    BY <2>1, <2>2, OneLess
  <2>4. Unanswered = {} /\ pause.contexts = {}
    BY <2>1 DEF Single
  <2>5. n \notin ready /\ ready \subseteq Nodes
    BY <2>1 DEF Working, Inflight, FlowTypeOK
  <2>6. Unanswered' \subseteq Unanswered
    BY <2>1, <2>5 DEF Unanswered, FlowTypeOK
  <2>7. pause'.contexts \subseteq {n}
    <3>1. Wanted(FALSE) \in Pause
      BY DEF Wanted, FlowTypeOK, Pause
    <3>2. [Wanted(FALSE) EXCEPT !.contexts = pause.contexts \cup {n}].contexts = {n}
      BY <2>4, <3>1 DEF Pause
    <3> QED BY <2>1, <2>4, <3>2, <1>w
  <2> QED BY <1>0, <2>1, <2>3, <2>4, <2>6, <2>7 DEF Single
<1>15. CASE UNCHANGED flowVars
  BY <1>15 DEF flowVars, frontier, volatile, Single, Alive, Unanswered, Inflight
<1>16. ASSUME NEW n \in Nodes, HandleInside(n) PROVE Single'
  <2>1. Alive /\ UNCHANGED <<ready, paused, work, pause, targets, saved>>
    BY <1>16, Insides
  <2>2. Unanswered' = Unanswered /\ Inflight' = Inflight
    BY <2>1 DEF Unanswered, Inflight
  <2> QED BY <1>b, <2>1, <2>2
<1> QED
  BY <1>1, <1>2, <1>3, <1>4, <1>5, <1>6, <1>7, <1>8, <1>9, <1>10, <1>11, <1>12, <1>13, <1>14,
     <1>15, <1>16, Steps

\* A node's end, unless the run pauses, is followed by all that comes of it.
LEMMA EndQuiesces ==
    ASSUME FlowTypeOK, Working, NEW n \in Nodes,
           (\E route \in Routes : Succeed(n, route)) \/ FailHandled(n), ~pause'.wanted
    PROVE  Quiescent'
<1>1. Agree(status, edge) /\ status[n] = "running" /\ ready \in SUBSET Nodes
  BY Ends DEF Working, FlowTypeOK
<1>2. ASSUME NEW route \in Routes \cup {"success"}, NEW end \in {"succeeded", "exception"},
             Advance([status EXCEPT ![n] = end], Resolved(n, route), ready)
      PROVE  Quiescent'
  <2>1. /\ [status EXCEPT ![n] = end] \in [Nodes -> NodeStatuses]
        /\ Resolved(n, route) \in [Edges -> EdgeStates]
    BY <1>1, ResolvedAgrees
  <2> QED BY <1>1, <1>2, <2>1, AdvanceQuiesces
<1>3. CASE \E route \in Routes : Succeed(n, route)
  <2>1. PICK route \in Routes : Succeed(n, route)
    BY <1>3
  <2> QED BY <1>2, <2>1 DEF Succeed, Proceeding
<1>4. CASE FailHandled(n)
  <2> DEFINE route == IF Policy[n] = "route_error" THEN "error" ELSE "success"
  <2>1. route \in Routes \cup {"success"}
    BY FailureRoute
  <2>2. Advance([status EXCEPT ![n] = "exception"], Resolved(n, route), ready)
    BY <1>4 DEF FailHandled, Proceeding
  <2> HIDE DEF route
  <2> QED BY <1>2, <2>1, <2>2
<1> QED BY <1>3, <1>4

\* What launchReady leaves in the queue.
LEMMA LaunchBusy ==
    ASSUME FlowTypeOK, Working, Busy, LaunchReady
    PROVE  Busy'
<1>1. PICK L \in SUBSET (ready \ Unanswered), R \in SUBSET Unanswered :
          /\ Cardinality(Inflight \cup L) >= MaxConcurrency \/ L \cup R = ready
          /\ Inflight' = Inflight \cup L
          /\ ready' = ready \ (L \cup R)
          /\ status' = [n \in Nodes |-> IF n \in L THEN "running" ELSE status[n]]
          /\ paused' = [n \in Nodes |-> IF n \in L THEN "none" ELSE paused[n]]
          /\ phase' = IF Inflight \cup L = {} THEN "stuck" ELSE "select"
          /\ R = {} => pause' = pause
          /\ R # {} => pause'.wanted
          /\ UNCHANGED <<edge, targets, saved>>
  BY LaunchesAll
<1> SUFFICES ASSUME Alive', ~pause'.wanted PROVE Busy'
  BY DEF Busy
<1>2. R = {} /\ pause' = pause /\ phase' = "select"
  BY <1>1 DEF Alive
<1>3. Alive /\ ~pause.wanted /\ ready \subseteq Nodes
  BY <1>2 DEF LaunchReady, Launching, Alive, FlowTypeOK
<1>4. /\ \A n \in Nodes : status[n] = "interrupted" => n \in ready
      /\ Quiescent \/ status[Start] \in {"ready", "running"}
      /\ pause.contexts = {}
  BY <1>3 DEF Busy
<1>5. \A n \in L : n \in Nodes /\ status[n] \in {"ready", "interrupted"}
  BY <1>3 DEF Working
<1>6. \A n \in Nodes : status'[n] = "interrupted" => n \in ready'
  BY <1>1, <1>2, <1>4
<1>7. \A n \in Nodes : status'[n] = "pending" <=> status[n] = "pending"
  BY <1>1, <1>5
<1>8. Quiescent => Quiescent'
  <2>1. {n \in Nodes \ {Start} : status'[n] = "pending"} = {n \in Nodes \ {Start} : status[n] = "pending"}
    BY <1>7
  <2>2. Dead(status', edge') = Dead(status, edge)
    BY <1>1, <2>1 DEF Dead
  <2>3. Awake(status', edge') = Awake(status, edge)
    BY <1>1, <1>7 DEF Awake
  <2> QED BY <2>2, <2>3 DEF Quiescent
<1>9. status[Start] \in {"ready", "running"} => status'[Start] \in {"ready", "running"}
  BY <1>1, GraphAssumption
<1>10. Unanswered' # {} => Cardinality(Inflight') >= MaxConcurrency
  <2>1. Unanswered' \subseteq ready'
    BY DEF Unanswered
  <2> QED BY <1>1, <1>2, <2>1
<1> QED BY <1>2, <1>4, <1>6, <1>8, <1>9, <1>10 DEF Busy

\* An execution that goes on always has something to do.
LEMMA BusyStep ==
    ASSUME FlowTypeOK, Working, Working', Fresh, Idle, Resumable, CheckpointValid,
           Busy, Single, [FlowNext]_flowVars
    PROVE  Busy'
<1>a. ASSUME ~Alive' \/ pause'.wanted PROVE Busy'
  BY <1>a DEF Busy
<1>b. ASSUME UNCHANGED <<phase, frontier, pause, targets>>, Inflight' = Inflight PROVE Busy'
  BY <1>b DEF Busy, Alive, frontier, Quiescent, Unanswered
<1>w. \A addressed \in BOOLEAN : Wanted(addressed).wanted
  BY DEF Wanted, FlowTypeOK, Pause
<1>1. ASSUME Run PROVE Busy'
  <2>0. Start \in Nodes
    BY GraphAssumption
  <2>1. /\ status' = [n \in Nodes |-> IF n = Start THEN "ready" ELSE "pending"]
        /\ paused' = [n \in Nodes |-> "none"] /\ ready' \subseteq Nodes
        /\ pause' = NoPause
    BY <1>1, <2>0 DEF Run, Fresh, volatile
  <2>2. Unanswered' = {}
    BY <2>1 DEF Unanswered
  <2> QED BY <2>0, <2>1, <2>2 DEF Busy, NoPause
<1>2. ASSUME NEW T \in SUBSET Nodes, Resume(T) PROVE Busy'
  <2>1. /\ saved # NoCheckpoint /\ saved' = saved /\ saved \in Checkpoint
        /\ MovedOn(saved.status, saved.edge, Restored(saved))
        /\ pause' = NoPause /\ targets' = T /\ paused' = saved.paused
    BY <1>2, Resumes
  <2>2. /\ Aligned(saved) /\ T \subseteq saved.contexts /\ (saved.contexts # {} => T # {})
        /\ Advance(saved.status, saved.edge, Restored(saved)) /\ phase' = "top"
    BY <1>2 DEF Resume
  <2>3. /\ saved.status \in [Nodes -> NodeStatuses] /\ saved.edge \in [Edges -> EdgeStates]
        /\ Restored(saved) \in SUBSET Nodes
    BY <2>1 DEF Checkpoint, Restored
  <2>4. Quiescent'
    BY <2>2, <2>3, AdvanceQuiesces
  <2>5. \A n \in Nodes : saved.paused[n] # "none" => n \in ready'
    BY <2>1 DEF Restored, MovedOn
  <2>6. \A n \in Nodes : status'[n] = "interrupted" => n \in ready'
    BY <2>1, <2>5 DEF CheckpointValid, MovedOn
  <2>7. Unanswered' # {} => ready' \ Unanswered' # {}
    <3>1. Unanswered' # {} => saved.contexts # {}
      BY <2>1, <2>2 DEF Unanswered, MovedOn, Aligned
    <3>2. \A t \in T : t \in ready' /\ t \notin Unanswered'
      BY <2>1, <2>2, <2>5 DEF Unanswered, Aligned
    <3> QED BY <2>2, <3>1, <3>2
  <2> QED BY <2>1, <2>2, <2>4, <2>6, <2>7 DEF Busy, NoPause
<1>3. ASSUME FinishInterrupted PROVE Busy'
  BY <1>3, <1>a DEF FinishInterrupted, Alive
<1>4. ASSUME FinishSucceeded PROVE Busy'
  BY <1>4, <1>a DEF FinishSucceeded, Alive
<1>5. ASSUME FinishCanceled PROVE Busy'
  BY <1>5, <1>a DEF FinishCanceled, Alive
<1>6. ASSUME Crash PROVE Busy'
  BY <1>6, <1>a DEF Crash, Alive
<1>7. ASSUME RequestBeforeInterrupt PROVE Busy'
  BY <1>7, <1>a, <1>w DEF RequestBeforeInterrupt
<1>8. ASSUME LaunchReady PROVE Busy'
  BY <1>8, LaunchBusy
<1>9. ASSUME HostInterrupt PROVE Busy'
  <2>1. pause'.wanted
    BY <1>9, <1>w DEF HostInterrupt, Wanted, FlowTypeOK, Pause
  <2> QED BY <1>a, <2>1
<1>10. ASSUME ForceHostReruns PROVE Busy'
  BY <1>10, <1>b DEF ForceHostReruns, Inflight
<1>11. ASSUME NEW n \in Nodes, (\E route \in Routes : Succeed(n, route)) \/ FailHandled(n)
       PROVE  Busy'
  <2> SUFFICES ASSUME ~pause'.wanted PROVE Busy'
    BY <1>a
  <2>1. /\ Alive /\ ready \subseteq ready'
        /\ \A m \in Nodes \ {n} : status'[m] = status[m] \/ status'[m] \in {"skipped", "ready"}
        /\ status'[n] \in {"succeeded", "exception"}
        /\ pause' = PauseAfter(n) \/ pause' = pause
    BY <1>11, Ends
  <2>2. pause' = pause /\ ~pause.wanted
    BY <2>1, <1>w DEF PauseAfter
  <2>3. phase = "select" /\ phase' = "top"
    BY <1>11, <2>2 DEF Succeed, FailHandled, CanFail, Waiting
  <2>4. /\ \A m \in Nodes : status[m] = "interrupted" => m \in ready
        /\ Unanswered # {} => Cardinality(Inflight) >= MaxConcurrency
        /\ pause.contexts = {}
    BY <2>1, <2>2, <2>3 DEF Busy
  <2>5. \A m \in Nodes : status'[m] = "interrupted" => m \in ready'
    BY <2>1, <2>4
  <2>6. Unanswered' \subseteq Unanswered /\ Inflight' = Inflight \ {n} /\ n \in Inflight
    BY <1>11, NoneForgotten
  <2>7. Unanswered' # {} => Inflight' # {}
    <3>1. Unanswered # {} => MaxConcurrency # 1
      BY <2>1 DEF Single
    <3> QED BY <2>4, <2>6, <3>1, OneLess
  <2>8. Quiescent'
    BY <1>11, EndQuiesces
  <2> QED BY <2>2, <2>3, <2>4, <2>5, <2>7, <2>8 DEF Busy
<1>12. ASSUME NEW n \in Nodes, Retry(n) PROVE Busy'
  <2>1. Inflight' = Inflight
    BY <1>12 DEF Retry, Inflight, FlowTypeOK
  <2> QED BY <1>12, <1>b, <2>1 DEF Retry
<1>13. ASSUME NEW n \in Nodes, FailRun(n) PROVE Busy'
  BY <1>13, <1>a DEF FailRun, Alive
<1>14. ASSUME NEW n \in Nodes, NEW reason \in Reasons \ {"none"}, Interrupt(n, reason)
       PROVE  Busy'
  <2>1. pause'.wanted
    BY <1>14, <1>w DEF Interrupt, Wanted, FlowTypeOK, Pause
  <2> QED BY <1>a, <2>1
<1>15. CASE UNCHANGED flowVars
  BY <1>15, <1>b DEF flowVars, volatile, Inflight
<1>16. ASSUME NEW n \in Nodes, HandleInside(n) PROVE Busy'
  <2>1. UNCHANGED <<phase, status, edge, ready, paused, passed, work, forced, pause, targets, saved>>
    BY <1>16, Insides
  <2>2. Inflight' = Inflight
    BY <2>1 DEF Inflight
  <2> QED BY <2>1, <2>2 DEF Busy, Alive, Quiescent, Unanswered, Dead, Awake
<1> QED
  BY <1>1, <1>2, <1>3, <1>4, <1>5, <1>6, <1>7, <1>8, <1>9, <1>10, <1>11, <1>12, <1>13, <1>14,
     <1>15, <1>16, Steps

\* launchReady finds something to launch, unless nodes are invoked already.
LEMMA ProgressStep ==
    ASSUME IInv, Started, Busy, SchedulerProgresses, [FlowNext]_flowVars
    PROVE  SchedulerProgresses'
<1>1. ASSUME LaunchReady PROVE SchedulerProgresses'
  <2>1. PICK L \in SUBSET (ready \ Unanswered), R \in SUBSET Unanswered :
            /\ Cardinality(Inflight \cup L) >= MaxConcurrency \/ L \cup R = ready
            /\ phase' = IF Inflight \cup L = {} THEN "stuck" ELSE "select"
    BY <1>1, LaunchesAll DEF IInv
  <2>2. SUFFICES ASSUME Inflight \cup L = {} PROVE FALSE
    BY <2>1 DEF SchedulerProgresses
  <2>3. ready \ Unanswered # {}
    BY <1>1, <2>2, WorkLeft DEF LaunchReady
  <2>4. Cardinality(Inflight \cup L) = 0 /\ MaxConcurrency \in Nat \ {0}
    BY <2>2, FS_EmptySet, GraphAssumption
  <2> QED BY <2>1, <2>2, <2>3, <2>4
<1>2. ~LaunchReady => phase' # "stuck"
  <2>1. \A T \in SUBSET Nodes : Resume(T) => phase' # "stuck"
    BY DEF Resume
  <2>2. Run \/ FinishInterrupted \/ FinishSucceeded \/ FinishCanceled \/ Crash => phase' # "stuck"
    BY DEF Run, FinishInterrupted, FinishSucceeded, FinishCanceled, Crash
  <2>3. RequestBeforeInterrupt \/ HostInterrupt \/ ForceHostReruns => phase' # "stuck"
    BY DEF RequestBeforeInterrupt, Launching, HostInterrupt, ForceHostReruns, Alive
  <2>4. \A n \in Nodes : (\E route \in Routes : Succeed(n, route)) \/ FailHandled(n) \/ FailRun(n)
                         => phase' # "stuck"
    BY DEF Succeed, FailHandled, FailRun
  <2>5. \A n \in Nodes : Retry(n) \/ HandleInside(n) => phase' # "stuck"
    BY DEF Retry, HandleInside, Alive
  <2>6. \A n \in Nodes, reason \in Reasons \ {"none"} : Interrupt(n, reason) => phase' # "stuck"
    BY DEF Interrupt
  <2>7. UNCHANGED flowVars => phase' # "stuck"
    BY DEF flowVars, SchedulerProgresses
  <2> QED BY <2>1, <2>2, <2>3, <2>4, <2>5, <2>6, <2>7 DEF FlowNext
<1> QED BY <1>1, <1>2 DEF SchedulerProgresses

\* No run of a plan comes to a point where nothing is invoked, nothing can
\* be, and the end is not reached.
THEOREM NeverStuck == FlowSpec => []SchedulerProgresses
<1>1. FlowInit => Going
  BY DEF FlowInit, Going, Started, Busy, Single, SchedulerProgresses, Alive
<1>2. IInv /\ IInv' /\ Going /\ [FlowNext]_flowVars => Going'
  <2> SUFFICES ASSUME IInv, IInv', Going, [FlowNext]_flowVars PROVE Going'
    OBVIOUS
  <2>1. Started'
    BY StartedStep DEF IInv, Going
  <2>2. Single'
    BY SingleStep DEF IInv, Going
  <2>3. Busy'
    BY BusyStep DEF IInv, Going
  <2>4. SchedulerProgresses'
    BY ProgressStep DEF Going
  <2> QED BY <2>1, <2>2, <2>3, <2>4 DEF Going
<1>3. Going => SchedulerProgresses
  BY DEF Going
<1> QED BY <1>1, <1>2, <1>3, Invariance, PTL DEF FlowSpec
=============================================================================
