------------------------ MODULE ContinuationLifecycle ------------------------
(***************************************************************************)
(* What a continuation execution promises its host: the documented life    *)
(* cycle, as if there were one host, one call at a time and no store.      *)
(* Continuation implements it: its goroutines, revisions, slot, failed     *)
(* writes and crashes show the host nothing else.                          *)
(***************************************************************************)

VARIABLES
    status,   \* the status of the execution
    phase,    \* the stage to run next, or running
    evidence, \* work result of the open attempt: "none", "partial" or "full"
    resume,   \* what Resume restores; retry: only RetryWork may go on
    stage     \* the handler that runs: "none", "work" or "decision"

vars == <<status, phase, evidence, resume, stage>>

Nothing == [status |-> "none", phase |-> "work", retry |-> FALSE]

Ended == {"completed", "failed", "cancelled", "limited"}
Owned == {"running", "pause_requested", "cancel_requested"}

Becomes(s, p, e, r) == status' = s /\ phase' = p /\ evidence' = e /\ resume' = r

Ready(p) == [status |-> "ready", phase |-> p, retry |-> FALSE]
Retry == [status |-> "ready", phase |-> "work", retry |-> TRUE]

Init ==
    /\ status = "ready" /\ phase = "work" /\ evidence = "none"
    /\ resume = Nothing /\ stage = "none"

\* One handler at a time; a decision needs complete work.  The write that
\* starts a stage may be reported as failed, and then no handler runs.
Start ==
    /\ stage = "none" /\ status = "ready"
    /\ phase = "decision" => evidence = "full"
    /\ Becomes("running", phase, IF phase = "work" THEN "none" ELSE evidence, resume)
    /\ stage' \in {phase, "none"}

\* Work returns: only complete work goes on to a decision by itself.
WorkReturns ==
    /\ stage = "work" /\ stage' = "none" /\ phase = "work"
    /\ \E e \in {"partial", "full"} :
          \/ status = "running" /\ e = "full" /\ Becomes("ready", "decision", e, resume)
          \/ status = "running" /\ e = "partial" /\ Becomes("interrupted", "work", e, resume)
          \/ /\ status = "pause_requested"
             /\ IF e = "full" THEN Becomes("paused", "decision", e, Ready("decision"))
                              ELSE Becomes("paused", "work", e, Retry)
          \/ status = "cancel_requested" /\ Becomes("cancelled", "work", e, Nothing)

\* A decision closes the attempt; one that failed or was paused can be redone.
DecisionReturns ==
    /\ stage = "decision" /\ stage' = "none" /\ phase = "decision" /\ evidence = "full"
    /\ \/ status = "running" /\ Becomes("interrupted", phase, evidence, resume)
       \/ status = "pause_requested" /\ Becomes("paused", phase, evidence, Ready(phase))
       \/ status = "cancel_requested" /\ Becomes("cancelled", phase, evidence, Nothing)
       \/ /\ status = "running"
          /\ \/ \E s \in {"ready", "waiting", "blocked"} : Becomes(s, "work", "none", Nothing)
             \/ \E s \in {"completed", "failed", "cancelled"} :
                   Becomes(s, "decision", "none", Nothing)

\* A handler disappears: a crash, a store that fails, an execution that ended.
Vanish ==
    /\ stage # "none" /\ stage' = "none"
    /\ UNCHANGED <<status, phase, evidence, resume>>

\* Nothing is ever reconciled under a running handler.
Reconcile ==
    /\ stage = "none" /\ UNCHANGED stage
    /\ \/ status = "running" /\ Becomes("interrupted", phase, evidence, resume)
       \/ /\ status = "pause_requested"
          /\ Becomes("paused", phase, evidence, IF phase = "work" THEN Retry ELSE Ready(phase))
       \/ status = "cancel_requested" /\ Becomes("cancelled", phase, evidence, Nothing)

Pause ==
    \/ status = "running" /\ Becomes("pause_requested", phase, evidence, resume)
    \/ /\ status \in {"ready", "waiting", "blocked", "interrupted"}
       /\ Becomes("paused", phase, evidence,
                  [status |-> status, phase |-> phase,
                   retry |-> status = "interrupted" /\ phase = "work"])

Resume ==
    /\ status = "paused" /\ ~resume.retry
    /\ Becomes(resume.status, resume.phase, evidence, Nothing)

RetryWork ==
    /\ \/ status = "paused" /\ resume.retry
       \/ status = "interrupted" /\ phase = "work"
    /\ Becomes("ready", "work", "none", Nothing)

RetryDecision ==
    /\ status = "interrupted" /\ phase = "decision" /\ evidence = "full"
    /\ Becomes("ready", "decision", evidence, resume)

\* A signal, a due time or the resolution of a block.
Wake == status \in {"waiting", "blocked"} /\ Becomes("ready", "work", evidence, resume)

Cancel ==
    \/ /\ status \in {"running", "pause_requested"}
       /\ Becomes("cancel_requested", phase, evidence, resume)
    \/ /\ status \notin Ended \cup Owned
       /\ Becomes("cancelled", phase, evidence, Nothing)

Fail == status \notin Ended /\ Becomes("failed", phase, evidence, Nothing)

Limit == stage = "none" /\ status = "ready" /\ Becomes("limited", phase, evidence, Nothing)

Next ==
    \/ Start \/ WorkReturns \/ DecisionReturns \/ Vanish \/ Reconcile
    \/ /\ \/ Pause \/ Resume \/ RetryWork \/ RetryDecision \/ Wake
          \/ Cancel \/ Fail \/ Limit
       /\ UNCHANGED stage

Spec == Init /\ [][Next]_vars
=============================================================================
