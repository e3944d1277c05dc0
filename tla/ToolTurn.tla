------------------------------ MODULE ToolTurn ------------------------------
(***************************************************************************)
(* What the tool calls of one turn promise whoever wrote the tools: which  *)
(* of them execute, when, and next to what.  ToolBatch implements it.      *)
(***************************************************************************)
EXTENDS Naturals, FiniteSets

CONSTANTS CallCount, ParallelTools

Calls == 1..CallCount

VARIABLES
    parallel,  \* calls of tools marked Parallel
    answers,   \* calls that will be answered: a prefix
    allowed,   \* calls the gate lets execute
    executing, \* calls whose tool executes
    answered,  \* calls that have their result
    ended      \* the batch has returned

vars == <<parallel, answers, allowed, executing, answered, ended>>

Init ==
    /\ parallel \in SUBSET Calls
    /\ answers = {} /\ allowed = {} /\ executing = {} /\ answered = {}
    /\ ended = FALSE

\* The whole batch is decided before any of it executes.
Decide ==
    /\ answers = {} /\ executing = {} /\ answered = {} /\ ~ended
    /\ \E n \in 1..CallCount : answers' = 1..n
    /\ allowed' \in SUBSET answers'
    /\ UNCHANGED <<parallel, executing, answered, ended>>

\* A serial tool executes alone, after every earlier call and before every
\* later one; parallel tools share a bounded number of slots.
Execute(i) ==
    /\ i \in allowed \ (executing \cup answered) /\ ~ended
    /\ \A j \in 1..(i - 1) : j \in answered \/ {i, j} \subseteq parallel
    /\ executing = {} \/ executing \cup {i} \subseteq parallel
    /\ Cardinality(executing) < ParallelTools
    /\ executing' = executing \cup {i}
    /\ UNCHANGED <<parallel, answers, allowed, answered, ended>>

\* Each call is answered once, executed or not.
Answer(i) ==
    /\ i \in answers \ answered
    /\ answered' = answered \cup {i} /\ executing' = executing \ {i}
    /\ UNCHANGED <<parallel, answers, allowed, ended>>

\* No call is left without a result and no tool outlives its batch.
End ==
    /\ answered = answers /\ executing = {}
    /\ ended' = TRUE
    /\ UNCHANGED <<parallel, answers, allowed, executing, answered>>

Next == Decide \/ End \/ \E i \in Calls : Execute(i) \/ Answer(i)

Spec == Init /\ [][Next]_vars
=============================================================================
