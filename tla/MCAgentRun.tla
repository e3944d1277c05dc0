----------------------------- MODULE MCAgentRun -----------------------------
(* Finite values for AgentRun.                                             *)
EXTENDS AgentRun, TLC

\* Runners are interchangeable, and so are messages.
Interchangeable == Permutations(Runners) \cup Permutations(Messages)
=============================================================================
