--------------------------- MODULE MCContinuation ---------------------------
(* Finite values for Continuation.                                         *)
EXTENDS Continuation, TLC

AllRequests == Operations

\* What it takes to go through two waits and to request a pause or a cancellation.
WaitRequests == SignalIds \cup {"Advance", "Pause", "Cancel"}

\* What it takes to deliver a signal.
SignalRequests == SignalIds \cup {"Advance"}

\* Callers are interchangeable; used by the runs without liveness.
CallerSymmetry == Permutations(Callers)
=============================================================================
