\* A longer history with fewer operations: two waits, the same signal for both,
\* and pause and cancel requests that must settle.
SPECIFICATION FairSpec
CONSTANTS
    a1 = a1
    a2 = a2
    Callers = {a1, a2}
    NoCaller = NoCaller
    SignalIds = {"s1"}
    Requests <- WaitRequests
    WorkTurns = {0}
    MaxAttempts = 2
    MaxTurns = 0
    HasDeadline = TRUE
    MaxReconciliations = 16
    MaxTransitions = 12
    MaxFaults = 0
    MaxCrashes = 0
INVARIANTS
    SignalOnce
    AttemptsWithinLimit
PROPERTIES
    RequestSettles
