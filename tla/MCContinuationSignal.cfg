\* Two deliveries of one signal race.
SPECIFICATION FairSpec
CONSTANTS
    a1 = a1
    a2 = a2
    Callers = {a1, a2}
    NoCaller = NoCaller
    SignalIds = {"s1"}
    Requests <- SignalRequests
    WorkTurns = {0}
    MaxAttempts = 2
    MaxTurns = 0
    HasDeadline = FALSE
    MaxReconciliations = 16
    MaxTransitions = 7
    MaxFaults = 0
    MaxCrashes = 0
PROPERTIES
    SignalIdempotent
