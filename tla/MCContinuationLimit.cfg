\* The turn limit is reached by the work of an attempt.
SPECIFICATION FairSpec
CONSTANTS
    a1 = a1
    a2 = a2
    Callers = {a1, a2}
    NoCaller = NoCaller
    SignalIds = {"s1"}
    Requests <- AllRequests
    WorkTurns = {1}
    MaxAttempts = 2
    MaxTurns = 1
    HasDeadline = FALSE
    MaxReconciliations = 16
    MaxTransitions = 6
    MaxFaults = 0
    MaxCrashes = 0
PROPERTIES
    DecisionFollowsWork
