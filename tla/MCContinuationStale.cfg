\* A pause that has persisted its request is overtaken by a resume and a new
\* stage, whose context it then cancels.
SPECIFICATION FairSpec
CONSTANTS
    a1 = a1
    a2 = a2
    Callers = {a1, a2}
    NoCaller = NoCaller
    SignalIds = {"s1"}
    Requests <- AllRequests
    WorkTurns = {0}
    MaxAttempts = 2
    MaxTurns = 0
    HasDeadline = FALSE
    MaxReconciliations = 16
    MaxTransitions = 6
    MaxFaults = 0
    MaxCrashes = 0
INVARIANTS
    StageCancelledOnRequest
