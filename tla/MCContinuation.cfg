\* Two callers over one execution: every operation of one interleaves with
\* every operation of the other.
SPECIFICATION Spec
CONSTANTS
    a1 = a1
    a2 = a2
    Callers = {a1, a2}
    NoCaller = NoCaller
    SignalIds = {"s1"}
    Requests <- AllRequests
    WorkTurns = {1}
    MaxAttempts = 2
    MaxTurns = 2
    HasDeadline = FALSE
    MaxReconciliations = 16
    MaxTransitions = 7
    MaxFaults = 1
    MaxCrashes = 1
SYMMETRY CallerSymmetry
INVARIANTS
    TypeOK
    NoRecordRefused
    StageOwnsRecord
    FewReconciliations
    FailedWorkNotJudged
PROPERTIES
    IntentHonoured
    NoSilentRerun
    WorkChargedOnce
    WakeupReachesWorker
    ImplementsLifecycle
