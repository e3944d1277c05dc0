\* Two callers over one session; two turns are enough to spend the salvage.
SPECIFICATION Spec
CONSTANTS
    r1 = r1
    r2 = r2
    m1 = m1
    m2 = m2
    Runners = {r1, r2}
    Messages = {m1, m2}
    MaxTurns = 2
    SalvageAttempts = 1
    DrainAll = FALSE
    MaxCalls = 2
    MaxRuns = 2
SYMMETRY Interchangeable
INVARIANTS
    TypeOK
    MessagesKept
    CallsAnsweredOnce
    TruncatedNeverSucceeds
    OneRunHoldsSession
PROPERTIES
    OpenCallsStopRuns
CHECK_DEADLOCK FALSE
