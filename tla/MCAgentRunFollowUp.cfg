\* One run whose first answer is cut off while a follow-up is queued.
SPECIFICATION Spec
CONSTANTS
    r1 = r1
    m1 = m1
    Runners = {r1}
    Messages = {m1}
    MaxTurns = 2
    SalvageAttempts = 2
    DrainAll = FALSE
    MaxCalls = 1
    MaxRuns = 1
PROPERTIES
    FollowUpsWaitForAnswer
CHECK_DEADLOCK FALSE
