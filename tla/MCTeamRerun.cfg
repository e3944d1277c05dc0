SPECIFICATION AttemptSpec
CONSTANTS
  lead = lead
  Lead = lead
  m1 = m1
  NoMember = NoMember
  Coordinator = Coordinator
  Members = {lead}
  k1 = k1
  Tasks = {k1}
  MaxActive = 1
  AttemptLimit = 1
  MaxMessages = 2
  r1 = r1
  Runners = {r1}
  Acknowledges = TRUE
  Reports = TRUE
  ConflictLimit = 2
INVARIANT CompletionRepeats
CHECK_DEADLOCK FALSE
