SPECIFICATION EnginesSpec
CONSTANTS
  lead = lead
  Lead = lead
  m1 = m1
  NoMember = NoMember
  Coordinator = Coordinator
  Members = {lead, m1}
  k1 = k1
  k2 = k2
  Tasks = {k1, k2}
  MaxActive = 2
  AttemptLimit = 2
  MaxMessages = 2
  r1 = r1
  Runners = {r1}
  Acknowledges = TRUE
  Reports = TRUE
  ConflictLimit = 2
  Nodes = {1, 2, 3, 4, 5, 6, 7}
  Start = 1
  End = 6
  Edges <- MCEdges
  Routes = {"success", "error"}
  Policy <- MCPolicy
  Composite = {3}
  Interruptible = {2, 3, 4, 7}
  Before = {4}
  After = {3}
  MaxConcurrency = 2
  Attempts = 2
  Replays = {0, 1}
  MaxAttempts = 2
INVARIANTS
  AttemptTypeOK
  ChildHasAttempt
  FinishIsLast
  RecordsValid
  DependenciesFirst
  FlowTypeOK
  JoinsAgree
  FinishedStays
  CheckpointValid
  SchedulerProgresses
  BoundariesHold
  OutcomeTruthful
  RequestsBounded
  DraftSettled
PROPERTIES
  AttemptsFinal
  ImplementsBoard
CHECK_DEADLOCK FALSE
