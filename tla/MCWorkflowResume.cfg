SPECIFICATION FlowSpec
CONSTANTS
  Nodes = {1, 2, 3, 4, 5, 6, 7}
  Start = 1
  End = 6
  Edges <- MCEdges
  Routes = {"success", "error"}
  Policy <- MCPolicy
  Composite = {3}
  Interruptible = {2, 3, 4, 7}
  Before = {4}
  After = {3}
  MaxConcurrency = 2
INVARIANT InterruptedIsResumable
CHECK_DEADLOCK FALSE
