SPECIFICATION Spec
CONSTANTS
  Clients = {"mytest1", "mytest2", "other"}
  Program <- MCProgram
  QueueSize = 2
  MaxQueues = 2
  MaxRuns = 6
INVARIANT CalledOnce
CHECK_DEADLOCK FALSE
