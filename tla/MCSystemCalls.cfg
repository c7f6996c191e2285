SPECIFICATION FairSpec
CONSTANTS
  Clients = {"mytest1", "mytest2", "other"}
  Program <- MCProgram
  QueueSize = 2
  MaxQueues = 2
  MaxRuns = 6
INVARIANTS
  TypeOK
  InProgramOrder
PROPERTIES
  CallsInTurn
  ServedUnlessRemoved
\* mtsyscal may wait for a call that nobody makes.
CHECK_DEADLOCK FALSE
