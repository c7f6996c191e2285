SPECIFICATION FairSpec
CONSTANTS
  Hosts = {"known", "a", "b"}
  Macs = {"m1", "m2"}
  Carded = {"known", "a"}
  InitialTable <- MCInitialTable
  WAIT_SLOTS = 4
  MaxPackets = 5
  MaxTable = 3
INVARIANTS
  TypeOK
  SentToItsHop
  WaitsOrGone
PROPERTIES
  ScanReturns
  ScanAdvances
CHECK_DEADLOCK FALSE
