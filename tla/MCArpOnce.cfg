SPECIFICATION Spec
CONSTANTS
  Hosts = {"known", "a", "b"}
  Macs = {"m1", "m2"}
  Carded = {"known", "a", "b"}
  InitialTable <- MCInitialTable
  WAIT_SLOTS = 4
  MaxPackets = 5
  MaxTable = 3
INVARIANT HandedOutOnce
CHECK_DEADLOCK FALSE
