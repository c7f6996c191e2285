SPECIFICATION Spec
CONSTANTS
  Names = {"eth4", "eth5"}
  OwnAddress <- MCOwnAddress
  Netmasks <- MCNetmasks
  Destinations <- MCDestinations
  WaitSlots = 1
INVARIANT OwnOnly
