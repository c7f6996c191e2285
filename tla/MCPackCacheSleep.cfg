SPECIFICATION Spec
CONSTANTS
  PACKET_CACHE = 3
  MaxFrames = 5
  SpuriousWakes = FALSE
INVARIANT NeverBothAsleep
CHECK_DEADLOCK FALSE
