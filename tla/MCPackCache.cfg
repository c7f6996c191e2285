\* Every interleaving of the two threads over a ring of three slots, with more
\* frames than slots so that the indices wrap round.
SPECIFICATION FairSpec
CONSTANTS
  PACKET_CACHE = 3
  MaxFrames = 4
  SpuriousWakes = TRUE
INVARIANTS
  TypeOK
  HandledInOrder
  FramesConserved
  WokenToUsableRing
PROPERTIES
  FifoWhileIntact
  HandledOrAsleep
  NextFrameRescues
  MutexIsFreed
\* The listener may exit, and both threads may fall asleep for good.
CHECK_DEADLOCK FALSE
