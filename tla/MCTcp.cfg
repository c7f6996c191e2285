SPECIFICATION FairSpec
CONSTANTS
  SEQ = 64
  HELLO = 12
  ISN = 32
  PeerISNs = {0, 63}
  PeerData = 3
  MaxLost = 2
  LinkCap = 4
INVARIANTS
  TypeOK
  AckNotAhead
  CloseIsMutual
PROPERTIES
  ReadsOneMessage
  HelloArrives
\* The link falls silent once both sides are done, or a loss leaves them stuck.
CHECK_DEADLOCK FALSE
