SPECIFICATION FairSpec
CONSTANTS
  SEQ = 64
  HELLO = 12
  ISN = 32
  PeerISNs = {0, 63}
  PeerData = 0
  MaxLost = 2
  LinkCap = 4
PROPERTY
  PeerCloses
\* The link falls silent once both sides are done, or a loss leaves them stuck.
CHECK_DEADLOCK FALSE
