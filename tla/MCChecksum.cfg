SPECIFICATION Spec
CONSTANTS
  BYTE = 3
  TTL = 2
  Pseudo <- MCPseudo
  MaxTail = 3
  MaxOthers = 63
INVARIANTS
  TypeOK
  CarriesFolded
  HeaderVerifies
  UnpackTells
\* A segment is unpacked once.
CHECK_DEADLOCK FALSE
