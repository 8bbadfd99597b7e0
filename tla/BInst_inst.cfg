SPECIFICATION Spec
CONSTANTS
  DwordBits <- MCDwordBits
  Lines <- MCLines
INVARIANTS
  TypeOK
  Alone
  ChecksOnly
  Reads
  Retreats
CHECK_DEADLOCK FALSE
