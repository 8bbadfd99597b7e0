\* Five names and colliding hash values; the table grows once.
CONSTANTS
  Keys <- MCKeys
  Vals = {1, 2}
  NULL = NULL
  HashFns <- MCHashFns
  Nel = 3
SPECIFICATION FairSpec
INVARIANTS
  HalfFull
  FindsStored
  TableInv
PROPERTIES
  ImplementsLossyMap
  CallsEnd
