\* Sources of up to three statements, and short sequences of tokens; two passes over each.
CONSTANTS
  Sources <- MCSources
  MaxPass = 2
SPECIFICATION FairSpec
INVARIANTS
  TypeOK
  EachOnce
  PartsAsWritten
PROPERTIES
  Ends
CHECK_DEADLOCK FALSE
