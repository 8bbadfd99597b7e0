\* Texts of up to three lexemes, and all short texts; two passes over each.
CONSTANTS
  Texts <- MCTexts
  BufSize = 4
  MaxPass = 2
  Wrap = 256
SPECIFICATION FairSpec
INVARIANTS
  WithinText
  RowAndColumn
  AsWritten
  NumbersRead
PROPERTIES
  PassEnds
CHECK_DEADLOCK FALSE
