\* Four lines around two labels (branches, gaps, padding, ALIGN), and one branch
\* of every form and mode at the edges of its reach; the stream never grows.
CONSTANTS
  Syms <- Names3
  Programs <- SourcePrograms
  PassWrap = 256
  CountMod = 65536
  CapUnit = 65536
  CapQuad = 1048576
  MemLimit = 16777216
SPECIFICATION Spec
INVARIANTS
  TypeOK
  SavedIsFixpoint
  UndefinedIsUndefined
  BranchesInRange
  BranchesHitLabels
  PassBound
PROPERTIES
  PadsToSize
