\* Three lines around two labels, and chains of EQUs that need more passes than
\* pass_idx can count: the passes come to an end.
CONSTANTS
  Syms <- Names5
  Programs <- ConvergePrograms
  PassWrap = 5
  CountMod = 65536
  CapUnit = 4096
  CapQuad = 1048576
  MemLimit = 16777216
SPECIFICATION FairSpec
INVARIANTS
  IInv
  SettleWithin2
PROPERTIES
  Terminates
