\* A text that makes the stream grow.
CONSTANTS
  Syms <- Names3
  Programs <- TextPrograms
  PassWrap = 256
  CountMod = 65536
  CapUnit = 16
  CapQuad = 64
  MemLimit = 1000
SPECIFICATION Spec
INVARIANTS
  OutputIntact
