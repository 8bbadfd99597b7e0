\* A JCXZ to a label.
CONSTANTS
  Syms <- Names3
  Programs <- JcxzPrograms
  PassWrap = 256
  CountMod = 65536
  CapUnit = 4096
  CapQuad = 1048576
  MemLimit = 16777216
SPECIFICATION Spec
INVARIANTS
  JcxzHitsLabels
