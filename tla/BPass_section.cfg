\* A second section with its own ORG.
CONSTANTS
  Syms <- Names3
  Programs <- SectionPrograms
  PassWrap = 256
  CountMod = 65536
  CapUnit = 4096
  CapQuad = 1048576
  MemLimit = 16777216
SPECIFICATION Spec
PROPERTIES
  PadsToSize
