\* Three lines: TIMES, REP, labels, a stream that grows, moves or finds no memory.
CONSTANTS
  Syms <- Names3
  Programs <- LinesPrograms
  PassWrap = 4
  CountMod = 65536
  CapUnit = 16
  CapQuad = 64
  MemLimit = 100
SPECIFICATION Spec
INVARIANTS
  StreamLayout
  RepReported
PROPERTIES
  CutOnlyByTimes0
