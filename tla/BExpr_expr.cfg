\* Every operand the grammar of MCBExpr gives a meaning, and all short texts.
CONSTANTS
  a = a
  b = b
  NoReg = NoReg
  NoMean = NoMean
  Regs <- MCRegs
  Terms <- MCTerms
SPECIFICATION Spec
INVARIANTS
  TypeOK
  KindsAgree
  StackOrdered
  MeansWhatItSays
