\* A name is overwritten by another one.
CONSTANTS
  Keys <- MCKeys
  Vals = {1, 2}
  NULL = NULL
  HashFns <- MCHashFns
  Nel = 3
SPECIFICATION Spec
PROPERTIES
  ImplementsMap
