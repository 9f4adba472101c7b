SPECIFICATION ProgramSpec
CONSTANTS
  NULL = NULL
  Nodes = {n1, n2, n3, n4}
  Vals = {1, 2}
  Names = {a, b}
SYMMETRY NodeSymmetry
INVARIANTS
  EndsAgree
  FreeWalksOneRange
PROPERTIES
  ImplementsSequences
  FreeImplementsArray
