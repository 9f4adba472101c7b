SPECIFICATION Spec
CONSTANTS
  MaxChar = 4
  Upper <- MCUpper
  Lower <- MCLower
  PREALLOC = 3
  Requests <- MCRequests
  Prefixed <- MCPrefixed
  Iters = {a}
  MaxLength = 5
INVARIANTS
  GetFindsTheValue
  RadixShape
  IteratorsFit
PROPERTIES
  WritesWait
  ImplementsMap
  SetObeysFlags
