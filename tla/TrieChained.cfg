SPECIFICATION Spec
CONSTANTS
  MaxChar = 4
  Upper <- MCUpper
  Lower <- MCLower
  PREALLOC = 3
  Requests <- ChainedRequests
  Prefixed <- MCPrefixed
  Iters = {a}
  MaxLength = 5
INVARIANT
  GetFindsTheValue
