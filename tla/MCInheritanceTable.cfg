SPECIFICATION Spec
CONSTANTS
  a = a
  b = b
  c = c
  d = d
  Vars <- MCVars
  InitialIds <- MCInitialIds
  RootMayMove = FALSE
INVARIANTS
  OwnersHoldTheirIndex
  IsAIsAncestry
PROPERTY
  IdsNeverChange
