SPECIFICATION RegSpec
CONSTANTS
  a = a
  b = b
  c = c
  d = d
  Vars <- MCVars
  InitialIds <- MCInitialIds
  SKIT_FATAL_EXCEPTION = a
  RootMayMove = FALSE
  ParentsFirst = TRUE
INVARIANTS
  EveryCodeHasAMessage
  NeverOverruns
