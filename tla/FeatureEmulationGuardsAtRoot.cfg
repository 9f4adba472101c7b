SPECIFICATION Spec
CONSTANTS
  ExcTable <- MCExcTable
  CatchLists <- MCCatchLists
  Masks <- MCMasks
  ThrowCodes = {2}
  BreakCodes = {2}
  Uses = {"GuardsAtRoot"}
  MaxFrames = 3
  MaxDepth = 6
  MaxBreaks = 1
  MaxGuards = 3
  MaxExceptions = 2
INVARIANT NeverCrashes
