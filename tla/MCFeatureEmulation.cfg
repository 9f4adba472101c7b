SPECIFICATION FairSpec
CONSTANTS
  ExcTable <- MCExcTable
  CatchLists <- MCCatchLists
  Masks <- MCMasks
  ThrowCodes = {2}
  BreakCodes = {2}
  Uses = {"CalleeEscapesGuard", "BreakInTry"}
  MaxFrames = 3
  MaxDepth = 7
  MaxBreaks = 1
  MaxGuards = 4
  MaxExceptions = 2
INVARIANTS
  TypeOK
  JmpStacksMirrorControl
  EntryChecksBalanced
  PendingExceptions
  GuardsBelongToActiveFrames
  NeverCrashes
PROPERTIES
  ImplementsStructuredExceptions
  UnwindingEnds
