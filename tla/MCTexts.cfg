SPECIFICATION Spec
CONSTANTS
  Keyboards <- MCKeyboards
  Grammars <- MCGrammars
INVARIANTS
  SlicesKeepTheirText
  ComparisonIsLexicographic
  ConversionsInvert
  MatchAgreesWithGrammar
  DiscardsUndoAbandonedActions
  TracesQuoteTheLine
CHECK_DEADLOCK FALSE
