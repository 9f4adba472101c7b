SPECIFICATION Spec
CONSTANTS
  t1 = t1
  t2 = t2
  t3 = t3
  Threads <- MCThreads
  EarlyThreads <- MCEarlyThreads
  Keywords = {"a", "b"}
  Indexes = {"global", "caller"}
  Global = "global"
  MaxLookups = 1
  NoThread = NoThread
  Tracers <- MCTracers
INVARIANTS
  LookupsSeeTheWholeIndex
  EnteredThreadsHaveBuffers
  HandlersComeBack
PROPERTIES
  LookupsEnd
