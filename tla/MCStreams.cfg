SPECIFICATION Spec
CONSTANTS
  Chunk <- MCChunk
  Streams0 <- MCStreams0
  Slices <- MCSlices
  Formats <- MCFormats
  Blocks = {1, 3}
  Stop <- MCStop
  FileTexts <- MCFileTexts
  Modes = {"r", "a+"}
  Descriptors = {3, 4}
  Replies <- MCFileTexts
  MaxText = 3
  MaxLevel = 2
INVARIANTS
  IndentIndependentOfCuts
  HandlesAreKept
PROPERTIES
  NewlinesReachTheDisk
  ReadsGoOn
