SPECIFICATION Spec
CONSTANTS
  Chunk <- MCChunk
  Streams0 <- OneFile
  Slices <- MCSlices
  Formats <- MCFormats
  Blocks = {1, 3}
  Stop <- MCStop
  FileTexts <- OneCharacter
  Modes = {"r"}
  Descriptors = {3, 4}
  Replies <- MCFileTexts
  MaxText = 3
  MaxLevel = 2
PROPERTY LinesAsPromised
