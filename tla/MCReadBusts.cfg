CONSTANTS
  w1 = w1
  w2 = w2
  a = a
  b = b
  Workers <- MCWorkers
  NoWorker = NoWorker
  Paths = {"f"}
  Encodings = {"UTF-8"}
  NoParse = NoParse
  Caps <- MCCaps
  MinEntryCost = 1
  MaxCalls = 2
  Blocks <- MCBlocks
  Malformed <- MCMalformed
  Missing = Missing
  Follows = Follows
  MaxFileBytes = 3
  ReadChunk = 2
  MaxLen = 3
  Worlds <- ResizedWorld
  MaxEdits = 2
SPECIFICATION Spec
PROPERTIES ChangedLengthMisses
