CONSTANTS
  w1 = w1
  w2 = w2
  a = a
  b = b
  Workers <- MCWorkers
  NoWorker = NoWorker
  Paths = {"f"}
  Encodings = {"UTF-8", "windows-1252"}
  NoParse = NoParse
  Caps <- MCCaps
  MinEntryCost = 1
  MaxCalls = 3
  Blocks <- MCBlocks
  Malformed <- MCMalformed
  Missing = Missing
  Follows = Follows
  MaxFileBytes = 2
  ReadChunk = 2
  MaxLen = 3
  Worlds <- AllWorlds
  MaxEdits = 2
SPECIFICATION Spec
INVARIANTS TypeOK Transparent BufferBounded NothingShortCached GrowingFileIsFresh
PROPERTIES ReadsReturn
