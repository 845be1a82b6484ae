CONSTANTS
  w1 = w1
  w2 = w2
  p1 = p1
  p2 = p2
  Workers <- MCWorkers
  NoWorker = NoWorker
  Paths = {"a", "b"}
  Sizes <- MCSizes
  Encodings = {"UTF-8"}
  Parses <- MCParses
  NoParse = NoParse
  Caps <- MCCaps
  MinEntryCost = 1
  MaxCalls = 4
SPECIFICATION Spec
INVARIANTS TypeOK ChargeExact TicksDistinct CapRespected EntriesBounded DisabledHoldsNothing
PROPERTIES PublishedSurvives EvictsOldest ImplementsLru
SYMMETRY Symmetry
