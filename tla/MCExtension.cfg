CONSTANTS
  Functions <- MCFunctions
  Reading <- MCReading
  Certified <- MCCertified
  Binders = {"a", "b"}
  MaxLoads = 2
  MaxBinds = 2
SPECIFICATION Spec
INVARIANTS TypeOK LoadedIsComplete NothingHeld HandlesNest
PROPERTIES CallsEnd
