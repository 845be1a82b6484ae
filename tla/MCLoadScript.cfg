CONSTANTS
  s1 = s1
  s2 = s2
  PROJ = PROJ
  LOCA = LOCA
  XMON = XMON
  Sessions <- MCSessions
  Files <- MCFiles
  Registry <- MCRegistry
  NoParent = NoParent
  Main = "main"
  Outs = {"a.duckdb", "b.duckdb"}
  NotAttached = "not attached"
  MaxScripts = 3
  MaxEdits = 1
  MaxCrashes = 1
SPECIFICATION Spec
INVARIANTS TypeOK FinishedIsComplete OwnDestination AliasReleased
SYMMETRY Symmetry
