CONSTANTS
  s1 = s1
  s2 = s2
  PROJ = PROJ
  LOCA = LOCA
  XMON = XMON
  Sessions <- MCSessions
  Files <- MCFiles
  Registry <- MCRegistry
  NoParent = NoParent
  Main = "main"
  Outs = {"a.duckdb", "b.duckdb"}
  NotAttached = "not attached"
  MaxScripts = 1
  MaxEdits = 0
  MaxCrashes = 0
SPECIFICATION Spec
INVARIANTS ParentIndexed
SYMMETRY Symmetry
