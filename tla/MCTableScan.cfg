CONSTANTS
  Registry <- MCRegistry
  Bundled <- MCBundled
  Rules <- MCRules
  NulNames = {"nul"}
  Canonical <- MCCanonical
  Statements <- MCStatements
  Scans = {"a", "b"}
  Sessions <- MCSessions
  VectorSize = 2
  NoData = NoData
SPECIFICATION Spec
INVARIANTS TypeOK StoresFit RowsOnceInOrder StructureDescribesTables IdsFollowDeclarations DictionaryAgrees
PROPERTIES ScansEnd
