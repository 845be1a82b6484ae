CONSTANTS
  a = a
  b = b
  Clones <- MCClones
  Versions <- MCVersions
  None = None
  Upstream = Upstream
  Plans <- MCPlans
  MaxCommits = 3
SPECIFICATION Spec
PROPERTIES TagStays
