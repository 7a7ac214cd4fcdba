SPECIFICATION PruningSpec
CONSTANTS
  Paths = {p1, p2, s1}
  Mirrors = {s1}
  Wikis = {s1}
  PageSize = 2
  MaxEvents = 2
SYMMETRY Symmetric
INVARIANTS PruningTypeOK OnlyDeletionsHide OnlyCreationsRepeat QuietIsExact StaleIsExact
PROPERTIES PruneSpares
