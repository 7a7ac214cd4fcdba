SPECIFICATION PruningSpec
CONSTANTS
  Paths = {p1, p2, p3}
  Mirrors = {}
  Wikis = {}
  PageSize = 2
  MaxEvents = 1
PROPERTIES OnlyGonePruned
