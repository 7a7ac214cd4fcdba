SPECIFICATION LiveSpec
CONSTANTS
  Repos = {r1, r2}
  NoRepo = NoRepo
  OptionSet <- OneOption
  Limit = 1
  MaxCopies = 1
  MaxVer = 1
  MaxEvents = 1
PROPERTIES RunReturns Converges
