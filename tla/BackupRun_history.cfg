SPECIFICATION HistorySpec
CONSTANTS
  Repos = {r1, r2}
  NoRepo = NoRepo
  OptionSet <- MCOptions
  Limit = 2
  MaxCopies = 2
  MaxVer = 2
  MaxEvents = 1
SYMMETRY Symmetric
INVARIANTS TypeOK SuccessMeansBackedUp ResultAccountsForAll ProgressCovered PruneAfterWorkers
PROPERTIES NoBackupLost ProgressInOrder

CONSTRAINT FewEntries
