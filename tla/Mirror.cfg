SPECIFICATION FairSpec
CONSTANTS
  Syncers = {s1}
  NoSyncer = NoSyncer
  Refs = {main, topic}
  LfsVersions <- MCLfsVersions
  MaxVer = 2
  MaxEvents = 2
INVARIANTS TypeOK HeadMeansComplete
PROPERTIES MirrorKept SyncedIsSnapshot SyncedHasLFS ImplementsRefresh Recovers
