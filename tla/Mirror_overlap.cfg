SPECIFICATION Spec
CONSTANTS
  Syncers = {s1, s2}
  NoSyncer = NoSyncer
  Refs = {main}
  LfsVersions <- MCLfsVersions
  MaxVer = 1
  MaxEvents = 1
INVARIANTS HalfBuiltIsTold
