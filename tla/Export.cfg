SPECIFICATION MCSpec
CONSTANTS
  Items = {i1, i2}
  PRs = {i2}
  Parts = {p1, p2}
  System = {p1}
  PageSize = 1
  MaxVer = 1
  MaxEvents = 1
INVARIANTS TypeOK SuccessMeansExported ClaimsRepaired
PROPERTIES Ends
