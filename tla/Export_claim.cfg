SPECIFICATION OneSpec
CONSTANTS
  Items = {i1}
  PRs = {}
  Parts = {p1, p2}
  System = {}
  PageSize = 1
  MaxVer = 1
  MaxEvents = 0
INVARIANTS ClaimsHold
