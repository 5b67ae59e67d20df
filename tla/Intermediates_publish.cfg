SPECIFICATION FairSpec
CONSTANTS
  Inters = {p, q}
  Ids = {i1, i2, i3, i4}
  MaxRuns = 2
  RequestReview = TRUE
  Faults = TRUE
INVARIANTS TypeOK NoDuplicates
PROPERTIES ReviewedMatches RerunFixes
