SPECIFICATION MCSpec
CONSTANTS
  Issuers <- MCIssuers
  Serials <- MCSerials
CHECK_DEADLOCK FALSE
INVARIANTS TypeOK StashIsDifference StashMissesNothing StashUnlessNoPrior
PROPERTY MakesFilter
