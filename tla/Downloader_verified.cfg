SPECIFICATION FairSpec
CONSTANTS
  MaxVersion = 3
  Signed = {1, 3}
  Size <- MCSize
  MaxRetries = 1
  Stale = TRUE
  MaxCrashes = 2
INVARIANT TypeOK
PROPERTIES KeepsPromise BecomesFresh
