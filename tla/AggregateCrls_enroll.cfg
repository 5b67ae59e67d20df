SPECIFICATION MCSpec
CONSTANTS
  t1 = t1
  t2 = t2
  Threads = {t1, t2}
  Issuers <- MCIssuers
  Urls <- MCUrls
  Crls <- MCCrls
  Reports <- MCReports
  Signals = TRUE
CHECK_DEADLOCK FALSE
INVARIANTS TypeOK EnrolledSound UndisturbedComplete 
 
