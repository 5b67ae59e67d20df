SPECIFICATION FairFetchSpec
CONSTANTS
  a = a
  b = b
  l1 = l1
  l2 = l2
  w1 = w1
  w2 = w2
  Workers = {w1, w2}
  Certs = {a, b}
  Issuer <- MCIssuer
  NotAfter <- MCNotAfter
  Dps <- MCDps
  WebDps <- MCWebDps
  Dn <- MCDn
  Nobody = Nobody
  Hour = 1
  MaxTime = 0
  RedisFaults = FALSE
  Logs = {l1}
  Entry <- LongEntry
  ChanCap = 1
  Limit = 2
  Offset = 0
  RunForever = TRUE
  Started = TRUE
  Signals = TRUE
  Crashes = 0
CHECK_DEADLOCK FALSE
INVARIANTS ExitDrained ExitComplete
PROPERTIES PositionNeverBack EverythingStored ShutdownCompletes
