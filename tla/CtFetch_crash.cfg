SPECIFICATION FetchSpec
CONSTANTS
  a = a
  b = b
  l1 = l1
  l2 = l2
  w1 = w1
  w2 = w2
  Workers = {w1}
  Certs = {a, b}
  Issuer <- MCIssuer
  NotAfter <- MCNotAfter
  Dps <- OneDp
  WebDps <- MCWebDps
  Dn <- MCDn
  Nobody = Nobody
  Hour = 1
  MaxTime = 1
  RedisFaults = TRUE
  Logs = {l1, l2}
  Entry <- TwoEntry
  ChanCap = 1
  Limit = 0
  Offset = 0
  RunForever = FALSE
  Started = FALSE
  Signals = FALSE
  Crashes = 1
CHECK_DEADLOCK FALSE
INVARIANTS NoEntryLost 
