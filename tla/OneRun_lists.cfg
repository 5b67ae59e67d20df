SPECIFICATION RunSpec
CONSTANTS
  a = a
  b = b
  c = c
  w1 = w1
  t1 = t1
  t2 = t2
  Workers = {w1}
  Certs = {a, b, c}
  Issuer <- MCIssuer
  NotAfter <- MCNotAfter
  Dps <- MCDps
  WebDps = {"x1", "x2", "y"}
  Dn <- MCDn
  Nobody = Nobody
  Hour = 1
  MaxTime = 1
  RedisFaults = FALSE
  Threads = {t1, t2}
  KnownSignals = TRUE
  Stored = {a, c}
  CrlThreads = {t1}
  Crls <- MCCrls
  Reports <- MCReports
CHECK_DEADLOCK FALSE
INVARIANTS KnownTypeOK KnownComplete VerdictsVouched RunCovers
 
