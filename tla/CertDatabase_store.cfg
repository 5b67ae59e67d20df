SPECIFICATION Spec
CONSTANTS
  a = a
  b = b
  c = c
  w1 = w1
  w2 = w2
  Workers = {w1, w2}
  Certs = {a, b, c}
  Issuer <- MCIssuer
  NotAfter <- MCNotAfter
  Dps <- MCDps
  WebDps <- MCWebDps
  Dn <- MCDn
  Nobody = Nobody
  Hour = 2
  MaxTime = 2
  RedisFaults = FALSE
INVARIANTS DbTypeOK CoherentAtRest TtlAtRest
SYMMETRY Symmetry
PROPERTY KnownUntilItsHour
