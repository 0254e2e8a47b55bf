CONSTANTS
  t1 = t1
  t2 = t2
  p1 = p1
  p2 = p2
  a1 = a1
  a2 = a2
  w1 = w1
  w2 = w2
  Targets = {t1, t2}
  Parties = {p1, p2}
  Agreements = {a1, a2}
  Writers = {w1}
  DiskFails = FALSE
  Missing = Missing
  Torn = Torn
  None = None
SPECIFICATION StoreSpec
INVARIANT StoreTypeOK
PROPERTY IsRegister
