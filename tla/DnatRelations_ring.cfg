CONSTANTS
  u = u
  d1 = d1
  d2 = d2
  n = n
  Relay = {r1, r2}
  Flow <- Redirected
  Max = 2
  Rel = {m1, m2, m3}
  None = None
  Freed = Freed
SPECIFICATION DnatSpec
INVARIANTS Linked ComesBack RingHolds
PROPERTY DoEnds
