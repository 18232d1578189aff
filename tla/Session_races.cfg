CONSTANTS
  u1 = u1
  u2 = u2
  r1 = r1
  r2 = r2
  IP = {ip1}
  Uam = {u1}
  Relay = {r1, r2}
  Maint = maint
  Name = {"anon"}
  Anonymous = "anon"
  Volatile = {"anon"}
  Preloaded = {"anon"}
  Command = {"U", "D", "R"}
  Stateid = {0}
  SnatOutcome = {TRUE, FALSE}
  NoEntry = NoEntry
  Traffic = {"in", "out"}
  UpLimits <- SmallLimits
  MaxStateid = 1
  MaxRequest = 2
  MaxInterim = 0
SYMMETRY Workers
VIEW Live
SPECIFICATION Spec
INVARIANTS TypeOK OvershootBounded LedgerBalance
