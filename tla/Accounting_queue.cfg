CONSTANTS
  IP = {ip1}
  Uam = {u1}
  Relay = {}
  Maint = maint
  Name = {"anon"}
  Anonymous = "anon"
  Volatile = {}
  Preloaded = {"anon"}
  Command = {"U", "D", "R", "S"}
  Stateid = {0, 1}
  SnatOutcome = {TRUE}
  NoEntry = NoEntry
  Traffic = {"in", "out"}
  UpLimits <- OneLimit
  MaxStateid = 2
  MaxRequest = 2
  MaxInterim = 1
  MaxSubmit = 3
  Word = 4
  Unlimited = 99
  Absent = Absent
  LastId = 3
VIEW LiveAccounting
SPECIFICATION AccountingSpec
INVARIANTS LedgerQueued StopsAheadBounded
