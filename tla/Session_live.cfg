CONSTANTS
  u1 = u1
  u2 = u2
  r1 = r1
  r2 = r2
  IP = {ip1}
  Uam = {u1}
  Relay = {r1}
  Maint = maint
  Name = {"anon"}
  Anonymous = "anon"
  Volatile = {}
  Preloaded = {"anon"}
  Command = {"U", "D"}
  Stateid = {0}
  SnatOutcome = {TRUE}
  NoEntry = NoEntry
  Traffic = {"in"}
  UpLimits <- SmallLimits
  MaxStateid = 1
  MaxRequest = 2
  MaxInterim = 0
SPECIFICATION FairSpec
PROPERTIES OverLimitEnds AgedGaugeEnds RequestsDone
