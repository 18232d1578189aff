CONSTANTS
  a = a
  b = b
  c = c
  Name = {a, b, c}
  NSlots = 2
  NRelays = 2
  Sess = {x}
  AtStart <- OneFilter
  Mem = {m1, m2, m3}
  MaxText = 3
  BadText = {2}
  Asked = {a, b}
  MaxClock = 2
  None = None
SPECIFICATION FilterSpec
INVARIANTS MatchedRulesLive OwnFilter StaleOnlyIfTorn
PROPERTY TableFollows
