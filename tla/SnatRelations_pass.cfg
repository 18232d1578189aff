CONSTANTS
  f1 = f1
  f2 = f2
  r1 = r1
  r2 = r2
  m1 = m1
  m2 = m2
  m3 = m3
  NPrv = 2
  NPub = 1
  FirstPort = 1
  PortCount = 4
  ChunkMin = 2
  Relay = {r1, r2}
  Collector = collector
  Flow = {f1, f2}
  UserOf <- TwoFlows
  Rel = {m1, m2, m3}
  MaxRetry = 2
  NoRel = NoRel
  NoEndpoint = NoEndpoint
  Freed = Freed
  Blank = Blank
SYMMETRY Same
VIEW LiveSnat
SPECIFICATION SnatSpec
INVARIANTS SnatTypeOK NoDangling UsersApart AgreeUnlessRaced
