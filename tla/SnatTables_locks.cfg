CONSTANTS
  s1 = s1
  s2 = s2
  r1 = r1
  r2 = r2
  NPrv = 2
  NPub = 1
  FirstPort = 3
  PortCount = 4
  ChunkMin = 2
  SeqCount = 5
  Owner = {s1, s2}
  Taker = {r1}
  PortProto <- Both
  ChainOf <- OneChain
  None = None
  AddrBits = 3
  BadAddress = BadAddress
  Refused = Refused
SPECIFICATION TablesSpec
INVARIANTS TablesAgree AllOrNone
