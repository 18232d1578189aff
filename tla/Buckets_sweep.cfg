CONSTANTS
  t1 = t1
  t2 = t2
  seg1 = seg1
  seg2 = seg2
  ping = ping
  err1 = err1
  err2 = err2
  Thread = {t1, t2}
  Sweeper = sw
  Key = {seg1, seg2, ping, err1, err2}
  Item = {x1, x2, x3}
  Size = 2
  HashOf <- Hashes
  ClassOf <- SameToNat
  None = None
  Addr = {"u1", "web"}
  Port = {1}
  Id = {"i1", "i2"}
  Seqno = {1}
  Frag = {"whole", "later"}
  Later = {"later"}
  Type = {"request", "reply", "exceeded", "timestamp", "unreachable"}
  Echo = {"request", "reply"}
  Exceeded = "exceeded"
  Bare = {"timestamp"}
SYMMETRY Alike
SPECIFICATION BucketsSpec
INVARIANTS ChainsOK SweepExact
PROPERTY ImplementsTable
