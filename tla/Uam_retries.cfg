CONSTANTS
  ip1 = ip1
  c1 = c1
  c2 = c2
  s1 = s1
  s2 = s2
  Client = {c1, c2}
  IP = {ip1}
  Serial = {s1, s2}
  Command = {"U", "D", "R", "S"}
  MaxStateid = 2
  MaxCall = 3
  MaxChange = 3
  MaxLife = 1
  None = None
  Zero = Zero
  MsgSize = 12
  ArgMax = 4
  Refusal = Refusal
SYMMETRY Alike
SPECIFICATION UamSpec
INVARIANTS OwnAnswer AsSeen
CHECK_DEADLOCK FALSE
