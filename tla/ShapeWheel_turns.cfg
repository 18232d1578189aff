CONSTANTS
  b1 = b1
  b2 = b2
  b3 = b3
  r1 = r1
  r2 = r2
  Relay = {r1, r2}
  Buf = {b1, b2, b3}
  Frq = 2
  Turns = 2
  SlotMax = 2
  Cost = {1, 3}
  MaxBacklog = 4
  None = None
SPECIFICATION ShapeSpec
INVARIANTS BufferOnce
PROPERTIES InItsTurn Drains
CHECK_DEADLOCK FALSE
