SPECIFICATION ArrayFairSpec
CONSTANTS
  c1 = c1
  c2 = c2
  c3 = c3
  Conn <- Clients
  MaxBytes <- Bytes
  NFd = 2
  BufSize = 2
  Window = 1
  NSlot = 2
  MaxiInit <- AnyMaxi
  None = None
INVARIANTS
  ArrayInv
PROPERTIES
  FirstServed
CHECK_DEADLOCK FALSE
