SPECIFICATION FairSpec
CONSTANTS
  c1 = c1
  c2 = c2
  c3 = c3
  Conn <- Clients
  MaxBytes <- Bytes
  NSlot = 2
  BufSize = 2
  Window = 1
  None = None
INVARIANTS
  Consistent
  NoLostEdge
  EchoFaithful
PROPERTIES
  Handled
CHECK_DEADLOCK FALSE
