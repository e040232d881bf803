SPECIFICATION FairSpec
CONSTANTS
  c1 = c1
  c2 = c2
  c3 = c3
  Conn <- Clients
  MaxBytes <- Bytes
  NFd = 2
  BufSize = 2
  Window = 1
  None = None
INVARIANTS
  Inv
  ExitOnlyWhenFull
  EchoExact
PROPERTIES
  Served
CHECK_DEADLOCK FALSE
