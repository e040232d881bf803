SPECIFICATION FairSpec
CONSTANTS
  c1 = c1
  c2 = c2
  c3 = c3
  Conn <- Clients
  MaxSend <- Messages
  MaxProc = 2
  Window = 1
  None = None
INVARIANTS
  Inv
PROPERTIES
  ExitOnlyFullOrAlone
  Reaped
  ConnectionEnds
CHECK_DEADLOCK FALSE
