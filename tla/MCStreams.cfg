SPECIFICATION FairSpec
CONSTANTS
  f1 = f1
  f2 = f2
  Fd = {f1, f2}
  Length <- MCLength
  BufSize = 2
  Sizes = {1, 2, 3}
  MaxCalls = 4
  NoCall = NoCall
  Callers <- MCCallers
  Newlines <- MCNewlines
  Messages <- MCMessages
  HeaderSize = 2
  Garbage = {0, 1, 3}
INVARIANTS
  Inv
  OwnBytes
  InStep
PROPERTIES
  AllArrive
CHECK_DEADLOCK FALSE
