SPECIFICATION FairSpec
CONSTANTS
  top = top
  sub = sub
  leaf = leaf
  hid = hid
  deep = deep
  locked = locked
  file = file
  other = other
  missing = missing
  Main = Main
  Dot = Dot
  DotDot = DotDot
  Listing = {}
  Kids <- MCKids
  Plain = {file, other}
  Locked = {locked}
  Hidden = {hid}
  Unowned = {deep, leaf}
  Missing = missing
  Cwd = top
  Name <- MCName
  Stats <- MCStats
  CommandLine <- Lines
  Capacity = 4
INVARIANTS
  Inv
  ListsAll
  Partitioned
PROPERTIES
  Terminates
CHECK_DEADLOCK FALSE
