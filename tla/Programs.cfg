SPECIFICATION ProgramsSpec
CONSTANTS
  Nodes = {n1, n2, n3, n4}
  Data = {1, 2, 3}
  NULL = NULL
  Garbage = Garbage
  None = None
  Numbers <- MCNumbers
  MaxNodes = 5
  QueueLen = 3
  IntMin <- MCIntMin
  Wild = Wild
  Byte = 4
  InputLen = 6
  Base = 4
  Outside = Outside
INVARIANTS NothingLeaks SearchTrees LevelOrders MaxPath AddsUp Checksums Strings
PROPERTIES IsList
CHECK_DEADLOCK FALSE
