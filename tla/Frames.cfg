SPECIFICATION Spec
CONSTANTS
  Locs = {x}
  MaxWords = 13
  MaxFrames = 3
  MaxOpen = 2
  MaxBindings = 2
  Counts = {0, 3}
  MaxTraps = 1
INVARIANTS FramesTypeOK CatchHonest CellsAreCurrent
PROPERTIES ReturnRestores ReturnedIntact NothingLeftOpen
CHECK_DEADLOCK FALSE
