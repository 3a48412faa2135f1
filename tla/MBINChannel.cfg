SPECIFICATION Spec
CONSTANTS
  MaxId = 2
  HistorySize = 1
  NChannels = 2
  Buffers = 1
  AckBuffers = 2
  QueueSpace = 1
INVARIANTS MBINTypeOK
PROPERTIES ImplementsService AckedUnlessForgotten
CHECK_DEADLOCK FALSE
