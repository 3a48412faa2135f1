SPECIFICATION FairSpec
CONSTANTS
  QueueSize <- MCQueueSize
  Elements <- MCElements
  Zero <- MCZero
  MemoryModels <- BothModels
INVARIANTS TypeOK NoDataRace NoStrandedElementSC
PROPERTIES ImplementsFifo Delivered
CHECK_DEADLOCK FALSE
