SPECIFICATION Spec
CONSTANTS
  QueueSize <- MCQueueSize
  Elements <- MCElements
  Zero <- MCZero
  MemoryModels <- OnlyTSO
INVARIANT NoStrandedElement
CHECK_DEADLOCK FALSE
