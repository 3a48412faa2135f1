SPECIFICATION FairSpec
CONSTANTS
  NSignals <- MCNSignals
  Channel = {c1, c2}
  NULL = NULL
  Emulator = Emulator
  Polling = Polling
INVARIANTS TypeOK DeferredNotLost AtMostOneLateCall
PROPERTY DeferredIsRetried
