SPECIFICATION FairSpec
CONSTANTS
  NSignals <- OneSignal
  Channel = {c1}
  NULL = NULL
  Emulator = Emulator
  Polling = Polling
PROPERTY LostInterruptRecovered
