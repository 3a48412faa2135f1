SPECIFICATION NetFairSpec
CONSTANTS
  NSignals <- OneSignal
  Channel = {net}
  Net = net
  NULL = NULL
  Emulator = Emulator
  Polling = Polling
  TxBuffers = {t1}
  RxBuffers = {r1}
  TransmitSpace = 1
  ReceiveSpace = 1
  MaxResets = 1
INVARIANTS NetTypeOK BuffersAccounted OneStaleBuffer PutNeverWaits
PROPERTY SeenIsTransmitted
