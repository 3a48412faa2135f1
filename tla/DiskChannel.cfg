SPECIFICATION DiskFairSpec
CONSTANTS
  NSignals <- OneSignal
  Channel = {disk}
  Disk = disk
  NULL = NULL
  Emulator = Emulator
  Polling = Polling
  Cmds = {"read", "reset"}
  ReadOnly = FALSE
  GuestCreated = FALSE
  CommandSpace = 1
  StatusSpace = 1
  MaxCommands = 2
  MaxAttaches = 2
  MaxResets = 1
INVARIANTS DiskTypeOK AnsweredInOrder StatusPutNeverWaits FlushUntilReset
PROPERTY SeenIsAnswered
CHECK_DEADLOCK FALSE
