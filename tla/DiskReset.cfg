SPECIFICATION DiskFairSpec
CONSTANTS
  NSignals <- OneSignal
  Channel = {disk}
  Disk = disk
  NULL = NULL
  Emulator = Emulator
  Polling = Polling
  Cmds = {"read"}
  ReadOnly = TRUE
  GuestCreated = TRUE
  CommandSpace = 2
  StatusSpace = 1
  MaxCommands = 1
  MaxAttaches = 1
  MaxResets = 1
PROPERTY ResetCompletes
CHECK_DEADLOCK FALSE
