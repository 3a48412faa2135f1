SPECIFICATION TimerFairSpec
CONSTANTS
  Senders = {keyboard, network}
  Clock = clock
  MaxTimeouts = 3
INVARIANTS TimerTypeOK PendingIsNoticed
PROPERTIES PendingIsTaken NewTimeoutNoted
