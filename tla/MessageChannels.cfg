SPECIFICATION Spec
CONSTANT NChannels = 3
INVARIANTS ListIntact
PROPERTIES ShutDownServed
CHECK_DEADLOCK FALSE
