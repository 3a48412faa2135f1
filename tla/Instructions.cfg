SPECIFICATION Spec
CONSTANTS
    W <- MCW
    Half <- MCHalf
    N <- MCN
    Starts <- MCStarts
    MaxTraps = 2
INVARIANTS InstructionsTypeOK ResultRight FixnumExact DivisionRight WordsRight
PROPERTIES Completion
CHECK_DEADLOCK FALSE
