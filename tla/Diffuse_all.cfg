SPECIFICATION Spec
CONSTANTS
    Lengths = {4, 24}
    Steps = {4, 8, 16}
    InitTime = 8
    OneSecond = 4
    MaxCards = 2
INVARIANTS GridFollows Covered EstimatedLast
PROPERTIES Terminates
CHECK_DEADLOCK FALSE
