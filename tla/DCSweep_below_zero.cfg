SPECIFICATION SweepsSpec
CONSTANTS
    Prior = Prior
    VStart <- MCStart
    VStop <- MCBelowZero
    VStep = 2
    VStepMax = 2
    Predict = TRUE
    MaxRetry = 3
    Resolution = 1
INVARIANTS StopSolved
