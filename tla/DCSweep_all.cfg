SPECIFICATION SweepsFairSpec
CONSTANTS
    Prior = Prior
    VStart <- MCStart
    VStop = 41
    VStep = 20
    VStepMax = 30
    Predict = TRUE
    MaxRetry = 3
    Resolution = 1
INVARIANTS TypeOK RetryOrdered StoredIsLast SolveStart StopSolved
PROPERTIES StopIsLast Promise Terminates
