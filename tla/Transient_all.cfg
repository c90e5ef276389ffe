SPECIFICATION CircuitFairSpec
CONSTANTS
    Prior = Prior
    TStart = 0
    TStop = 12
    TStep = 3
    TStepMin = 2
    TStepMax = 6
    TS_type = "BDF2"
    AutoStep = TRUE
    RejectStep = TRUE
    Predict = TRUE
    MaxDiverged = 3
    Window = 3
    MaxGain = 6
    Circuits <- MCSingle
    Values = {0, 1}
INVARIANTS TypeOK ClockMatches HistoryMatches SecondOrderReady KirchhoffHolds
PROPERTIES Promise Terminates
