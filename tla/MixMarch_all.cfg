SPECIFICATION MixFairSpec
CONSTANTS
    Prior = Prior
    Iterate = Iterate
    TStart = 0
    TStop = 14
    TStep = 3
    TStepMin = 2
    TStepMax = 6
    TS_type = "BDF2"
    AutoStep = TRUE
    RejectStep = TRUE
    Predict = TRUE
    MaxDiverged = 3
    Window = 1
    MaxGain = 3
    RampSteps = 3
    Finest = 48
    GminSteps = 2
    Analyses <- MCBoth
INVARIANTS MixStepFromStored CircuitFollows OpWhole
PROPERTIES MixPromise MixTerminates
