SPECIFICATION LimitSpec
CONSTANTS
    Setups <- MCSetups
    VStepMax = 2
    IStepMax = 1
    TStepMin = 2
    TStop = 36
    MaxStep = 14
INVARIANTS ChangeLimited CornersKept
