SPECIFICATION FairSpec
CONSTANTS
    Prior = Prior
    PseudoTimeSteps = 5
    MaxDiverged = 4
    T_Cycles = 0
    RampSteps = 3
    Unit = 16
    Modes <- MCModes
INVARIANTS TypeOK RampMatches SolveStart SteadyMaterial SteadyIsLast
PROPERTIES Promise Terminates
