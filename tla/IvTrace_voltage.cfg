SPECIFICATION FairSpec
CONSTANTS
    Prior = Prior
    Zero = Zero
    FirstStep = 3
    VStepMax = 4
    PastVStop <- MCSnapBack
    PastIStop = {}
    ZeroBeforeStop = TRUE
    Turns <- MCTurns
    MaxRecovery = 3
    Resolution = 1
INVARIANTS StepFromStored EndReached
PROPERTY Terminates
