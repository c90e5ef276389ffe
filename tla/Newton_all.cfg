SPECIFICATION FairSpec
CONSTANTS
    Residuals <- MCCarriers
    toler_relax = 2
    divergence_factor = 4
    RFTol = 2
    z_width = 1
    MaxIteration = 2
    Patience = 1
    Methods <- MCBoth
INVARIANTS AcceptedForGood
PROPERTIES Terminates
