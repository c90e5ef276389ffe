SPECIFICATION Spec
CONSTANTS
    Electrodes = {"anode", "gate"}
    Contacts = {{"anode"}, {"gate"}, {"anode", "gate"}}
    VSources = {"v1", "v2"}
    ISources = {"i1"}
    Constant = {"v2"}
    Cards = {"METHOD", "ATTACH", "EQUILIBRIUM", "STEADYSTATE", "DCSWEEP", "OP", "TRANSIENT", "TRACE", "pseudotime"}
INVARIANTS HistoryTrue DriveAsCommanded
