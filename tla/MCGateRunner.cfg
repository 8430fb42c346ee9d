SPECIFICATION Spec
CHECK_DEADLOCK FALSE
CONSTANTS
    Modules <- MCModules
    Root = "."
    Policies <- MCPolicies
    Heads <- MCHeads
    Diff <- MCDiff
    Affects <- MCAffects
    PolicyFiles = {".golib.yaml"}
    Redeclared = {"adapter"}
    MaxFaults = 2
INVARIANTS
    GateInv
    PassedRanEverything
    ScansReadUntouched
    LeftoversReported
    ChangesAreScanned
