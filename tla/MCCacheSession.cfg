CONSTANTS
    Invocations = {i1, i2}
    None = None
    MaxCommands = 4
SPECIFICATION Spec
INVARIANTS
    VerifiersIsolated
    SessionInv
    VerifiersInvocationOwned
    LeftScratchReported
SYMMETRY Symmetry
CHECK_DEADLOCK FALSE
