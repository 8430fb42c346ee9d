CONSTANTS
    Invocations = {i1, i2}
    None = None
    MaxCommands = 4
SPECIFICATION Spec
INVARIANT CampaignVerifierIsolated
CHECK_DEADLOCK FALSE
