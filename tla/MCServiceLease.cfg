CONSTANTS
    None = None
    Main = main
    Callers = {main, other}
    Attempts = 2
    DataImages = {"valkey", "rabbit", "member"}
    MaxFaults = 2
SPECIFICATION FairSpec
INVARIANTS
    LeaseInv
    OnlyRealFailures
    OperatingIsComplete
PROPERTIES
    ImplementsFixture
    WorkShrinks
    EventuallyReturned
CHECK_DEADLOCK FALSE
