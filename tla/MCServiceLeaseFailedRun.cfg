CONSTANTS
    None = None
    Main = main
    Callers = {main, other}
    Attempts = 2
    DataImages = {"valkey", "rabbit", "member"}
    MaxFaults = 2
SPECIFICATION Spec
INVARIANT NothingLeft
CHECK_DEADLOCK FALSE
