CONSTANTS
    Streams = {stdout, stderr}
    Leader = leader
    Children = {child}
    Limit = 1
SPECIFICATION FairSpec
INVARIANTS
    TypeOK
    PassedIsWhole
    ReturnedIsQuiet
PROPERTY StoppedFails
CHECK_DEADLOCK FALSE
