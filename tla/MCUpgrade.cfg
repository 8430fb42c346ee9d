CONSTANTS
    Releases = {before, after}
    None = None
    Torn = Torn
    MaxFaults = 3
SPECIFICATION FairSpec
INVARIANTS
    AnswerIsTrue
PROPERTIES
    StaysPlannable
    EventuallyPinned
CHECK_DEADLOCK FALSE
