CONSTANTS
    p1 = p1
    p2 = p2
    Order <- TwoPackages
    Campaigns = {c1, c2}
    Sources = {s1}
    Rests = {r1}
    Mutants = {m1}
    Tools = {t1}
    None = None
    Reverting = FALSE
    Flaky = FALSE
    MaxEdits = 0
    MaxReviews = 0
    MaxFailures = 1
    MaxRuns = 3
SPECIFICATION FairSpec
INVARIANT PassedIsComplete
PROPERTY EventuallyPasses
CHECK_DEADLOCK FALSE
