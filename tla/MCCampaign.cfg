CONSTANTS
    p1 = p1
    p2 = p2
    Order <- OnePackage
    Campaigns = {c1, c2}
    Sources = {s1, s2}
    Rests = {r1, r2}
    Mutants = {m1}
    Tools = {t1, t2}
    None = None
    Reverting = FALSE
    Flaky = TRUE
    MaxEdits = 1
    MaxReviews = 1
    MaxFailures = 1
    MaxRuns = 2
SPECIFICATION Spec
INVARIANTS
    Inv
    EvidenceWasExecuted
    AcceptedIsProved
    ReviewBindsInput
PROPERTY EvidenceIsImmutable
SYMMETRY Symmetry
CHECK_DEADLOCK FALSE
