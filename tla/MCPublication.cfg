CONSTANTS
    Writers = {w1, w2}
    Keys = {k1}
    Meanings = {m1, m2}
    Stamps = {s1, s2}
    None = None
    Torn = Torn
SPECIFICATION Spec
INVARIANTS Inv PublishedComplete AnswersAgreeWithStore
PROPERTY ImplementsStore
