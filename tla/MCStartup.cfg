SPECIFICATION Spec
CONSTANTS
    NaN = NaN
    Configs <- Lists
    Proc = {p1, p2}
    Default <- TwoPorts
    Absent = Absent
    Torn = Torn
    MaxEdits = 1
INVARIANT TypeOK
INVARIANT NumbersAreServed
INVARIANT EveryServerIsStoppable
INVARIANT ConfigIsStable
PROPERTY SuccessIsComplete
