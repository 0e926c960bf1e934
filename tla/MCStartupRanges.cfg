SPECIFICATION Spec
CONSTANTS
    NaN = NaN
    Configs <- Commented
    Proc = {p1, p2}
    Default <- TwoPorts
    Absent = Absent
    Torn = Torn
    MaxEdits = 1
INVARIANT RangesAreServed
