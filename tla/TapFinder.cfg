\* Every pattern of good and bad taps of ten.
SPECIFICATION Spec
CONSTANTS
    N = 10
    Count = {0, 1}
INVARIANTS
    ReturnsMiddle
    ReturnsGoodTap
CHECK_DEADLOCK FALSE
