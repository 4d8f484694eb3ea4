SPECIFICATION Spec
CONSTANTS
    Key = {k1, k2}
    Plain = {p1, p2}
    Blank = {}
    None = None
    MaxPuts = 2
    MaxDeaths = 1
CHECK_DEADLOCK FALSE
INVARIANTS NewInstanceRecovers
