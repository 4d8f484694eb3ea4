SPECIFICATION Spec
CONSTANTS
    Rounds = 3
    Workers = 3
    Items = 2
    Numbers = {2, 4}
    Runs <- Everything
CHECK_DEADLOCK FALSE
INVARIANTS StuckOnlyWhereShown WaitersAreServed NoPanic StreamsAreWhole WaitedForAll
PROPERTIES MainReturns
