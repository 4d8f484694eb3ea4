SPECIFICATION Spec
CONSTANTS
    Rounds = 3
    Workers = 3
    Items = 2
    Numbers = {2, 4}
    Runs = {"manual"}
CHECK_DEADLOCK FALSE
PROPERTIES ListAndWatchEnds
