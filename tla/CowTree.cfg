SPECIFICATION Spec
CONSTANTS
    Tree = {t1, t2}
    Key = {1, 2, 3}
    Value = {1, 2}
    Input <- Inputs
    MaxNodes = 7
    MaxCows = 3
    MaxNew = 1
SYMMETRY Symmetry
CHECK_DEADLOCK FALSE
INVARIANTS TypeOK Ownership
PROPERTIES SharedIsReadOnly IndependentMaps
