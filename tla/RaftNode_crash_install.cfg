SPECIFICATION Spec
CONSTANTS
    Peers = 2
    MaxTerm = 2
    MaxIndex = 4
    MaxRestarts = 1
    SnapshotEvery = 2
    SnapshotCatchUp = 1
    Leaders = {"install"}
    FollowMisread = FALSE
CHECK_DEADLOCK FALSE
INVARIANTS RestartIsPossible
