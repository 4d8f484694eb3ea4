SPECIFICATION Spec
CONSTANTS
    Peers = 2
    MaxTerm = 2
    MaxIndex = 4
    MaxRestarts = 1
    SnapshotEvery = 2
    SnapshotCatchUp = 1
    Leaders = {"overwrite"}
    FollowMisread = TRUE
CHECK_DEADLOCK FALSE
INVARIANTS AppliedIsChosen
