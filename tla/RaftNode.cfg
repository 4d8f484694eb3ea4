SPECIFICATION FairSpec
CONSTANTS
    Peers = 2
    MaxTerm = 2
    MaxIndex = 4
    MaxRestarts = 2
    SnapshotEvery = 2
    SnapshotCatchUp = 1
    Leaders = {"stable", "overwrite", "install"}
    FollowMisread = FALSE
CHECK_DEADLOCK FALSE
INVARIANTS AppliedIsChosen DurableBeforeSend OnlyInstallBreaksRestart PromisesKept
PROPERTIES CommittedIsApplied
