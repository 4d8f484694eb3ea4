SPECIFICATION FairSpec
CONSTANTS
    Node = {1, 2, 3}
    Programs = {"raft", "wal-restart"}
    MaxDeposed <- MCMaxDeposed
    Deposing <- MCDeposing
INVARIANTS StateMachinesAgree WaitedIsCommitted
PROPERTIES StoppedIsSilent MajorityStillCommits
