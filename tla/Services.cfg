SPECIFICATION Spec
CONSTANTS
    Programs = {"wal", "etcd", "bolt", "flock", "lease", "watch", "async", "cache"}
    Key = {k1, k2}
    Plain = {p1, p2}
    Blank = {b1}
    None = None
    MaxPuts = 2
    MaxDeaths = 1
    Scripts = {"mvcc", "txn", "basic"}
    MorePuts = 1
    MaxOthers = 2
    Mains = {"users", "read-write", "write-read", "no-mmap"}
    MaxRuns = 3
    MaxFailures = 1
    Proc = {q1, q2}
    Nobody = Nobody
    MaxVersion = 4
    m1 = m1
    m2 = m2
    Name = {m1, m2, recover}
    Recovered = recover
    Churned <- MCChurned
    MaxForeign = 1
    MaxTicks = 2
    Caller = {c1, c2}
    Url = {u1, u2}
    ShortKey = {s1, s2}
    Nothing = Nothing
    Placeholder = Placeholder
    MaxCalls = 3
CHECK_DEADLOCK FALSE
INVARIANTS ReadsBack OneHolder ErrorBeforeStop ViewIsConsistent
PROPERTIES SwapOverwritesWhatWasRead QuietAfterStop NeverBackAgain Converges ProgramsEnd
