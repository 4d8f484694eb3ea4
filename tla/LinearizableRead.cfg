SPECIFICATION FairSpec
CONSTANTS
    Reader = {r1, r2, r3}
    Confirmed = 2
    MaxApplied = 3
INVARIANTS TypeOK NoLostSignal NoDroppedBatch NoLostWakeup
PROPERTIES NoDoubleClose EveryReaderReturns BarrierSpec
