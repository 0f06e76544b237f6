SPECIFICATION FairSyncSpec
CONSTANTS
    c1 = c1
    Channels = {c1, c2}
    SyncWorkers = {w1, w2}
    PropagateSlots = 2
    MaxAttempts = 2
    Worlds <- BurstAndRepair
    Stocks = {1, 2}
    MaxEvents = 3
    MaxFaults = 2
    MaxCrashes = 0
    NoChannel = NoChannel
PROPERTY SyncNowRepairs BurstConverges
\* every source is bounded, so the system stops in the end
CHECK_DEADLOCK FALSE
