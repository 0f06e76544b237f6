SPECIFICATION SyncSpec
CONSTANTS
    c1 = c1
    Channels = {c1, c2}
    SyncWorkers = {w1}
    PropagateSlots = 2
    MaxAttempts = 2
    Worlds <- Anything
    Stocks = {1, 2}
    MaxEvents = 2
    MaxFaults = 2
    MaxCrashes = 1
    NoChannel = NoChannel
SYMMETRY ChannelSymmetry
INVARIANTS SyncTypeOK StaleIsVisible
\* every source is bounded, so the system stops in the end
CHECK_DEADLOCK FALSE
