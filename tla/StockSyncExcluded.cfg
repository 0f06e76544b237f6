SPECIFICATION SyncSpec
CONSTANTS
    c1 = c1
    Channels = {c1, c2}
    SyncWorkers = {w1}
    PropagateSlots = 2
    MaxAttempts = 2
    Worlds <- OrdersOnly
    Stocks = {1, 2}
    MaxEvents = 2
    MaxFaults = 0
    MaxCrashes = 0
    NoChannel = NoChannel
INVARIANT QuietListingsAgree
\* every source is bounded, so the system stops in the end
CHECK_DEADLOCK FALSE
