SPECIFICATION Spec
CONSTANTS
    M1 = M1
    W1 = W1
    k1 = k1
    Timeframes = {M1, W1}
    Base = M1
    Widest = W1
    Length <- Lengths
    NoBar = nobar
    Consumers = {k1}
    Shown <- Charts
    Capacity = 1
    QueueSize = 1
    WireSize = 1
    Stale = 1
    Ahead = 0
    Gap = 1
    FirstSecond = 1
    MaxClock = 4
    MaxTicks = 2
    MaxOutages = 0
    Reconnect = reconnect
    Nothing = nothing
INVARIANT OnlyDuplicatesAreDropped
