CONSTANTS
    w1 = w1
    w2 = w2
    t1 = t1
    t2 = t2
    Workers <- MCWorkers1
    Timers <- MCTimers
    Addrs = {1, 2}
    Periods = {20, 5000}
    RolloverMs = 4000
    MaxTimeout = 3000
    IntBits = 16
    StartMs = 4010
    MaxTicks = 3
    MaxOps = 2
    MaxJumps = 1
    NoAddr = NoAddr
    NoTimeout = NoTimeout
    Forever = Forever

SPECIFICATION Spec




INVARIANT NoStaleWait
