CONSTANTS
    w1 = w1
    w2 = w2
    c1 = c1
    c2 = c2
    cf1 = cf1
    cf2 = cf2
    fd1 = fd1
    fd2 = fd2
    FiberJobs = {}
    CbJobs <- MCCbJobs
    CbFibers <- MCCbFibers
    Fds <- MCFds1
    AnyThread = AnyThread
    NoFiber = NoFiber
    NoJob = NoJob
    TickleFd = TickleFd
    PinElsewhere = FALSE
    Workers <- MCWorkers1
    MaxSteps = 2
    SharedFds = FALSE

SPECIFICATION IOSpecHangup

INVARIANT PendingCountMatches
