CONSTANTS
    w1 = w1
    w2 = w2
    c1 = c1
    c2 = c2
    cf1 = cf1
    cf2 = cf2
    fd1 = fd1
    fd2 = fd2
    Workers <- MCWorkers1
    FiberJobs = {}
    CbJobs <- MCCbJobs
    CbFibers <- MCCbFibers
    Fds <- MCFds1
    MaxSteps = 2
    AnyThread = AnyThread
    NoFiber = NoFiber
    NoJob = NoJob
    TickleFd = TickleFd
    PinElsewhere = FALSE
    SharedFds = FALSE

SPECIFICATION IOSpec

INVARIANT IOTypeOK
INVARIANT PendingCountMatches
INVARIANT StopPostcondition

PROPERTY StopReturns
