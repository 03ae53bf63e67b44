CONSTANTS
    w1 = w1
    w2 = w2
    c2 = c2
    c1 = c1
    cf1 = cf1
    cf2 = cf2
    f1 = f1
    Workers <- MCWorkers
    FiberJobs = {}
    CbJobs <- MCCbJobs
    CbFibers <- MCCbFibers
    MaxSteps = 1
    AnyThread = AnyThread
    NoFiber = NoFiber
    NoJob = NoJob
    PinElsewhere = TRUE

SPECIFICATION Spec


PROPERTY StopReturns
