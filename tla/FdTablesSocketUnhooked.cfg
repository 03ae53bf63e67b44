\* Hooks disabled: FdMgr has no FdCtx for an accepted descriptor, init() fails
\* and accept() returns nullptr.
CONSTANTS
    th1 = th1
    th2 = th2
    READ = READ
    WRITE = WRITE
    IOFds = {5, 40}
    IOInitSize = 32
    IOMaxOps = 8
    FMFds = {3, 70, 100}
    FMInitSize = 64
    FMMaxOps = 8
    SKFds = {3, 4}
    SKHooked = FALSE
    SKIoCalls = {"send", "send_iov", "sendTo", "recv", "recv_iov", "recvFrom", "recvFrom_iov"}
    SKMaxOps = 7
SPECIFICATION Spec
INVARIANTS
    NoLeak
