\* FdManager: one fd equal to the constructor's table size.
CONSTANTS
    th1 = th1
    th2 = th2
    READ = READ
    WRITE = WRITE
    IOFds = {5, 40}
    IOInitSize = 32
    IOMaxOps = 8
    FMFds = {64}
    FMInitSize = 64
    FMMaxOps = 3
    SKFds = {3, 4, 5}
    SKHooked = TRUE
    SKIoCalls = {"send", "send_iov", "sendTo", "recv", "recv_iov", "recvFrom", "recvFrom_iov"}
    SKMaxOps = 8
SPECIFICATION Spec
INVARIANTS
    InBounds
