\* Two threads and two fds past the constructor's table: the later of two
\* racing resizes can be the smaller one (the IOFdTable part).
CONSTANTS
    th1 = th1
    th2 = th2
    READ = READ
    WRITE = WRITE
    IOFds = {40, 100}
    IOInitSize = 32
    IOMaxOps = 4
    FMFds = {3, 70, 100}
    FMInitSize = 64
    FMMaxOps = 8
    SKFds = {3, 4, 5}
    SKHooked = TRUE
    SKIoCalls = {"send", "send_iov", "sendTo", "recv", "recv_iov", "recvFrom", "recvFrom_iov"}
    SKMaxOps = 8
SPECIFICATION Spec
INVARIANTS
    ContextReachable
