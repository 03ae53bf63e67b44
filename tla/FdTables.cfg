\* IOFdTable: two threads, one fd inside the constructor's table and one
\* past it.  FdManager: one fd inside the constructor's table and two past
\* it, owned by different threads, so that two growths can race.  Socket:
\* two descriptors for three Socket objects, so that socket() and accept()
\* can run out and a closed number is handed out again; hooks enabled.
CONSTANTS
    th1 = th1
    th2 = th2
    READ = READ
    WRITE = WRITE
    IOFds = {5, 40}
    IOInitSize = 32
    IOMaxOps = 8
    FMFds = {3, 70, 100}
    FMInitSize = 64
    FMMaxOps = 8
    SKFds = {3, 4, 5}
    SKHooked = TRUE
    SKIoCalls = {"send", "send_iov", "sendTo", "recv", "recv_iov", "recvFrom", "recvFrom_iov"}
    SKMaxOps = 8
SPECIFICATION Spec
INVARIANTS
    NoEpollCtlError
    CreatedCtxKept
    NoLeak
    FdOwnership
