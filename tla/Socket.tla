------------------------------- MODULE Socket -------------------------------
(***************************************************************************)
(* The Socket object of src/mumu/.or/socket.cc against the kernel's file   *)
(* descriptor table.  Three Socket objects: a client ("cli") that          *)
(* connects, sends and closes and may be connected again, a listener       *)
(* ("lst") that binds, listens and accepts, and the Socket accept()        *)
(* returns ("acc"), alive until its last shared_ptr goes.                  *)
(*                                                                         *)
(* The kernel hands out the lowest free descriptor.  A syscall's outcome   *)
(* (success or an errno) is a nondeterministic choice.  Addresses are      *)
(* model values; the family check of bind and connect is over a family     *)
(* field of the address.                                                   *)
(***************************************************************************)
EXTENDS Integers, FiniteSets

CONSTANTS
    Fds,        \* descriptors the kernel may hand out
    Peers,      \* remote addresses: [addr, family]
    Locals,     \* local addresses bind may be given: [addr, family]
    Family,     \* m_family of the Socket objects
    Hooked,     \* the FdManager holds an FdCtx for every socket (hook enabled)
    IoCalls,    \* the send/recv methods the callers use
    MaxOps      \* bound on the calls made

Objs == {"cli", "lst", "acc"}
NoFd == -1
NoAddr == [addr |-> "none", family |-> "none"]
NoIo == [call |-> "none", ret |-> "none", moved |-> FALSE]

VARIABLES
    sock,       \* m_sock
    conn,       \* m_isConnected
    local,      \* m_localAddress (the cached getLocalAddress)
    remote,     \* m_remoteAddress (the cached getRemoteAddress)
    alive,      \* the accepted Socket is held by the server
    kopen,      \* descriptors open in the kernel
    klisten,    \* descriptors listening
    klocal,     \* klocal[fd]: the address the descriptor is bound to
    kpeer,      \* kpeer[fd]: the peer of a connected descriptor
    lastIo,     \* the last send/recv call: its return and whether bytes moved
    ops

vars == <<sock, conn, local, remote, alive, kopen, klisten, klocal, kpeer, lastIo, ops>>
kernel == <<kopen, klisten, klocal, kpeer>>

Init ==
    /\ sock = [o \in Objs |-> NoFd]
    /\ conn = [o \in Objs |-> FALSE]
    /\ local = [o \in Objs |-> NoAddr]
    /\ remote = [o \in Objs |-> NoAddr]
    /\ alive = FALSE
    /\ kopen = {}
    /\ klisten = {}
    /\ klocal = [f \in Fds |-> NoAddr]
    /\ kpeer = [f \in Fds |-> NoAddr]
    /\ lastIo = NoIo
    /\ ops = 0

\* socket() / accept(): the lowest free descriptor, or -1 (EMFILE).
FreeFds == Fds \ kopen
Lowest == IF FreeFds = {} THEN NoFd ELSE CHOOSE f \in FreeFds : \A g \in FreeFds : f <= g

Step == ops < MaxOps /\ ops' = ops + 1

\* getLocalAddress / getRemoteAddress: the cached one, else the kernel's
\* (getsockname / getpeername), which is then cached.
Cache(c, k) == IF c # NoAddr THEN c ELSE k

Ephemeral == [addr |-> "ephemeral", family |-> Family]

\* init(sock): FdMgr->get(sock) must return a live socket FdCtx.  With hooks
\* enabled, the hooked accept has created one; without, get() (auto_create
\* false) returns null.
InitAccepts == Hooked

\* ::close(fd): the descriptor and its kernel state go.
KClose(fd) ==
    /\ kopen' = kopen \ {fd}
    /\ klisten' = klisten \ {fd}
    /\ klocal' = [klocal EXCEPT ![fd] = NoAddr]
    /\ kpeer' = [kpeer EXCEPT ![fd] = NoAddr]

-----------------------------------------------------------------------------
\* bind(addr): newSock() when !isValid() (false if socket() fails); the
\* family check; ::bind, which fails on a bound descriptor and may fail
\* (EADDRINUSE); getLocalAddress().
Bind(o, a) ==
    /\ Step
    /\ LET fd == IF sock[o] = NoFd THEN Lowest ELSE sock[o] IN
       /\ sock' = [sock EXCEPT ![o] = fd]
       /\ kopen' = IF fd = NoFd THEN kopen ELSE kopen \cup {fd}
       /\ IF fd # NoFd /\ a.family = Family /\ klocal[fd] = NoAddr
            THEN \/ /\ klocal' = [klocal EXCEPT ![fd] = a]
                    /\ local' = [local EXCEPT ![o] = Cache(@, a)]
                 \/ UNCHANGED <<klocal, local>>          \* EADDRINUSE
            ELSE UNCHANGED <<klocal, local>>
    /\ UNCHANGED <<conn, remote, alive, klisten, kpeer, lastIo>>

\* connect(addr, timeout): newSock() when !isValid(); the family check;
\* ::connect (or connect_with_timeout), which fails on a connected
\* descriptor and may fail (refused, timed out); on failure close(); on
\* success m_isConnected, getLocalAddress(), getRemoteAddress().
Connect(o, p) ==
    /\ Step
    /\ LET fd == IF sock[o] = NoFd THEN Lowest ELSE sock[o]
           lcl == IF klocal[fd] = NoAddr THEN Ephemeral ELSE klocal[fd]
       IN
       IF fd = NoFd \/ p.family # Family
         THEN /\ sock' = [sock EXCEPT ![o] = fd]
              /\ kopen' = IF fd = NoFd THEN kopen ELSE kopen \cup {fd}
              /\ UNCHANGED <<conn, local, remote, klisten, klocal, kpeer>>
         ELSE \/ /\ kpeer[fd] = NoAddr /\ fd \notin klisten
                 /\ sock' = [sock EXCEPT ![o] = fd]
                 /\ kopen' = kopen \cup {fd}
                 /\ klocal' = [klocal EXCEPT ![fd] = lcl]
                 /\ kpeer' = [kpeer EXCEPT ![fd] = p]
                 /\ conn' = [conn EXCEPT ![o] = TRUE]
                 /\ local' = [local EXCEPT ![o] = Cache(@, lcl)]
                 /\ remote' = [remote EXCEPT ![o] = Cache(@, p)]
                 /\ UNCHANGED klisten
              \/ /\ sock' = [sock EXCEPT ![o] = NoFd]   \* close()
                 /\ conn' = [conn EXCEPT ![o] = FALSE]
                 /\ KClose(fd)
                 /\ UNCHANGED <<local, remote>>
    /\ UNCHANGED <<alive, lastIo>>

\* listen(backlog): false on an invalid socket; ::listen may fail
\* (EINVAL on a connected descriptor).
Listen(o) ==
    /\ Step
    /\ \/ /\ sock[o] # NoFd /\ kpeer[sock[o]] = NoAddr
          /\ klisten' = klisten \cup {sock[o]}
          /\ klocal' = [klocal EXCEPT ![sock[o]] = IF @ = NoAddr THEN Ephemeral ELSE @]
       \/ UNCHANGED <<klisten, klocal>>
    /\ UNCHANGED <<sock, conn, local, remote, alive, kopen, kpeer, lastIo>>

\* Mutant: ::close without m_sock = -1.
CloseKeepsSock(o) ==
    /\ Step
    /\ conn' = [conn EXCEPT ![o] = FALSE]
    /\ IF sock[o] = NoFd THEN UNCHANGED <<sock, kernel>>
       ELSE UNCHANGED sock /\ KClose(sock[o])
    /\ UNCHANGED <<local, remote, alive, lastIo>>

\* close(): nothing to do when neither connected nor open; else
\* m_isConnected = false and, when open, ::close and m_sock = -1.
Close(o) ==
    /\ Step
    /\ conn' = [conn EXCEPT ![o] = FALSE]
    /\ IF sock[o] = NoFd
         THEN UNCHANGED <<sock, kernel>>
         ELSE sock' = [sock EXCEPT ![o] = NoFd] /\ KClose(sock[o])
    /\ UNCHANGED <<local, remote, alive, lastIo>>

\* accept(): a new Socket object; ::accept on the listener's m_sock gives
\* the lowest free descriptor connected to a peer, or -1 (nullptr).
\* init(newsock) needs FdMgr to hold a live socket FdCtx for it (the hook
\* creates one in accept); then m_sock, m_isConnected, initSock and the
\* address caches.  Else accept returns nullptr and the new Socket, whose
\* m_sock is still -1, is destroyed.  The server holds one accepted
\* Socket at a time (alive).
Accept(p) ==
    /\ Step
    /\ ~alive
    /\ \/ /\ sock["lst"] \in klisten /\ Lowest # NoFd
          /\ LET fd == Lowest IN
             /\ kopen' = kopen \cup {fd}
             /\ klocal' = [klocal EXCEPT ![fd] = klocal[sock["lst"]]]
             /\ kpeer' = [kpeer EXCEPT ![fd] = p]
             /\ IF InitAccepts
                  THEN /\ sock' = [sock EXCEPT !["acc"] = fd]
                       /\ conn' = [conn EXCEPT !["acc"] = TRUE]
                       /\ local' = [local EXCEPT !["acc"] = klocal[sock["lst"]]]
                       /\ remote' = [remote EXCEPT !["acc"] = p]
                       /\ alive' = TRUE
                  ELSE UNCHANGED <<sock, conn, local, remote, alive>>
          /\ UNCHANGED klisten
       \/ UNCHANGED <<sock, conn, local, remote, alive, kernel>>
    /\ UNCHANGED lastIo

\* Mutant: the Socket dropped without close().
ReleaseNoClose ==
    /\ alive
    /\ sock' = [sock EXCEPT !["acc"] = NoFd]
    /\ conn' = [conn EXCEPT !["acc"] = FALSE]
    /\ local' = [local EXCEPT !["acc"] = NoAddr]
    /\ remote' = [remote EXCEPT !["acc"] = NoAddr]
    /\ alive' = FALSE
    /\ UNCHANGED <<ops, kernel, lastIo>>

\* The server drops the accepted Socket: ~Socket calls close().
Release ==
    /\ alive
    /\ IF sock["acc"] = NoFd
         THEN UNCHANGED <<sock, kernel>>
         ELSE sock' = [sock EXCEPT !["acc"] = NoFd] /\ KClose(sock["acc"])
    /\ conn' = [conn EXCEPT !["acc"] = FALSE]
    /\ local' = [local EXCEPT !["acc"] = NoAddr]
    /\ remote' = [remote EXCEPT !["acc"] = NoAddr]
    /\ alive' = FALSE
    /\ UNCHANGED <<ops, lastIo>>

\* send, sendTo, recv, recvFrom and their iovec forms: -1 unless
\* isConnected(); else the syscall's result, which moves bytes (n > 0),
\* reports the peer's shutdown (recv 0) or fails (-1).  sendTo with iovecs
\* discards sendmsg's result and returns -1.
\* Mutant: every send form discards the syscall's result the same way.
IoResultsDiscarded(call) ==
    IF call \in {"send", "send_iov", "sendTo", "sendTo_iov"}
      THEN {[ret |-> "-1", moved |-> m] : m \in BOOLEAN}
      ELSE {[ret |-> "n", moved |-> TRUE], [ret |-> "-1", moved |-> FALSE],
            [ret |-> "0", moved |-> FALSE]}
IoResults(call) ==
    IF call = "sendTo_iov"
      THEN {[ret |-> "-1", moved |-> m] : m \in BOOLEAN}
      ELSE {[ret |-> "n", moved |-> TRUE], [ret |-> "-1", moved |-> FALSE]}
           \cup (IF call \in {"recv", "recv_iov", "recvFrom", "recvFrom_iov"}
                  THEN {[ret |-> "0", moved |-> FALSE]} ELSE {})
Io(o, call) ==
    /\ Step
    /\ IF conn[o]
         THEN \E r \in IoResults(call) :
                lastIo' = [call |-> call, ret |-> r.ret, moved |-> r.moved]
         ELSE lastIo' = [call |-> call, ret |-> "-1", moved |-> FALSE]
    /\ UNCHANGED <<sock, conn, local, remote, alive, kernel>>

Done == ops = MaxOps /\ ~alive /\ UNCHANGED vars

Next ==
    \/ \E p \in Peers : Connect("cli", p) \/ Accept(p)
    \/ \E a \in Locals : Bind("lst", a)
    \/ Listen("lst")
    \/ \E o \in {"cli", "lst"} : Close(o)
    \/ \E o \in {"cli", "acc"}, call \in IoCalls : Io(o, call)
    \/ Release
    \/ Done

Spec == Init /\ [][Next]_vars

-----------------------------------------------------------------------------
\* Every descriptor open in the kernel belongs to a Socket object, so it is
\* closed when that object is: connect's failure path closes, ~Socket
\* closes, and accept hands its descriptor to the new Socket.
NoLeak == kopen \subseteq {sock[o] : o \in Objs}

\* A Socket's m_sock is a descriptor open in the kernel and no other
\* Socket holds it, although the kernel reuses the lowest free number:
\* no Socket operates on a descriptor closed or owned elsewhere.
FdOwnership ==
    \A o \in Objs : sock[o] # NoFd =>
        /\ sock[o] \in kopen
        /\ \A q \in Objs \ {o} : sock[q] # sock[o]

\* A send or receive that returns -1 moved no bytes, so a caller that
\* treats -1 as "nothing sent" and sends again neither duplicates nor
\* loses data.
NoSilentIo == lastIo.ret = "-1" => ~lastIo.moved

\* getLocalAddress() and getRemoteAddress() of an open Socket return the
\* addresses of its current descriptor, also for a Socket that is closed
\* and then bound or connected again (bind and connect call newSock()).
CachesFresh ==
    \A o \in Objs : sock[o] # NoFd =>
        /\ local[o] # NoAddr => local[o] = klocal[sock[o]]
        /\ conn[o] /\ remote[o] # NoAddr => remote[o] = kpeer[sock[o]]
=============================================================================
