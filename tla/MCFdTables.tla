---------------------------- MODULE MCFdTables -----------------------------
(***************************************************************************)
(* The library's fd-indexed state in one model-checking run: IOManager's  *)
(* m_fdContexts (IOFdTable), FdManager's m_datas (FdManager) and the       *)
(* Socket objects over the kernel's descriptors (Socket).  They share no   *)
(* state, so a behaviour runs one of them: which, is chosen in the initial *)
(* state (table), and the others stay in their initial states.  Each has   *)
(* its own threads, fds and bounds.                                        *)
(***************************************************************************)
EXTENDS Integers

CONSTANTS th1, th2, READ, WRITE,
          IOFds, IOInitSize, IOMaxOps,   \* for IOFdTable
          FMFds, FMInitSize, FMMaxOps,   \* for FdManager
          SKFds, SKHooked, SKIoCalls, SKMaxOps   \* for Socket

VARIABLES table,
          ioSize, ioSlot, ioMade, ioEvs, ioInEpoll, ioEpPtr, ioPc, ioOp,
          ioCtx, ioMine, ioCtlErr, ioOps,
          fmSize, fmData, fmMade, fmPc, fmArg, fmGot, fmHeld, fmOob, fmOps,
          skSock, skConn, skLocal, skRemote, skAlive, skKopen, skKlisten,
          skKlocal, skKpeer, skLastIo, skOps

ioVars == <<ioSize, ioSlot, ioMade, ioEvs, ioInEpoll, ioEpPtr, ioPc, ioOp,
            ioCtx, ioMine, ioCtlErr, ioOps>>
fmVars == <<fmSize, fmData, fmMade, fmPc, fmArg, fmGot, fmHeld, fmOob, fmOps>>
skVars == <<skSock, skConn, skLocal, skRemote, skAlive, skKopen, skKlisten,
            skKlocal, skKpeer, skLastIo, skOps>>

IO == INSTANCE IOFdTable
        WITH Threads <- {th1, th2}, Events <- {READ, WRITE}, Fds <- IOFds,
             InitSize <- IOInitSize, MaxOps <- IOMaxOps,
             size <- ioSize, slot <- ioSlot, made <- ioMade, evs <- ioEvs,
             inEpoll <- ioInEpoll, epPtr <- ioEpPtr, pc <- ioPc, op <- ioOp,
             ctx <- ioCtx, mine <- ioMine, ctlErr <- ioCtlErr, ops <- ioOps

\* fd 70 is created by th2, the others by th1.
FM == INSTANCE FdManager
        WITH Threads <- {th1, th2}, Fds <- FMFds,
             Owner <- [fd \in FMFds |-> IF fd = 70 THEN th2 ELSE th1],
             InitSize <- FMInitSize, MaxOps <- FMMaxOps,
             size <- fmSize, data <- fmData, made <- fmMade, pc <- fmPc,
             arg <- fmArg, got <- fmGot, held <- fmHeld, oob <- fmOob,
             ops <- fmOps

\* Two IPv4 peers, an IPv6 one (the family check), a local address of each
\* family.
V4(a) == [addr |-> a, family |-> "inet"]
V6(a) == [addr |-> a, family |-> "inet6"]
SK == INSTANCE Socket
        WITH Fds <- SKFds, Peers <- {V4("p1"), V4("p2"), V6("p6")},
             Locals <- {V4("a1"), V4("a2"), V6("a6")}, Family <- "inet",
             Hooked <- SKHooked, IoCalls <- SKIoCalls, MaxOps <- SKMaxOps,
             sock <- skSock, conn <- skConn, local <- skLocal,
             remote <- skRemote, alive <- skAlive, kopen <- skKopen,
             klisten <- skKlisten, klocal <- skKlocal, kpeer <- skKpeer,
             lastIo <- skLastIo,
             ops <- skOps

vars == <<table, ioVars, fmVars, skVars>>

Init == table \in {"io", "fm", "sock"} /\ IO!Init /\ FM!Init /\ SK!Init

Next ==
    \/ table = "io" /\ IO!Next /\ UNCHANGED <<table, fmVars, skVars>>
    \/ table = "fm" /\ FM!Next /\ UNCHANGED <<table, ioVars, skVars>>
    \/ table = "sock" /\ SK!Next /\ UNCHANGED <<table, ioVars, fmVars>>

Spec == Init /\ [][Next]_vars

-----------------------------------------------------------------------------
\* The properties of the two modules, each stated there.
ContextReachable == IO!ContextReachable
NoEpollCtlError  == IO!NoEpollCtlError
CreatedCtxKept   == FM!CreatedCtxKept
InBounds         == FM!InBounds
NoLeak           == SK!NoLeak
FdOwnership      == SK!FdOwnership
CachesFresh      == SK!CachesFresh
NoSilentIo       == SK!NoSilentIo
=============================================================================
