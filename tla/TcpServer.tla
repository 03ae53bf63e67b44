----------------------------- MODULE TcpServer -----------------------------
(***************************************************************************)
(* TcpServer (src/mumu/.or/tcp_server.cc) on an IOManager with Threads     *)
(* worker threads.                                                         *)
(*                                                                         *)
(* A user fiber calls bind(addrs), retrying after a sleep when it fails as *)
(* the examples do, and then start() and stop() in turn, Calls times, at   *)
(* arbitrary later moments.  start() schedules one startAccept fiber per   *)
(* listening Socket; stop() schedules a task that cancels and closes every *)
(* Socket of m_socks and clears it.  A fiber holds a worker thread from    *)
(* the moment the scheduler resumes it until it yields: an accept that     *)
(* would block (EAGAIN) registers READ and yields, a plain loop iteration  *)
(* does not.  The hooked accept retries the syscall when it is resumed,    *)
(* whether by the READ event or by cancelAll.  The kernel side of each     *)
(* listening descriptor is its state and its backlog of pending clients.   *)
(***************************************************************************)
EXTENDS Naturals, FiniteSets

CONSTANTS
    Addrs,          \* the addresses handed to bind
    Calls,          \* start() and stop() calls after bind, alternating
    Threads,        \* worker threads of the IOManager
    MaxClients,     \* bound on client connections
    MaxBindFails    \* bound on failed bind attempts

ASSUME Threads \in {1, 2} /\ Calls \in Nat /\ MaxClients \in Nat

Starts == (Calls + 1) \div 2
Stops  == Calls \div 2

\* Fibers: the user's, one startAccept per listening Socket and start(),
\* one close task per stop().
User       == <<"user", "-", 0>>
Acc(a, n)  == <<"acc", a, n>>
Closer(k)  == <<"close", "-", k>>
AccIds     == {Acc(a, n) : a \in Addrs, n \in 1..Starts}
Fibers     == {User} \cup AccIds \cup {Closer(k) : k \in 1..Stops}

NoSock == "-"

VARIABLES
    ucall,      \* the user's next call: 0 bind, 1..Calls start/stop, Calls+1 none
    bindFails,  \* failed bind attempts
    isStop,     \* m_isStop
    socks,      \* m_socks, as the set of their addresses
    lfd,        \* lfd[a]: the listening descriptor: "none", "open", "closed"
    backlog,    \* backlog[a]: clients connected and not yet accepted
    clients,    \* client connections made
    handled,    \* handleClient tasks scheduled on the io worker
    acc,        \* acc[Acc(a, n)]: "none", "ready", "woken", "parked", "done"
    closer,     \* closer[k]: the close task of the k-th stop()
    cpu         \* the fibers holding a worker thread

vars == <<ucall, bindFails, isStop, socks, lfd, backlog, clients, handled,
          acc, closer, cpu>>

\* TcpServer(): m_isStop is true.
Init ==
    /\ ucall = 0
    /\ bindFails = 0
    /\ isStop = TRUE
    /\ socks = {}
    /\ lfd = [a \in Addrs |-> "none"]
    /\ backlog = [a \in Addrs |-> 0]
    /\ clients = 0
    /\ handled = 0
    /\ acc = [f \in AccIds |-> "none"]
    /\ closer = [k \in 1..Stops |-> [pc |-> "none", left |-> {}, cur |-> NoSock]]
    /\ cpu = {}

-----------------------------------------------------------------------------
\* Mutant: a ready fiber is resumed whether or not a thread is free.
CanRunAlways(f) == TRUE

\* A worker thread runs fiber f: it already holds one, or one is free.
CanRun(f) == f \in cpu \/ Cardinality(cpu) < Threads
Hold(f)   == cpu' = cpu \cup {f}
Yield(f)  == cpu' = cpu \ {f}

\* bind(addrs): CreateTCP, bind and listen for each address, any of which
\* may fail.  Any failure clears m_socks, whose Sockets are then destroyed
\* (~Socket closes them), and returns false; the caller sleeps and retries.
Bind ==
    /\ ucall = 0 /\ CanRun(User)
    /\ \E ok \in IF bindFails < MaxBindFails THEN SUBSET Addrs ELSE {Addrs} :
         IF ok = Addrs
           THEN /\ socks' = Addrs
                /\ lfd' = [a \in Addrs |-> "open"]
                /\ ucall' = 1
                /\ UNCHANGED bindFails
           ELSE /\ socks' = {}
                /\ bindFails' = bindFails + 1
                /\ UNCHANGED <<lfd, ucall>>
    /\ Yield(User)
    /\ UNCHANGED <<isStop, backlog, clients, handled, acc, closer>>

\* Mutant: the loop over m_socks stops after the first Socket, so only
\* one startAccept is scheduled.
StartFirstOnly(n) ==
    IF ~isStop THEN UNCHANGED <<isStop, acc, closer>>
    ELSE LET first == CHOOSE s \in socks : TRUE
         IN  /\ isStop' = FALSE
             /\ acc' = [f \in AccIds |->
                          IF f[3] = n /\ f[2] = first THEN "ready" ELSE acc[f]]
             /\ UNCHANGED closer

\* start(): returns at once unless m_isStop; else clears it and schedules
\* startAccept for every Socket of m_socks.
Start(n) ==
    IF ~isStop THEN UNCHANGED <<isStop, acc, closer>>
    ELSE /\ isStop' = FALSE
         /\ acc' = [f \in AccIds |->
                      IF f[3] = n /\ f[2] \in socks THEN "ready" ELSE acc[f]]
         /\ UNCHANGED closer

\* stop(): sets m_isStop and schedules the close task.
Stop(k) ==
    /\ isStop' = TRUE
    /\ closer' = [closer EXCEPT ![k].pc = "ready"]
    /\ UNCHANGED acc

\* The user's i-th call after bind: start() when i is odd, stop() when even.
UserCall ==
    /\ ucall \in 1..Calls /\ CanRun(User)
    /\ IF ucall % 2 = 1 THEN Start((ucall + 1) \div 2) ELSE Stop(ucall \div 2)
    /\ ucall' = ucall + 1
    /\ Yield(User)
    /\ UNCHANGED <<bindFails, socks, lfd, backlog, clients, handled>>

-----------------------------------------------------------------------------
\* Socket::accept through the hooked accept, on the Socket's m_sock: a
\* closed descriptor (m_sock = -1) fails at once (EBADF) and accept returns
\* nullptr; a pending client is accepted and handleClient scheduled on the
\* io worker; otherwise (EAGAIN) READ is registered and the fiber yields.
Accept(f) ==
    LET a == f[2] IN
    CASE lfd[a] # "open" -> acc' = [acc EXCEPT ![f] = "ready"] /\ Hold(f)
                            /\ UNCHANGED <<backlog, handled>>
      [] backlog[a] > 0  -> /\ backlog' = [backlog EXCEPT ![a] = @ - 1]
                            /\ handled' = handled + 1
                            /\ acc' = [acc EXCEPT ![f] = "ready"] /\ Hold(f)
      [] OTHER           -> acc' = [acc EXCEPT ![f] = "parked"] /\ Yield(f)
                            /\ UNCHANGED <<backlog, handled>>

\* One step of startAccept: at the top of `while(!m_isStop)` the fiber
\* leaves when m_isStop is set; otherwise, and when resumed inside the
\* hooked accept, it (re)tries accept.
AccStep(f) ==
    /\ acc[f] \in {"ready", "woken"} /\ CanRun(f)
    /\ IF acc[f] = "ready" /\ isStop
         THEN acc' = [acc EXCEPT ![f] = "done"] /\ Yield(f)
                /\ UNCHANGED <<backlog, handled>>
         ELSE Accept(f)
    /\ UNCHANGED <<ucall, bindFails, isStop, socks, lfd, clients, closer>>

\* The reactor, on a free thread, sees READ on a listening descriptor with
\* a pending client and resumes the fiber parked on it.
Wake(f) ==
    /\ acc[f] = "parked" /\ lfd[f[2]] = "open" /\ backlog[f[2]] > 0
    /\ Cardinality(cpu) < Threads
    /\ acc' = [acc EXCEPT ![f] = "woken"]
    /\ UNCHANGED <<ucall, bindFails, isStop, socks, lfd, backlog, clients,
                   handled, closer, cpu>>

-----------------------------------------------------------------------------
\* The close task of stop(), which holds its thread to the end: it walks
\* m_socks; for each Socket, cancelAll resumes the fibers waiting on it and
\* close() closes it (the kernel drops its pending clients); then
\* m_socks.clear().
CloseRun(k) ==
    /\ closer[k].pc = "ready" /\ CanRun(Closer(k))
    /\ closer' = [closer EXCEPT ![k].pc = "loop", ![k].left = socks]
    /\ Hold(Closer(k))
    /\ UNCHANGED <<ucall, bindFails, isStop, socks, lfd, backlog, clients,
                   handled, acc>>

\* Mutant: the loop without sock->cancelAll().
CloseCancelSkipped(k) ==
    /\ closer[k].pc = "loop" /\ closer[k].cur = NoSock
    /\ \E a \in closer[k].left : closer' = [closer EXCEPT ![k].cur = a]
    /\ UNCHANGED <<ucall, bindFails, isStop, socks, lfd, backlog, clients,
                   handled, acc, cpu>>

CloseCancel(k) ==
    /\ closer[k].pc = "loop" /\ closer[k].cur = NoSock
    /\ \E a \in closer[k].left :
         /\ closer' = [closer EXCEPT ![k].cur = a]
         /\ acc' = [f \in AccIds |->
                      IF f[2] = a /\ acc[f] = "parked" THEN "woken" ELSE acc[f]]
    /\ UNCHANGED <<ucall, bindFails, isStop, socks, lfd, backlog, clients,
                   handled, cpu>>

\* Socket::close: ::close(m_sock) once, then m_sock = -1.
CloseFd(k) ==
    LET a == closer[k].cur IN
    /\ closer[k].pc = "loop" /\ a # NoSock
    /\ lfd' = [lfd EXCEPT ![a] = IF @ = "open" THEN "closed" ELSE @]
    /\ backlog' = [backlog EXCEPT ![a] = 0]
    /\ closer' = [closer EXCEPT ![k].cur = NoSock, ![k].left = @ \ {a}]
    /\ UNCHANGED <<ucall, bindFails, isStop, socks, clients, handled, acc, cpu>>

CloseClear(k) ==
    /\ closer[k].pc = "loop" /\ closer[k].cur = NoSock /\ closer[k].left = {}
    /\ socks' = {}
    /\ closer' = [closer EXCEPT ![k].pc = "done"]
    /\ Yield(Closer(k))
    /\ UNCHANGED <<ucall, bindFails, isStop, lfd, backlog, clients, handled, acc>>

CloserStep(k) == CloseRun(k) \/ CloseCancel(k) \/ CloseFd(k) \/ CloseClear(k)

\* A client connects to a listening descriptor.
Connect(a) ==
    /\ lfd[a] = "open" /\ clients < MaxClients
    /\ backlog' = [backlog EXCEPT ![a] = @ + 1]
    /\ clients' = clients + 1
    /\ UNCHANGED <<ucall, bindFails, isStop, socks, lfd, handled, acc, closer, cpu>>

\* Nothing is left to run: the user is done and every fiber has finished or
\* waits for an event; the reactor waits in epoll_wait.
Quiet ==
    /\ ucall = Calls + 1
    /\ \A f \in AccIds : acc[f] \in {"none", "parked", "done"}
    /\ \A k \in 1..Stops : closer[k].pc \in {"none", "done"}
    /\ UNCHANGED vars

UserStep == Bind \/ UserCall

Next ==
    \/ UserStep
    \/ \E f \in AccIds : AccStep(f) \/ Wake(f)
    \/ \E k \in 1..Stops : CloserStep(k)
    \/ \E a \in Addrs : Connect(a)
    \/ Quiet

\* The scheduler resumes every ready fiber once a thread is free, and the
\* reactor dispatches every reported event.  Neither the user's calls nor
\* clients need come: the program may run without ever calling stop().
Fairness ==
    /\ \A f \in AccIds : WF_vars(AccStep(f)) /\ WF_vars(Wake(f))
    /\ \A k \in 1..Stops : WF_vars(CloserStep(k))

Spec == Init /\ [][Next]_vars /\ Fairness

-----------------------------------------------------------------------------
\* Every variable has its type, and no more fibers run at once than the
\* IOManager has worker threads (Scheduler::run resumes a fiber on its own
\* thread only).
TypeOK ==
    /\ ucall \in 0..Calls + 1 /\ bindFails \in 0..MaxBindFails
    /\ isStop \in BOOLEAN /\ socks \subseteq Addrs
    /\ lfd \in [Addrs -> {"none", "open", "closed"}]
    /\ backlog \in [Addrs -> 0..MaxClients] /\ clients \in 0..MaxClients
    /\ handled \in 0..MaxClients
    /\ acc \in [AccIds -> {"none", "ready", "woken", "parked", "done"}]
    /\ cpu \subseteq Fibers /\ Cardinality(cpu) <= Threads

\* Every startAccept loop whose listening Socket has been closed ends:
\* stop() sets m_isStop and its close task wakes the accept waiting on the
\* Socket, so the loop must see m_isStop instead of waiting or spinning on
\* the closed descriptor.
AcceptLoopsEnd ==
    \A f \in AccIds : (acc[f] # "none" /\ lfd[f[2]] = "closed") ~> acc[f] = "done"

\* While the server runs (start() and no stop() since), every client that
\* connects to one of its Sockets is eventually accepted and handed to
\* handleClient: the READ event resumes the accept waiting on the Socket.
ClientsServed ==
    \A a \in Addrs : (backlog[a] > 0 /\ ~isStop) ~> (backlog[a] = 0 \/ isStop)
====
