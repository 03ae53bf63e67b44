----------------------------- MODULE IOFdTable -----------------------------
(***************************************************************************)
(* IOManager's table of FdContext pointers, m_fdContext, in                *)
(* src/mumu/.or/iomanager.cc, and the epoll registration each FdContext    *)
(* holds.                                                                  *)
(*                                                                         *)
(* addEvent looks the fd up under the read lock of m_mutex.  When the      *)
(* table is too short it releases the read lock, takes the write lock and  *)
(* calls contextResize(fd * 1.5) without looking at the size again; that   *)
(* is two steps here.  delEvent looks the fd up under the read lock and    *)
(* works on the FdContext under its own mutex after the unlock; so does    *)
(* addEvent.  Each locked region is one step.                              *)
(*                                                                         *)
(* Only the fds in Fds are tracked: slot[fd] is the FdContext that         *)
(* m_fdContext[fd] points to, numbered per fd in creation order, and 0     *)
(* when fd is past the end of the table.  A context's events are           *)
(* FdContext::events; epoll's registration of the fd (interest mask and    *)
(* the context in data.ptr) is kept apart from the table.                  *)
(***************************************************************************)
EXTENDS Integers, FiniteSets

CONSTANTS
    Threads,    \* threads calling addEvent / delEvent
    Fds,        \* socket fds the threads use
    Events,     \* READ, WRITE
    InitSize,   \* contextResize(32) in the IOManager constructor
    MaxOps      \* bound on the calls each run makes

ASSUME Fds \subseteq Nat /\ InitSize \in Nat /\ MaxOps \in Nat

\* Context numbers: the constructor's, plus at most one per resize.
Gens == 1..(MaxOps + 1)

VARIABLES
    size,       \* m_fdContext.size()
    slot,       \* slot[fd]: the context m_fdContext[fd] points to, 0 if none
    made,       \* made[fd]: how many contexts were created for fd
    evs,        \* evs[fd][g]: FdContext::events of context g of fd
    inEpoll,    \* the fd is in the epoll set
    epPtr,      \* epoll_event.data.ptr registered for the fd
    pc,         \* "idle", "resize" or "locked" within addEvent; "dlocked"
    op,         \* the call a thread is in: <<"add"|"del", fd, event>>
    ctx,        \* the local fd_ctx
    mine,       \* mine[t]: the (fd, event) pairs t has registered
    ctlErr,     \* an epoll_ctl of addEvent or delEvent failed
    ops         \* calls made

vars == <<size, slot, made, evs, inEpoll, epPtr, pc, op, ctx, mine, ctlErr, ops>>

\* The contexts contextResize(n) leaves in the tracked slots: the old one
\* when the slot survives, a new one when it was past the end.
Resized(n) ==
    [fd \in Fds |-> IF fd >= n THEN 0
                    ELSE IF slot[fd] # 0 THEN slot[fd] ELSE made[fd] + 1]

Init ==
    /\ size = InitSize
    /\ slot = [fd \in Fds |-> IF fd < InitSize THEN 1 ELSE 0]
    /\ made = [fd \in Fds |-> IF fd < InitSize THEN 1 ELSE 0]
    /\ evs = [fd \in Fds |-> [g \in Gens |-> {}]]
    /\ inEpoll = [fd \in Fds |-> FALSE]
    /\ epPtr = [fd \in Fds |-> 0]
    /\ pc = [t \in Threads |-> "idle"]
    /\ op = [t \in Threads |-> <<"add", CHOOSE fd \in Fds : TRUE, CHOOSE e \in Events : TRUE>>]
    /\ ctx = [t \in Threads |-> 0]
    /\ mine = [t \in Threads |-> {}]
    /\ ctlErr = FALSE
    /\ ops = 0

-----------------------------------------------------------------------------
\* contextResize(size): m_fdContext.resize, then a new FdContext in every
\* null slot below the new size.  A slot past the new end is dropped with
\* the context it pointed to.
ContextResizeAll(n) ==
    /\ size' = n
    /\ slot' = [fd \in Fds |-> IF fd >= n THEN 0 ELSE made[fd] + 1]
    /\ made' = [fd \in Fds |-> IF fd < n THEN made[fd] + 1 ELSE made[fd]]
ContextResize(n) ==
    /\ size' = n
    /\ slot' = Resized(n)
    /\ made' = [fd \in Fds |-> IF Resized(n)[fd] > made[fd] THEN made[fd] + 1 ELSE made[fd]]

\* addEvent, under the read lock: the fd fits, or go resize.  A thread
\* registers an event it is not already waiting for (the code asserts it).
AddCheck(t, fd, e) ==
    /\ pc[t] = "idle" /\ ops < MaxOps
    /\ <<fd, e>> \notin mine[t]
    /\ op' = [op EXCEPT ![t] = <<"add", fd, e>>]
    /\ IF size > fd
         THEN pc' = [pc EXCEPT ![t] = "locked"] /\ ctx' = [ctx EXCEPT ![t] = slot[fd]]
         ELSE pc' = [pc EXCEPT ![t] = "resize"] /\ UNCHANGED ctx
    /\ ops' = ops + 1
    /\ UNCHANGED <<size, slot, made, evs, inEpoll, epPtr, mine, ctlErr>>

\* addEvent, under the write lock: contextResize(fd * 1.5), no re-check.
AddResize(t) ==
    LET fd == op[t][2]
        n  == (fd * 3) \div 2
    IN  /\ pc[t] = "resize"
        /\ ContextResize(n)
        /\ ctx' = [ctx EXCEPT ![t] = slot'[fd]]
        /\ pc' = [pc EXCEPT ![t] = "locked"]
        /\ UNCHANGED <<evs, inEpoll, epPtr, op, mine, ctlErr, ops>>

\* The epoll_ctl call: ADD of an fd already in the set, or MOD / DEL of
\* one that is not, fails (EEXIST / ENOENT).
CtlFails(fd, isAdd) == IF isAdd THEN inEpoll[fd] ELSE ~inEpoll[fd]

\* addEvent, under fd_ctx->mutex: ADD if the context has no events, else
\* MOD, with data.ptr = fd_ctx; on success record the event.
AddLocked(t) ==
    LET fd == op[t][2]  e == op[t][3]  g == ctx[t]
        isAdd == evs[fd][g] = {}
    IN  /\ pc[t] = "locked" /\ op[t][1] = "add"
        /\ pc' = [pc EXCEPT ![t] = "idle"]
        /\ IF CtlFails(fd, isAdd)
             THEN /\ ctlErr' = TRUE
                  /\ UNCHANGED <<evs, inEpoll, epPtr, mine>>
             ELSE /\ evs' = [evs EXCEPT ![fd][g] = @ \cup {e}]
                  /\ inEpoll' = [inEpoll EXCEPT ![fd] = TRUE]
                  /\ epPtr' = [epPtr EXCEPT ![fd] = g]
                  /\ mine' = [mine EXCEPT ![t] = @ \cup {<<fd, e>>}]
                  /\ UNCHANGED ctlErr
        /\ UNCHANGED <<size, slot, made, op, ctx, ops>>

\* delEvent, under the read lock: false past the end of the table.
DelCheck(t, fd, e) ==
    /\ pc[t] = "idle" /\ ops < MaxOps
    /\ <<fd, e>> \in mine[t]
    /\ op' = [op EXCEPT ![t] = <<"del", fd, e>>]
    /\ IF size <= fd
         THEN UNCHANGED <<pc, ctx>>
         ELSE pc' = [pc EXCEPT ![t] = "dlocked"] /\ ctx' = [ctx EXCEPT ![t] = slot[fd]]
    /\ ops' = ops + 1
    /\ UNCHANGED <<size, slot, made, evs, inEpoll, epPtr, mine, ctlErr>>

\* delEvent, under fd_ctx->mutex: false if the context lacks the event,
\* else MOD to the events left or DEL, and clear the event.
DelKeepsEvents(t) ==
    LET fd == op[t][2]  e == op[t][3]  g == ctx[t]
        left == evs[fd][g] \ {e}
    IN  /\ e \in evs[fd][g]
        /\ IF CtlFails(fd, FALSE)
             THEN ctlErr' = TRUE /\ UNCHANGED <<inEpoll, epPtr, mine>>
             ELSE /\ inEpoll' = [inEpoll EXCEPT ![fd] = left # {}]
                  /\ epPtr' = [epPtr EXCEPT ![fd] = g]
                  /\ mine' = [mine EXCEPT ![t] = @ \ {<<fd, e>>}]
                  /\ UNCHANGED ctlErr
        /\ UNCHANGED evs
DelClears(t) ==
    LET fd == op[t][2]  e == op[t][3]  g == ctx[t]
        left == evs[fd][g] \ {e}
    IN  /\ e \in evs[fd][g]
        /\ IF CtlFails(fd, FALSE)
             THEN ctlErr' = TRUE /\ UNCHANGED <<evs, inEpoll, epPtr, mine>>
             ELSE /\ evs' = [evs EXCEPT ![fd][g] = left]
                  /\ inEpoll' = [inEpoll EXCEPT ![fd] = left # {}]
                  /\ epPtr' = [epPtr EXCEPT ![fd] = g]
                  /\ mine' = [mine EXCEPT ![t] = @ \ {<<fd, e>>}]
                  /\ UNCHANGED ctlErr
DelLocked(t) ==
    LET fd == op[t][2]  e == op[t][3]  g == ctx[t]
    IN  /\ pc[t] = "dlocked"
        /\ pc' = [pc EXCEPT ![t] = "idle"]
        /\ IF e \in evs[fd][g]
             THEN DelClears(t)
             ELSE UNCHANGED <<evs, inEpoll, epPtr, mine, ctlErr>>
        /\ UNCHANGED <<size, slot, made, op, ctx, ops>>

\* Every thread back in its caller with the call budget spent.
Done == ops = MaxOps /\ \A t \in Threads : pc[t] = "idle" /\ UNCHANGED vars

Next ==
    \/ \E t \in Threads :
          \/ \E fd \in Fds, e \in Events : AddCheck(t, fd, e) \/ DelCheck(t, fd, e)
          \/ AddResize(t) \/ AddLocked(t) \/ DelLocked(t)
    \/ Done

Spec == Init /\ [][Next]_vars

-----------------------------------------------------------------------------
\* Every context that holds registered events is the one m_fdContext[fd]
\* points to: delEvent, cancelEvent and cancelAll, which look the fd up in
\* the table, reach the waiter addEvent registered.  contextResize called
\* with a smaller size than another thread's resize drops that context.
ContextReachable ==
    \A fd \in Fds, g \in Gens : evs[fd][g] # {} => slot[fd] = g

\* No epoll_ctl of addEvent or delEvent fails: the ADD/MOD/DEL choice made
\* from the context's events agrees with epoll's registration of the fd.
NoEpollCtlError == ~ctlErr
=============================================================================
