------------------------------ MODULE IOTimer ------------------------------
(***************************************************************************)
(* The timer path of the IOManager reactor (src/mumu/.or/iomanager.cc)     *)
(* composed with the TimerManager of src/mumu/timer.cc.                    *)
(*                                                                         *)
(* Each worker thread alternates between its run loop ("sched"), where it  *)
(* runs timer callbacks taken from m_fibers or user code that adds,        *)
(* cancels, refreshes or resets timers, and its idle fiber, the reactor:   *)
(* stopping(next_timeout) calls getNextTimer, the timeout is capped at     *)
(* MAX_TIMEOUT through an (int) conversion, epoll_wait blocks until the    *)
(* timeout elapses or the tickle pipe becomes readable, and listExpiredCb  *)
(* hands the due callbacks to schedule().  onTimerInsertedAtFront is       *)
(* IOManager::tickle, which writes the pipe only when a thread is idle.    *)
(*                                                                         *)
(* I/O events and stop() are left to IOManager.tla; this module never      *)
(* stops, so stopping() only computes the timeout.  The clock advances to  *)
(* the next deadline or epoll wake-up (at most MaxTicks times) and may jump back by *)
(* more than an hour; epoll's relative timeouts move with it.             *)
(***************************************************************************)
EXTENDS TimerManager

CONSTANTS
    Workers,     \* the IOManager's worker threads
    Periods,     \* timer periods (ms) user code passes
    MaxTimeout,  \* MAX_TIMEOUT in IOManager::idle
    IntBits,     \* width of the int that epoll_wait's timeout passes through
    StartMs,     \* GetCurrentMS() when the IOManager is built
    MaxTicks,    \* bound on the times the clock advances
    MaxOps,      \* bound on the timer calls of user code
    MaxJumps,    \* bound on backward clock jumps
    NoTimeout,   \* ~0ull, getNextTimer with no timers
    Forever      \* epoll_wait with a negative timeout

ASSUME /\ Periods \subseteq Nat
       /\ IntBits \in Nat \ {0}
       /\ {StartMs, MaxTicks, MaxOps, MaxJumps, MaxTimeout} \subseteq Nat

VARIABLES
    pc,          \* "sched" (run loop) or the reactor's place in idle()
    wakeAt,      \* when the worker's epoll_wait times out
    pipeRdl,     \* the tickle pipe's edge is in epoll's ready list
    cbq,         \* timer callbacks scheduled into m_fibers, in order
    ops,         \* timer calls user code has made
    ticks,       \* clock advances so far
    jumps,       \* backward clock jumps so far
    failed,      \* undefined behaviour reached
    cancelledOk, \* timers whose cancel() returned true
    lateFire,    \* timers whose callback ran after cancel() returned true
    created      \* timers in the order addTimer created them

ioTimerVars == <<pc, wakeAt, pipeRdl, cbq, ops, ticks, jumps, failed, cancelledOk,
                 lateFire, created>>
vars == <<timerVars, now, ioTimerVars>>

Init ==
    /\ TimerInit(StartMs)
    /\ pc = [w \in Workers |-> "sched"]
    /\ wakeAt = [w \in Workers |-> Forever]
    /\ pipeRdl = FALSE
    /\ cbq = <<>>
    /\ ops = 0
    /\ ticks = 0
    /\ jumps = 0
    /\ failed = {}
    /\ cancelledOk = {}
    /\ lateFire = {}
    /\ created = <<>>

-----------------------------------------------------------------------------
\* Threads inside their idle fiber: m_idleThreadcount > 0 is
\* hasIdleThreads().
IdleWorkers == {w \in Workers : pc[w] # "sched"}

\* IOManager::tickle: write one byte to the pipe if a thread is idle.
Tickle(need) == pipeRdl' = (pipeRdl \/ (need /\ IdleWorkers # {}))

\* A uint64 converted to the IntBits-wide signed int.
ToInt(x) ==
    LET m == x % (2 ^ IntBits)
    IN  IF m >= 2 ^ (IntBits - 1) THEN m - 2 ^ IntBits ELSE m

\* The timeout idle() passes to epoll_wait: capped at MAX_TIMEOUT when
\* (int)next_timeout exceeds it, then converted with int().
EpollMs(t) ==
    IF t = NoTimeout THEN MaxTimeout
    ELSE ToInt(IF ToInt(t) > MaxTimeout THEN MaxTimeout ELSE t)

\* epoll_wait with a negative timeout blocks until an event arrives.
WakeAfter(ms) == IF ms < 0 THEN Forever ELSE now + ms

-----------------------------------------------------------------------------
(* The run loop: user code and timer callbacks                              *)

\* A timer callback taken from m_fibers runs.
RunCallback(w) ==
    /\ pc[w] = "sched" /\ cbq # <<>>
    /\ cbq' = Tail(cbq)
    /\ lateFire' = IF Head(cbq) \in cancelledOk THEN lateFire \cup {Head(cbq)}
                                               ELSE lateFire
    /\ UNCHANGED <<timerVars, now, pc, wakeAt, pipeRdl, ops, ticks, jumps, failed,
                   cancelledOk, created>>

UserAdd ==
    \E t \in Timers, ms \in Periods, rec \in BOOLEAN, a \in Addrs :
        /\ NewTimer(t, ms, rec, a)
        /\ Tickle(AtFront(t, now + ms, a))
        /\ created' = Append(created, t)
        /\ UNCHANGED cancelledOk

UserCancel ==
    \E t \in Timers :
        /\ Cancel(t)
        /\ cancelledOk' = IF Cancelled(t) THEN cancelledOk \cup {t} ELSE cancelledOk
        /\ UNCHANGED <<pipeRdl, created>>

UserRefresh ==
    \E t \in Timers :
        /\ Refresh(t)
        /\ UNCHANGED <<pipeRdl, created, cancelledOk>>

UserReset ==
    \E t \in Timers, ms \in Periods, fromNow \in BOOLEAN :
        /\ Reset(t, ms, fromNow)
        /\ Tickle(AtFront(t, ResetDeadline(t, ms, fromNow), addr[t]))
        /\ UNCHANGED <<created, cancelledOk>>

\* One timer call of user code.
TimerCall ==
    /\ ops < MaxOps
    /\ ops' = ops + 1
    /\ \/ UserAdd \/ UserCancel \/ UserRefresh \/ UserReset
    /\ UNCHANGED <<now, pc, wakeAt, cbq, ticks, jumps, failed, lateFire>>

\* A fiber running on worker w makes the call.
UserCall(w) == pc[w] = "sched" /\ TimerCall

\* The thread that built the IOManager makes the call (test2 of
\* test_iomanager.cc adds its timer from main()).
MainCall == TimerCall

\* run() finds m_fibers empty and swaps in the idle fiber.
EnterIdle(w) ==
    /\ pc[w] = "sched" /\ cbq = <<>>
    /\ pc' = [pc EXCEPT ![w] = "check"]
    /\ UNCHANGED <<timerVars, now, wakeAt, pipeRdl, cbq, ops, ticks, jumps, failed,
                   cancelledOk, lateFire, created>>

-----------------------------------------------------------------------------
(* The reactor: IOManager::idle                                             *)

\* stopping(next_timeout) computes getNextTimer; the capped timeout goes to
\* epoll_wait.
WaitTimeout(w) ==
    /\ pc[w] = "check"
    /\ GetNextTimer
    /\ wakeAt' = [wakeAt EXCEPT ![w] = WakeAfter(EpollMs(NextTimeout(NoTimeout)))]
    /\ pc' = [pc EXCEPT ![w] = "wait"]
    /\ UNCHANGED <<tset, next, period, hasCb, recurring, addr, prevTime, now,
                   pipeRdl, cbq, ops, ticks, jumps, failed, cancelledOk, lateFire,
                   created>>

\* The worker's epoll_wait timeout has elapsed.
WaitOver(w) == IF wakeAt[w] = Forever THEN FALSE ELSE now >= wakeAt[w]

\* epoll_wait returns: timed out, or the pipe's edge was reported to this
\* thread (the drain after the timers consumes the bytes).
Woken(w) ==
    /\ pc[w] = "wait"
    /\ \/ WaitOver(w) /\ UNCHANGED pipeRdl
       \/ pipeRdl /\ pipeRdl' = FALSE
    /\ pc' = [pc EXCEPT ![w] = "list"]
    /\ UNCHANGED <<timerVars, now, wakeAt, cbq, ops, ticks, jumps, failed,
                   cancelledOk, lateFire, created>>

\* listExpiredCb's read-locked emptiness check; an empty set returns and
\* the idle fiber swaps out.
ListCheck(w) ==
    /\ pc[w] = "list"
    /\ pc' = [pc EXCEPT ![w] = IF tset = {} THEN "sched" ELSE "locked"]
    /\ UNCHANGED <<timerVars, now, wakeAt, pipeRdl, cbq, ops, ticks, jumps, failed,
                   cancelledOk, lateFire, created>>

\* The write-locked part of listExpiredCb, then schedule(cbs), the pipe
\* drain and the swap back to run().
ListLocked(w) ==
    /\ pc[w] = "locked"
    /\ pc' = [pc EXCEPT ![w] = "sched"]
    /\ IF ListReadsEmptyBegin \/ ListNothingDue
         THEN /\ prevTime' = now
              /\ failed' = IF ListReadsEmptyBegin THEN failed \cup {"emptyBegin"}
                                                  ELSE failed
              /\ UNCHANGED <<tset, next, period, hasCb, recurring, addr, tickled,
                             pipeRdl, cbq>>
         ELSE LET cbs == ExpiredCbs
              IN  /\ ListExpiredLocked
                  /\ cbq' = cbq \o cbs
                  /\ Tickle(cbq = <<>> /\ cbs # <<>>)
                  /\ UNCHANGED failed
    /\ UNCHANGED <<now, wakeAt, ops, ticks, jumps, cancelledOk, lateFire, created>>

-----------------------------------------------------------------------------
(* The clock                                                                *)

\* Deadlines and epoll wake-ups still ahead.
Ahead == {p \in {next[t] : t \in tset}
                \cup {wakeAt[w] : w \in {v \in Workers : pc[v] = "wait"}} :
             p # Forever /\ p > now}

\* Time passes up to the next deadline or wake-up.
Tick ==
    /\ Ahead # {}
    /\ ticks < MaxTicks
    /\ now' = Min(Ahead)
    /\ ticks' = ticks + 1
    /\ UNCHANGED <<timerVars, pc, wakeAt, pipeRdl, cbq, ops, jumps, failed,
                   cancelledOk, lateFire, created>>

\* The wall clock is set back by more than an hour; epoll_wait's timeouts
\* are relative and move with it.
ClockBack ==
    /\ jumps < MaxJumps /\ now > RolloverMs
    /\ now' = now - RolloverMs - 1
    /\ wakeAt' = [w \in Workers |->
                    IF wakeAt[w] = Forever THEN Forever ELSE wakeAt[w] - RolloverMs - 1]
    /\ jumps' = jumps + 1
    /\ UNCHANGED <<timerVars, pc, pipeRdl, cbq, ops, ticks, failed, cancelledOk,
                   lateFire, created>>

\* Every thread blocked in epoll_wait with nothing to wake it before the
\* end of the horizon.
Quiescent ==
    /\ \A w \in Workers : pc[w] = "wait" /\ ~WaitOver(w)
    /\ ~pipeRdl
    /\ UNCHANGED vars

Next ==
    \/ \E w \in Workers :
          \/ RunCallback(w) \/ UserCall(w) \/ EnterIdle(w)
          \/ WaitTimeout(w) \/ Woken(w) \/ ListCheck(w) \/ ListLocked(w)
    \/ MainCall \/ Tick \/ ClockBack \/ Quiescent

Spec == Init /\ [][Next]_vars

-----------------------------------------------------------------------------
(* Properties                                                               *)

\* The earliest timer is never overslept: when every thread is blocked in
\* epoll_wait and no tickle is pending, some thread's wait ends no later
\* than the first deadline (or at once, if that deadline has passed).  This is what the m_tickled debounce of
\* addTimer and the cap and (int) conversion in idle() must preserve.
NoStaleWait ==
    ( /\ \A w \in Workers : pc[w] = "wait"
      /\ ~pipeRdl
      /\ tset # {} )
    => \E w \in Workers :
          wakeAt[w] # Forever /\ wakeAt[w] =< Max({now, next[FirstTimer(tset)]})

\* A timer is in m_timer exactly when its m_cb is set: Timer::cancel erases
\* find(this) unchecked, which is only valid if this holds.
CbIffQueued == \A t \in Timers : (t \in tset) <=> hasCb[t]

\* The callback of a one-shot timer never runs after cancel() on it has
\* returned true, even when listExpiredCb runs on another thread.
OneShotCancelNeverFires == \A t \in lateFire : recurring[t]

\* listExpiredCb never dereferences m_timer.begin() of an empty set.
NoEmptyBegin == "emptyBegin" \notin failed

\* Timers with equal deadlines are handed out by listExpiredCb in the
\* order they were added (spec 4.3, ordering and tie-breaks).
Position(t) == CHOOSE i \in 1..Len(created) : created[i] = t
InAddOrder(cbs) ==
    \A i, j \in 1..Len(cbs) :
        (i < j /\ next[cbs[i]] = next[cbs[j]]) => Position(cbs[i]) < Position(cbs[j])
ExpiryOrder ==
    [][\A w \in Workers : (pc[w] = "locked" /\ pc'[w] = "sched") => InAddOrder(ExpiredCbs)]_vars
=============================================================================
