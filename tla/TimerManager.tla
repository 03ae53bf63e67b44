--------------------------- MODULE TimerManager ---------------------------
(***************************************************************************)
(* The timer set of src/mumu/timer.cc.                                     *)
(*                                                                         *)
(* m_timer is a std::set<Timer::ptr> ordered by Timer::Comparator: by      *)
(* m_next, and for equal deadlines by the Timer's heap address.  Every     *)
(* public operation takes m_mutex (a read/write lock) and is one step      *)
(* here, except listExpiredCb, which checks emptiness under the read lock, *)
(* releases it and then takes the write lock: that is two steps.           *)
(*                                                                         *)
(* Timers are the Timer objects the program creates; a Timer's address is *)
(* chosen by the allocator among the addresses no live Timer holds.  The   *)
(* wall clock GetCurrentMS() is the variable now.  This module defines the *)
(* operations; IOTimer.tla composes them with the IOManager reactor.       *)
(***************************************************************************)
EXTENDS Integers, FiniteSets, Sequences, SequencesExt

CONSTANTS
    Timers,      \* Timer objects the program may create
    Addrs,       \* heap addresses, ordered as raw pointers are
    RolloverMs,  \* 60 * 60 * 1000 in detectClockRollover
    NoAddr       \* the Timer has not been allocated yet

ASSUME /\ Addrs \subseteq Nat
       /\ NoAddr \notin Addrs
       /\ RolloverMs \in Nat

VARIABLES
    tset,      \* m_timer: the timers in the set
    next,      \* Timer::m_next
    period,    \* Timer::m_ms
    hasCb,     \* Timer::m_cb is not nullptr
    recurring, \* Timer::m_recurring
    addr,      \* the Timer's address, NoAddr before it is allocated
    tickled,   \* TimerManager::m_tickled
    prevTime,  \* TimerManager::m_previousTime
    now        \* GetCurrentMS()

timerVars == <<tset, next, period, hasCb, recurring, addr, tickled, prevTime>>

TimerInit(start) ==
    /\ tset = {}
    /\ next = [t \in Timers |-> 0]
    /\ period = [t \in Timers |-> 0]
    /\ hasCb = [t \in Timers |-> FALSE]
    /\ recurring = [t \in Timers |-> FALSE]
    /\ addr = [t \in Timers |-> NoAddr]
    /\ tickled = FALSE
    /\ prevTime = start
    /\ now = start

-----------------------------------------------------------------------------
\* Timer::Comparator on (m_next, address) pairs.
Precedes(n1, a1, n2, a2) == n1 < n2 \/ (n1 = n2 /\ a1 < a2)
Less(a, b) == Precedes(next[a], addr[a], next[b], addr[b])

\* *m_timer.begin() of a non-empty set.
FirstTimer(S) == CHOOSE t \in S : \A u \in S \ {t} : Less(t, u)

\* The Timer with deadline n and address a lands at m_timer.begin().
BeginsAt(t, n, a) == \A u \in tset \ {t} : Precedes(n, a, next[u], addr[u])

\* TimerManager::addTimer(val, lock): insert, and claim the front
\* notification unless one is outstanding.  The caller tickles when
\* AtFront holds (onTimerInsertedAtFront runs after the unlock).
AtFront(t, n, a) == BeginsAt(t, n, a) /\ ~tickled
AddTimerLocked(t, n, a) ==
    /\ tset' = tset \cup {t}
    /\ tickled' = (tickled \/ AtFront(t, n, a))

-----------------------------------------------------------------------------
(* Operations.  Each leaves now unchanged; the callers own the clock.      *)

\* TimerManager::addTimer(ms, cb, recurring) with new Timer(ms, cb, ...).
NewTimer(t, ms, rec, a) ==
    /\ addr[t] = NoAddr
    /\ a \notin {addr[u] : u \in Timers}
    /\ addr' = [addr EXCEPT ![t] = a]
    /\ period' = [period EXCEPT ![t] = ms]
    /\ hasCb' = [hasCb EXCEPT ![t] = TRUE]
    /\ recurring' = [recurring EXCEPT ![t] = rec]
    /\ next' = [next EXCEPT ![t] = now + ms]
    /\ AddTimerLocked(t, now + ms, a)
    /\ UNCHANGED prevTime

\* Timer::cancel: succeeds iff m_cb is set.
CancelledAlways(t) == TRUE
Cancelled(t) == hasCb[t]
Cancel(t) ==
    /\ addr[t] # NoAddr
    /\ IF Cancelled(t)
         THEN /\ hasCb' = [hasCb EXCEPT ![t] = FALSE]
              /\ tset' = tset \ {t}
         ELSE UNCHANGED <<hasCb, tset>>
    /\ UNCHANGED <<next, period, recurring, addr, tickled, prevTime>>

\* Timer::refresh: re-insert at now + m_ms, with no front check.
Refresh(t) ==
    /\ hasCb[t] /\ t \in tset
    /\ next' = [next EXCEPT ![t] = now + period[t]]
    /\ UNCHANGED <<tset, period, hasCb, recurring, addr, tickled, prevTime>>

\* Timer::reset(ms, from_now): re-insert through addTimer(val, lock).
Resettable(t, ms, fromNow) ==
    /\ ~(ms = period[t] /\ ~fromNow)
    /\ hasCb[t] /\ t \in tset
ResetDeadline(t, ms, fromNow) ==
    (IF fromNow THEN now ELSE next[t] - period[t]) + ms
Reset(t, ms, fromNow) ==
    LET n == ResetDeadline(t, ms, fromNow)
    IN  /\ Resettable(t, ms, fromNow)
        /\ period' = [period EXCEPT ![t] = ms]
        /\ next' = [next EXCEPT ![t] = n]
        /\ AddTimerLocked(t, n, addr[t])
        /\ UNCHANGED <<hasCb, recurring, addr, prevTime>>

\* TimerManager::getNextTimer: the result, ~0ull being NoTimeout.
NextTimeout(NoTimeout) ==
    IF tset = {} THEN NoTimeout
    ELSE LET n == next[FirstTimer(tset)]
         IN  IF now >= n THEN 0 ELSE n - now
GetNextTimerKeepsTickled == UNCHANGED tickled
GetNextTimer == tickled' = FALSE

\* detectClockRollover, before it stores now in m_previousTime.
Rollover == now < prevTime /\ now < prevTime - RolloverMs

\* The timers listExpiredCb takes: all on a rollover, else up to now.
Expired == IF Rollover THEN tset ELSE {t \in tset : next[t] =< now}

\* The write-locked part of listExpiredCb, with the set non-empty or a
\* rollover seen.  The callbacks come out in m_timer order; recurring
\* timers go back in at now + m_ms, the others lose their m_cb.
ExpiredCbs == SetToSortSeq(Expired, Less)
ListExpiredKeepsCb ==
    LET E == Expired
    IN  /\ prevTime' = now
        /\ tset' = (tset \ E) \cup {t \in E : recurring[t]}
        /\ next' = [t \in Timers |->
                      IF t \in E /\ recurring[t] THEN now + period[t] ELSE next[t]]
        /\ UNCHANGED <<hasCb, period, recurring, addr, tickled>>
ListExpiredLocked ==
    LET E == Expired
    IN  /\ prevTime' = now
        /\ tset' = (tset \ E) \cup {t \in E : recurring[t]}
        /\ next' = [t \in Timers |->
                      IF t \in E /\ recurring[t] THEN now + period[t] ELSE next[t]]
        /\ hasCb' = [t \in Timers |-> hasCb[t] /\ (t \notin E \/ recurring[t])]
        /\ UNCHANGED <<period, recurring, addr, tickled>>

\* The write-locked part reads (*m_timer.begin())->m_next: an empty set
\* there, emptied by another thread since the read-locked check, is a
\* dereference of end().
ListReadsEmptyBegin == ~Rollover /\ tset = {}

\* Nothing is due and no rollover: only m_previousTime is stored.
ListNothingDue == ~Rollover /\ tset # {} /\ next[FirstTimer(tset)] > now

=============================================================================
