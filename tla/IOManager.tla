----------------------------- MODULE IOManager -----------------------------
(***************************************************************************)
(* The epoll reactor of src/mumu/.or/iomanager.cc on top of the Scheduler  *)
(* run loop of Scheduler.tla.                                              *)
(*                                                                         *)
(* Per fd the model keeps the FdContext (registered events, and for READ   *)
(* and WRITE the slot with its scheduler pointer, waiting fiber or         *)
(* closure) and what the kernel knows of it: whether the fd is in the      *)
(* epoll set, its interest mask, whether it sits on the ready list, and    *)
(* which conditions (readable, writable, hang-up) hold on the socket.      *)
(* Edge triggering is modelled by the ready list: an fd is put on it when  *)
(* a condition in its mask arises or epoll_ctl ADD/MOD finds one already   *)
(* true, and taken off it when epoll_wait reports it.                      *)
(*                                                                         *)
(* The idle fiber of every worker runs IOManager::idle: check stopping(),  *)
(* epoll_wait, handle the returned events one at a time, swap out.         *)
(* tickle() writes to a pipe whose read end is in the epoll set.  Jobs     *)
(* call addEvent / delEvent / cancelEvent / cancelAll; a job that waits    *)
(* on an fd registers its own fiber and then calls YieldToHold, whose two  *)
(* halves (m_state = HOLD, swapOut) are separate steps.  Timers are left   *)
(* to TimerManager.tla: here getNextTimer() is always ~0ull.               *)
(***************************************************************************)
EXTENDS Scheduler

CONSTANTS
    Fds,        \* socket fds (all below the initial table size of 32)
    TickleFd,   \* m_tickleFds[0], the read end of the tickle pipe
    SharedFds   \* whether a job may register an event on an fd that has one

ASSUME /\ TickleFd \notin Fds
       /\ SharedFds \in BOOLEAN

\* IOManager::Event, and the conditions epoll reports.
Events     == {"READ", "WRITE"}
Conditions == Events \cup {"HUP"}

\* FdContext::EventContext
Slot      == [sched : BOOLEAN, fiber : Fibers \cup {NoFiber}, cb : Jobs \cup {NoJob}]
EmptySlot == [sched |-> FALSE, fiber |-> NoFiber, cb |-> NoJob]

\* One entry of the epoll_event array epoll_wait fills.
Item == [fd : Fds \cup {TickleFd}, evs : SUBSET Conditions]

VARIABLES
    fdEvents,   \* FdContext::events
    slot,       \* FdContext::read / write
    inEpoll,    \* the fd is in the epoll set
    interest,   \* the event mask the fd is registered with
    rdl,        \* the fd is on the epoll ready list
    level,      \* conditions that hold on the socket
    pipeData,   \* unread bytes in the tickle pipe
    pipeRdl,    \* the pipe's read end is on the ready list
    ipc,        \* program point of each worker's idle fiber in idle()
    batch,      \* the events the last epoll_wait returned, not yet handled
    pending,    \* m_pendingEventCount (negative: the size_t wrapped)
    holdPc      \* where a fiber that registered itself is in YieldToHold

ioVars == <<fdEvents, slot, inEpoll, interest, rdl, level, pipeData, pipeRdl,
            ipc, batch, pending, holdPc>>
vars == <<schedVars, ioVars>>

IOInit ==
    /\ Init
    /\ fdEvents = [fd \in Fds |-> {}]
    /\ slot = [fd \in Fds |-> [e \in Events |-> EmptySlot]]
    /\ inEpoll = [fd \in Fds |-> FALSE]
    /\ interest = [fd \in Fds |-> {}]
    /\ rdl = [fd \in Fds |-> FALSE]
    /\ level = [fd \in Fds |-> {}]
    /\ pipeData = FALSE
    /\ pipeRdl = FALSE
    /\ ipc = [w \in Workers |-> "top"]
    /\ batch = [w \in Workers |-> {}]
    /\ pending = 0
    /\ holdPc = [f \in Fibers |-> "none"]

-----------------------------------------------------------------------------
(* Helpers                                                                 *)

\* IOManager::tickle: a byte into the pipe if some thread is idle.
Tickle(need) ==
    IF need /\ idleCount > 0
    THEN pipeData' = TRUE /\ pipeRdl' = TRUE
    ELSE UNCHANGED <<pipeData, pipeRdl>>

\* Mutant: stopping() not overridden, pending events not waited for.
IOStoppingIgnoresPending == SchedStopping

\* IOManager::stopping(timeout) with no timers.
IOStopping == SchedStopping /\ pending = 0

\* epoll_ctl fails with EEXIST / ENOENT when the fd is, or is not, in the set.
CtlOk(fd, op) == IF op = "ADD" THEN ~inEpoll[fd] ELSE inEpoll[fd]

\* A successful epoll_ctl(op, fd, mask | EPOLLET); HUP is always reported.
Ctl(fd, op, mask) ==
    /\ inEpoll' = [inEpoll EXCEPT ![fd] = op # "DEL"]
    /\ interest' = [interest EXCEPT ![fd] = IF op = "DEL" THEN {} ELSE mask]
    /\ rdl' = [rdl EXCEPT ![fd] = IF op = "DEL" THEN FALSE
                                  ELSE @ \/ level[fd] \cap (mask \cup {"HUP"}) # {}]

\* The queue entry schedule(&ctx.cb) or schedule(&ctx.fiber) builds.
Fire(fd, e) ==
    IF slot[fd][e].cb # NoJob
    THEN [fiber |-> NoFiber, cb |-> slot[fd][e].cb, thread |-> AnyThread]
    ELSE [fiber |-> slot[fd][e].fiber, cb |-> NoJob, thread |-> AnyThread]

\* FdContext::triggerEvent for READ then WRITE as far as they are in E, each
\* followed by --m_pendingEventCount.  The swap empties the fiber or closure
\* of the slot; the scheduler pointer is left as it was.  A null scheduler
\* pointer is dereferenced: recorded, and the entry pushed as if it were not.
Trigger(fd, E) ==
    LET q1 == IF "READ" \in E THEN Push(queue, Fire(fd, "READ")) ELSE queue
        q2 == IF "WRITE" \in E THEN Push(q1, Fire(fd, "WRITE")) ELSE q1
    IN  /\ queue' = q2
        /\ fdEvents' = [fdEvents EXCEPT ![fd] = @ \ E]
        /\ slot' = [slot EXCEPT ![fd] =
                      [e \in Events |-> IF e \in E
                                        THEN [slot[fd][e] EXCEPT !.fiber = NoFiber, !.cb = NoJob]
                                        ELSE slot[fd][e]]]
        /\ pending' = pending - Cardinality(E)
        /\ failed' = failed
                     \cup (IF E \subseteq fdEvents[fd] THEN {} ELSE {"triggerEvent"})
                     \cup (IF \E e \in E : ~slot[fd][e].sched THEN {"nullScheduler"} ELSE {})
        /\ Tickle(queue = <<>> /\ E # {})

\* The fds a job may register e on.
Registrable(fd, e) == e \notin fdEvents[fd] /\ (SharedFds \/ fdEvents[fd] = {})

\* Event masks as the sets of their bit positions, so that & is \cap:
\* IOManager::READ is 0x1, WRITE 0x4, EPOLLET is 1u << 31.
EventBit == [e \in Events |-> IF e = "READ" THEN 0 ELSE 2]
EPOLLET  == {31}
MaskOf(E)   == {EventBit[e] : e \in E}
EventsIn(m) == {e \in Events : EventBit[e] \in m}

\* The mask idle() hands to epoll_ctl for the events left on the fd:
\* left_event & EPOLLET.
LeftMask(lft) == EventsIn(MaskOf(lft) \cap EPOLLET)

-----------------------------------------------------------------------------
(* addEvent, delEvent, cancelEvent, cancelAll, called by the job running    *)
(* on worker w; each costs the job one of its MaxSteps steps.               *)

\* IOManager::addEvent(fd, e, cb) once epoll_ctl succeeded: ++pending, the
\* event bit, and the slot filled with this scheduler and cb or, without
\* one, the calling fiber.  Both MUHUI_ASSERTs are recorded when they fail.
Registered(w, fd, e, cb) ==
    /\ pending' = pending + 1
    /\ fdEvents' = [fdEvents EXCEPT ![fd] = @ \cup {e}]
    /\ slot' = [slot EXCEPT ![fd][e] =
                  IF cb # NoJob THEN [@ EXCEPT !.sched = TRUE, !.cb = cb]
                  ELSE [@ EXCEPT !.sched = TRUE, !.fiber = running[w]]]
    /\ failed' = failed
                 \cup (IF e \in fdEvents[fd] THEN {"addEvent"} ELSE {})
                 \cup (IF slot[fd][e] # EmptySlot THEN {"addEventSlot"} ELSE {})

\* The epoll_ctl op addEvent uses.
AddOp(fd) == IF fdEvents[fd] # {} THEN "MOD" ELSE "ADD"

JobCall(w) ==
    /\ wpc[w] = "run"
    /\ holdPc[running[w]] = "none"
    /\ left[body[running[w]]] > 0
    /\ left' = [left EXCEPT ![body[running[w]]] = @ - 1]

\* The hooked blocking call of a fiber (spec 4.4, "Blocking primitives"):
\* addEvent(fd, e) with the current fiber and, when it returned 0,
\* YieldToHold.  A failed epoll_ctl returns -1 to the job.
WaitEvent(w, fd, e) ==
    /\ JobCall(w)
    /\ Registrable(fd, e)
    /\ IF CtlOk(fd, AddOp(fd))
       THEN /\ Ctl(fd, AddOp(fd), fdEvents[fd] \cup {e})
            /\ Registered(w, fd, e, NoJob)
            /\ holdPc' = [holdPc EXCEPT ![running[w]] = "registered"]
       ELSE UNCHANGED <<fdEvents, slot, inEpoll, interest, rdl, pending,
                        holdPc, failed>>
    /\ UNCHANGED <<queue, wpc, ft, isActive, cbFiber, running, idleState,
                   fstate, body, active, idleCount, autoStop, stopping, mainPc,
                   submitted, done, hint, level, pipeData, pipeRdl, ipc, batch>>

\* addEvent(fd, e, cb) with closure c (test_iomanager.cc).
AddCallback(w, fd, e, c) ==
    /\ JobCall(w)
    /\ Registrable(fd, e)
    /\ c \in CbJobs \ submitted
    /\ IF CtlOk(fd, AddOp(fd))
       THEN /\ Ctl(fd, AddOp(fd), fdEvents[fd] \cup {e})
            /\ Registered(w, fd, e, c)
            /\ submitted' = submitted \cup {c}
       ELSE UNCHANGED <<fdEvents, slot, inEpoll, interest, rdl, pending,
                        failed, submitted>>
    /\ UNCHANGED <<queue, wpc, ft, isActive, cbFiber, running, idleState,
                   fstate, body, active, idleCount, autoStop, stopping, mainPc,
                   done, hint, level, pipeData, pipeRdl, ipc, batch, holdPc>>

\* The op and mask delEvent and cancelEvent hand to epoll_ctl.
RemoveOp(fd, e) == IF fdEvents[fd] \ {e} # {} THEN "MOD" ELSE "DEL"

\* Mutant: delEvent without --m_pendingEventCount.
DelEventKeepsCount(w, fd, e) ==
    /\ JobCall(w)
    /\ IF e \in fdEvents[fd] /\ CtlOk(fd, RemoveOp(fd, e))
       THEN /\ Ctl(fd, RemoveOp(fd, e), fdEvents[fd] \ {e})
            /\ fdEvents' = [fdEvents EXCEPT ![fd] = @ \ {e}]
            /\ slot' = [slot EXCEPT ![fd][e] = EmptySlot]
            /\ submitted' = submitted \ {slot[fd][e].cb}
       ELSE UNCHANGED <<fdEvents, slot, inEpoll, interest, rdl, submitted>>
    /\ UNCHANGED <<queue, wpc, ft, isActive, cbFiber, running, idleState,
                   fstate, body, active, idleCount, autoStop, stopping, mainPc,
                   done, hint, failed, level, pipeData, pipeRdl, ipc, batch,
                   holdPc, pending>>

\* IOManager::delEvent: unregister e without firing it and reset its slot;
\* a closure withdrawn this way is no longer handed to the scheduler.
DelEvent(w, fd, e) ==
    /\ JobCall(w)
    /\ IF e \in fdEvents[fd] /\ CtlOk(fd, RemoveOp(fd, e))
       THEN /\ Ctl(fd, RemoveOp(fd, e), fdEvents[fd] \ {e})
            /\ pending' = pending - 1
            /\ fdEvents' = [fdEvents EXCEPT ![fd] = @ \ {e}]
            /\ slot' = [slot EXCEPT ![fd][e] = EmptySlot]
            /\ submitted' = submitted \ {slot[fd][e].cb}
       ELSE UNCHANGED <<fdEvents, slot, inEpoll, interest, rdl, pending,
                        submitted>>
    /\ UNCHANGED <<queue, wpc, ft, isActive, cbFiber, running, idleState,
                   fstate, body, active, idleCount, autoStop, stopping, mainPc,
                   done, hint, failed, level, pipeData, pipeRdl, ipc, batch,
                   holdPc>>

\* IOManager::cancelEvent: unregister e and fire its handler.
CancelEvent(w, fd, e) ==
    /\ JobCall(w)
    /\ IF e \in fdEvents[fd] /\ CtlOk(fd, RemoveOp(fd, e))
       THEN /\ Ctl(fd, RemoveOp(fd, e), fdEvents[fd] \ {e})
            /\ Trigger(fd, {e})
       ELSE UNCHANGED <<fdEvents, slot, inEpoll, interest, rdl, pending, queue,
                        failed, pipeData, pipeRdl>>
    /\ UNCHANGED <<wpc, ft, isActive, cbFiber, running, idleState, fstate,
                   body, active, idleCount, autoStop, stopping, mainPc,
                   submitted, done, hint, level, ipc, batch, holdPc>>

\* IOManager::cancelAll: remove the fd from epoll and fire every handler.
CancelAll(w, fd) ==
    /\ JobCall(w)
    /\ IF fdEvents[fd] # {} /\ CtlOk(fd, "DEL")
       THEN /\ Ctl(fd, "DEL", {})
            /\ Trigger(fd, fdEvents[fd])
       ELSE UNCHANGED <<fdEvents, slot, inEpoll, interest, rdl, pending, queue,
                        failed, pipeData, pipeRdl>>
    /\ UNCHANGED <<wpc, ft, isActive, cbFiber, running, idleState, fstate,
                   body, active, idleCount, autoStop, stopping, mainPc,
                   submitted, done, hint, level, ipc, batch, holdPc>>

\* Fiber::YieldToHold, first half: m_state = HOLD.
SetHold(w) ==
    LET f == running[w] IN
    /\ wpc[w] = "run"
    /\ holdPc[f] = "registered"
    /\ MuhuiAssert(fstate[f] = "EXEC", "YieldToHold")
    /\ fstate' = [fstate EXCEPT ![f] = "HOLD"]
    /\ holdPc' = [holdPc EXCEPT ![f] = "yielding"]
    /\ UNCHANGED <<queue, wpc, ft, isActive, cbFiber, running, idleState, body,
                   left, active, idleCount, autoStop, stopping, mainPc,
                   submitted, done, hint, fdEvents, slot, inEpoll, interest,
                   rdl, level, pipeData, pipeRdl, ipc, batch, pending>>

\* Fiber::YieldToHold, second half: swapOut saves the fiber's context and
\* returns to run().
SwapOutHold(w) ==
    LET f == running[w] IN
    /\ wpc[w] = "run"
    /\ holdPc[f] = "yielding"
    /\ holdPc' = [holdPc EXCEPT ![f] = "none"]
    /\ wpc' = [wpc EXCEPT ![w] = "post"]
    /\ UNCHANGED <<queue, ft, isActive, cbFiber, running, idleState, fstate,
                   body, left, active, idleCount, autoStop, stopping, mainPc,
                   submitted, done, hint, failed, fdEvents, slot, inEpoll,
                   interest, rdl, level, pipeData, pipeRdl, ipc, batch, pending>>

-----------------------------------------------------------------------------
(* IOManager::idle, the idle fiber of worker w                              *)

\* Mutant: an idle() loop without the stopping() break.
ReactorCheckIgnoresStop(w) ==
    /\ wpc[w] = "idle"
    /\ ipc[w] = "top"
    /\ ipc' = [ipc EXCEPT ![w] = "wait"]
    /\ UNCHANGED <<idleState, wpc, queue, ft, isActive, cbFiber, running,
                   fstate, body, left, active, idleCount, autoStop, stopping,
                   mainPc, submitted, done, hint, failed, fdEvents, slot,
                   inEpoll, interest, rdl, level, pipeData, pipeRdl, batch,
                   pending, holdPc>>

\* Top of the while loop: leave idle() when stopping(), so that MainFunc
\* marks the idle fiber TERM and swaps out; otherwise go to epoll_wait.
ReactorCheck(w) ==
    /\ wpc[w] = "idle"
    /\ ipc[w] = "top"
    /\ IF IOStopping
       THEN /\ idleState' = [idleState EXCEPT ![w] = "TERM"]
            /\ wpc' = [wpc EXCEPT ![w] = "postIdle"]
            /\ UNCHANGED ipc
       ELSE /\ ipc' = [ipc EXCEPT ![w] = "wait"]
            /\ UNCHANGED <<idleState, wpc>>
    /\ UNCHANGED <<queue, ft, isActive, cbFiber, running, fstate, body, left,
                   active, idleCount, autoStop, stopping, mainPc, submitted,
                   done, hint, failed, fdEvents, slot, inEpoll, interest, rdl,
                   level, pipeData, pipeRdl, batch, pending, holdPc>>

\* What epoll_wait reports for an fd on the ready list.
Reported(fd) == level[fd] \cap (interest[fd] \cup {"HUP"})

\* epoll_wait(m_epfd, events, 256, 3000): every fd on the ready list with
\* something to report, and the pipe; an empty array after the timeout.
\* The edge-triggered entries leave the ready list.  listExpiredCb finds
\* no timer.
EpollWait(w) ==
    /\ wpc[w] = "idle"
    /\ ipc[w] = "wait"
    /\ batch' = [batch EXCEPT ![w] =
                   {[fd |-> fd, evs |-> Reported(fd)] :
                        fd \in {x \in Fds : rdl[x] /\ Reported(x) # {}}}
                   \cup (IF pipeRdl THEN {[fd |-> TickleFd, evs |-> {"READ"}]}
                         ELSE {})]
    /\ rdl' = [fd \in Fds |-> FALSE]
    /\ pipeRdl' = FALSE
    /\ ipc' = [ipc EXCEPT ![w] = "batch"]
    /\ UNCHANGED <<schedVars, fdEvents, slot, inEpoll, interest, level,
                   pipeData, pending, holdPc>>

\* The tickle pipe's entry: read until the pipe is empty.
DrainPipe(w) ==
    /\ wpc[w] = "idle"
    /\ ipc[w] = "batch"
    /\ \E it \in batch[w] :
          /\ it.fd = TickleFd
          /\ batch' = [batch EXCEPT ![w] = @ \ {it}]
    /\ pipeData' = FALSE
    /\ UNCHANGED <<schedVars, fdEvents, slot, inEpoll, interest, rdl, level,
                   pipeRdl, ipc, pending, holdPc>>

\* A socket's entry, under the FdContext mutex: ERR/HUP adds EPOLLIN,
\* EPOLLOUT and the registered events; skip it when none of the reported
\* events is registered; re-arm epoll with the events left; then fire every
\* reported event.
HandleFd(w) ==
    /\ wpc[w] = "idle"
    /\ ipc[w] = "batch"
    /\ \E it \in batch[w] :
        LET fd   == it.fd
            evs  == IF "HUP" \in it.evs THEN it.evs \cup Events \cup fdEvents[fd]
                    ELSE it.evs
            real == evs \cap Events
            lft  == fdEvents[fd] \ real
            op   == IF lft # {} THEN "MOD" ELSE "DEL"
        IN  /\ fd \in Fds
            /\ batch' = [batch EXCEPT ![w] = @ \ {it}]
            /\ IF fdEvents[fd] \cap real # {} /\ CtlOk(fd, op)
               THEN /\ Ctl(fd, op, LeftMask(lft))
                    /\ Trigger(fd, real)
               ELSE UNCHANGED <<fdEvents, slot, inEpoll, interest, rdl, queue,
                                pending, failed, pipeData, pipeRdl>>
    /\ UNCHANGED <<wpc, ft, isActive, cbFiber, running, idleState, fstate,
                   body, left, active, idleCount, autoStop, stopping, mainPc,
                   submitted, done, hint, level, ipc, holdPc>>

\* All entries handled: swapOut back to run() (the idle fiber stays EXEC
\* until run() marks it HOLD).
ReactorYield(w) ==
    /\ wpc[w] = "idle"
    /\ ipc[w] = "batch"
    /\ batch[w] = {}
    /\ ipc' = [ipc EXCEPT ![w] = "top"]
    /\ wpc' = [wpc EXCEPT ![w] = "postIdle"]
    /\ UNCHANGED <<queue, ft, isActive, cbFiber, running, idleState, fstate,
                   body, left, active, idleCount, autoStop, stopping, mainPc,
                   submitted, done, hint, failed, fdEvents, slot, inEpoll,
                   interest, rdl, level, pipeData, pipeRdl, batch, pending,
                   holdPc>>

-----------------------------------------------------------------------------
(* The peers of the sockets                                                 *)

\* The socket becomes readable or writable; the kernel queues the fd if
\* the event is in its mask.
Ready(fd, e) ==
    /\ e \notin level[fd]
    /\ level' = [level EXCEPT ![fd] = @ \cup {e}]
    /\ rdl' = [rdl EXCEPT ![fd] = @ \/ (inEpoll[fd] /\ e \in interest[fd])]
    /\ UNCHANGED <<schedVars, fdEvents, slot, inEpoll, interest, pipeData,
                   pipeRdl, ipc, batch, pending, holdPc>>

\* The peer hangs up or the socket errs: reported whatever the mask.
Hangup(fd) ==
    /\ "HUP" \notin level[fd]
    /\ level' = [level EXCEPT ![fd] = @ \cup {"HUP"}]
    /\ rdl' = [rdl EXCEPT ![fd] = @ \/ inEpoll[fd]]
    /\ UNCHANGED <<schedVars, fdEvents, slot, inEpoll, interest, pipeData,
                   pipeRdl, ipc, batch, pending, holdPc>>

-----------------------------------------------------------------------------
(* The Scheduler run loop with IOManager::tickle                            *)

\* IOManager's constructor: epoll set, tickle pipe, contextResize(32),
\* then Scheduler::start.
IOStart == Start /\ UNCHANGED ioVars

\* schedule(cb) by the owner: tickle() when m_fibers was empty.
IOSubmit(j) ==
    /\ Submit(j, AnyThread)
    /\ Tickle(queue = <<>>)
    /\ UNCHANGED <<fdEvents, slot, inEpoll, interest, rdl, level, ipc, batch,
                   pending, holdPc>>

\* ~IOManager calls stop(): one tickle() per thread.
IOStopCall ==
    /\ StopCall
    /\ Tickle(TRUE)
    /\ UNCHANGED <<fdEvents, slot, inEpoll, interest, rdl, level, ipc, batch,
                   pending, holdPc>>

IOStopJoin == StopJoin /\ UNCHANGED ioVars

\* The locked scan, then tickle() if it passed work pinned elsewhere.
IOScan(w) ==
    /\ Scan(w)
    /\ Tickle(TickleMe(w))
    /\ UNCHANGED <<fdEvents, slot, inEpoll, interest, rdl, level, ipc, batch,
                   pending, holdPc>>

\* The re-queue of a READY fiber is schedule(ft.fiber): tickle() when
\* m_fibers was empty.
IORequeue(w) ==
    /\ Requeue(w)
    /\ Tickle(queue = <<>> /\ queue' # queue)
    /\ UNCHANGED <<fdEvents, slot, inEpoll, interest, rdl, level, ipc, batch,
                   pending, holdPc>>

IOWorkerStep(w) ==
    \/ IOScan(w)
    \/ Dispatch(w) /\ UNCHANGED ioVars
    \/ PostRun(w) /\ UNCHANGED ioVars
    \/ IORequeue(w)
    \/ PostIdle(w) /\ UNCHANGED ioVars
    \/ ReactorCheck(w) \/ EpollWait(w) \/ DrainPipe(w) \/ HandleFd(w)
    \/ ReactorYield(w)

\* delEvent does not fire the handler: a job only uses it to withdraw a
\* closure, since a fiber removed that way would never be resumed.
IOJobStep(w) ==
    \/ /\ wpc[w] = "run" /\ holdPc[running[w]] = "none"
       /\ YieldToReady(w) /\ UNCHANGED ioVars
    \/ /\ wpc[w] = "run" /\ holdPc[running[w]] = "none"
       /\ Finish(w) /\ UNCHANGED ioVars
    \/ SetHold(w)
    \/ SwapOutHold(w)
    \/ \E fd \in Fds, e \in Events :
          \/ WaitEvent(w, fd, e)
          \/ \E c \in CbJobs : AddCallback(w, fd, e, c)
          \/ slot[fd][e].cb # NoJob /\ DelEvent(w, fd, e)
          \/ CancelEvent(w, fd, e)
    \/ \E fd \in Fds : CancelAll(w, fd)

\* The owner has returned from stop() and destroyed the IOManager.
IOTerminated == mainPc = "returned" /\ UNCHANGED vars

IONext ==
    \/ IOStart
    \/ \E j \in Jobs : IOSubmit(j)
    \/ IOStopCall
    \/ IOStopJoin
    \/ \E w \in Workers : IOWorkerStep(w) \/ IOJobStep(w)
    \/ \E fd \in Fds, e \in Events : Ready(fd, e)
    \/ IOTerminated

\* Workers and running jobs keep running (as in Scheduler.tla); epoll_wait
\* returns within its 3000 ms timeout; and every socket eventually becomes
\* readable and writable, which is what the peer of a waiting job promises.
IOFairness ==
    /\ \A w \in Workers : WF_vars(IOWorkerStep(w)) /\ WF_vars(IOJobStep(w))
    /\ WF_vars(IOStart) /\ WF_vars(IOStopCall) /\ WF_vars(IOStopJoin)
    /\ \A fd \in Fds, e \in Events : WF_vars(Ready(fd, e))

IOSpec == IOInit /\ [][IONext]_vars /\ IOFairness

\* The same system with peers that may also hang up.
IONextHangup == IONext \/ \E fd \in Fds : Hangup(fd)

IOSpecHangup == IOInit /\ [][IONextHangup]_vars /\ IOFairness

-----------------------------------------------------------------------------
(* Properties                                                              *)

IOTypeOK ==
    /\ SchedTypeOK
    /\ failed \subseteq {"swapIn", "reset", "YieldToReady", "YieldToHold",
                         "addEvent", "addEventSlot", "triggerEvent",
                         "nullScheduler"}
    /\ fdEvents \in [Fds -> SUBSET Events]
    /\ slot \in [Fds -> [Events -> Slot]]
    /\ inEpoll \in [Fds -> BOOLEAN] /\ interest \in [Fds -> SUBSET Events]
    /\ rdl \in [Fds -> BOOLEAN] /\ level \in [Fds -> SUBSET Conditions]
    /\ pipeData \in BOOLEAN /\ pipeRdl \in BOOLEAN
    /\ ipc \in [Workers -> {"top", "wait", "batch"}]
    /\ batch \in [Workers -> SUBSET Item]
    /\ pending \in Int
    /\ holdPc \in [Fibers -> {"none", "registered", "yielding"}]

\* Spec P2: m_pendingEventCount equals the number of (fd, event) pairs
\* registered in the FdContexts, across addEvent, delEvent, cancelEvent,
\* cancelAll and the reactor's dispatch racing with them.
PendingCountMatches ==
    pending = MapThenSumSet(LAMBDA fd : Cardinality(fdEvents[fd]), Fds)


\* The assertion of addEvent (iomanager.cc): the slot of an event being
\* registered holds no scheduler, fiber or closure.  Firing a handler
\* resets the slot (spec 4.4), so waiting on the same fd and event again
\* must not trip it.
AddEventSlotEmpty == "addEventSlot" \notin failed

\* Spec 4.4: after firing some events of an fd the reactor re-arms epoll
\* with the events left, so a registered event whose socket is ready is
\* eventually fired (or cancelled) and leaves FdContext::events.
ReadyEventFires ==
    \A fd \in Fds, e \in Events :
        (e \in fdEvents[fd] /\ e \in level[fd]) ~> (e \notin fdEvents[fd])

=============================================================================
