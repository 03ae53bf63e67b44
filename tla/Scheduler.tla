----------------------------- MODULE Scheduler -----------------------------
(***************************************************************************)
(* The M:N coroutine scheduler of src/mumu/.or/scheduler.cc together with  *)
(* the fiber state machine of src/mumu/.or/fiber.cc.                       *)
(*                                                                         *)
(* A fixed set of worker threads each run Scheduler::run: under m_mutex    *)
(* they scan the FIFO m_fibers for the first entry they may take (thread   *)
(* hint and "not EXEC" checks), then outside the lock swap the entry's     *)
(* fiber in, or bind a closure to the worker's reusable cb_fiber, or run   *)
(* the worker's idle fiber when nothing is runnable.  After the fiber      *)
(* swaps out, the worker re-queues it if it yielded READY and parks it as  *)
(* HOLD otherwise.  The main thread submits work, starts the pool and      *)
(* calls stop(), which joins every worker.                                 *)
(*                                                                         *)
(* Work items: FiberJobs are prepared fibers (schedule(Fiber::ptr)),       *)
(* CbJobs are closures (schedule(std::function)).  A closure runs on a     *)
(* fiber taken from CbFibers, the ids of the fibers run() allocates with   *)
(* new Fiber(ft.cb).  A job's body is abstracted to its scheduling         *)
(* behaviour: each time it runs it yields READY (at most MaxSteps steps    *)
(* in all), schedules another job, or returns / throws.                    *)
(*                                                                         *)
(* This module is the base Scheduler: tickle() only logs and idle() spins  *)
(* with YieldToReady until stopping().  IOManager.tla reuses the run-loop  *)
(* actions with the reactor's idle() and tickle().                        *)
(***************************************************************************)
EXTENDS Naturals, Sequences, FiniteSets, SequencesExt

CONSTANTS
    Workers,     \* thread ids of the pool's worker threads
    FiberJobs,   \* prepared fibers handed to schedule()
    CbJobs,      \* closures handed to schedule()
    CbFibers,    \* fiber ids run() may allocate for closures
    MaxSteps,    \* bound on the yields and blocking calls of one job
    AnyThread,   \* the thread hint -1
    NoFiber,     \* a null Fiber::ptr
    NoJob,       \* a null std::function
    PinElsewhere \* whether a running job may pin new work to another thread

ASSUME /\ Workers # {}
       /\ FiberJobs \cap CbFibers = {}
       /\ MaxSteps \in Nat
       /\ AnyThread \notin Workers
       /\ PinElsewhere \in BOOLEAN

Jobs   == FiberJobs \cup CbJobs
Fibers == FiberJobs \cup CbFibers

\* Fiber::State
FiberStates == {"INIT", "HOLD", "EXEC", "TERM", "READY", "EXCEPT"}
Finished    == {"TERM", "EXCEPT"}

\* FiberAndThread: a fiber or a closure, and the thread hint.
Entry      == [fiber : Fibers \cup {NoFiber}, cb : Jobs \cup {NoJob},
               thread : Workers \cup {AnyThread}]
NoEntry    == [fiber |-> NoFiber, cb |-> NoJob, thread |-> AnyThread]
EntryOf(j, t) ==
    IF j \in FiberJobs THEN [fiber |-> j, cb |-> NoJob, thread |-> t]
                       ELSE [fiber |-> NoFiber, cb |-> j, thread |-> t]

\* Program points of a worker thread in Scheduler::run.
WorkerPcs == {"new", "scan", "dispatch", "run", "post", "requeue", "idle", "postIdle",
              "done"}

VARIABLES
    queue,      \* m_fibers
    wpc,        \* program point of each worker in run()
    ft,         \* the worker's local FiberAndThread ft
    isActive,   \* the worker's local is_active
    cbFiber,    \* the worker's local cb_fiber
    running,    \* the task fiber the worker last swapped in
    idleState,  \* m_state of the worker's idle_fiber
    fstate,     \* m_state of every task fiber
    body,       \* m_cb of every task fiber: the job it runs
    left,       \* YieldToReady calls a job may still make
    active,     \* m_activeThreadCount
    idleCount,  \* m_idleThreadcount
    autoStop,   \* m_autoStop
    stopping,   \* m_stopping
    mainPc,     \* program point of the thread that owns the Scheduler
    submitted,  \* jobs handed to schedule() so far
    done,       \* jobs whose body returned or threw
    hint,       \* thread hint a job was first submitted with
    failed      \* MUHUI_ASSERTs that have failed

schedVars == <<queue, wpc, ft, isActive, cbFiber, running, idleState,
               fstate, body, left, active, idleCount, autoStop, stopping,
               mainPc, submitted, done, hint, failed>>

Init ==
    /\ queue = <<>>
    /\ wpc = [w \in Workers |-> "new"]
    /\ ft = [w \in Workers |-> NoEntry]
    /\ isActive = [w \in Workers |-> FALSE]
    /\ cbFiber = [w \in Workers |-> NoFiber]
    /\ running = [w \in Workers |-> NoFiber]
    /\ idleState = [w \in Workers |-> "INIT"]
    /\ fstate = [f \in Fibers |-> "INIT"]
    /\ body = [f \in Fibers |-> IF f \in FiberJobs THEN f ELSE NoJob]
    /\ left = [j \in Jobs |-> MaxSteps]
    /\ active = 0
    /\ idleCount = 0
    /\ autoStop = FALSE
    /\ stopping = TRUE
    /\ mainPc = "pre"
    /\ submitted = {}
    /\ done = {}
    /\ hint = [j \in Jobs |-> AnyThread]
    /\ failed = {}

-----------------------------------------------------------------------------
(* Helpers                                                                 *)

\* scheduleNoLock: an entry with neither fiber nor closure is dropped.
Push(q, e) == IF e.fiber # NoFiber \/ e.cb # NoJob THEN Append(q, e) ELSE q

\* MUHUI_ASSERT(cond): a failed assertion is recorded; a debug build
\* aborts there, an NDEBUG build carries on as the model does.
MuhuiAssert(cond, label) == failed' = IF cond THEN failed ELSE failed \cup {label}

\* The entry test of the locked scan in run(): the hint must be -1 or this
\* thread, and a fiber that is EXEC is skipped.
Eligible(w, e) ==
    /\ e.thread \in {AnyThread, w}
    /\ ~(e.fiber # NoFiber /\ fstate[e.fiber] = "EXEC")

\* tickle_me: the scan passed an entry pinned to another thread.
TickleMe(w) ==
    LET i == SelectInSeq(queue, LAMBDA e : Eligible(w, e))
        n == IF i = 0 THEN Len(queue) ELSE i - 1
    IN  \E k \in 1..n : queue[k].thread \notin {AnyThread, w}

\* A cb fiber no longer referenced by a worker, the queue or a running
\* worker has been destroyed; new Fiber(ft.cb) may take its id.
FreeCbFiber(f) ==
    /\ f \in CbFibers
    /\ \A w \in Workers : cbFiber[w] # f /\ running[w] # f /\ ft[w].fiber # f
    /\ \A k \in 1..Len(queue) : queue[k].fiber # f
    /\ \/ fstate[f] = "INIT" /\ body[f] = NoJob
       \/ fstate[f] \in Finished

\* Thread hints a job running on w passes to schedule(): test_scheduler.cc
\* pins to its own thread (GetThreadId()); other code may pin anywhere.
SpawnHints(w) == IF PinElsewhere THEN Workers \cup {AnyThread} ELSE {w, AnyThread}

\* Scheduler::stopping
SchedStopping == autoStop /\ stopping /\ active = 0 /\ queue = <<>>

-----------------------------------------------------------------------------
(* The thread that owns the Scheduler                                      *)

\* Scheduler::start: clears m_stopping and creates the worker threads, each
\* entering run() (which creates its idle fiber).
Start ==
    /\ mainPc = "pre"
    /\ mainPc' = "started"
    /\ stopping' = FALSE
    /\ wpc' = [w \in Workers |-> "scan"]
    /\ UNCHANGED <<queue, ft, isActive, cbFiber, running, idleState, fstate,
                   body, left, active, idleCount, autoStop, submitted, done,
                   hint, failed>>

\* A job the owner may hand to schedule(): a new one, or a prepared fiber
\* again (the same Fiber::ptr), once no entry of it is queued.
Submittable(j) ==
    \/ j \notin submitted
    \/ j \in FiberJobs /\ \A k \in 1..Len(queue) : queue[k].fiber # j

\* Scheduler::schedule(fc, thread) called by the owner before stop().
Submit(j, t) ==
    /\ mainPc \in {"pre", "started"}
    /\ Submittable(j)
    /\ queue' = Push(queue, EntryOf(j, t))
    /\ submitted' = submitted \cup {j}
    /\ hint' = [hint EXCEPT ![j] = t]
    /\ UNCHANGED <<wpc, ft, isActive, cbFiber, running, idleState, fstate,
                   body, left, active, idleCount, autoStop, stopping, mainPc,
                   done, failed>>

\* Mutant: stop() that sets m_autoStop but never m_stopping.
StopCallKeepsRunning ==
    /\ mainPc = "started"
    /\ autoStop' = TRUE
    /\ mainPc' = "joining"
    /\ UNCHANGED <<queue, wpc, ft, isActive, cbFiber, running, idleState,
                   fstate, body, left, active, idleCount, stopping, submitted,
                   done, hint, failed>>

\* Scheduler::stop with use_caller = false: m_autoStop, m_stopping, one
\* tickle per thread (a log line in the base class), then join.
StopCall ==
    /\ mainPc = "started"
    /\ autoStop' = TRUE
    /\ stopping' = TRUE
    /\ mainPc' = "joining"
    /\ UNCHANGED <<queue, wpc, ft, isActive, cbFiber, running, idleState,
                   fstate, body, left, active, idleCount, submitted, done,
                   hint, failed>>

\* The join loop at the end of stop(): returns once every thread left run().
StopJoin ==
    /\ mainPc = "joining"
    /\ \A w \in Workers : wpc[w] = "done"
    /\ mainPc' = "returned"
    /\ UNCHANGED <<queue, wpc, ft, isActive, cbFiber, running, idleState,
                   fstate, body, left, active, idleCount, autoStop, stopping,
                   submitted, done, hint, failed>>

-----------------------------------------------------------------------------
(* Scheduler::run, one worker thread                                       *)

\* The locked scan of m_fibers: take the first eligible entry, count the
\* thread active.  (tickle() after the scan only logs in the base class.)
Scan(w) ==
    /\ wpc[w] = "scan"
    /\ LET i == SelectInSeq(queue, LAMBDA e : Eligible(w, e)) IN
       IF i > 0
       THEN /\ ft' = [ft EXCEPT ![w] = queue[i]]
            /\ queue' = RemoveAt(queue, i)
            /\ active' = active + 1
            /\ isActive' = [isActive EXCEPT ![w] = TRUE]
       ELSE /\ ft' = [ft EXCEPT ![w] = NoEntry]
            /\ isActive' = [isActive EXCEPT ![w] = FALSE]
            /\ UNCHANGED <<queue, active>>
    /\ wpc' = [wpc EXCEPT ![w] = "dispatch"]
    /\ UNCHANGED <<cbFiber, running, idleState, fstate, body, left, idleCount,
                   autoStop, stopping, mainPc, submitted, done, hint, failed>>

\* Fiber::swapIn of a fiber entry that is not TERM or EXCEPT.
ResumeFiber(w) ==
    LET f == ft[w].fiber IN
    /\ f # NoFiber
    /\ fstate[f] \notin Finished
    /\ MuhuiAssert(fstate[f] # "EXEC", "swapIn")
    /\ fstate' = [fstate EXCEPT ![f] = "EXEC"]
    /\ running' = [running EXCEPT ![w] = f]
    /\ wpc' = [wpc EXCEPT ![w] = "run"]
    /\ UNCHANGED <<queue, ft, isActive, cbFiber, idleState, body, left, active,
                   idleCount, autoStop, stopping, mainPc, submitted, done,
                   hint>>

\* A closure entry: cb_fiber->reset(ft.cb) or cb_fiber.reset(new Fiber(ft.cb)),
\* ft.reset(), then cb_fiber->swapIn().
ResumeCallback(w) ==
    /\ ~(ft[w].fiber # NoFiber /\ fstate[ft[w].fiber] \notin Finished)
    /\ ft[w].cb # NoJob
    /\ \E cf \in IF cbFiber[w] # NoFiber THEN {cbFiber[w]}
                 ELSE {f \in CbFibers : FreeCbFiber(f)} :
          /\ MuhuiAssert(fstate[cf] \in {"INIT", "TERM", "EXCEPT"}, "reset")
          /\ cbFiber' = [cbFiber EXCEPT ![w] = cf]
          /\ body' = [body EXCEPT ![cf] = ft[w].cb]
          /\ fstate' = [fstate EXCEPT ![cf] = "EXEC"]
          /\ running' = [running EXCEPT ![w] = cf]
    /\ ft' = [ft EXCEPT ![w] = NoEntry]
    /\ wpc' = [wpc EXCEPT ![w] = "run"]
    /\ UNCHANGED <<queue, isActive, idleState, left, active, idleCount,
                   autoStop, stopping, mainPc, submitted, done, hint>>

\* Nothing runnable: undo the count of a finished fiber entry, leave run()
\* once the idle fiber has terminated, or swap the idle fiber in.
NoWork(w) ==
    /\ ~(ft[w].fiber # NoFiber /\ fstate[ft[w].fiber] \notin Finished)
    /\ ft[w].cb = NoJob
    /\ \/ /\ isActive[w]
          /\ active' = active - 1
          /\ wpc' = [wpc EXCEPT ![w] = "scan"]
          /\ UNCHANGED <<idleCount, idleState, failed>>
       \/ /\ ~isActive[w]
          /\ idleState[w] = "TERM"
          /\ wpc' = [wpc EXCEPT ![w] = "done"]
          /\ UNCHANGED <<active, idleCount, idleState, failed>>
       \/ /\ ~isActive[w]
          /\ idleState[w] # "TERM"
          /\ idleCount' = idleCount + 1
          /\ MuhuiAssert(idleState[w] # "EXEC", "swapIn")
          /\ idleState' = [idleState EXCEPT ![w] = "EXEC"]
          /\ wpc' = [wpc EXCEPT ![w] = "idle"]
          /\ UNCHANGED active
    /\ UNCHANGED <<queue, ft, isActive, cbFiber, running, fstate, body, left,
                   autoStop, stopping, mainPc, submitted, done, hint>>

Dispatch(w) ==
    /\ wpc[w] = "dispatch"
    /\ \/ ResumeFiber(w)
       \/ ResumeCallback(w)
       \/ NoWork(w)

\* Mutant: a READY fiber entry is not handed back to schedule().
PostFiberDropsReady(w) ==
    LET f == ft[w].fiber IN
    /\ f # NoFiber
    /\ fstate' = IF fstate[f] \in Finished \cup {"READY"} THEN fstate
                 ELSE [fstate EXCEPT ![f] = "HOLD"]
    /\ ft' = [ft EXCEPT ![w] = NoEntry]
    /\ UNCHANGED <<queue, cbFiber, body, failed>>

\* After a fiber entry swapped out: --m_activeThreadCount, re-queue it with
\* hint -1 if READY, otherwise mark it HOLD unless it finished.
PostFiber(w) ==
    LET f == ft[w].fiber IN
    /\ f # NoFiber
    /\ queue' = IF fstate[f] = "READY"
                THEN Push(queue, [fiber |-> f, cb |-> NoJob, thread |-> AnyThread])
                ELSE queue
    /\ fstate' = IF fstate[f] \in Finished \cup {"READY"} THEN fstate
                 ELSE [fstate EXCEPT ![f] = "HOLD"]
    /\ ft' = [ft EXCEPT ![w] = NoEntry]
    /\ UNCHANGED <<cbFiber, body, failed>>

\* After cb_fiber swapped out: re-queue it and drop it if READY, reset it to
\* an empty closure if it finished, otherwise mark it HOLD and drop it.
PostCallback(w) ==
    LET f == cbFiber[w] IN
    /\ ft[w].fiber = NoFiber
    /\ \/ /\ fstate[f] = "READY"
          /\ queue' = Push(queue, [fiber |-> f, cb |-> NoJob, thread |-> AnyThread])
          /\ cbFiber' = [cbFiber EXCEPT ![w] = NoFiber]
          /\ UNCHANGED <<fstate, body, failed>>
       \/ /\ fstate[f] \in Finished
          /\ MuhuiAssert(fstate[f] \in {"INIT", "TERM", "EXCEPT"}, "reset")
          /\ fstate' = [fstate EXCEPT ![f] = "INIT"]
          /\ body' = [body EXCEPT ![f] = NoJob]
          /\ UNCHANGED <<queue, cbFiber>>
       \/ /\ fstate[f] \notin Finished \cup {"READY"}
          /\ fstate' = [fstate EXCEPT ![f] = "HOLD"]
          /\ cbFiber' = [cbFiber EXCEPT ![w] = NoFiber]
          /\ UNCHANGED <<queue, body, failed>>
    /\ UNCHANGED ft

\* Mutant: run() without the --m_activeThreadCount after swapIn returns.
PostRunKeepsActive(w) ==
    /\ wpc[w] = "post"
    /\ wpc' = [wpc EXCEPT ![w] = "requeue"]
    /\ UNCHANGED <<queue, ft, isActive, cbFiber, running, idleState, fstate,
                   body, left, active, idleCount, autoStop, stopping, mainPc,
                   submitted, done, hint, failed>>

\* Back in run() after the fiber swapped out: --m_activeThreadCount, which
\* happens before, and outside the lock of, the re-queue below.
PostRun(w) ==
    /\ wpc[w] = "post"
    /\ active' = active - 1
    /\ wpc' = [wpc EXCEPT ![w] = "requeue"]
    /\ UNCHANGED <<queue, ft, isActive, cbFiber, running, idleState, fstate,
                   body, left, idleCount, autoStop, stopping, mainPc,
                   submitted, done, hint, failed>>

Requeue(w) ==
    /\ wpc[w] = "requeue"
    /\ PostFiber(w) \/ PostCallback(w)
    /\ running' = [running EXCEPT ![w] = NoFiber]
    /\ wpc' = [wpc EXCEPT ![w] = "scan"]
    /\ UNCHANGED <<isActive, idleState, left, active, idleCount, autoStop,
                   stopping, mainPc, submitted, done, hint>>

\* Scheduler::idle: one pass of while(!stopping()) YieldToReady(); when
\* stopping() holds the loop ends and Fiber::MainFunc marks the fiber TERM.
IdleStep(w) ==
    /\ wpc[w] = "idle"
    /\ idleState' = [idleState EXCEPT ![w] = IF SchedStopping THEN "TERM"
                                                             ELSE "READY"]
    /\ wpc' = [wpc EXCEPT ![w] = "postIdle"]
    /\ UNCHANGED <<queue, ft, isActive, cbFiber, running, fstate, body, left,
                   active, idleCount, autoStop, stopping, mainPc, submitted,
                   done, hint, failed>>

\* Mutant: run() that never does --m_idleThreadcount after idle returns.
PostIdleKeepsIdle(w) ==
    /\ wpc[w] = "postIdle"
    /\ idleState' = IF idleState[w] \in Finished THEN idleState
                    ELSE [idleState EXCEPT ![w] = "HOLD"]
    /\ wpc' = [wpc EXCEPT ![w] = "scan"]
    /\ UNCHANGED <<queue, ft, isActive, cbFiber, running, fstate, body, left,
                   active, idleCount, autoStop, stopping, mainPc, submitted,
                   done, hint, failed>>

\* Back from the idle fiber: --m_idleThreadcount, HOLD unless it finished.
PostIdle(w) ==
    /\ wpc[w] = "postIdle"
    /\ idleCount' = idleCount - 1
    /\ idleState' = IF idleState[w] \in Finished THEN idleState
                    ELSE [idleState EXCEPT ![w] = "HOLD"]
    /\ wpc' = [wpc EXCEPT ![w] = "scan"]
    /\ UNCHANGED <<queue, ft, isActive, cbFiber, running, fstate, body, left,
                   active, autoStop, stopping, mainPc, submitted, done, hint,
                   failed>>

-----------------------------------------------------------------------------
(* The body of the job running on worker w's current fiber                 *)

\* Fiber::YieldToReady: state READY, then swapOut back to run().
YieldToReady(w) ==
    LET f == running[w] IN
    /\ wpc[w] = "run"
    /\ left[body[f]] > 0
    /\ left' = [left EXCEPT ![body[f]] = @ - 1]
    /\ MuhuiAssert(fstate[f] = "EXEC", "YieldToReady")
    /\ fstate' = [fstate EXCEPT ![f] = "READY"]
    /\ wpc' = [wpc EXCEPT ![w] = "post"]
    /\ UNCHANGED <<queue, ft, isActive, cbFiber, running, idleState, body,
                   active, idleCount, autoStop, stopping, mainPc, submitted,
                   done, hint>>

\* Fiber::MainFunc after m_cb returns (TERM, m_cb cleared) or throws
\* (EXCEPT), then swapOut back to run().
Finish(w) ==
    LET f == running[w] IN
    /\ wpc[w] = "run"
    /\ \E outcome \in Finished :
          /\ fstate' = [fstate EXCEPT ![f] = outcome]
          /\ body' = IF outcome = "TERM" THEN [body EXCEPT ![f] = NoJob]
                     ELSE body
    /\ done' = done \cup {body[f]}
    /\ wpc' = [wpc EXCEPT ![w] = "post"]
    /\ UNCHANGED <<queue, ft, isActive, cbFiber, running, idleState, left,
                   active, idleCount, autoStop, stopping, mainPc, submitted,
                   hint, failed>>

\* The job calls Scheduler::GetThis()->schedule(j, t) (test_scheduler.cc).
Spawn(w, j, t) ==
    /\ wpc[w] = "run"
    /\ j \notin submitted
    /\ queue' = Push(queue, EntryOf(j, t))
    /\ submitted' = submitted \cup {j}
    /\ hint' = [hint EXCEPT ![j] = t]
    /\ UNCHANGED <<wpc, ft, isActive, cbFiber, running, idleState, fstate,
                   body, left, active, idleCount, autoStop, stopping, mainPc,
                   done, failed>>

-----------------------------------------------------------------------------

WorkerStep(w) ==
    Scan(w) \/ Dispatch(w) \/ PostRun(w) \/ Requeue(w) \/ IdleStep(w) \/ PostIdle(w)

JobStep(w) ==
    \/ YieldToReady(w)
    \/ Finish(w)
    \/ \E j \in Jobs, t \in SpawnHints(w) : Spawn(w, j, t)

\* The owner's program has returned from stop(); nothing moves any more.
Terminated ==
    /\ mainPc = "returned"
    /\ UNCHANGED schedVars

Next ==
    \/ Start
    \/ \E j \in Jobs, t \in Workers \cup {AnyThread} : Submit(j, t)
    \/ StopCall
    \/ StopJoin
    \/ \E w \in Workers : WorkerStep(w) \/ JobStep(w)
    \/ Terminated

\* Every worker is an OS thread that keeps running, and a running job
\* keeps executing its body; the owner eventually calls start and stop.
Fairness ==
    /\ \A w \in Workers : WF_schedVars(WorkerStep(w)) /\ WF_schedVars(JobStep(w))
    /\ WF_schedVars(Start) /\ WF_schedVars(StopCall) /\ WF_schedVars(StopJoin)

Spec == Init /\ [][Next]_schedVars /\ Fairness

-----------------------------------------------------------------------------
(* Properties                                                              *)

SchedTypeOK ==
    /\ queue \in Seq(Entry)
    /\ wpc \in [Workers -> WorkerPcs]
    /\ ft \in [Workers -> Entry]
    /\ isActive \in [Workers -> BOOLEAN]
    /\ cbFiber \in [Workers -> CbFibers \cup {NoFiber}]
    /\ running \in [Workers -> Fibers \cup {NoFiber}]
    /\ idleState \in [Workers -> FiberStates]
    /\ fstate \in [Fibers -> FiberStates]
    /\ body \in [Fibers -> Jobs \cup {NoJob}]
    /\ left \in [Jobs -> 0..MaxSteps]
    /\ active \in 0..Cardinality(Workers)
    /\ idleCount \in 0..Cardinality(Workers)
    /\ autoStop \in BOOLEAN /\ stopping \in BOOLEAN
    /\ mainPc \in {"pre", "started", "joining", "returned"}
    /\ submitted \subseteq Jobs /\ done \subseteq submitted

TypeOK ==
    /\ SchedTypeOK
    /\ failed \subseteq {"swapIn", "reset", "YieldToReady"}

\* No fiber's stack is executing on two worker threads at once: a fiber is
\* swapped in (Fiber::swapIn) only after its previous swapOut completed.
NoFiberOnTwoWorkers ==
    \A a, b \in Workers :
        (a # b /\ wpc[a] = "run" /\ wpc[b] = "run") => running[a] # running[b]

\* No MUHUI_ASSERT of fiber.cc or scheduler.cc fails.
NoAssertFails == failed = {}

\* Spec P4: once stop() has returned, m_fibers is empty, no thread is
\* active or idle, and every submitted job has returned or thrown.
StopPostcondition ==
    mainPc = "returned" =>
        /\ queue = <<>>
        /\ active = 0
        /\ idleCount = 0
        /\ done = submitted

\* Spec P5: a job submitted with thread hint T only ever runs on thread T.
HintRespected ==
    \A w \in Workers :
        (wpc[w] = "run" /\ body[running[w]] # NoJob) =>
            hint[body[running[w]]] \in {AnyThread, w}

\* stop() returns: every worker leaves run() and the join completes.
StopReturns == <>(mainPc = "returned")
=============================================================================
