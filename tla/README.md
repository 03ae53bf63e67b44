# TLA+ models of the muhui coroutine runtime

This directory holds TLA+ models of the muhui server framework (`src/mumu`):
the M:N fiber scheduler, the epoll-based IOManager built on it, its timer
path and fd-context table, the FdManager, the Socket object over the
kernel's descriptors, the TcpServer accept loop and its stop, the ByteArray serialisation buffer with the socket and
echo-server code that drives it, the address arithmetic of Address, the log
pattern parser, and the reload of the "logs" configuration through ConfigVar
and the LogIniter listener. TLC checks the models against the properties that
spec.md states for the runtime (P1–P6), against the assertions, comments and
`@post` notes in the code, against reference definitions of the pure
algorithms, and (for ByteArray) against an abstract specification through a
refinement mapping.

## The system and how its parts interact

| Part | Source | Role |
|---|---|---|
| Fiber | `src/mumu/.or/fiber.cc`, `src/mumu/fiber.h` | A stackful coroutine with state INIT/HOLD/EXEC/TERM/READY/EXCEPT. `swapIn`/`swapOut` switch between the coroutine and the thread's scheduling fiber. `YieldToReady`/`YieldToHold` set the state and then swap out. |
| Scheduler | `src/mumu/.or/scheduler.cc`, `scheduler.h` | A pool of worker threads that share one FIFO `m_fibers` of fibers or closures, each with a thread hint. `run()` scans the queue under the mutex, resumes the entry outside it, and re-queues READY fibers. When the queue is empty it runs the thread's idle fiber. `stop()` sets `m_stopping`, tickles every thread and joins them. |
| IOManager | `src/mumu/.or/iomanager.cc`, `iomanager.h` | A Scheduler whose `idle()` is an epoll reactor. `addEvent` registers a waiter (the current fiber or a closure) for READ/WRITE on an fd and counts it in `m_pendingEventCount`. The reactor re-arms the fd with the events that are left and schedules the waiters. `tickle()` writes to a pipe. `stopping()` also requires that no event is pending. |
| TimerManager | `src/mumu/timer.cc` | An ordered set of timers. The IOManager reactor uses it for the epoll timeout and for expired callbacks. |
| FdManager | `src/mumu/fd_manager.cc` | A table of per-fd socket flags, used by the hook layer. |
| Socket | `src/mumu/.or/socket.cc` | A descriptor with `m_isConnected` and cached local and remote addresses. `bind`/`connect` open a descriptor (`newSock`) when there is none, a failed `connect` closes it, `accept` wraps the new descriptor through `init`, which needs FdManager's FdCtx for it. |
| TcpServer | `src/mumu/.or/tcp_server.cc` (`src/mumu/tcp_server.cc` is the same code) | `bind` opens a listening Socket per address, or none if any fails. `start()` schedules a `startAccept` loop per Socket on the accept IOManager; each accepted client goes to `handleClient` on the io IOManager. `stop()` sets `m_isStop` and schedules a task that cancels and closes the Sockets. |
| SocketStream, HTTP | `streams/`, `http/` | The connection layer over Socket and ByteArray, and the HTTP server on TcpServer. Its `handleClient` reads requests with `HttpSession::recvRequest`: read into a fixed buffer after the unparsed bytes, parse, and once the header is parsed, take the buffered part of the body and `readFixSize` the rest. With keep-alive on it loops until a request fails or asks to close. |
| ByteArray | `src/mumu/bytearray.cc` | A chain of fixed-size Nodes with a cursor; the socket streams read into and send from it. |
| Address | `src/mumu/address.cc` | sockaddr wrappers: masks, prefix lengths, ports, ordering, and the host/service split of `Lookup`. |
| Config, Log | `src/mumu/config.cc`, `config.h`, `log.cc` | `Config::LoadFromYaml` hands each key's YAML to a `ConfigVar`, whose `setValue` calls the listeners with (old, new) before it stores the value. The "logs" variable's listener (`LogIniter`) reconfigures the Loggers: level, `LogFormatter` (parsed by `LogFormatter::init`) and appenders. |
| util | `src/mumu/.or/util.cc`, `macro.h`, `endian.hh` | Clocks, byte swaps, assertions. |

A fiber that waits for I/O goes through these steps:

1. It calls `addEvent(fd, e)` with itself as the waiter.
2. It calls `YieldToHold`.
3. The worker's `run()` finds the fiber HOLD and drops it.
4. Later, some worker's reactor sees `e` on the fd and calls `triggerEvent`, which `schedule()`s the fiber again.
5. Any worker that is allowed by the hint takes it from the queue and resumes it.

## Modules

| Module | Models | State ↔ code |
|---|---|---|
| `Scheduler.tla` | `Scheduler::start`, `schedule`, `run`, `idle`, `tickle`, `stopping`, `stop` (use_caller = false), and Fiber's `swapIn`, `YieldToReady`, `MainFunc` | See below. |
| `IOManager.tla` | `EXTENDS Scheduler`; `addEvent`, `delEvent`, `cancelEvent`, `cancelAll`, `triggerEvent`, `tickle`, `stopping`, `idle` (the reactor), `YieldToHold` | See below. |
| `TimerManager.tla` | `Timer::Comparator`, `cancel`, `refresh`, `reset`, `TimerManager::addTimer`, `getNextTimer`, `detectClockRollover`, `listExpiredCb` (timer.cc) | Operators over `tset` (`m_timer`), `next`/`period`/`hasCb`/`recurring` (the Timer fields), `addr` (the heap address that breaks ties), `tickled`, `prevTime`, `now`. |
| `IOTimer.tla` | `EXTENDS TimerManager`; the timer path of `IOManager::idle` (`stopping`/`getNextTimer`, the `MAX_TIMEOUT` cap and `(int)` cast, `epoll_wait`, `listExpiredCb`, `schedule`), `tickle` as `onTimerInsertedAtFront`, and user code from `test2` in `test_iomanager.cc` | `pc` is each worker's place in `run()`/`idle()`, `wakeAt` the absolute time its `epoll_wait` times out, `cbq` the timer callbacks in `m_fibers`. |
| `IOFdTable.tla` | `contextResize` and the table parts of `addEvent`/`delEvent` | `size`/`slot` are `m_fdContext`; `slot[fd]` numbers the FdContext objects, `evs[fd][g]` holds the events of context `g`, `inEpoll` is the kernel's interest list. `addEvent` is three steps: the read-locked check, the resize under the write lock, and the fd-locked `epoll_ctl`. |
| `FdManager.tla` | `FdManager::get` and `del` | `size`/`data` are `m_datas`; `get` with auto_create is two steps (read-locked lookup, write-locked create). `oob` records an index at or past the size. |
| `ByteCodec.tla` | zigzag, varint, fixed-width and `writeStringVint`/`readStringVint` encodings | Pure operators (RECURSIVE where the code loops). |
| `ByteBuffer.tla` | what ByteArray's comments promise: a byte string with a cursor | `data`, `pos`, and `out`/`in`, the bytes returned and passed in. |
| `ByteArray.tla` | the Node chain: `write`, `read`, `setPosition`, `toString`, `clear`, `addCapacity`, `getWriteBuffers`; `SocketStream::write`; the echo example's loop | `mem` is the chain's bytes, `cur` is `m_cur` as a Node index, `Junk` an uninitialised byte, `crashed` a dereference of a null `m_cur`. `Buffer == INSTANCE ByteBuffer WITH data <- Contents, pos <- position, ...` is the refinement mapping. |
| `Socket.tla` | `Socket::Socket`, `bind`, `connect`, `listen`, `close`, `accept` with `init`, `~Socket`, `send`/`sendTo`/`recv`/`recvFrom` in both forms, the cached `getLocalAddress`/`getRemoteAddress`, `newSock` | `sock`, `conn`, `local`, `remote` are `m_sock`, `m_isConnected`, `m_localAddress`, `m_remoteAddress` of three Socket objects (a client, a listener, the accepted one). `kopen`, `klisten`, `klocal`, `kpeer` are the kernel's descriptor table, which hands out the lowest free number. Each syscall's success or failure is a nondeterministic choice. `lastIo` is the last send or receive: the method, its return (bytes, 0, -1) and whether bytes moved. |
| `Address.tla` | `CreateMask`, `CountBytes`, the prefix count of `GetInterfaceAddresses`, `broadcastAddress`/`networdAddress`/`subnetMask` and `getPort`/`setPort` of IPv4Address and IPv6Address, `operator<`, `operator==`, the split in `Lookup` | Pure operators. An address is the bytes of its sockaddr; the IPv6 ones have a 17th byte, the first of `sin6_scope_id`, that an index of 16 writes. The undefined shift of `CreateMask<uint32_t>(0)` is a parameter with the two outcomes builds produce. |
| `LogFormat.tla` | `LogFormatter::init`, `LogLevel::ToString`/`FromString`, `LexcalCast` between YAML and `LogDefine`, and `LexcalCast<std::string, std::set<T>>` | Pure operators, RECURSIVE for the parser's loops and the set insertion. A YAML map is a record of sets ({} for an undefined key). |
| `LogConfig.tla` | `Config::LoadFromYaml` with `ListAllMember`'s key filter, `ConfigVar::fromString`/`setValue`, the `LogIniter` listener, `Logger::setFormatter`, `addAppender`, `clearAppender`, the `LoggerManager` constructor | `val` is `m_val` of `g_log_defines`; `logger` the Loggers' level, formatter and appenders; `pc`, `old`, `new`, `todo` a loading thread's place in `setValue` and in the listener's two loops (one step per definition); `asked` the document it loaded. |
| `TcpServer.tla` | `TcpServer::TcpServer`, `bind`, `start`, `stop` with its close task, `startAccept`; `Socket::accept`, `cancelAll`, `close` through the hooked accept; the reactor's READ dispatch; the run loop of the echo example | `isStop`, `socks` are `m_isStop`, `m_socks`; `lfd` and `backlog` the kernel side of each listening descriptor; `acc` each startAccept fiber's place (at the loop top, resumed inside accept, parked on READ, done); `closer` the close task's walk over `m_socks`; `cpu` the fibers holding one of the `Threads` worker threads. A fiber keeps its thread until it yields, so a loop that never yields keeps it for ever. `ucall` is the user fiber's next call: bind (retried after a sleep), then start() and stop() in turn. |
| `HttpSession.tla` | `HttpSession::recvRequest`, `HttpServer::handleClient`, `HttpRequestParser::execute`/`isFinished`/`hasError`/`getcontentLength`, `SocketStream::read`, `Stream::readFixSize` | Pure operators over `net`, what the network still holds for the server: the bytes, their segments, and what the peer does after the last one (wait, close, reset). Bytes are tokens tagged with their request. The ragel parser is not in the repository; `Execute` parses a header only once its last byte is buffered and fails on a malformed byte. `RecvLoop` is the do-while loop, `RecvBody` the content part, `HandleClient` the keep-alive loop; a pass of the loop that changes nothing (a read of 0) is reported as `spin`. |
| `MCScheduler.tla`, `MCIOManager.tla`, `MCIOTimer.tla`, `MCByteArray.tla`, `MCLogConfig.tla` | model values, small sets and input samples for TLC | — |
| `MCFdTables.tla` | IOFdTable, FdManager and Socket in one run (and IOFdTableShrink.cfg) | They share no state, so the initial state picks one (`table`) and the others stay put. |
| `MCAlgorithms.tla` | the pure operators of ByteCodec, Address, LogFormat and HttpSession, with their reference definitions | One variable `u`, an input tagged with the operator it is for; every sample is an initial state. |

`bytearray.h` and `timer.h` are not in the repository. `getCapacity()` and
`getReadSize()` are taken as `m_capacity - m_position` and
`m_size - m_position` in `size_t`, as the comments of `addCapacity` and `read`
state. Timer's fields are those that timer.cc uses.

**Scheduler.tla variables**

- `queue` is `m_fibers`.
- `wpc` is each worker's position in `run()`, with the locals `ft`, `isActive` and `cbFiber`.
- `fstate` is `Fiber::m_state`, and `body` is a fiber's `m_cb`.
- `active` and `idleCount` are the two thread counters.
- `stopping` and `autoStop` are the flags.
- `mainPc` is the thread that calls `start`/`stop`.
- `failed` records every `MUHUI_ASSERT` that fails.

**Scheduler.tla actions**

- Each step of `run()` is one action:
  - `Scan` is the locked loop, including the hint and EXEC skips and `++active`;
  - `Dispatch` is the fiber, closure and idle branches;
  - `PostRun` is the `--active` that follows `swapIn`;
  - `Requeue` is the READY/TERM/HOLD bookkeeping;
  - `PostIdle` covers the idle-fiber branch.
- Jobs are abstracted to their scheduling behaviour, taken from `src/tests/test_scheduler.cc`. A job may yield READY (at most `MaxSteps` times), schedule another job pinned to its own thread, or finish.

**IOManager.tla variables**

- `fdEvents` and `slot` are `FdContext::events` and the read/write `EventContext`.
- `pending` is `m_pendingEventCount`.
- Epoll itself is modelled edge-triggered:
  - `inEpoll` and `interest` are the registration;
  - `level` is the fd's readiness;
  - `rdl` is the ready list. `epoll_ctl` ADD/MOD re-checks readiness, as the kernel does.
- `pipeData` and `pipeRdl` are the tickle pipe.
- `ipc` and `batch` are the reactor's position and the events that `epoll_wait` returned.
- `holdPc` splits `YieldToHold` into its two steps: setting HOLD, then `swapOut`.

**IOManager.tla actions**

- Every handler is a single action. For example, `addEvent` runs from the `epoll_ctl` call through the slot fill, and `HandleFd` is one iteration of the reactor's fd loop.
- Event masks are sets of bit positions, so the code's `&` is `\cap` and `|` is `\cup`.
- Jobs follow `src/tests/test_iomanager.cc`. A job can:
  - wait on a socket event with itself as the waiter;
  - register, withdraw (`delEvent`) or cancel a callback closure;
  - `cancelAll`;
  - yield or finish.

## Runs

| Run | cfg | Expect | What it shows |
|---|---|---|---|
| io_reactor | IOManager.cfg | pass | With the reactor as the idle fiber, `m_pendingEventCount` always equals the number of registered events (P2), and `stop()` returns only after every registered handler has run. |
| io_interest_lost | IOManagerInterest.cfg | violation | **Finding:** `left_event & EPOLLET` (iomanager.cc:412) re-arms an fd with an empty mask. A second event registered on the fd is never reported and its waiter never runs. |
| io_rewait | IOManagerRewait.cfg | violation | **Finding:** `triggerEvent` never clears the slot's scheduler pointer (iomanager.cc:55). Waiting on the same fd and event twice fails `addEvent`'s assertion at line 183. |
| io_yield_race | IOManagerRace.cfg | violation | **Finding:** `YieldToHold` sets HOLD before `swapOut` (fiber.cc:276). A second worker's reactor can fire the fiber's event, and a third scan can resume the fiber while it is still running on the first thread (P1). |
| io_timer | IOTimer.cfg | pass | Two workers run the timer path while user code adds, cancels, refreshes and resets timers. The run checks three properties. `NoStaleWait`: when every thread is blocked in `epoll_wait` with no tickle pending, some thread wakes no later than the earliest deadline. `CbIffQueued`: `m_timer` holds exactly the timers with `m_cb` set. `OneShotCancelNeverFires`: a one-shot timer whose `cancel()` returned true never fires. |
| io_timer_clock | IOTimerClock.cfg | pass | The same with the wall clock set back by more than an hour. The rollover branch hands out every timer and re-arms the recurring ones, and both set properties still hold. |
| fd_tables | FdTables.cfg | pass | Three tables indexed by descriptors. IOFdTable: two threads add and delete events on an fd inside and one past the initial table, and `epoll_ctl`'s ADD/MOD/DEL choice always matches the kernel's interest list (`NoEpollCtlError`). FdManager: growth of `m_datas` by another thread never loses an FdCtx its owner created (`CreatedCtxKept`). Socket: every open descriptor belongs to a Socket object (`NoLeak`), and a Socket's `m_sock` is open and its own (`FdOwnership`), across failed connects, re-connects, accepts and the kernel reusing closed numbers. The run does not check the three fd-table defects: the racing resize, the `size < fd` test and the iovec `sendTo`. A pass run at bounds that reach them would fail, so each is left to its own cfg below. |
| algorithms | Algorithms.cfg | pass | The pure algorithms against reference definitions. Codec: for 0..300 and the 7-bit, sign and width boundaries, zigzag round-trips, the varint writer gives the canonical base-128 form, and the reader consumes exactly the bytes written. Address: `subnetMask(p)` has p leading ones and `CountBytes` counts p back from it, `broadcastAddress` sets exactly the host bits, `operator<` is a strict total order agreeing with `operator==` across IPv4, IPv6 and Unix addresses, and `Lookup` splits every "[v6]:port", "host:port" and "host" it is given. Log: `LogFormatter::init` accepts exactly the well-formed escape-free patterns and builds their items. HTTP (`HttpBodyReference`): with keep-alive off, or a request asking to close, `handleClient` answers one complete request with exactly the body sent, whatever the header and body lengths around the 3-byte buffer, the segmentation and what the peer does next, and answers none for a malformed or oversized header. |
| bytearray | ByteArray.cfg | pass | Every call sequence of `write`, 1-byte `read`, `setPosition`, `toString`, `clear` and `SocketStream::write` is a behaviour of `ByteBuffer` under the refinement mapping (`BufferRefinement`). `m_cur` is always `m_position`'s Node (`CurAtPosition`). |
| log_config | LogConfig.cfg | pass | One thread loads six documents (every appender kind, an invalid formatter, a file appender without file, duplicate names, an entry without a name, a bare root) in every order, up to four loads. Whenever no load is in progress every defined logger is as its definition says (`ConfigApplied`), and no logger or appender ever holds a formatter `init` rejected (`FormattersValid`). |
| tcp_server | TcpServer.cfg | pass | On a single-thread IOManager the user binds two addresses (one bind may fail and is retried), then calls `start()` and `stop()` at any moments while two clients connect. Every `startAccept` loop whose Socket the close task has closed ends (`AcceptLoopsEnd`): the task's `cancelAll` resumes the accept waiting on the Socket, which then fails on the closed descriptor and sees `m_isStop`. While the server runs, every client that connects is accepted and handed to `handleClient` (`ClientsServed`). |
| bytearray_read_drift | ByteArrayDrift.cfg | violation | **Finding:** a 2-byte read from mid-Node into the next Node adds `npos` to `m_position` once more (bytearray.cc:607). The sequence write 1, write 2, `setPosition(1)`, read 2 ends at position 4. |


## Further configurations

The project's runs are limited to the twelve questions above. The cfgs below
are kept beside them because each reproduces a defect met while modelling.
They are not among the runs; their defects are recorded as hazards in
`PROJECT.json`.

| cfg | Module | Expect | What it shows |
|---|---|---|---|
| Scheduler.cfg | MCScheduler | pass | With 2 workers and 2 closures that yield and pin new work to their own thread, `stop()` always returns. When it returns, the queue is empty, no thread is active or idle, and every job has finished (P4). |
| IOFdTableShrink.cfg | MCFdTables | violation | **Defect:** `contextResize(fd * 1.5)` runs without re-checking the size (iomanager.cc:151). A racing smaller resize drops fd 100's context with its events (`ContextReachable`). |
| TcpServerRestart.cfg | TcpServer | violation | **Defect:** `start()` after `stop()` clears `m_isStop` before the close task has run (tcp_server.cc:91). The task then closes the Sockets under the new `startAccept` loops; their accept fails at once and `m_isStop` is false, so they spin for ever on their thread (`AcceptLoopsEnd`). |
| TcpServerThreads.cfg | TcpServer | violation | **Defect:** with two worker threads, as in the examples' `IOManager iom(2)`, the accept that `cancelAll` resumes (tcp_server.cc:102) can retry on the other thread before `close()`. It gets EAGAIN and registers READ again, and `close()` then leaves it waiting on a closed descriptor for ever (`AcceptLoopsEnd`). The model takes the hooked `close` to be the plain syscall: hook.cc is not in the repository. If the hook's `close` also cancels the fd's waiters, this defect does not happen. |
| SchedulerHint.cfg | MCScheduler | violation | **Defect:** a READY fiber is re-queued with hint −1 (scheduler.cc:253, 284), so a pinned coroutine resumes on another thread, which contradicts P5. |
| SchedulerStopHang.cfg | MCScheduler | violation | **Defect:** `--m_activeThreadCount` runs before the READY fiber is re-queued (scheduler.cc:249). Another worker can then see `stopping()` and exit, and work pinned to it is never run, so `stop()` joins forever. |
| IOManagerHangup.cfg | MCIOManager | violation | **Defect:** on HUP/ERR the reactor triggers READ and WRITE without masking by the registered events (iomanager.cc:392). The result is a failed assertion, a null scheduler, and a drifting pending count (P2). |
| IOTimerRefresh.cfg | MCIOTimer | violation | **Defect:** `refresh()` re-inserts with no front check (timer.cc:66). After the clock moves back, the refreshed timer is the earliest and no reactor is woken for it. |
| IOTimerCast.cfg | MCIOTimer | violation | **Defect:** `(int)next_timeout` is negative for a timer beyond `INT_MAX` ms (iomanager.cc:354). The cap is skipped and `epoll_wait` waits forever. |
| IOTimerEmpty.cfg | MCIOTimer | violation | **Defect:** `listExpiredCb` checks emptiness under the read lock and reads `*m_timer.begin()` under the write lock (timer.cc:183). Another reactor empties the set in between. |
| FdTablesFMEdge.cfg | MCFdTables | violation | **Defect:** the test `size < fd` (fd_manager.cc:100, 123) lets `get(64)` index `m_datas[64]` of a 64-entry vector. |
| AlgorithmsString.cfg | MCAlgorithms | violation | **Defect:** `readStringVint` reads the length with `readFuint64` (bytearray.cc:503), not as the varint that `writeStringVint` wrote. |
| ByteArrayEchoIov.cfg | MCByteArray | violation | **Defect:** `getWriteBuffers` bases every iovec on `m_cur->ptr` (bytearray.cc:878), so a request longer than one Node is echoed wrongly. |
| FdTablesSocketReuse.cfg | MCFdTables | violation | **Defect:** `close()` keeps `m_localAddress` and `m_remoteAddress` (socket.cc:474, 511). After connect to p1, close and connect to p2, `getRemoteAddress()` still returns p1 (`CachesFresh`). |
| FdTablesSendTo.cfg | MCFdTables | violation | **Defect:** `sendTo` with iovecs calls `sendmsg` and returns -1 whatever it returned (socket.cc:384): a datagram that went out is reported as not sent (`NoSilentIo`). |
| FdTablesSocketUnhooked.cfg | MCFdTables | violation | **Defect:** with hooks disabled `init(newsock)` fails and `accept()` returns nullptr without closing `newsock` (socket.cc:197): the descriptor leaks (`NoLeak`). |
| AlgorithmsNetwork.cfg | MCAlgorithms | violation | **Defect:** `networdAddress` ANDs with `CreateMask`, the host-bit mask (address.cc:411, 519), so it clears the network bits instead of the host bits (`NetworkReference`). |
| AlgorithmsV6Port.cfg | MCAlgorithms | violation | **Defect:** `IPv6Address::getPort` returns `sin6_port` unswapped (address.cc:541); port 80 reads back as 20480 (`PortRoundTrip`). |
| AlgorithmsBareV6.cfg | MCAlgorithms | violation | **Defect:** for a host with several ':' and no brackets `Lookup` keeps `service` at the first ':' (address.cc:119), so "a::" is looked up with service "::" (`LookupBareV6`). |
| AlgorithmsMaskEdge.cfg | MCAlgorithms | violation | **Defect:** `CreateMask<uint32_t>(0)` shifts by 32 (address.cc:32), undefined; on x86 `broadcastAddress(0)` leaves the address unchanged. IPv6 `broadcastAddress(128)` writes `s6_addr[16]` (address.cc:509). |
| AlgorithmsEscape.cfg | MCAlgorithms | violation | **Defect:** "%%" appends '%' and advances one character (log.cc:539), so the second '%' opens a directive: "%%" alone is a pattern error (`PatternReferenceAll`). |
| AlgorithmsHttpEof.cfg | MCAlgorithms | violation | **Defect:** `recvRequest` closes only on `len < 0` (http_session.cc:30). When the peer closes, `read` returns 0 and the loop parses the same buffer again for ever without yielding, so `handleClient` never ends and its thread spins (`ConnectionEnds`). With keep-alive on, this happens to every client that hangs up after its request. |
| LogConfigRace.cfg | MCLogConfig | violation | **Defect:** `setValue` calls the listeners under the read lock and stores `m_val` later (config.h:451). Two loading threads both configure the loggers from the old value, and the value stored last need not be the one applied last (`ConfigApplied`). |
| LogConfigKeyCase.cfg | MCLogConfig | violation | **Defect:** `ListAllMember` rejects "Logs" (config.cc:31) before `LoadFromYaml` lowercases keys, so the `tolower` is dead and the section is ignored (`LoadHonoursKey`). |

Each property of a passing run has a mutant in `PROJECT.json`: a plausible bug in the modelled code that TLC finds under the same cfg. The mutants are:

- a dropped `--m_activeThreadCount`;
- `delEvent` without `--m_pendingEventCount`;
- `stopping()` that ignores pending events;
- a reactor that never checks `stopping()`;
- `getNextTimer` that does not clear `m_tickled`;
- `listExpiredCb` that leaves `m_cb` set on one-shot timers;
- `cancel()` that always erases;
- `delEvent` that keeps the event bits;
- FdManager growth to `fd * 1.5` even when the fd fits;
- zigzag without the `- 1`;
- varint groups without the 0x80 flag;
- a varint decoder that drops the last group;
- `recvRequest` reading the whole content-length with `readFixSize`, ignoring the body bytes already buffered;
- `write` placing each Node's bytes from the start of `buf`;
- `setPosition` stepping one Node short on a boundary;
- `~Socket` that does not `close()`;
- `close()` that leaves `m_sock` set;
- the close task without `cancelAll`, a `start()` whose loop over `m_socks` schedules only the first Socket's `startAccept`, and a scheduler that resumes a fiber with no free thread (TcpServer);
- IPv6 `subnetMask` without the partial byte;
- IPv6 `broadcastAddress` starting the all-ones bytes one byte late;
- `operator<` without the length tiebreak;
- `Lookup` taking the service of "[v6]:port" from the ':';
- `init` taking the `{format}` from the '{';
- the listener comparing definitions by name only;
- `Logger::setFormatter(string)` without the `isError` check.

Two defects met while modelling are kept as properties without a configuration, because the file budget is spent:

- `Timer::Comparator` orders equal deadlines by pointer (timer.cc:37), not by insertion as spec 4.3 says. `IOTimer.tla` models the address tiebreak.
- The YAML reader of `LogDefine` never reads an appender's "level" (log.cc:773), which the writer emits. `DefineRoundTrip` in MCAlgorithms states the round trip, and it fails on the "define" samples.

Reading `recvRequest` also shows that pipelined requests are lost. The receive buffer is local to one call, so bytes of the next request that arrived with this one's header or body are dropped. The samples hold one request per connection, so no property checks this.

## Bounds

- **Scheduler cfgs.** Two workers are needed: every finding of the Scheduler is a race between a thread that has left `run()` (or yielded) and one that has not. Two closures make the queue hold more than one entry, and each one pins new work. `MaxSteps = 2` lets a job yield READY after it has already been re-queued once, which is the smallest case in which a hint can be lost and then observed.
- **IOManager runs.** One fd with two events is enough for every per-fd protocol the code has, and one worker keeps the pass run under two minutes. io_yield_race uses two workers with `MaxSteps = 1`, because that race needs two threads. Two workers running the full job repertoire grow past the time budget, so the stale-batch hazard (iomanager.cc:422) is not yet checked with two workers.

- **Timer runs.** Widths are scaled so that TLC's integers can hold them.
  - `IntBits = 16` stands for the 32-bit `int`. `MAX_TIMEOUT = 3000` is below 2^15 and the 40000 ms period of the cast run is above it.
  - `RolloverMs = 4000` stands for the hour of `detectClockRollover`, and the clock starts past it.
  - Two timers with two addresses make ties, and both front and non-front inserts, happen.
  - `MaxOps` user calls, `MaxTicks` clock advances and `MaxJumps` backward jumps bound the runs.
  - Two workers are needed for the `m_tickled` debounce and for the empty-set race.
- **Fd tables.** Two threads, with one fd inside the initial table and one past it. Two fds past it (IOFdTableShrink.cfg) make two growths race, and fd 64 (FdTablesFMEdge.cfg) meets FdManager's `size < fd` boundary; both are defects, so the pass run leaves them out. IOFdTable uses `InitSize = 32` for the constructor's `contextResize(32)`; FdManager uses the constructor's 64.
- **Socket.** Three descriptors for three Socket objects, so `socket()` and `accept()` can run out, and a closed number is handed out again to another Socket. Two IPv4 peers make a re-connect to a different peer; an IPv6 peer and local address take the family checks' early returns. Eight calls are enough for connect–close–connect and for bind–listen–accept–release. Every send and receive method except `sendTo` with iovecs is offered on the client and the accepted Socket, connected or not. The iovec `sendTo` is left to FdTablesSendTo.cfg, because no caller in the repository uses it.
- **Algorithms.** `W = 16` stands for the 32- and 64-bit codec copies, which differ only in width; the codec samples include every value up to 300, the group boundary at 2^14, and the sign and width boundaries. The IPv4 prefixes are 1, 32 and those either side of each byte boundary; the IPv6 ones also reach 0 and 127. Prefix 0 (IPv4) and 128 (IPv6) are in AlgorithmsMaskEdge.cfg because the code's behaviour there is a defect. Patterns are every string of up to 4 characters over `%`, `m`, `x`, `{`, `}` and a space, which covers every branch of the parser's loops. Hosts are every string of up to 3 characters over `a` and `:`, with no, an empty and a numeric service. HTTP: a 3-byte buffer, headers of 1 to 4 bytes (so one is exactly the buffer and one larger), bodies of 0 to 2 bytes, requests whole or missing their last byte, and every segmentation. The body is then not buffered, partly buffered or all buffered when the header is parsed. The branch for more bytes buffered than the body needs a second request on the connection, which the samples do not send.
- **TcpServer.** Two addresses, so that `bind` can fail part-way and the close task walks more than one Socket. One failed bind exercises the clear-and-retry path. Two clients let a client wait on each Socket, or two on one. `Calls = 2` (start, stop) is the pass run. TcpServerRestart.cfg uses `Calls = 3` and TcpServerThreads.cfg `Threads = 2`; these are the smallest settings in which each defect happens.
- **Log configuration.** One loader, the program's main thread, and four loads: enough for a definition to be added, changed, kept and removed. The two loggers are root and one other. The six documents are chosen to take each branch of the YAML reader and of the listener.
- **ByteArray.**
  - Nodes of 2 bytes, writes of up to 2 bytes and positions up to 5 make writes cross Nodes and end on their boundaries.
  - The two byte values are symmetric. SYMMETRY is sound here because the run checks only safety.
  - The pass run reads 1 byte at a time, as `readFuint8` and the varint readers do. Longer reads reach the drift bug, which the violation run shows.
  - The echo configuration uses a 3-byte request over 2-byte Nodes, the smallest that spans two Nodes.

## Fairness

- Worker threads are OS threads, so each worker's steps are weakly fair, and so are the main thread's `start`/`stop`/`join`.
- A job's steps are weakly fair because the job runs on a fiber that its worker is executing.
- `Ready(fd, e)` is weakly fair: a peer eventually makes a waited-for socket readable or writable. `test_iomanager.cc` connects to a live server for this reason.
- TcpServer: the scheduler resumes every fiber that is ready once a thread is free, so each fiber's steps and the reactor's dispatch of a reported READ are weakly fair. A fiber that never yields keeps its thread, and the model's `cpu` shows that. The user's calls and the clients get no fairness, because a program need never call `stop()` and no client need come. `ClientsServed` is therefore stated for the time the server runs.
- The timer, fd-table, FdManager, Socket, algorithm, log-configuration and ByteArray runs check only safety, so they assume no fairness.
- The 3000 ms epoll timeout is modelled by `EpollWait` being enabled even when nothing is ready. The reactor therefore re-checks `stopping()` without a tickle, just as the code does.

## Not modelled (yet)

- `use_caller = true`: the root fiber in the Scheduler constructor and `stop()`. IOManager's default is `use_caller = true`, but the tests use `false`.
- I/O events and timers in one model. IOManager.tla has `getNextTimer` as `~0ull`, and IOTimer.tla has no fd events; together they exceed the state budget.
- `addConditionTimer`, `hasTimer` and `OnTimer`: a weak_ptr check inside a callback, a read-only query and a wrapper.
- ByteArray's float/double forms, `writeToFile`/`readFromFile` and `toHexString`.
- `SocketStream::read`, whose `getWriteBuffers(iovs, iovs.size())` asks for 0 bytes (socket_stream.cc:55).
- The hook layer and `Thread`/`Mutex`, which are not under `src/`. Every locked region is one atomic step.
- Stack allocation, `ucontext` and logging, which are pure memory and I/O.
- `TcpServer::handleClient` (it only logs), `toString`, `setConf` and the destructor. The data race on `m_isStop` (a plain bool written by the user's thread and read by the accept loops) is modelled as atomic reads and writes. `start()` reading `m_socks` while the close task clears it on another thread is a data race that the two-thread run does not reach, because the defect it shows comes first.
- The rest of HTTP: `http.h`, with the method and status tables and the request and response classes, is not in the repository. `sendResponse` and `operator<<` are formatting. The servlet dispatch and the parser callbacks only fill in fields. The ragel parser core is external. `Logger::log` and the appenders' output, so a log event racing a reload is not checked. `getaddrinfo`/`getifaddrs` and the address text conversions. The LexcalCast specialisations other than those for the "logs" variable. See `PROJECT.json` for the reason for each.

## Plan for later sittings

1. An abstract specification of "wait for an event, then be resumed exactly once", shown to be implemented by IOManager through a refinement mapping.
2. The stale epoll batch with two workers (iomanager.cc:422).
3. Log events during a reload (`Logger::log` against the listener's `clearAppender`/`addAppender`).
