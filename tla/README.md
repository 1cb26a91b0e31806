# flconc: TLA+ models, model checking and proofs

`flconc` is a C++ RPC framework: coroutines over hooked system calls, one epoll
reactor per thread, timers, an asynchronous logger, and a TCP server and client
that speak a length-prefixed protobuf protocol or HTTP.  This directory models
its core in TLA+, checks the models with TLC on small instances and proves the
main safety properties with TLAPS for instances of every size.

## 1. Inventory

| Component (src/flconc) | State | Operations | Interacts with | What makes it correct |
|---|---|---|---|---|
| Reactor (net/base/reactor) | `m_pending_tasks`, pending add/del maps, `m_fds`, flags, eventfd | loop, addTask, addEvent, delEvent, stop, wakeup | every thread; epoll | no lost wakeup, tasks exactly once and in order, last delete wins, stop ends the loop |
| CoroutineTaskQueue (net/base/reactor) | queue of descriptors | push, pop | sub-reactors | each queued coroutine resumed once, on one thread |
| Timer (net/base/timer) | multimap of events, timerfd | addTimerEvent, delTimerEvent, onTimer, resetArriveTime | reactor thread; other threads delete | never early, never twice, never after deletion, none lost, armed while pending |
| FdEvent(Container) (net/base/fd_event) | listen mask, coroutine, reactor per fd | add/delListenEvents, unregister | hooks, reactor | the epoll it names watches what its coroutine waits for |
| Coroutine, hooks (coroutine/) | current coroutine per thread, contexts | Resume, Yield; read/write/accept/connect/sleep hooks | reactor, timer | a coroutine runs on one thread at a time, is resumed for cause, and is not forgotten |
| CoroutinePool, Memory | free flags, stack blocks | get/returnCoroutine | TcpServer, channels | no coroutine or stack given out twice |
| CoroutineMutex (net/base/mutex) | `m_lock`, queue of sleepers | lock, unlock | reactor tasks | exclusion, no waiter lost |
| Logger, AsyncLogger (comm/log) | two buffers, two batch queues, two files | pushLog, loopFunc, push, writer loop, CoredumpHandler | timer, signals | order, no loss, no repetition, flush on crash |
| TcpBuffer (net/tcp/tcp_buffer) | vector, read and write index | writeToBuffer, recycleRead/Write, resize, adjust | TcpConnection, codecs | FIFO, indexes in bounds |
| TcpConnection, TcpServer, TcpTimeWheel | state, `m_clients`, wheel of slots | input/execute/output, clearClient, shutdown, addClient, fresh | IO threads, main reactor | closed once, no use after reset, idle connections shut down |
| IOThread(Pool) | start semaphores | start, stop/join, round robin | reactors | start-up and shutdown end |
| TcpClient, RPC channels, dispatcher | connection, timeout event, flags of an async call | sendAndRecv, resetFd, CallMethod, wait, dispatch | timer, hooks, IO threads | each call returns once: reply, timeout or error; its own socket; served once if it says so |
| Codecs (FlconcPb, HTTP) | none | encode, decode | TcpBuffer | a decoder finds what was encoded, however reads cut it; partial packets wait |
| ThreadPool, msg numbers, config, MySQL, addresses, strings | small | - | - | see PROJECT.json |

What is hard here: every cross-thread call writes shared state under `m_mutex`
and then reads unlocked flags; the loop swaps batches out and runs foreign code
that calls back; coroutines move between threads and register with one epoll
before they yield to another; timers race deletions and outlive what they were set
for; descriptor numbers are reused by other threads as soon as they are closed; a
fatal signal starts a second flush beside the running one.  `PROJECT.json` lists the
hazards at their lines with the properties that cover them.

## 2. Modules

| Module | Models | State ↔ code |
|---|---|---|
| `TaskQueue` | abstract specification: a FIFO of closures, accepted once, run one at a time | – |
| `Reactor` | one reactor: the loop thread, `Threads` that call it, code run in the loop | `lpc` is the place in `loop()`, `pc[t]` the place of a thread in a call, `wake_fd` the readable eventfd, `m_fds` the list `m_fds` with the masks known to epoll; other variables keep their names |
| `Alarms` | abstract specification: what those who set timer events may rely on; once for each setting, after its time, in order, not after a cancellation | – |
| `Timer` | one timer, the clock and the timerfd | the multimap is a set of events with `m_arrive_time`; `tpc` is the place in `onTimer()`, `tmps`/`tasks` its local vectors, `deleting` the events another thread is deleting |
| `CoroutineMutex` | one mutex, coroutines on several threads | `pc`, `popped` (the local `cor` of `unlock()`), `woken` (the resume task and its reactor), `home` (thread of a coroutine) |
| `LogStream` | abstract specification: per log type a sequence of lines and the prefix of it that is on disk; after a fatal signal any line not yet on disk | – |
| `Logger` | both buffers, both AsyncLoggers, both callers of `loopFunc()` | `fpc`/`ftmp` place and locals of a caller, `wpc`/`wtmp`/`wstop` of a writer thread |
| `TcpBuffer` | the buffer; bytes are numbered as they enter | names of the code; `size` is `m_buffer.size()` |
| `TcpServer` | the connections of a server: accept loop, `m_clients`, time wheel, clearing timer, coroutine pool; one coroutine per connection on one of the IO threads | connections are numbered as accepted, `pc[c]` is the place in `MainServerLoopCorFunc()` (`"spin"`: in `execute()` for ever), `mpc`/`dying`/`cur` the place in the destruction of slots, `taken` and `inCoFunc` the flags of the pool, `tasks` the `fresh()` closures queued at the main reactor; `idle` is history |
| `CoScheduler` | reactors with coroutines: pool start-up, the hooks, `FdEvent`, the coroutine branch of `loop()`, `CoroutineTaskQueue` | `lpc` is the place of a thread in `IOThread::main()` and `loop()`, `cur` its `t_cur_coroutine`, `first_coroutine` and `re_events` the locals of `loop()`; `m_task`, `m_reactor`, `m_coroutine`, `m_listen_events` are those of the queue and of each `FdEvent`; `cpc`/`next` the place of a coroutine in a hook and in its calls, `event`/`is_timeout` the timer event of a hook, `m_pending_events` the timers, `due`/`late` what `onTimer()` has taken and not run yet, `late` those deleted since, `ready`/`closed` the kernel's view of a descriptor |
| `RemoteCall` | abstract specification: what a caller of either RPC channel may rely on; executed at most once, one result, no return before it | – |
| `RpcClient` | calls through both RPC channels: `CallMethod`, `TcpClient`, the client's `TcpConnection`, `resetFd()`, timeouts, async calls and `wait()`, the dispatcher | `ip`/`kpc` the place of a caller, `pc` that of a call in `sendAndRecvFlconcPb()`, `cur`/`thr` what runs where, `m_fd`/`conn_fd` the numbers `TcpClient` and `TcpConnection` hold and `owner` the socket behind a number, `re_events`/`first_coroutine`/`m_task` the epoll batches and the queue, `m_pending_events`/`due` the events of all timers and those an `onTimer()` has taken, `raised` the callback that has set its flags and not resumed yet, `dead` the timers at rest, `net`/`arrived`/`taken` connection and reply, `requests`/`served` the server; the flags of a channel keep their names |
| `FlconcPbCodec` | packets, `encode()` and `decode()`, over a `TcpBuffer` | operators: `Packets`, `IsPacket`, `Fields`, `PbDecode` |
| `HttpCodec` | `HttpCodeC::decode()` over a `TcpBuffer` | operators: `RequestText`, `HttpDecode` |
| `Codecs` | both codecs over one buffer | `DecodersInStep` |
| `MC*` | instances for TLC | – |
| `*_proofs` | theorems and proofs about the module of that name | – |

`Reactor` implements `TaskQueue`: closures accepted by any thread run in order, once,
one at a time. The modules above it use the queue of a reactor as `TaskQueue` has it:
the `fresh()` closures of `TcpServer`, the resume tasks of `CoroutineMutex`,
`addCoroutine()` in `CoScheduler`, the call_backs of `RpcClient`. The codecs extend
`TcpBuffer` and are evaluated in each of its states. `Timer` implements `Alarms`,
`Logger` implements `LogStream` and `RpcClient` implements `RemoteCall`, which know no
threads, flags, buffers, sockets or timer descriptors.

What `Reactor` and `Timer` say of batches, `CoScheduler` and `RpcClient` carry as far as
it concerns coroutines.  `EpollReturn` reports any set of descriptors; `HandleFd` keeps
the first coroutine for the next iteration (`ResumeFirst`) and queues the others
(`PopCoroutine`); `OnTimer` takes any set of the pending events and their callbacks run
one by one without another test of `m_is_cancled`; a deletion of an event that has
left may take another one of that timer (`delTimerEvent`).  A resume ends whatever the
coroutine waits for by then, as the code's does: `misplaced`, `early` and `clash` record
when that is not what the resume was meant for, that a `wait()` ended before its call, and
that the coroutine was not waiting at all.

A step is atomic where the code holds a lock, or touches only what its own thread sees;
an unlocked read or write of shared data is a step of its own (`wakeup`,
`stop`/`SetStopFlag`, `EnterLoop`/`ResetStopFlag`, `MarkCancelled`, `stop` of `Logger`).
As the flag of a cancelled event is read under no lock and events of one time have an
order of their own, the scan of `onTimer()` may take any of the events that have the
time of the cancelled one at which it stops (`Due`). A writer of `Logger` writes one
line per step and flushes after its batch, so that a signal may find it in the middle of
one. Variables listed as *history* record what happened, for the properties; no guard of
a code step depends on them except to hand a closure, a line or an event object over
once, and to stop where behaviour is undefined (`broken`, `clash`, `astray`).

Abstractions.  Closures, descriptors, events, coroutines and log lines are model
values.  System calls succeed unless an action says otherwise (`EpollError`,
`recycleReadFailed`).  In `Reactor`, the branch of `loop()` for descriptors that
carry a coroutine (reactor.cc:275-292) is represented by what a resumed
coroutine may do to the reactor (the InLoop actions); `epoll` reports a
descriptor once per arrival; `EPOLLHUP`/`EPOLLERR` are `"hup"`.
The callback of the timer's descriptor, which the loop runs at once instead of
queueing it, is an InLoop step of `Reactor` and the handler of `Timer`.
In `Timer`, "punctual" separates environments in which no handler outlasts a tick
of the clock from those in which the clock moves at any point.  In `Logger`, the
rolling of files by date and size, levels and formatting are left out, and
`front()` of an empty queue is an empty batch or the death of the process.  In
`CoroutineMutex`, resuming a coroutine that still runs on another thread is the
state `broken`, after which nothing is specified.  In `TcpBuffer`, a failed
`write()` ends the behaviour, as later indexes may be negative.  In `TcpServer`, the
main thread runs one handler at a time, and the destruction of slots is cut where
an IO thread can interfere: at the test of the state, at `setState(HalfClosing)` and
at `shutdown()`; `clearClient()` likewise between `close()`, `setState(Closed)` and the
last `Yield()`.  Two timers (10 s for closed clients, the wheel's interval) are free
to fire at any time.  A write that fails or is partial changes nothing but
`m_write_buffer`, and is retried; what it does to the buffer is in `TcpBuffer`.
`execute()` decodes, runs the service and writes the reply in one step; the code of a
service is taken to return.  But an input that ends after the request line of an HTTP
request is decoded with success and nothing consumed, again and again: `DecodeNothing`
takes the coroutine to `"spin"`, where it never gives its thread back.  The flconcpb codec
has no such input, so that a server of that protocol does what the model does without
`DecodeNothing`, and one run is about both.
What the code does to a destroyed connection is undefined: `TcpServer` lets the
coroutine go on with fields of its own, and `UsedOnlyWhileAlive` says when that is.
In `CoScheduler`, what a coroutine does is a sequence of hook calls on descriptors
of its own (sleep has none), chosen with the program; after a resume that finds its
coroutine not suspended (`clash`) nothing is specified.  In `RpcClient`, a message is
what can be right about it (`Virtues`), the reply comes in two parts, descriptor
numbers are handed out lowest first, and `clash` and `astray` end the behaviour; so does
a hook that registers its descriptor with the epoll of a thread it has left (`HookWait`),
which `CoScheduler` follows further.  In
`FlconcPbCodec` lengths keep their sign and have two bytes instead of four in the run
(in the theorem, any number up to four), and what
`decode()` may read past the vector is any byte of `Junk`.  In `HttpCodec` a byte is
known by the request and the place it has in it.

## 3. Runs

| Run | Module / cfg | Expectation | Shows |
|---|---|---|---|
| reactor | MCReactor, Reactor.cfg | pass | `NoLostWakeup`, `LastDelWins`, refinement of `TaskQueue`, `TaskEventuallyRuns`, `StopEndsLoop` |
| timer | MCTimer, Timer.cfg | pass | `NeverEarly`, `DeletedStaysQuiet`, `NoEventLost`, `ArmedWhilePending`, refinement of `Alarms` |
| timer_schedule | MCTimer, TimerSchedule.cfg | violation of `OnSchedule` | the timerfd is armed for the last event |
| cor_mutex | MCCoroutineMutex, CoroutineMutex.cfg | pass | `OnePlace`, `PoppedEnters` |
| cor_mutex_exclusion | MCCoroutineMutex, CoroutineMutexExclusion.cfg | violation of `MutualExclusion` | lock cleared during hand-over |
| logger | MCLogger, Logger.cfg | pass | `OneCopy`, refinement of `LogStream`, `LineReachesDisk` |
| logger_crash | MCLogger, LoggerCrash.cfg | violation of `CrashLosesNothing` | batches lost at a fatal signal |
| tcp_buffer | MCTcpBuffer, TcpBuffer.cfg | pass | `Storage` (in bounds, FIFO, compact), `DecodersInStep` (both codecs) |
| tcp_server | MCTcpServer, TcpServer.cfg | pass | `NoFdLeak`, `ShutdownOwnSocket`, `PooledStackExclusive`, `IdleWindow`, `PeerCloseReleases` (an HTTP server is the model; a flconcpb server has fewer behaviours) |
| tcp_server_reset | MCTcpServer, TcpServerReset.cfg | violation of `UsedOnlyWhileAlive` | a connection is destroyed under its coroutine |
| co_scheduler | MCCoScheduler, CoScheduler.cfg | pass | `ResumedOnlyWhenSuspended`, `WokenForCause`, `NotForgotten`, `HandedOverRuns`, `ReadyEventuallyResumed` |
| rpc_client | MCRpcClient, RpcClient.cfg | pass | `OwnSocketOnly`, `OkMeansServed`, `ResumedWhereItWaits`, refinement of `RemoteCall`, `CallReturns` |

On two cores the largest runs are timer (3,696,134 distinct states, 1.5 minutes),
tcp_server (339,511, 3 minutes), co_scheduler (192,167, 1.5 minutes) and rpc_client
(76,453, 2.5 minutes). Every passing run checks a type invariant too. Each property has
a mutant, an operator defined just before the one it replaces, that breaks it as a
plausible slip would (no wakeup, copy instead of swap, a missing test).

Bounds and why they are enough.

* Reactor: two other threads (the races are between one caller, another caller
  and the loop), two closures handed over as one vector (order and repetition need
  two), one descriptor watched for reading, one arrival, `MAX_EVENTS` 1 (a batch
  may leave the eventfd for the next one).  No symmetry, as the run checks liveness.
* Timer: a short and a long repeated event (log flush and time wheel) and two
  one-shot timeouts with times that coincide and that do not; five ticks let the
  short event repeat four times and the long one once.
* CoroutineMutex: three coroutines (holder, sleeper, newcomer) on two threads,
  two rounds each, so that a coroutine meets the state an earlier round left.
* Logger: two lines of one type for the passing run (order and repetition), the
  empty strings of `init()`, both callers of `loopFunc()`; a third line of the other type in
  the crash run.
* TcpBuffer and codecs: initial size 4 and 35 bytes: growth by 1.5, doubling and
  compaction all happen, several times in one behaviour.  The 35 bytes are a packet
  of 17 and one of 18 bytes, both with a start mark in their data, the second with a
  byte after it that makes a length negative; or a POST with a body, a GET and a POST
  without.  `Junk` has 0,
  both marks and a byte that makes a length negative.
* TcpServer: two descriptors and two connections (the second reuses the number of the
  first or not, beside it or after it), two pooled coroutines of which the accept loop
  has one (the second connection gets the first one's again, or a stack block), one
  thread for both or one for each (so that one connection's endless loop does or does
  not stop the other), two buckets (a slot moves and dies), one chunk of unread data and
  one `fresh()` in flight per connection. The proofs cover all larger instances.
* CoScheduler: two reactors, two coroutines, three descriptors, and three programs.
  `WithMain`: one IO thread and the main reactor; one coroutine reads, sleeps and
  reads again and may lose its peer, the other writes for ever.  `TwoIOThreads`:
  a reader beside one that reads, connects and reads again, so that a batch has two
  coroutines and the queue moves one of them.  `ConnectThenSleep`: a connect timeout
  that comes late, with a neighbour in the same timer that a stray deletion can take.
  Any coroutine may also end early.
* RpcClient: two IO threads, two callers, two calls, two descriptor numbers, and
  four programs: two synchronous calls whose sockets contend for numbers; an async
  call after a synchronous one; two async calls at once; an async call whose caller
  waits in another hook first, followed by one without `saveCallee()`.  Two events of one
  timer in one batch, two descriptors in one batch, and a timerfd beside a descriptor all
  occur.  Between them
  each fault of a request occurs, and every connect, write and read may fail.

Deadlock is checked for `TcpServer`, whose wheel turns for ever.  For the others it
is not: with all closures, events, lines, rounds or calls used up, and
the loop ended or waiting, these systems rest.

Fairness. Reactor: the loop thread keeps running (weak fairness of its steps, without
the timeout and the error return of `epoll_wait`, which nothing should need) and a
thread inside a call finishes it. CoroutineMutex: running coroutines proceed, and a
reactor eventually runs a queued task; strong fairness of `Resume` because a thread is
busy now and then with other coroutines. TcpServer: the wheel turns, a coroutine that
can go on does (strongly fair: the thread belongs to other connections in between), and
queued `fresh()` closures run (strongly fair: every iteration of the main reactor drains
its tasks, whatever timers do); peers owe nothing, and neither does a write. Logger: the
timer keeps calling `loopFunc()` and runnable threads run. CoScheduler: the main thread
goes through the start-up, and each thread through its loop, or the hook its coroutine
is in (one weakly fair set of steps per reactor); the code of a coroutine sooner or
later waits or returns, as it must where threads are shared by agreement; nothing makes
descriptors ready. RpcClient: coroutines go on until they wait; the steps of each loop,
the report of its timerfd and the taking of a due event are strongly fair, because
coroutines take the thread in between while the timerfd or eventfd stays readable and an
event that is due stays due; a timer at rest (`dead`) reports nothing, and server and
network owe nothing. All of it is preemptive scheduling by the kernel plus
`TaskEventuallyRuns`; nothing is assumed of callers, except that a holder of the
coroutine mutex calls `unlock()`.

## 4. Findings

1. `Timer::resetArriveTime()` uses `rbegin()`: the timerfd is set for the last
   event, so a 500 ms log flush waits for the 10 s events of the server.
2. `CoroutineMutex::unlock()` clears `m_lock` when it hands over, and `lock()` does
   not test again after waking: two coroutines can be inside.
3. After a fatal signal a writer stops at the first batch it takes with `m_stop`
   set; batches behind it, and lines the timer holds, are not written, although
   the README of the repository says logs are synchronized before exit.
4. `clearClient()` closes the descriptor before it is done with the connection.  If
   `accept()` returns the same number then, `addClient()` resets the connection while its
   coroutine still has `setState(Closed)` and the last `Yield()` to do.

Exceptions that the passing properties state openly: a registration made before `loop()`
began waits for the first `epoll_wait` to end (`early`); `delTimerEvent()` of an event
that already left the multimap erases the next later one (`stray`); `onTimer()` stops at
an event another thread is deleting (`cut`). In `CoScheduler`: a hook that runs on
another thread than its descriptor's reactor registers there before it yields, and may
be resumed before it has (`foreign`); a connect timeout resumes its coroutine past the
reactor that was about to, as does a callback that runs after its event was deleted
(`timed`); an event with neither `EPOLLIN` nor `EPOLLOUT` takes a descriptor out of
epoll while its coroutine waits (`dropped`); on the main reactor a second coroutine in
each batch makes it forget the first (`OnMain`). In `RpcClient`: `resetFd()` can get
another number than the `TcpConnection` has (`renumbered`); once a timer or the end of
an async call has overtaken a wakeup, or a coroutine is resumed by a thread it has left,
a resume can come anywhere (`loose`), also in a `wait()` (`early`), which does not test
`m_is_finished` again: if one batch has the socket of a call and the timerfd, the
timeout resumes the coroutine at once, the call fails, the coroutine starts an async
call and waits, and the next iteration resumes it again as the first coroutine of that
batch, with error code 0 and no response; a call never returns when the peer closes
early (`"stuck"`), when its caller waits on another thread than its call_back, when its
timeout was erased in the place of an event that had left or its timer is at rest
(`~Guarded`), or when `connect()` fails at once for ever (first disjunct of
`CallReturns`); a request that cannot be serialized ends with err_code 0. `TcpServer`: a
thread in the endless loop of `execute()` releases none of its connections
(`ThreadSpins`). The codecs: a packet with the image of another inside is cut up while
it is incomplete (`Nested`); an HTTP input that ends after its request line is reported
as parsed (`readAble = q.line + 2`).

## 5. Proofs

All theorems are of the form `Spec => []P` or a refinement, proved for every value
of the constants under the named ASSUMEs of each module (sets of threads, tasks
and events are arbitrary, also infinite; bounds are arbitrary naturals; programs are
any that satisfy the module's `ProgramsAssumption`).  TLC
evaluates the same ASSUMEs in every run.

* `Reactor_proofs`.  `TypeCorrect`; then `IInv` of `Reactor`, inductive relative to
  `TypeOK`.  `NoLostWakeup` speaks only of the loop in `epoll_wait`; to be inductive
  each kind of work must be signalled from the point after which the loop no
  longer looks for it: tasks from the swap on, the stop flag from its test on,
  registrations everywhere but between `epoll_wait` and the merge.  `LastDelWins`
  needs that a pending add that a later delete overrides has its delete pending
  too.  `ReactorImplementsTaskQueue` maps the abstract queue to `tmp_tasks \o
  m_pending_tasks`: the swap is a stutter because `tmp_tasks` is empty outside
  `"run"`; that appending is `Submit` rests on three lemmas on sequences.
* `Timer_proofs`.  `IInv` adds where an event can be in each phase (`Phases`), that
  a cancelled event is in the multimap only while its deletion is under way
  (`Cancelled`: otherwise the scan of `onTimer()` could stop for ever), and that a
  punctual handler leaves later events only (`LaterOnly`: so that `Rearm` really arms).
  `TimerImplementsAlarms` maps `waiting` to `m_pending_events`, `renewing` to the repeated
  events among `tmps` and `ringing` to `tasks`: the scan of `onTimer()` takes everything
  earlier than what it takes (`DueIs`), an erasure is one cancellation (`ErasedIs`), and
  setting `m_is_cancled`, passing over one-shot events and arming the timerfd are stutters.
* `CoroutineMutex_proofs`.  `OnePlace` with "inside `unlock()` iff holding a sleeper" is
  inductive.
* `TcpBuffer_proofs`.  `Storage`: `TypeOK`, `InBounds`, `Fifo` and `Compact` together are
  inductive; lemmas say what moving and storing bytes do to a vector.
  `DecodersInStep` follows from it in each state, for every sequence of messages whose
  fields fit `decode()`'s arrays and an `int32_t`, integers of one to four bytes, and
  every sequence of requests.  `IInv` says that the readable bytes are the next ones of
  the stream, so that the proof is about strings: where packet `k` is in the stream
  (`FlattenAt`), where the fields are in a packet (`LayoutOf`), that `ntohl()` gives
  back what `htonl()` wrote (`IntRoundTrip`), that no place before the first complete
  packet passes for a packet unless it is `Nested` (`DecodePart`: a length of
  which only part has arrived, and that ends within what has, begins with zeros and
  ends on one of them, where no end mark is), and where the first CRLFs of a request
  are (`DecodeSeen`).
  `FlattenSeq` and the conversions are recursive functions.  What they return is proved
  with `SetInduction`, which is about a set and rests on the least element of a set of
  numbers (`LeastNatural`), so that no operator has to be passed to an induction theorem.
* `Logger_proofs`.  `FileInOrder` (while no signal is handled, a file is a prefix of what
  was logged) says nothing of the way to the file, so `IInv` cuts the accepted lines of a
  type into the stretches that are on disk, in the writer's batch, in the queue of
  batches, with `loopFunc()` and in the buffer, in that order (`Cuts`); it holds while no
  signal is handled, since a second `loopFunc()` may overtake.  `OneCopy` holds then too,
  by `CInv`: each of the six places holds no copy of a line or one, together one if it was
  logged (`Traced`), and a local of `loopFunc()` or of a writer is empty when it is about to
  be overwritten (`Emptied`: otherwise lines would vanish).  `LoggerImplementsLogStream`
  maps `disk` to the files and `logged` to the order in which the buffers took the lines:
  `FileInOrder` of the next state says which line a write adds, or, once the signal is
  handled, `Traced` that it was logged and is not on disk; everything before the
  write is a stutter.
* `TcpServer_proofs`.  `IInv` is a conjunction of parts, with a lemma each: `Places` (the
  descriptor is open exactly until `clearClient()`, and `Closed` comes later), `Clients`
  (`m_clients` has every open connection under its number), `Pool` (a coroutine of the
  pool is marked as given out until it runs and is in `CoFunction()` ever after, so that
  no two connections ever get the same one), `Handler`, and `Wheel` (a slot refreshed
  `n` turns ago is in the bucket `n` places before the last and in none after; one that
  is being destroyed is nowhere).  `NoFdLeak` follows from the first two, `IdleWindow`
  is inductive only with `Wheel`.  `UsedOnlyWhileAlive` is not among them: it fails.

* `CoScheduler_proofs`.  For each descriptor `IInv` says where the wakeup of its
  coroutine is: in a batch of one reactor, first in its turn there, in the
  `CoroutineTaskQueue`, or nowhere, and in one place only (`Wakeups`); which epoll watches
  it and which is going to (`Epolls`); and which thread its coroutine is on inside the
  hook (`Threads`).  One place only is what makes the resumer the only one.  It is not
  said of the descriptors of coroutines a timer resumed (`timed`), and not after a
  `clash`.  It relies on coroutines not sharing a descriptor (`ProgramsAssumption`), as an
  `FdEvent` has room for one coroutine.
* `RpcClient_proofs`. `IInv` has seven parts besides `TypeOK`. A call is made by one
  caller, once (`Made`, `NotYet`); it has a timer event, or a raised flag, only once it
  has begun, and fails by timeout only with the flag raised (`Timed`); a request reaches
  the server at most once (`Once`), so that what a call ends with follows (`Answers`);
  each open socket is the one its call holds until one is renumbered (`Own`); and
  coroutines are where their calls say, on one thread at a time (`Places`). None of them
  says which resume is the right one: a coroutine may be resumed by anything at any
  wait, and what is proved holds all the same. The assumptions on programs are that no
  call is made twice and that only who made an async call waits for it.
  `OkMeansServedHolds` says what a call that ended well was;
  `RpcClientImplementsRemoteCall` says it of every step. There a call begins when
  `CallMethod()` is entered, is executed when the server runs the method, answered when
  the last part of the reply is read, over when `~TcpClient` has closed its socket (an
  async call without `saveCallee()` at once), and its caller has gone on when it is past
  the call or the `wait()`, except from a `wait()` that was ended before the call
  (`early`); connecting, sending, retrying, batches, timers and resumes are stutters. It
  needs three more parts: a request that cannot be serialized or encoded never comes to
  the server (`Unsent`), a caller that waits is at the operation it waits in (`AtOp`),
  so that a resume takes it past that one only, and a caller past a `wait()` is past a
  finished call unless it is `early` (`Waited`).

Only model-checked: all liveness properties (fairness is outside this prover),
`ResumedWhereItWaits` (that nothing but what `loose` names puts a resume in the wrong place
needs an account of every wakeup under way), and the violations.

## 6. Not modelled

* `ThreadPool` (comm): nothing in the repository uses it.
* Message numbers: a per-thread decimal string that is incremented; `RpcClient` takes
  the number of a call for its identity.
* Configuration and start-up, MySQL, addresses and strings, the generator scripts and
  the test programs: sequential I/O, an external library, conversions without state.
* HTTP `encode()`, dispatcher and servlets, and how URL and headers are taken apart: one
  request is turned into one string.  A request without headers has no empty line
  after its request line that `decode()` would take for the end of headers: it is
  never decoded, and `HttpInStep` says nothing of it.
* The growth of `FdEventContainer`, a vector resized under a lock; the destructor of
  `IOThread`, as servers end by exiting; the context switch, which is assembly.
* Steps of the wall clock, which the timer's arrive times are taken from; a `stop()`
  that comes before `loop()` began, which `loop()` erases.
* Levels, formatting and the rolling of log files; service registration and `bind()`.
