----------------------------- MODULE CoScheduler -----------------------------
(***************************************************************************)
(* Coroutines on the threads of flconc: the IO threads of an IOThreadPool  *)
(* and the main reactor, the hooks that turn a blocking system call into   *)
(* "register with epoll, Yield, deregister, call again", the FdEvent every *)
(* descriptor has, and the CoroutineTaskQueue through which one IO thread  *)
(* leaves a ready descriptor, and its coroutine, to whoever pops it first. *)
(*                                                                         *)
(* Closures handed to a reactor are run in order and one by one: that is   *)
(* what TaskQueue says and Reactor implements, so a reactor's queue is a   *)
(* sequence here and its wakeups are not repeated.  A step is the stretch  *)
(* of a thread between two accesses to what another thread can see.        *)
(***************************************************************************)
EXTENDS Integers, Sequences, FiniteSets, Functions

CONSTANTS
  NReactors,   \* bound: reactors, the IO threads and perhaps the main one
  Cors, Fds,
  Programs,    \* what runs on the scheduler, see ProgramsAssumption
  m_timer_fd,  \* the timerfd of a reactor, in a batch of epoll events
  NULL

ASSUME NullAssumption ==
  /\ NReactors \in Nat
  /\ NULL \notin Cors \cup Fds \cup (0..NReactors) /\ m_timer_fd \notin Fds \cup {NULL}

\* The calls a coroutine may make, on descriptors of its own.
Calls == ({"read", "write", "connect"} \X Fds) \cup {<<"sleep", NULL>>}

\* A program: the size of the IOThreadPool, the calls each coroutine makes one
\* after the other (it may also end earlier), those that then start over, and
\* the descriptors whose peer may go away.
ASSUME ProgramsAssumption == \A p \in Programs :
  /\ p.size \in 1..NReactors /\ p.closable \subseteq Fds /\ p.loops \subseteq Cors
  /\ p.code \in [Cors -> Seq(Calls)]
  /\ \A c, d \in Cors : \A x \in Range(p.code[c]), y \in Range(p.code[d]) :
       c # d => x[2] # y[2] \/ x[2] = NULL

Reactors == 0..(NReactors - 1)

VARIABLES
  prog,               \* the program, chosen once
  m_created, m_started,  \* IOThreadPool: threads that are up, threads start()ed
  lpc,                \* where the thread of a reactor is
  cur,                \* its t_cur_coroutine; NULL: the main coroutine, the loop itself
  first_coroutine, re_events, m_fds, m_pending_add_fds, m_pending_tasks,
  m_task,             \* the CoroutineTaskQueue of the process: descriptors
  m_listen_events, m_reactor, m_coroutine,  \* the FdEvent of each descriptor
  cpc, next,          \* where a coroutine is, and its call: under way or the next one
  event, is_timeout,  \* the hook's timer event: the reactor whose timer has it, and its flag
  m_pending_events,   \* the coroutines whose timer event is still in its timer
  due,                \* the callbacks the onTimer() of a reactor has picked and not yet run
  late,               \* those it has picked whose hook has returned meanwhile
  ready, closed,      \* kernel: what a descriptor can do, and whether its peer is gone
  foreign,            \* history: coroutines that registered with another thread's epoll
  timed,              \* history: coroutines resumed by a connect timeout, or by a late callback
  dropped,            \* history: coroutines whose descriptor left epoll in an unknown event
  clash               \* history: coroutines resumed while they were not suspended

pool == <<prog, m_created, m_started>>
loopvars == <<lpc, first_coroutine, re_events>>
epoll == <<m_fds, m_pending_add_fds>>
fdevent == <<m_listen_events, m_reactor, m_coroutine>>
switch == <<cur, cpc, clash>>
timers == <<m_pending_events, due, late>>
timer == <<event, is_timeout, timed, timers>>
kernel == <<ready, closed>>
history == <<foreign, dropped>>
vars == <<pool, loopvars, epoll, m_pending_tasks, m_task, fdevent, switch, next,
          timer, kernel, history>>

NoEvent == {"none"}  \* epoll does not watch the descriptor
Masks == SUBSET {"READ", "WRITE"}
Kind(h) == IF h = "read" THEN "READ" ELSE "WRITE"  \* accept_hook waits like read_hook
m_size == prog.size
Main(r) == r = m_size  \* the MainReactor; the others are SubReactors
Call(c) == prog.code[c][next[c]]
Fd(c) == Call(c)[2]
Sleeping(c) == Call(c)[1] = "sleep"
Owner(f) == CHOOSE c \in Cors : \E x \in Range(prog.code[c]) : x[2] = f

TypeOK ==
  /\ prog \in Programs /\ m_created \in 0..m_size /\ m_started \in 0..m_size
  /\ lpc \in [Reactors -> {"none", "main", "inited", "top", "pop", "tasks", "wait", "events", "timer"}]
  /\ cur \in [Reactors -> Cors \cup {NULL}]
  /\ first_coroutine \in [Reactors -> Cors \cup {NULL}]
  /\ re_events \in [Reactors -> SUBSET ((Fds \X {"io", "hup"}) \cup {<<m_timer_fd, "io">>})]
  /\ m_fds \in [Reactors -> [Fds -> Masks \cup {NoEvent}]]
  /\ m_pending_add_fds \in [Reactors -> [Fds -> Masks \cup {NoEvent}]]
  /\ m_pending_tasks \in [Reactors -> Seq(Cors)]
  /\ m_task \in Seq(Fds)
  /\ m_listen_events \in [Fds -> Masks]
  /\ m_reactor \in [Fds -> Reactors \cup {NULL}] /\ m_coroutine \in [Fds -> Cors \cup {NULL}]
  /\ cpc \in [Cors -> {"unborn", "new", "run", "registered", "wait", "back", "done"}]
  /\ next \in [Cors -> Nat \ {0}] /\ \A c \in Cors : next[c] <= Len(prog.code[c]) + 1
  /\ event \in [Cors -> Reactors \cup {NULL}] /\ is_timeout \in [Cors -> BOOLEAN]
  /\ m_pending_events \subseteq Cors /\ due \in [Reactors -> SUBSET Cors]
  /\ late \in [Reactors -> SUBSET Cors]
  /\ ready \in [Fds -> Masks] /\ closed \in SUBSET Fds
  /\ foreign \subseteq Cors /\ dropped \subseteq Cors /\ timed \subseteq Cors /\ clash \subseteq Cors

Init ==
  /\ prog \in Programs /\ m_created = 0 /\ m_started = 0
  /\ lpc = [r \in Reactors |-> "none"]
  /\ cur = [r \in Reactors |-> NULL] /\ first_coroutine = [r \in Reactors |-> NULL]
  /\ re_events = [r \in Reactors |-> {}]
  /\ m_fds = [r \in Reactors |-> [f \in Fds |-> NoEvent]]
  /\ m_pending_add_fds = [r \in Reactors |-> [f \in Fds |-> NoEvent]]
  /\ m_pending_tasks = [r \in Reactors |-> <<>>] /\ m_task = <<>>
  /\ m_listen_events = [f \in Fds |-> {}]
  /\ m_reactor = [f \in Fds |-> NULL] /\ m_coroutine = [f \in Fds |-> NULL]
  /\ cpc = [c \in Cors |-> "unborn"] /\ next = [c \in Cors |-> 1]
  /\ event = [c \in Cors |-> NULL] /\ is_timeout = [c \in Cors |-> FALSE]
  /\ m_pending_events = {} /\ due = [r \in Reactors |-> {}]
  /\ late = [r \in Reactors |-> {}]
  /\ ready = [f \in Fds |-> {}] /\ closed = {}
  /\ foreign = {} /\ dropped = {} /\ timed = {} /\ clash = {}

-----------------------------------------------------------------------------
(* The main thread builds the pool thread by thread, waiting each time for *)
(* the semaphore its IOThread::main posts, and lets all of them loop later.*)

CreateThread ==
  /\ m_created < m_size /\ lpc[m_created] = "none"
  /\ lpc' = [lpc EXCEPT ![m_created] = "main"]
  /\ UNCHANGED <<pool, first_coroutine, re_events, epoll, m_pending_tasks, m_task,
                 fdevent, switch, next, timer, kernel, history>>

\* IOThread::main up to the wait for m_start_semaphore: the reactor exists.
InitThread(r) ==
  /\ lpc[r] = "main"
  /\ lpc' = [lpc EXCEPT ![r] = "inited"]
  /\ UNCHANGED <<pool, first_coroutine, re_events, epoll, m_pending_tasks, m_task,
                 fdevent, switch, next, timer, kernel, history>>

WaitInit ==
  /\ m_created < m_size /\ lpc[m_created] = "inited"
  /\ m_created' = m_created + 1
  /\ UNCHANGED <<prog, m_started, loopvars, epoll, m_pending_tasks, m_task,
                 fdevent, switch, next, timer, kernel, history>>

\* Mutant: start() stops one thread short.
PostStart_Short ==
  /\ m_created = m_size /\ m_started < m_size - 1
  /\ m_started' = m_started + 1
  /\ UNCHANGED <<prog, m_created, loopvars, epoll, m_pending_tasks, m_task,
                 fdevent, switch, next, timer, kernel, history>>

\* Mutant: it posts the semaphore of one thread too many.
PostStart_OneMore ==
  /\ m_created = m_size /\ m_started <= m_size
  /\ m_started' = m_started + 1
  /\ UNCHANGED <<prog, m_created, loopvars, epoll, m_pending_tasks, m_task,
                 fdevent, switch, next, timer, kernel, history>>

\* start() posts the semaphores in order; afterwards the main reactor loops.
PostStart ==
  /\ m_created = m_size /\ m_started < m_size
  /\ m_started' = m_started + 1
  /\ UNCHANGED <<prog, m_created, loopvars, epoll, m_pending_tasks, m_task,
                 fdevent, switch, next, timer, kernel, history>>

EnterLoop(r) ==
  /\ \/ lpc[r] = "inited" /\ r < m_started
     \/ Main(r) /\ lpc[r] = "none" /\ m_started = m_size
  /\ lpc' = [lpc EXCEPT ![r] = "pop"]
  /\ UNCHANGED <<pool, first_coroutine, re_events, epoll, m_pending_tasks, m_task,
                 fdevent, switch, next, timer, kernel, history>>

\* addCoroutine: the closure that will resume c on reactor r.
addCoroutine(r, c) ==
  /\ cpc[c] = "unborn"
  /\ cpc' = [cpc EXCEPT ![c] = "new"]
  /\ m_pending_tasks' = [m_pending_tasks EXCEPT ![r] = Append(@, c)]

\* From any thread once the pool is built: addCoroutineToThreadByIndex, or for
\* the IO thread getIOThread() gives in turn.
GiveToIOThread(c, i) ==
  /\ m_created = m_size /\ addCoroutine(i, c)
  /\ UNCHANGED <<pool, loopvars, epoll, m_task, fdevent, cur, clash, next, timer,
                 kernel, history>>

\* TcpServer::addCoroutine.
GiveToMain(r, c) ==
  /\ m_created = m_size /\ Main(r) /\ addCoroutine(r, c)
  /\ UNCHANGED <<pool, loopvars, epoll, m_task, fdevent, cur, clash, next, timer,
                 kernel, history>>

\* addCoroutineToRandomThread(cor, self = false), i being what rand() gives.
OtherThan(own, i) ==
  IF m_size = 1 THEN 0
  ELSE IF i # own THEN i
  ELSE IF i + 1 = m_size THEN i - 1 ELSE i + 1

GiveToRandomThread(r, c, i) ==
  /\ cur[r] # NULL /\ cpc[cur[r]] = "run" /\ ~Main(r)
  /\ addCoroutine(OtherThan(r, i), c)
  /\ UNCHANGED <<pool, loopvars, epoll, m_task, fdevent, cur, clash, next, timer,
                 kernel, history>>

-----------------------------------------------------------------------------
(* Switching.  Only the loop resumes; what a coroutine that is not         *)
(* suspended does when it is resumed once more is undefined (two threads   *)
(* on one stack, or a return from the end of CoFunction): clash records it *)
(* and the model goes no further.                                          *)

Resume(r, c) ==
  IF c = NULL THEN UNCHANGED switch
  ELSE IF cpc[c] \in {"new", "wait"}
    THEN /\ cur' = [cur EXCEPT ![r] = c]
         /\ cpc' = [cpc EXCEPT ![c] = IF @ = "new" THEN "run" ELSE "back"]
         /\ UNCHANGED clash
    ELSE clash' = clash \cup {c} /\ UNCHANGED <<cur, cpc>>

\* The running coroutine c of reactor r gives the thread back to the loop.
Yield(r, c, where) ==
  /\ cur' = [cur EXCEPT ![r] = NULL]
  /\ cpc' = [cpc EXCEPT ![c] = where]
  /\ UNCHANGED clash

\* Reactor::addEvent called by the thread of r for the epoll of q; an entry
\* already pending is kept, as std::map::insert does.
addEvent(r, q, f, mask) ==
  IF q = r
    THEN /\ m_fds' = [m_fds EXCEPT ![r][f] = mask]
         /\ UNCHANGED m_pending_add_fds
    ELSE /\ m_pending_add_fds' = [m_pending_add_fds EXCEPT ![q][f] = IF @ = NoEvent THEN mask ELSE @]
         /\ UNCHANGED m_fds

\* FdEvent::updateToReactor, on behalf of coroutine c.
updateToReactor(r, c, f, mask) ==
  LET q == IF m_reactor[f] = NULL THEN r ELSE m_reactor[f]
  IN /\ m_listen_events' = [m_listen_events EXCEPT ![f] = mask]
     /\ m_reactor' = [m_reactor EXCEPT ![f] = q]
     /\ addEvent(r, q, f, mask)
     /\ foreign' = IF q = r THEN foreign ELSE foreign \cup {c}
     /\ UNCHANGED dropped

addListenEvents(r, c, f, k) ==
  IF k \in m_listen_events[f]
    THEN UNCHANGED <<m_listen_events, m_reactor, epoll, history>>
    ELSE updateToReactor(r, c, f, m_listen_events[f] \cup {k})

\* The epoll entry stays, with the mask that is left.
delListenEvents(r, c, f, k) ==
  IF k \notin m_listen_events[f]
    THEN UNCHANGED <<m_listen_events, m_reactor, epoll, history>>
    ELSE updateToReactor(r, c, f, m_listen_events[f] \ {k})

-----------------------------------------------------------------------------
(* The hooks, run by a coroutine c = cur[r].                               *)

Calling(c, x) == next[c] <= Len(prog.code[c]) /\ Call(c) = x
Called(c) ==
  next' = [next EXCEPT ![c] = IF @ = Len(prog.code[c]) /\ c \in prog.loops THEN 1 ELSE @ + 1]

Succeeds(f, k) == k \in ready[f] /\ f \notin closed
Used(f, k) == ready' = [ready EXCEPT ![f] = IF f \in closed THEN @ ELSE @ \ {k}]

\* The first call works, or connect fails at once: the hook returns.
AtOnce(f, h) == Succeeds(f, Kind(h)) \/ (h = "connect" /\ f \in closed)

HookDirect(r, f, h) ==
  LET c == cur[r] IN
  /\ c # NULL /\ cpc[c] = "run" /\ Calling(c, <<h, f>>)
  /\ AtOnce(f, h) /\ Used(f, Kind(h)) /\ Called(c)
  /\ m_reactor' = [m_reactor EXCEPT ![f] = IF @ = NULL THEN r ELSE @]
  /\ UNCHANGED <<pool, loopvars, epoll, m_pending_tasks, m_task, m_listen_events, m_coroutine,
                 switch, timer, closed, history>>

\* A timer event of c, on the reactor of this thread.
addTimerEvent(r, c) ==
  event' = [event EXCEPT ![c] = r] /\ m_pending_events' = m_pending_events \cup {c}

\* What is pending in the timer of reactor q.
Pending(q) == {c \in m_pending_events : event[c] = q}

\* The hook of c deletes its event.  One that has left its timer takes along
\* the next later event there, if there is one; a picked callback runs all the same.
delTimerEvent(c) ==
  /\ \E others \in SUBSET (Pending(event[c]) \ {c}) :
       /\ IF c \in m_pending_events THEN others = {} ELSE \A d, e \in others : d = e
       /\ m_pending_events' = m_pending_events \ ({c} \cup others)
  /\ due' = [due EXCEPT ![event[c]] = @ \ {c}]
  /\ late' = [late EXCEPT ![event[c]] = @ \cup (due[event[c]] \cap {c})]
  /\ event' = [event EXCEPT ![c] = NULL] /\ is_timeout' = [is_timeout EXCEPT ![c] = FALSE]

\* It would block, or fails: toEpoll, and for connect a timer event on the
\* reactor of this thread.
HookRegister(r, f, h) ==
  LET c == cur[r] IN
  /\ c # NULL /\ cpc[c] = "run" /\ Calling(c, <<h, f>>)
  /\ ~AtOnce(f, h)
  /\ m_coroutine' = [m_coroutine EXCEPT ![f] = c]
  /\ addListenEvents(r, c, f, Kind(h))
  /\ cpc' = [cpc EXCEPT ![c] = "registered"]
  /\ IF h = "connect" THEN addTimerEvent(r, c) ELSE UNCHANGED <<event, m_pending_events>>
  /\ UNCHANGED <<pool, loopvars, m_pending_tasks, m_task, cur, clash, next, is_timeout,
                 timed, due, late, kernel>>

HookYield(r) ==
  LET c == cur[r] IN
  /\ c # NULL /\ cpc[c] = "registered"
  /\ Yield(r, c, "wait")
  /\ UNCHANGED <<pool, loopvars, epoll, m_pending_tasks, m_task, fdevent, next, timer,
                 kernel, history>>

\* Mutant: the hook does not undo what toEpoll did.
HookReturn_NoDel(r) ==
  LET c == cur[r] k == Kind(Call(c)[1]) IN
  /\ c # NULL /\ cpc[c] = "back" /\ ~Sleeping(c)
  /\ IF event[c] = NULL THEN UNCHANGED <<event, is_timeout, timers>>
                        ELSE delTimerEvent(c)
  /\ Used(Fd(c), k)
  /\ cpc' = [cpc EXCEPT ![c] = "run"] /\ Called(c)
  /\ UNCHANGED <<pool, loopvars, epoll, m_pending_tasks, m_task, fdevent, cur, clash, timed, closed,
                 history>>

\* Resumed: delListenEvents, clearCoroutine, delTimerEvent, and the second system call, which is final.
HookReturn(r) ==
  LET c == cur[r] k == Kind(Call(c)[1]) IN
  /\ c # NULL /\ cpc[c] = "back" /\ ~Sleeping(c)
  /\ delListenEvents(r, c, Fd(c), k)
  /\ m_coroutine' = [m_coroutine EXCEPT ![Fd(c)] = NULL]
  /\ IF event[c] = NULL THEN UNCHANGED <<event, is_timeout, timers>>
                        ELSE delTimerEvent(c)
  /\ Used(Fd(c), k)
  /\ cpc' = [cpc EXCEPT ![c] = "run"] /\ Called(c)
  /\ UNCHANGED <<pool, loopvars, m_pending_tasks, m_task, cur, clash, timed, closed>>

\* sleep_hook: a timer event, and Yield until its callback has run.
HookSleep(r) ==
  LET c == cur[r] IN
  /\ c # NULL /\ cpc[c] = "run" /\ Calling(c, <<"sleep", NULL>>)
  /\ addTimerEvent(r, c)
  /\ Yield(r, c, "wait")
  /\ UNCHANGED <<pool, loopvars, epoll, m_pending_tasks, m_task, fdevent, next, is_timeout,
                 timed, due, late, kernel, history>>

HookSleepBack(r) ==
  LET c == cur[r] IN
  /\ c # NULL /\ cpc[c] = "back" /\ Sleeping(c)
  /\ IF is_timeout[c]
       THEN /\ cpc' = [cpc EXCEPT ![c] = "run"] /\ Called(c)
            /\ is_timeout' = [is_timeout EXCEPT ![c] = FALSE] /\ event' = [event EXCEPT ![c] = NULL]
            /\ UNCHANGED <<cur, clash>>
       ELSE Yield(r, c, "wait") /\ UNCHANGED <<next, is_timeout, event>>
  /\ UNCHANGED <<pool, loopvars, epoll, m_pending_tasks, m_task, fdevent, timed, timers,
                 kernel, history>>

\* The callback returns: CoFunction yields for the last time.
Finish(r) ==
  LET c == cur[r] IN
  /\ c # NULL /\ cpc[c] = "run"
  /\ Yield(r, c, "done")
  /\ UNCHANGED <<pool, loopvars, epoll, m_pending_tasks, m_task, fdevent, next, timer,
                 kernel, history>>

-----------------------------------------------------------------------------
(* The loop of reactor r, while no coroutine has its thread.  It starts an *)
(* iteration at "top" if there is a first coroutine to resume.             *)

InLoop(r, where) == lpc[r] = where /\ cur[r] = NULL
GoTo(r, where) == lpc' = [lpc EXCEPT ![r] = where]

ResumeFirst(r) ==
  /\ InLoop(r, "top") /\ GoTo(r, "pop")
  /\ Resume(r, first_coroutine[r])
  /\ first_coroutine' = [first_coroutine EXCEPT ![r] = NULL]
  /\ UNCHANGED <<pool, re_events, epoll, m_pending_tasks, m_task, fdevent, next, timer,
                 kernel, history>>

\* CoroutineTaskQueue::pop by an IO thread, until the queue is empty.
PopCoroutine(r) ==
  /\ InLoop(r, "pop") /\ ~Main(r) /\ m_task # <<>>
  /\ m_task' = Tail(m_task)
  /\ m_reactor' = [m_reactor EXCEPT ![Head(m_task)] = r]
  /\ Resume(r, m_coroutine[Head(m_task)])
  /\ UNCHANGED <<pool, loopvars, epoll, m_pending_tasks, m_listen_events, m_coroutine, next,
                 timer, kernel, history>>

PopDone(r) ==
  /\ InLoop(r, "pop") /\ (Main(r) \/ m_task = <<>>) /\ GoTo(r, "tasks")
  /\ UNCHANGED <<pool, first_coroutine, re_events, epoll, m_pending_tasks, m_task, fdevent,
                 switch, next, timer, kernel, history>>

RunTask(r) ==
  /\ InLoop(r, "tasks") /\ m_pending_tasks[r] # <<>>
  /\ m_pending_tasks' = [m_pending_tasks EXCEPT ![r] = Tail(@)]
  /\ Resume(r, Head(m_pending_tasks[r]))
  /\ UNCHANGED <<pool, loopvars, epoll, m_task, fdevent, next, timer, kernel, history>>

TasksDone(r) ==
  /\ InLoop(r, "tasks") /\ m_pending_tasks[r] = <<>> /\ GoTo(r, "wait")
  /\ UNCHANGED <<pool, first_coroutine, re_events, epoll, m_pending_tasks, m_task, fdevent,
                 switch, next, timer, kernel, history>>

\* What epoll_wait reports: level-triggered, and a hangup whatever the mask.
Reportable(r) ==
  {<<f, "io">> : f \in {g \in Fds : m_fds[r][g] \cap ready[g] # {}}}
    \cup {<<f, "hup">> : f \in {g \in closed : m_fds[r][g] = {}}}

\* Events, the timerfd perhaps among them, or a wakeup for work that is pending.
EpollReturn(r, batch) ==
  /\ InLoop(r, "wait") /\ GoTo(r, "events")
  /\ \/ batch # {}
     \/ m_pending_tasks[r] # <<>> \/ \E f \in Fds : m_pending_add_fds[r][f] # NoEvent
  /\ re_events' = [re_events EXCEPT ![r] = batch]
  /\ UNCHANGED <<pool, first_coroutine, epoll, m_pending_tasks, m_task, fdevent, switch,
                 next, timer, kernel, history>>

Handled(r, e) == re_events' = [re_events EXCEPT ![r] = @ \ {e}]

\* Neither EPOLLIN nor EPOLLOUT: the descriptor is dropped.
HandleUnknown(r, f) ==
  /\ InLoop(r, "events") /\ <<f, "hup">> \in re_events[r] /\ Handled(r, <<f, "hup">>)
  /\ m_fds' = [m_fds EXCEPT ![r][f] = NoEvent]
  /\ dropped' = IF m_fds[r][f] \in {{}, NoEvent} THEN dropped ELSE dropped \cup {Owner(f)}
  /\ UNCHANGED <<pool, lpc, first_coroutine, m_pending_add_fds, m_pending_tasks, m_task,
                 fdevent, switch, next, timer, kernel, foreign>>

\* An event for a descriptor whose coroutine is gone; it has no callback.
HandleNoCoroutine(r, f) ==
  /\ InLoop(r, "events") /\ <<f, "io">> \in re_events[r] /\ Handled(r, <<f, "io">>)
  /\ m_coroutine[f] = NULL
  /\ UNCHANGED <<pool, lpc, first_coroutine, epoll, m_pending_tasks, m_task, fdevent,
                 switch, next, timer, kernel, history>>

\* The first coroutine of the batch is kept for the next iteration.
HandleFirst(r, f) ==
  /\ InLoop(r, "events") /\ <<f, "io">> \in re_events[r] /\ Handled(r, <<f, "io">>)
  /\ m_coroutine[f] # NULL /\ first_coroutine[r] = NULL
  /\ first_coroutine' = [first_coroutine EXCEPT ![r] = m_coroutine[f]]
  /\ UNCHANGED <<pool, lpc, epoll, m_pending_tasks, m_task, fdevent, switch, next, timer,
                 kernel, history>>

\* Mutant: the descriptor is queued and stays in this thread's epoll.
HandleMigrate_NoDel(r, f) ==
  /\ InLoop(r, "events") /\ <<f, "io">> \in re_events[r] /\ Handled(r, <<f, "io">>)
  /\ m_coroutine[f] # NULL /\ first_coroutine[r] # NULL /\ ~Main(r)
  /\ m_reactor' = [m_reactor EXCEPT ![f] = NULL]
  /\ m_task' = Append(m_task, f)
  /\ UNCHANGED <<pool, lpc, first_coroutine, epoll, m_pending_tasks, m_listen_events,
                 m_coroutine, switch, next, timer, kernel, history>>

\* Mutant: the descriptor leaves the epoll and nobody takes it over.
HandleMigrate_NoPush(r, f) ==
  /\ InLoop(r, "events") /\ <<f, "io">> \in re_events[r] /\ Handled(r, <<f, "io">>)
  /\ m_coroutine[f] # NULL /\ first_coroutine[r] # NULL /\ ~Main(r)
  /\ m_fds' = [m_fds EXCEPT ![r][f] = NoEvent]
  /\ m_reactor' = [m_reactor EXCEPT ![f] = NULL]
  /\ UNCHANGED <<pool, lpc, first_coroutine, m_pending_add_fds, m_pending_tasks, m_task,
                 m_listen_events, m_coroutine, switch, next, timer, kernel, history>>

\* An IO thread leaves the others to whichever IO thread comes first.
HandleMigrate(r, f) ==
  /\ InLoop(r, "events") /\ <<f, "io">> \in re_events[r] /\ Handled(r, <<f, "io">>)
  /\ m_coroutine[f] # NULL /\ first_coroutine[r] # NULL /\ ~Main(r)
  /\ m_fds' = [m_fds EXCEPT ![r][f] = NoEvent]
  /\ m_reactor' = [m_reactor EXCEPT ![f] = NULL]
  /\ m_task' = Append(m_task, f)
  /\ UNCHANGED <<pool, lpc, first_coroutine, m_pending_add_fds, m_pending_tasks,
                 m_listen_events, m_coroutine, switch, next, timer, kernel, history>>

\* The main reactor resumes them at once, and forgets the first one.
HandleMain(r, f) ==
  /\ InLoop(r, "events") /\ <<f, "io">> \in re_events[r] /\ Handled(r, <<f, "io">>)
  /\ m_coroutine[f] # NULL /\ first_coroutine[r] # NULL /\ Main(r)
  /\ Resume(r, m_coroutine[f])
  /\ first_coroutine' = [first_coroutine EXCEPT ![r] = NULL]
  /\ UNCHANGED <<pool, lpc, epoll, m_pending_tasks, m_task, fdevent, next, timer, kernel,
                 history>>

\* The timerfd: onTimer() picks the events that are due, of those that have not
\* been cancelled since it expired.
HandleTimer(r) ==
  /\ InLoop(r, "events") /\ <<m_timer_fd, "io">> \in re_events[r]
  /\ Handled(r, <<m_timer_fd, "io">>)
  /\ due' \in {[due EXCEPT ![r] = S] : S \in SUBSET Pending(r)}
  /\ m_pending_events' = m_pending_events \ due'[r]
  /\ GoTo(r, IF due'[r] = {} THEN "events" ELSE "timer")
  /\ UNCHANGED <<pool, first_coroutine, epoll, m_pending_tasks, m_task, fdevent, switch, next,
                 event, is_timeout, timed, late, kernel, history>>

\* ... and runs their callbacks one by one, without a second look at m_is_cancled:
\* each sets the is_timeout of its hook and resumes its coroutine directly.
RunCallback(r, c) ==
  /\ InLoop(r, "timer") /\ c \in due[r]
  /\ due' = [due EXCEPT ![r] = @ \ {c}]
  /\ GoTo(r, IF due'[r] \cup late[r] = {} THEN "events" ELSE "timer")
  /\ is_timeout' = [is_timeout EXCEPT ![c] = TRUE]
  /\ timed' = IF Call(c)[1] = "connect" THEN timed \cup {c} ELSE timed
  /\ Resume(r, c)
  /\ UNCHANGED <<pool, first_coroutine, re_events, epoll, m_pending_tasks, m_task, fdevent, next,
                 event, m_pending_events, late, kernel, history>>

\* When the hook has returned, its is_timeout is a dead place on the coroutine's
\* stack, which may be the flag of the sleep_hook that has followed.
RunLateCallback(r, c) ==
  /\ InLoop(r, "timer") /\ c \in late[r]
  /\ late' = [late EXCEPT ![r] = @ \ {c}]
  /\ GoTo(r, IF due[r] \cup late'[r] = {} THEN "events" ELSE "timer")
  /\ \/ UNCHANGED is_timeout
     \/ cpc[c] = "wait" /\ Sleeping(c) /\ is_timeout' = [is_timeout EXCEPT ![c] = TRUE]
  /\ timed' = timed \cup {c}
  /\ Resume(r, c)
  /\ UNCHANGED <<pool, first_coroutine, re_events, epoll, m_pending_tasks, m_task, fdevent, next,
                 event, m_pending_events, due, kernel, history>>

\* Mutant: the pending registrations are cleared before they are made.
MergePending_Clear(r) ==
  /\ InLoop(r, "events") /\ re_events[r] = {}
  /\ GoTo(r, IF first_coroutine[r] = NULL THEN "pop" ELSE "top")
  /\ m_pending_add_fds' = [m_pending_add_fds EXCEPT ![r] = [f \in Fds |-> NoEvent]]
  /\ UNCHANGED <<pool, first_coroutine, re_events, m_fds, m_pending_tasks, m_task, fdevent,
                 switch, next, timer, kernel, history>>

MergePending(r) ==
  /\ InLoop(r, "events") /\ re_events[r] = {}
  /\ GoTo(r, IF first_coroutine[r] = NULL THEN "pop" ELSE "top")
  /\ m_fds' = [m_fds EXCEPT ![r] = [f \in Fds |->
                 IF m_pending_add_fds[r][f] = NoEvent THEN @[f] ELSE m_pending_add_fds[r][f]]]
  /\ m_pending_add_fds' = [m_pending_add_fds EXCEPT ![r] = [f \in Fds |-> NoEvent]]
  /\ UNCHANGED <<pool, first_coroutine, re_events, m_pending_tasks, m_task, fdevent, switch,
                 next, timer, kernel, history>>

-----------------------------------------------------------------------------
(* The kernel.                                                             *)

InUse(f, k) ==
  \E c \in Cors : /\ cpc[c] \notin {"unborn", "done"}
                  /\ \E x \in Range(prog.code[c]) : x[2] = f /\ Kind(x[1]) = k

Arrive(f, k) ==
  /\ f \notin closed /\ k \notin ready[f]
  /\ InUse(f, k)
  /\ ready' = [ready EXCEPT ![f] = @ \cup {k}]
  /\ UNCHANGED <<pool, loopvars, epoll, m_pending_tasks, m_task, fdevent, switch, next,
                 timer, closed, history>>

\* The peer is gone: reads and writes return at once from now on.
PeerClose(f) ==
  /\ f \in prog.closable \ closed /\ \E k \in {"READ", "WRITE"} : InUse(f, k)
  /\ closed' = closed \cup {f} /\ ready' = [ready EXCEPT ![f] = {"READ", "WRITE"}]
  /\ UNCHANGED <<pool, loopvars, epoll, m_pending_tasks, m_task, fdevent, switch, next,
                 timer, history>>

-----------------------------------------------------------------------------
StartUp ==
  \/ CreateThread \/ WaitInit \/ PostStart
  \/ \E r \in Reactors : InitThread(r) \/ EnterLoop(r)

GiveWork ==
  \/ \E c \in Cors, i \in 0..(m_size - 1) : GiveToIOThread(c, i)
  \/ \E r \in Reactors, c \in Cors : GiveToMain(r, c)
  \/ \E r \in Reactors, c \in Cors, i \in 0..(m_size - 1) : GiveToRandomThread(r, c, i)

\* What a hook that has begun, and the code of a coroutine between hooks, does.
HookStep(r) ==
  HookYield(r) \/ HookReturn(r) \/ HookSleepBack(r)

GiveBack(r) ==
  \/ \E f \in Fds, h \in {"read", "write", "connect"} : HookRegister(r, f, h)
  \/ HookSleep(r) \/ Finish(r)

UserStep(r) == GiveBack(r) \/ \E f \in Fds, h \in {"read", "write", "connect"} : HookDirect(r, f, h)

HandleEvent(r) ==
  \/ \E f \in Fds : \/ HandleUnknown(r, f) \/ HandleNoCoroutine(r, f) \/ HandleFirst(r, f)
                    \/ HandleMigrate(r, f) \/ HandleMain(r, f)
  \/ HandleTimer(r) \/ \E c \in Cors : RunCallback(r, c) \/ RunLateCallback(r, c)

LoopStep(r) ==
  \/ ResumeFirst(r) \/ PopCoroutine(r) \/ PopDone(r) \/ RunTask(r) \/ TasksDone(r)
  \/ EpollReturn(r, Reportable(r))
  \/ Pending(r) # {} /\ EpollReturn(r, Reportable(r) \cup {<<m_timer_fd, "io">>})
  \/ HandleEvent(r) \/ MergePending(r)

Next ==
  /\ clash = {}
  /\ \/ StartUp \/ GiveWork
     \/ \E r \in Reactors : HookStep(r) \/ UserStep(r) \/ LoopStep(r)
     \/ \E f \in Fds : PeerClose(f) \/ \E k \in {"READ", "WRITE"} : Arrive(f, k)

\* Threads run: the main thread through the start-up, a loop through its
\* iterations, a hook through its steps; and the code of a coroutine sooner or
\* later waits or returns, as it must where threads are shared by agreement.
Fairness ==
  /\ WF_vars(clash = {} /\ StartUp)
  /\ \A r \in Reactors : WF_vars(clash = {} /\ (LoopStep(r) \/ HookStep(r) \/ GiveBack(r)))

Spec == Init /\ [][Next]_vars /\ Fairness

-----------------------------------------------------------------------------
(* Properties.                                                             *)

CanGoOn(c) == cpc[c] = "wait" /\ ~Sleeping(c) /\ Kind(Call(c)[1]) \in ready[Fd(c)]

\* One stack, one thread: no coroutine is ever resumed while it runs, or after
\* it has ended, though any IO thread may pop it and several reactors may know
\* its descriptors.  The two ways the code has to break this are named: a hook
\* that registers with the epoll of another thread before it yields (foreign),
\* and a timer callback, of a connect timeout or run after its event was deleted,
\* that resumes a coroutine past the reactor that was about to (timed).
ResumedOnlyWhenSuspended == clash \subseteq foreign \cup timed

\* A coroutine comes back from Yield in a hook because its descriptor can do
\* what it waits for: the hooks call again once and take the answer for final.
WokenForCause ==
  \A c \in Cors :
    cpc[c] = "back" /\ ~Sleeping(c) => Kind(Call(c)[1]) \in ready[Fd(c)] \/ c \in timed

\* A suspended coroutine is never forgotten: its descriptor is watched by, or on
\* its way into, the epoll of the reactor its FdEvent names, or it waits in the
\* CoroutineTaskQueue, or its turn as first coroutine of a batch is coming.
NotForgotten ==
  \A c \in Cors : cpc[c] = "wait" /\ ~Sleeping(c) /\ clash = {} /\ c \notin timed \cup dropped =>
    LET f == Fd(c) q == m_reactor[f] k == Kind(Call(c)[1]) IN
    \/ q # NULL /\ (k \in m_fds[q][f] \/ k \in m_pending_add_fds[q][f])
    \/ \E i \in 1..Len(m_task) : m_task[i] = f
    \/ \E r \in Reactors : first_coroutine[r] = c

\* Whatever is handed to the pool, before start() or after, comes to run.
HandedOverRuns == \A c \in Cors : cpc[c] = "new" ~> (cpc[c] # "new" \/ clash # {})

\* A coroutine whose descriptor stays ready is resumed by an IO thread: no push
\* to the queue needs a wakeup, as the thread that pushed comes by itself.  The
\* main reactor gives no such promise: a second coroutine in each batch makes it
\* forget the first one of the batch, time after time.
OnMain(c) == \E f \in Fds : m_coroutine[f] = c /\ m_reactor[f] = m_size

ReadyEventuallyResumed ==
  \A c \in Cors : (CanGoOn(c) /\ ~OnMain(c))
                   ~> (~CanGoOn(c) \/ clash # {} \/ c \in timed \cup dropped)
=============================================================================
