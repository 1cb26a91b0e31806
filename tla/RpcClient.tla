------------------------------ MODULE RpcClient ------------------------------
(***************************************************************************)
(* RPC calls of flconc: FlconcPbRpcChannel::CallMethod, which makes a      *)
(* TcpClient for every call, connects, sends the request and reads until   *)
(* the reply is there or the timer event of the call fires;                *)
(* FlconcPbRpcAsyncChannel, which has the same done by another coroutine   *)
(* on another IO thread and hands the end of the call back to the thread   *)
(* of the caller; and the dispatcher at the other end.                     *)
(*                                                                         *)
(* What wakes coroutines comes in batches.  epoll_wait reports             *)
(* descriptors, and perhaps the timerfd; the first coroutine is kept for   *)
(* the next iteration, the others are queued for whichever IO thread comes *)
(* first; the timer takes the events that are due and then runs their      *)
(* callbacks one after the other, and coroutines with them.  A step is the *)
(* stretch of a thread between two accesses to what another can see.       *)
(***************************************************************************)
EXTENDS Integers, Sequences, FiniteSets, Functions

CONSTANTS
  Threads,   \* IO threads
  Callers,   \* coroutines that make calls
  Calls,     \* calls, each made once; an async one runs on a coroutine of its own
  MaxFd,     \* bound: descriptor numbers, enough for a socket per call
  Programs,  \* see ProgramsAssumption
  m_timer_fd, NULL

\* What can be right about a request; the dispatcher replies to the first
\* thing that is not.  Three concern the client: its request can be serialized,
\* then encoded, and the reply's data is a response.
Virtues == {"serialize", "encode", "name", "service", "method", "body", "response", "parse"}

Makes(op, x) == op = <<"call", x>> \/ op = <<"async", x>>

\* A program: the thread each caller is on at first, what it does one after the
\* other ("channel" constructs the async channel of a call), the request of each
\* call, and the calls for which saveCallee() was called.  No call is made twice,
\* and only who has made an async call waits for it.
ASSUME ProgramsAssumption == \A p \in Programs :
  /\ p.home \in [Callers -> Threads]
  /\ p.script \in [Callers -> Seq({"channel", "call", "async", "wait", "hook"} \X Calls)]
  /\ p.request \in [Calls -> SUBSET Virtues] /\ p.saved \subseteq Calls
  /\ \A k, l \in Callers, x \in Calls :
       \A i \in 1..Len(p.script[k]), j \in 1..Len(p.script[l]) :
         Makes(p.script[k][i], x) /\ Makes(p.script[l][j], x) => k = l /\ i = j
  /\ \A k \in Callers, x \in Calls : \A i \in 1..Len(p.script[k]) :
       /\ p.script[k][i] = <<"wait", x>> => \E j \in 1..(i - 1) : p.script[k][j] = <<"async", x>>
       /\ p.script[k][i] = <<"async", x>> => \E j \in 1..(i - 1) : p.script[k][j] = <<"channel", x>>

ASSUME BoundsAssumption ==
  /\ MaxFd \in Nat /\ Threads # {} /\ Callers \cap Calls = {}
  /\ NULL \notin Callers \cup Calls \cup Threads \cup Nat
  /\ m_timer_fd \notin 1..MaxFd

FdNumbers == 1..MaxFd
Coroutines == Callers \cup Calls
Events == {"conn", "rpc"} \X Calls  \* timer events: of connect_hook, and of the call

VARIABLES
  prog,                 \* the program, chosen once
  ip, kpc,              \* a caller's place in its script, and in the operation
  cur, thr,             \* the coroutine each thread runs; the thread each coroutine was on last
  pc,                   \* where a call is
  m_fd, conn_fd, owner, \* TcpClient's and TcpConnection's descriptor; the sockets that are open
  m_coroutine, fd_reactor, \* of the FdEvent of each number
  re_events, first_coroutine, m_task, \* batches of epoll events; the CoroutineTaskQueue
  m_reactor, conn_timer, \* the threads on whose timers a call's two events are
  m_pending_events,     \* of all timers
  due, raised,          \* events a timer has taken; the callback that has raised its flags
  dead,                 \* threads whose timer is at rest, though events may be pending
  is_timeout,           \* also TcpConnection::m_is_over_time
  cause,                \* errno of the last connect that failed
  net, arrived, taken,  \* kernel: the connection; parts of the reply received, and read
  requests, served,     \* server: requests not handled yet, and how often the method ran
  m_error_code,         \* of the controller
  m_current_iothread, m_is_finished, m_need_resume, m_tasks, \* async channels
  clash,      \* history: a coroutine was resumed while it ran or was at its end, or a
              \* timer callback ran when what it refers to was gone
  misplaced,  \* history: a coroutine was resumed, by the thread it was last on, where it
              \* waited for something else
  loose,      \* history: see Resume
  early,      \* history: calls whose wait() was ended before the call
  astray,     \* history: calls that used a descriptor that was not theirs
  renumbered  \* history: calls whose resetFd() got another number

control == <<prog, ip, kpc>>
switch == <<cur, thr, clash, misplaced, loose, early>>
fdvars == <<m_fd, conn_fd, owner, renumbered>>
fdevent == <<m_coroutine, fd_reactor>>
batch == <<re_events, first_coroutine, m_task, due, raised>>
timer == <<m_reactor, conn_timer, m_pending_events, is_timeout, dead>>
wire == <<net, arrived, taken>>
server == <<requests, served>>
async == <<m_current_iothread, m_is_finished, m_need_resume, m_tasks>>
vars == <<control, switch, pc, fdvars, fdevent, batch, timer, cause, wire, server,
          m_error_code, async, astray>>

ReplyParts == 2
Codes == {"OK", "PARSE_SERVICE_NAME", "SERVICE_NOT_FOUND", "METHOD_NOT_FOUND",
          "FAILED_SERIALIZE", "FAILED_ENCODE", "FAILED_DESERIALIZE", "PEER_CLOSED", "FAILED_CONNECT",
          "CONNECT_SYS_ERR", "RPC_CALL_TIMEOUT", "NOT_SET_ASYNC_PRE_CALL"}
Errnos == {"ECONNREFUSED", "EAFNOSUPPORT", "OTHER"}

Op(k) == prog.script[k][ip[k]]
Doing(k, op, x) == ip[k] <= Len(prog.script[k]) /\ Op(k) = <<op, x>>
Caller(x) == CHOOSE k \in Callers : \E i \in 1..Len(prog.script[k]) : Makes(prog.script[k][i], x)
IsAsync(x) == <<"async", x>> \in Range(prog.script[Caller(x)])
Runner(x) == IF IsAsync(x) THEN x ELSE Caller(x)  \* the coroutine a call runs on
Running(c) == cur[thr[c]] = c
At(x, where) == pc[x] = where /\ Running(Runner(x))

\* The loop has thread t, outside of a callback ...
Free(t) ==
  /\ cur[t] = NULL /\ raised[t] = NULL
  /\ ~(m_tasks[t] # <<>> /\ m_is_finished[Head(m_tasks[t])])
\* ... and is through with the last batch, its first coroutine included.
Idle(t) == Free(t) /\ re_events[t] = {} /\ due[t] = {} /\ first_coroutine[t] = NULL

TypeOK ==
  /\ prog \in Programs
  /\ ip \in [Callers -> Nat \ {0}]
  /\ kpc \in [Callers -> {"new", "run", "hook", "in", "yield", "late", "waiting", "end"}]
  /\ cur \in [Threads -> Coroutines \cup {NULL}]
  /\ thr \in [Coroutines -> Threads]
  /\ pc \in [Calls -> {"none", "queued", "connect", "connecting", "connected", "reset", "reopen",
                       "send", "sending", "sent", "recv", "input", "reading", "read", "stuck",
                       "fail", "failed", "ret", "done"}]
  /\ m_fd \in [Calls -> 0..MaxFd] /\ conn_fd \in [Calls -> 0..MaxFd]
  /\ owner \in [FdNumbers -> Calls \cup {NULL}]
  /\ m_coroutine \in [FdNumbers -> Coroutines \cup {NULL}]
  /\ fd_reactor \in [FdNumbers -> Threads \cup {NULL}]
  /\ re_events \in [Threads -> SUBSET (FdNumbers \cup {m_timer_fd})]
  /\ first_coroutine \in [Threads -> Coroutines \cup {NULL}]
  /\ m_task \in Seq(FdNumbers)
  /\ m_reactor \in [Calls -> Threads \cup {NULL}] /\ conn_timer \in [Calls -> Threads \cup {NULL}]
  /\ m_pending_events \subseteq Events /\ due \in [Threads -> SUBSET Events]
  /\ raised \in [Threads -> Calls \cup {NULL}] /\ dead \subseteq Threads
  /\ is_timeout \in [Calls -> BOOLEAN]
  /\ cause \in [Calls -> Errnos]
  /\ net \in [Calls -> {"new", "up", "dead"}]
  /\ arrived \in [Calls -> 0..ReplyParts] /\ taken \in [Calls -> 0..ReplyParts]
  /\ requests \in [Calls -> 0..1] /\ served \in [Calls -> 0..1]
  /\ m_error_code \in [Calls -> Codes]
  /\ m_current_iothread \in [Calls -> Threads \cup {NULL}]
  /\ m_is_finished \in [Calls -> BOOLEAN] /\ m_need_resume \in [Calls -> BOOLEAN]
  /\ m_tasks \in [Threads -> Seq(Calls)]
  /\ clash \in BOOLEAN /\ misplaced \in BOOLEAN /\ loose \in BOOLEAN /\ early \subseteq Calls
  /\ astray \subseteq Calls /\ renumbered \subseteq Calls

Init ==
  /\ prog \in Programs
  /\ ip = [k \in Callers |-> 1]
  /\ kpc = [k \in Callers |-> IF prog.script[k] = <<>> THEN "end" ELSE "new"]
  /\ cur = [t \in Threads |-> NULL]
  /\ thr = [c \in Coroutines |->  \* that of a call is said when it is queued
              IF c \in Callers THEN prog.home[c] ELSE CHOOSE t \in Threads : TRUE]
  /\ pc = [x \in Calls |-> "none"]
  /\ m_fd = [x \in Calls |-> 0] /\ conn_fd = [x \in Calls |-> 0]
  /\ owner = [f \in FdNumbers |-> NULL]
  /\ m_coroutine = [f \in FdNumbers |-> NULL] /\ fd_reactor = [f \in FdNumbers |-> NULL]
  /\ re_events = [t \in Threads |-> {}] /\ first_coroutine = [t \in Threads |-> NULL]
  /\ m_task = <<>>
  /\ m_reactor = [x \in Calls |-> NULL] /\ conn_timer = [x \in Calls |-> NULL]
  /\ m_pending_events = {} /\ due = [t \in Threads |-> {}]
  /\ raised = [t \in Threads |-> NULL] /\ dead = {}
  /\ is_timeout = [x \in Calls |-> FALSE]
  /\ cause = [x \in Calls |-> "OTHER"]
  /\ net = [x \in Calls |-> "new"]
  /\ arrived = [x \in Calls |-> 0] /\ taken = [x \in Calls |-> 0]
  /\ requests = [x \in Calls |-> 0] /\ served = [x \in Calls |-> 0]
  /\ m_error_code = [x \in Calls |-> "OK"]
  /\ m_current_iothread = [x \in Calls |-> NULL]
  /\ m_is_finished = [x \in Calls |-> FALSE] /\ m_need_resume = [x \in Calls |-> FALSE]
  /\ m_tasks = [t \in Threads |-> <<>>]
  /\ clash = FALSE /\ misplaced = FALSE /\ loose = FALSE /\ early = {}
  /\ astray = {} /\ renumbered = {}

-----------------------------------------------------------------------------
(* Descriptors are numbers of the process: socket() gives the lowest that  *)
(* is free, and close() closes whatever has the number now.  The FdEvent   *)
(* of a number outlives its sockets.                                       *)

LowestFree(f) == owner[f] = NULL /\ \A g \in 1..(f - 1) : owner[g] # NULL

\* A call that closes, reads or writes number f of its; the FdEvent gets a
\* reactor if it has none.
Uses(x, f) ==
  /\ astray' = IF owner[f] = x THEN astray ELSE astray \cup {x}
  /\ fd_reactor' = [fd_reactor EXCEPT ![f] = IF @ = NULL THEN thr[Runner(x)] ELSE @]
Close(x, f) ==
  /\ owner' = [owner EXCEPT ![f] = NULL] /\ Uses(x, f)
  /\ net' = [net EXCEPT ![x] = "new"] /\ UNCHANGED <<m_coroutine, arrived, taken>>
OpenSocket(x) ==
  \E f \in FdNumbers :
    LowestFree(f) /\ m_fd' = [m_fd EXCEPT ![x] = f] /\ owner' = [owner EXCEPT ![f] = x]

GoTo(x, where) == pc' = [pc EXCEPT ![x] = where]
Suspend(c) == cur' = [cur EXCEPT ![thr[c]] = NULL] /\ UNCHANGED thr
SwitchTo(t, c) == cur' = [cur EXCEPT ![t] = c] /\ thr' = [thr EXCEPT ![c] = t]

\* toEpoll() and Yield() of a hook.  If the FdEvent names the reactor of another
\* thread, that one registers the descriptor or not, and may resume the coroutine
\* before it has yielded: clash records it and the model goes no further.
HookWait(x, f, where) ==
  /\ m_coroutine' = [m_coroutine EXCEPT ![f] = Runner(x)]
  /\ GoTo(x, where) /\ Suspend(Runner(x))
  /\ clash' = (clash \/ fd_reactor[f] \notin {NULL, thr[Runner(x)]})
  /\ UNCHANGED <<misplaced, loose, early>>

\* Where a suspended call goes on: behind the Yield of its hook, which first
\* clears the FdEvent's coroutine.
Behind == [connecting |-> "connected", sending |-> "sent", reading |-> "read"]
clearCoroutine(f) == m_coroutine' = [m_coroutine EXCEPT ![f] = NULL]

\* Timer::delTimerEvent: for an event that has left the timer, another one does.
TimerOf(e) == IF e[1] = "rpc" THEN m_reactor[e[2]] ELSE conn_timer[e[2]]
On(t) == {e \in m_pending_events : TimerOf(e) = t}
addTimerEvent(t, e) ==
  /\ m_pending_events' = m_pending_events \cup {e}
  /\ dead' = IF On(t) = {} THEN dead \ {t} ELSE dead  \* the first event arms the timer
delTimerEvent(e) ==
  IF e \in m_pending_events THEN m_pending_events' = m_pending_events \ {e}
  ELSE m_pending_events' \in {m_pending_events} \cup {m_pending_events \ {d} : d \in On(TimerOf(e))}

-----------------------------------------------------------------------------
(* Coroutine::Resume.                                                      *)

Hooked(c) == \E x \in Calls : Runner(x) = c /\ pc[x] \in DOMAIN Behind
Stuck(c) == \E x \in Calls : Runner(x) = c /\ pc[x] = "stuck"  \* m_can_resume is off
Waits(c) == c \in Callers /\ kpc[c] \in {"hook", "waiting"}

NextOp(k) == ip' = [ip EXCEPT ![k] = @ + 1]

\* A coroutine that waits goes on, whatever it waits for.  What it does if it is
\* not waiting is undefined: clash records it and the model goes no further.
\* The history: meant, if it waits for what thread t resumes it for; overtakes,
\* if something else that would wake it has been taken note of.
Resume(t, c, meant, overtakes) ==
  /\ misplaced' = (misplaced \/ (~meant /\ thr[c] = t))
  /\ loose' = (loose \/ overtakes \/ (~meant /\ thr[c] # t))
  /\ \/ /\ \E x \in Calls : Runner(x) = c /\ pc[x] \in DOMAIN Behind /\ GoTo(x, Behind[pc[x]])
        /\ SwitchTo(t, c) /\ UNCHANGED <<ip, kpc, clash, early>>
     \/ /\ Waits(c) /\ kpc' = [kpc EXCEPT ![c] = "run"] /\ NextOp(c) /\ SwitchTo(t, c)
        /\ early' = early \cup {x \in Calls : /\ kpc[c] = "waiting" /\ Doing(c, "wait", x)
                                              /\ ~m_is_finished[x]}
        /\ UNCHANGED <<pc, clash>>
     \/ Stuck(c) /\ UNCHANGED <<ip, kpc, pc, cur, thr, clash, early>>
     \/ /\ ~Hooked(c) /\ ~Waits(c) /\ ~Stuck(c)
        /\ clash' = TRUE /\ UNCHANGED <<ip, kpc, pc, cur, thr, early>>

\* A report of its descriptor is being handled, or it is the first coroutine of a
\* batch or in the queue; or a timer has taken another event of its.
OnItsWay(t, c, e) ==
  \/ \E s \in Threads : first_coroutine[s] = c
  \/ \E f \in FdNumbers : /\ m_coroutine[f] = c
                          /\ f \in Range(m_task) \/ \E s \in Threads : f \in re_events[s]
  \/ \E d \in due[t] \ {e} : Runner(d[2]) = c

-----------------------------------------------------------------------------
(* The caller.                                                             *)

BeginCaller(k) ==
  /\ kpc[k] = "new" /\ Idle(thr[k])
  /\ kpc' = [kpc EXCEPT ![k] = "run"] /\ SwitchTo(thr[k], k)
  /\ UNCHANGED <<prog, ip, clash, misplaced, loose, early, pc, fdvars, fdevent, batch, timer,
                 cause, wire, server, m_error_code, async, astray>>

\* Any other hook: the caller waits, and may come back on another thread.
Hook(k, x) ==
  /\ Running(k) /\ kpc[k] = "run" /\ Doing(k, "hook", x)
  /\ kpc' = [kpc EXCEPT ![k] = "hook"] /\ Suspend(k)
  /\ UNCHANGED <<prog, ip, clash, misplaced, loose, early, pc, fdvars, fdevent, batch, timer,
                 cause, wire, server, m_error_code, async, astray>>

HookBack(k, t) ==
  /\ kpc[k] = "hook" /\ Idle(t)
  /\ kpc' = [kpc EXCEPT ![k] = "run"] /\ NextOp(k) /\ SwitchTo(t, k)
  /\ UNCHANGED <<prog, clash, misplaced, loose, early, pc, fdvars, fdevent, batch, timer,
                 cause, wire, server, m_error_code, async, astray>>

EndCaller(k) ==
  /\ Running(k) /\ kpc[k] = "run" /\ ip[k] > Len(prog.script[k])
  /\ kpc' = [kpc EXCEPT ![k] = "end"] /\ Suspend(k)
  /\ UNCHANGED <<prog, ip, clash, misplaced, loose, early, pc, fdvars, fdevent, batch, timer,
                 cause, wire, server, m_error_code, async, astray>>

\* A TcpClient and its TcpConnection, and the request in its buffer.  A request
\* that cannot be serialized ends the call there, with no error set, and one that
\* cannot be encoded with one.
CallMethod(x, t) ==
  /\ OpenSocket(x) /\ conn_fd' = [conn_fd EXCEPT ![x] = m_fd'[x]]
  /\ fd_reactor' = [fd_reactor EXCEPT ![m_fd'[x]] = t]
  /\ m_reactor' = [m_reactor EXCEPT ![x] = t]
  /\ IF {"serialize", "encode"} \subseteq prog.request[x]
       THEN /\ GoTo(x, "connect") /\ addTimerEvent(t, <<"rpc", x>>)
            /\ UNCHANGED m_error_code
       ELSE /\ GoTo(x, "ret") /\ UNCHANGED <<m_pending_events, dead>>
            /\ m_error_code' = [m_error_code EXCEPT ![x] =
                 IF "serialize" \in prog.request[x] THEN "FAILED_ENCODE" ELSE @]
  /\ UNCHANGED <<renumbered, m_coroutine, conn_timer, is_timeout>>

SyncCall(k, x) ==
  /\ Running(k) /\ kpc[k] = "run" /\ Doing(k, "call", x)
  /\ kpc' = [kpc EXCEPT ![k] = "in"]
  /\ CallMethod(x, thr[k])
  /\ UNCHANGED <<prog, ip, switch, batch, cause, wire, server, async, astray>>

MakeChannel(k, x) ==
  /\ Running(k) /\ kpc[k] = "run" /\ Doing(k, "channel", x)
  /\ m_current_iothread' = [m_current_iothread EXCEPT ![x] = thr[k]] /\ NextOp(k)
  /\ UNCHANGED <<prog, kpc, switch, pc, fdvars, fdevent, batch, timer, cause, wire, server,
                 m_error_code, m_is_finished, m_need_resume, m_tasks, astray>>

\* FlconcPbRpcAsyncChannel::CallMethod: on another IO thread, if there is one.
AsyncCall(k, x, t) ==
  /\ Running(k) /\ kpc[k] = "run" /\ Doing(k, "async", x)
  /\ t # thr[k] \/ Threads = {t}
  /\ IF x \in prog.saved
       THEN /\ GoTo(x, "queued") /\ thr' = [thr EXCEPT ![x] = t]
            /\ UNCHANGED <<m_is_finished, m_error_code>>
       ELSE /\ m_error_code' = [m_error_code EXCEPT ![x] = "NOT_SET_ASYNC_PRE_CALL"]
            /\ m_is_finished' = [m_is_finished EXCEPT ![x] = TRUE]
            /\ UNCHANGED <<pc, thr>>
  /\ NextOp(k)
  /\ UNCHANGED <<prog, kpc, cur, clash, misplaced, loose, early, fdvars, fdevent, batch, timer,
                 cause, wire, server, m_current_iothread, m_need_resume, m_tasks, astray>>

BeginCall(x) ==
  /\ pc[x] = "queued" /\ Idle(thr[x])
  /\ SwitchTo(thr[x], x) /\ CallMethod(x, thr[x])
  /\ UNCHANGED <<control, clash, misplaced, loose, early, batch, cause, wire, server, async,
                 astray>>

\* wait(): m_need_resume is set, m_is_finished tested, and the caller yields.
\* Both flags are plain bools: the test may be done before the other is seen
\* to be set, at the Yield ("late").
Wait(k, x) ==
  /\ Running(k) /\ kpc[k] = "run" /\ Doing(k, "wait", x)
  /\ \/ /\ m_is_finished[x]
        /\ m_need_resume' = [m_need_resume EXCEPT ![x] = TRUE]
        /\ NextOp(k) /\ UNCHANGED kpc
     \/ /\ ~m_is_finished[x]
        /\ \/ m_need_resume' = [m_need_resume EXCEPT ![x] = TRUE]
              /\ kpc' = [kpc EXCEPT ![k] = "yield"]
           \/ UNCHANGED m_need_resume /\ kpc' = [kpc EXCEPT ![k] = "late"]
        /\ UNCHANGED ip
  /\ UNCHANGED <<prog, switch, pc, fdvars, fdevent, batch, timer, cause, wire, server,
                 m_error_code, m_current_iothread, m_is_finished, m_tasks, astray>>

WaitYield(k, x) ==
  /\ Running(k) /\ kpc[k] \in {"yield", "late"} /\ Doing(k, "wait", x)
  /\ m_need_resume' = [m_need_resume EXCEPT ![x] = TRUE]
  /\ kpc' = [kpc EXCEPT ![k] = "waiting"] /\ Suspend(k)
  /\ UNCHANGED <<prog, ip, clash, misplaced, loose, early, pc, fdvars, fdevent, batch, timer,
                 cause, wire, server, m_error_code, m_current_iothread, m_is_finished, m_tasks,
                 astray>>

-----------------------------------------------------------------------------
(* sendAndRecvFlconcPb: connecting.                                        *)

\* The first connect(): it works, fails, or is in progress; then connect_hook adds
\* a timer event on this thread.
Connect(x) ==
  LET f == m_fd[x] IN
  /\ At(x, "connect") /\ ~is_timeout[x] /\ Uses(x, f)
  /\ \/ /\ net' = [net EXCEPT ![x] = "up"] /\ GoTo(x, "send")
        /\ UNCHANGED <<cause, switch, m_coroutine, conn_timer, m_pending_events, dead>>
     \/ \E e \in Errnos :
          /\ cause' = [cause EXCEPT ![x] = e] /\ GoTo(x, "reset")
          /\ UNCHANGED <<net, switch, m_coroutine, conn_timer, m_pending_events, dead>>
     \/ /\ HookWait(x, f, "connecting")
        /\ conn_timer' = [conn_timer EXCEPT ![x] = thr[Runner(x)]]
        /\ addTimerEvent(thr[Runner(x)], <<"conn", x>>)
        /\ UNCHANGED <<net, cause>>
  /\ UNCHANGED <<control, fdvars, batch, m_reactor, is_timeout, arrived, taken, server,
                 m_error_code, async>>

\* Resumed by the descriptor or a timer: the second connect() decides.
ConnectAgain(x) ==
  /\ At(x, "connected") /\ Uses(x, m_fd[x]) /\ clearCoroutine(m_fd[x])
  /\ delTimerEvent(<<"conn", x>>) /\ conn_timer' = [conn_timer EXCEPT ![x] = NULL]
  /\ \/ net' = [net EXCEPT ![x] = "up"] /\ GoTo(x, "send") /\ UNCHANGED cause
     \/ \E e \in {"ECONNREFUSED", "OTHER"} :
          cause' = [cause EXCEPT ![x] = e] /\ GoTo(x, "reset") /\ UNCHANGED net
  /\ UNCHANGED <<control, switch, fdvars, batch, m_reactor, is_timeout, dead, arrived, taken,
                 server, m_error_code, async>>

\* resetFd() closes the socket and opens another; m_connection is not told.
ResetClose(x) ==
  /\ At(x, "reset") /\ Close(x, m_fd[x]) /\ GoTo(x, "reopen")
  /\ UNCHANGED <<control, switch, m_fd, conn_fd, renumbered, batch, timer, cause, server,
                 m_error_code, async>>

Return(x, code) ==
  /\ GoTo(x, "ret") /\ m_error_code' = [m_error_code EXCEPT ![x] = code]
GiveUp(x, code) == delTimerEvent(<<"rpc", x>>) /\ Return(x, code)

ResetOpen(x) ==
  /\ At(x, "reopen") /\ OpenSocket(x)
  /\ renumbered' = IF m_fd'[x] = conn_fd[x] THEN renumbered ELSE renumbered \cup {x}
  /\ \/ is_timeout[x] /\ GoTo(x, "fail") /\ UNCHANGED <<m_pending_events, m_error_code>>
     \/ ~is_timeout[x] /\ cause[x] = "ECONNREFUSED" /\ GiveUp(x, "PEER_CLOSED")
     \/ ~is_timeout[x] /\ cause[x] = "EAFNOSUPPORT" /\ GiveUp(x, "CONNECT_SYS_ERR")
     \/ ~is_timeout[x] /\ cause[x] = "OTHER" /\ GoTo(x, "connect")
        /\ UNCHANGED <<m_pending_events, m_error_code>>
  /\ cause' = [cause EXCEPT ![x] = "OTHER"]  \* errno is not looked at again
  /\ UNCHANGED <<control, switch, conn_fd, fdevent, batch, m_reactor, conn_timer, is_timeout, dead,
                 wire, server, async, astray>>

\* timer_cb, on another thread, has raised the flag since it was tested.
ConnectTooLate(x) ==
  /\ At(x, "connect") /\ is_timeout[x] /\ GiveUp(x, "FAILED_CONNECT")
  /\ UNCHANGED <<control, switch, fdvars, fdevent, batch, m_reactor, conn_timer, is_timeout, dead,
                 cause, wire, server, async, astray>>

-----------------------------------------------------------------------------
(* Sending and receiving, on the descriptor the TcpConnection has.         *)

\* Mutant: what has been sent stays in the buffer and is sent again.
Delivered_Twice(x) == net[x] = "up" /\ requests' = [requests EXCEPT ![x] = @ + 2]

Delivered(x) == net[x] = "up" /\ requests' = [requests EXCEPT ![x] = @ + 1]

\* output(): the whole request goes out, or write() would block or fails.
Send(x) ==
  /\ At(x, "send") /\ ~is_timeout[x] /\ Uses(x, conn_fd[x])
  /\ \/ Delivered(x) /\ GoTo(x, "recv") /\ UNCHANGED <<switch, m_coroutine>>
     \/ HookWait(x, conn_fd[x], "sending") /\ UNCHANGED requests
  /\ UNCHANGED <<control, fdvars, batch, timer, cause, wire, served, m_error_code, async>>

\* The second write(); output() goes on until all is sent or the time is over.
SendAgain(x) ==
  /\ At(x, "sent") /\ Uses(x, conn_fd[x]) /\ clearCoroutine(conn_fd[x])
  /\ \/ Delivered(x) /\ GoTo(x, IF is_timeout[x] THEN "fail" ELSE "recv")
     \/ UNCHANGED requests /\ GoTo(x, IF is_timeout[x] THEN "fail" ELSE "send")
  /\ UNCHANGED <<control, switch, fdvars, batch, timer, cause, wire, served, m_error_code, async>>

\* The timer came between the second connect() and output().
SendTooLate(x) ==
  /\ At(x, "send") /\ is_timeout[x] /\ GoTo(x, "fail")
  /\ UNCHANGED <<control, switch, fdvars, fdevent, batch, timer, cause, wire, server,
                 m_error_code, async, astray>>

\* FlconcPbRpcDispacther::dispatch: what the reply says, and if the method ran.
Dispatch(request) ==
  IF "name" \notin request THEN "PARSE_SERVICE_NAME"
  ELSE IF "service" \notin request THEN "SERVICE_NOT_FOUND"
  ELSE IF "method" \notin request THEN "METHOD_NOT_FOUND"
  ELSE IF "body" \notin request \/ "response" \notin request THEN "FAILED_SERIALIZE"
  ELSE "OK"
Runs(request) == {"name", "service", "method", "body"} \subseteq request

\* Mutant: a part of the reply passes for all of it.
GetReply_Part(x) ==
  /\ At(x, "recv") /\ taken[x] > 0
  /\ LET code == Dispatch(prog.request[x]) IN
       GiveUp(x, IF code = "OK" /\ "parse" \notin prog.request[x] THEN "FAILED_DESERIALIZE" ELSE code)
  /\ UNCHANGED <<control, switch, fdvars, fdevent, batch, m_reactor, conn_timer, is_timeout, dead,
                 cause, wire, server, async, astray>>

\* Mutant: the timer event outlives the call.
GetReply_NoDel(x) ==
  /\ At(x, "recv") /\ taken[x] = ReplyParts
  /\ LET code == Dispatch(prog.request[x]) IN
       Return(x, IF code = "OK" /\ "parse" \notin prog.request[x] THEN "FAILED_DESERIALIZE" ELSE code)
  /\ UNCHANGED <<control, switch, fdvars, fdevent, batch, timer, cause, wire, server, async, astray>>

\* getResPackageData() finds the reply once execute() has decoded all of it;
\* its data is parsed before its err_code is looked at.
GetReply(x) ==
  /\ At(x, "recv") /\ taken[x] = ReplyParts
  /\ LET code == Dispatch(prog.request[x]) IN
       GiveUp(x, IF code = "OK" /\ "parse" \notin prog.request[x] THEN "FAILED_DESERIALIZE" ELSE code)
  /\ UNCHANGED <<control, switch, fdvars, fdevent, batch, m_reactor, conn_timer, is_timeout, dead,
                 cause, wire, server, async, astray>>

\* What a read that returns data leads to: the reply is looked for, unless the
\* time is over; but if the data fills the buffer, input() reads on.
Take(x) ==
  /\ taken[x] < arrived[x] /\ taken' = [taken EXCEPT ![x] = arrived[x]]
  /\ \/ is_timeout[x] /\ GoTo(x, "fail")
     \/ ~is_timeout[x] /\ \E after \in {"recv", "input"} : GoTo(x, after)

\* input(): the first read(), if the time is not over.
Receive(x) ==
  /\ At(x, "input") \/ (At(x, "recv") /\ taken[x] # ReplyParts /\ ~is_timeout[x])
  /\ Uses(x, conn_fd[x])
  /\ \/ Take(x) /\ UNCHANGED <<switch, m_coroutine>>
     \/ taken[x] = arrived[x] /\ HookWait(x, conn_fd[x], "reading") /\ UNCHANGED taken
  /\ UNCHANGED <<control, fdvars, batch, timer, cause, net, arrived, server, m_error_code, async>>

ReceiveTooLate(x) ==
  /\ At(x, "recv") /\ taken[x] # ReplyParts /\ is_timeout[x] /\ GoTo(x, "fail")
  /\ UNCHANGED <<control, switch, fdvars, fdevent, batch, timer, cause, wire, server,
                 m_error_code, async, astray>>

\* The second read(), which finds data, or nothing for the timer has come.
ReceiveAgain(x) ==
  /\ At(x, "read") /\ Uses(x, conn_fd[x]) /\ clearCoroutine(conn_fd[x])
  /\ \/ Take(x)
     \/ taken[x] = arrived[x] /\ is_timeout[x] /\ GoTo(x, "fail") /\ UNCHANGED taken
  /\ UNCHANGED <<control, switch, fdvars, batch, timer, cause, net, arrived, server, m_error_code, async>>

\* ... or the end of the stream, for which nothing to read is taken as well:
\* clearClient(), setCanResume(false), Yield.
ReceiveEof(x) ==
  /\ At(x, "read") /\ taken[x] = arrived[x] /\ ~is_timeout[x]
  /\ owner' = [owner EXCEPT ![conn_fd[x]] = NULL] /\ net' = [net EXCEPT ![x] = "new"]
  /\ Uses(x, conn_fd[x]) /\ clearCoroutine(conn_fd[x])
  /\ GoTo(x, "stuck") /\ Suspend(Runner(x))
  /\ UNCHANGED <<control, clash, misplaced, loose, early, m_fd, conn_fd, renumbered, batch, timer,
                 cause, arrived, taken, server, m_error_code, async>>

\* err_deal, reached when the time is over.
FailClose(x) ==
  /\ At(x, "fail") /\ Close(x, m_fd[x]) /\ GoTo(x, "failed")
  /\ UNCHANGED <<control, switch, m_fd, conn_fd, renumbered, batch, timer, cause, server,
                 m_error_code, async>>

\* Mutant: the closed number stays in m_fd, for the destructor to close again.
FailOpen_Keep(x) ==
  /\ At(x, "failed") /\ Return(x, "RPC_CALL_TIMEOUT")
  /\ UNCHANGED <<control, switch, fdvars, fdevent, batch, timer, cause, wire, server, async, astray>>

FailOpen(x) ==
  /\ At(x, "failed") /\ OpenSocket(x) /\ Return(x, "RPC_CALL_TIMEOUT")
  /\ UNCHANGED <<control, switch, conn_fd, renumbered, fdevent, batch, timer, cause, wire, server,
                 async, astray>>

\* CallMethod returns and ~TcpClient closes the socket.  An async call queues
\* its call_back at the caller's thread, and its coroutine is at its end.
End(x) ==
  LET k == Caller(x) IN
  /\ At(x, "ret") /\ Close(x, m_fd[x]) /\ GoTo(x, "done")
  /\ IF IsAsync(x)
       THEN /\ m_tasks' = [m_tasks EXCEPT ![m_current_iothread[x]] = Append(@, x)]
            /\ Suspend(x) /\ UNCHANGED <<kpc, ip>>
       ELSE /\ kpc' = [kpc EXCEPT ![k] = "run"] /\ NextOp(k) /\ UNCHANGED <<m_tasks, cur, thr>>
  /\ UNCHANGED <<prog, clash, misplaced, loose, early, m_fd, conn_fd, renumbered, batch, timer,
                 cause, server, m_error_code, m_current_iothread, m_is_finished, m_need_resume>>

-----------------------------------------------------------------------------
(* The loop of thread t.                                                   *)

Reported(x) ==
  \/ pc[x] = "connecting"
  \/ pc[x] = "sending"
  \/ pc[x] = "reading" /\ (taken[x] < arrived[x] \/ net[x] = "dead")

\* What epoll_wait may report: a descriptor for what its call waits for, and the
\* timerfd.
Reportable(t) ==
  {f \in FdNumbers :
     fd_reactor[f] = t /\ \E x \in Calls : /\ Reported(x)
                                           /\ f = IF pc[x] = "connecting" THEN m_fd[x] ELSE conn_fd[x]}
    \cup {f \in {m_timer_fd} : t \notin dead /\ On(t) # {}}

EpollReturn(t, S) ==
  /\ Idle(t) /\ S # {} /\ re_events' = [re_events EXCEPT ![t] = S]
  /\ UNCHANGED <<control, switch, pc, fdvars, fdevent, first_coroutine, m_task, due, raised,
                 timer, cause, wire, server, m_error_code, async, astray>>

Handling(t, f) ==
  Free(t) /\ due[t] = {} /\ f \in re_events[t] /\ re_events' = [re_events EXCEPT ![t] = @ \ {f}]

\* The first coroutine of a batch is kept for later, the others are left to
\* whichever IO thread comes first; an FdEvent without one has no callback.
HandleFd(t, f) ==
  /\ Handling(t, f)
  /\ \/ m_coroutine[f] = NULL /\ UNCHANGED <<first_coroutine, m_task, fd_reactor>>
     \/ /\ m_coroutine[f] # NULL /\ first_coroutine[t] = NULL
        /\ first_coroutine' = [first_coroutine EXCEPT ![t] = m_coroutine[f]]
        /\ UNCHANGED <<m_task, fd_reactor>>
     \/ /\ m_coroutine[f] # NULL /\ first_coroutine[t] # NULL
        /\ m_task' = Append(m_task, f) /\ fd_reactor' = [fd_reactor EXCEPT ![f] = NULL]
        /\ UNCHANGED first_coroutine
  /\ UNCHANGED <<control, switch, pc, fdvars, m_coroutine, due, raised, timer, cause, wire,
                 server, m_error_code, async, astray>>

\* onTimer(): takes the events S that are due.  As Timer has it, the timer may not
\* be armed again for those it leaves: its scan stopped at an event that was being
\* deleted, or a callback took too long.
OnTimer(t, S) ==
  /\ Handling(t, m_timer_fd) /\ S \subseteq On(t)
  /\ due' = [due EXCEPT ![t] = S] /\ m_pending_events' = m_pending_events \ S
  /\ dead' \in {dead} \cup {dead \cup {t} : d \in On(t) \ S}
  /\ UNCHANGED <<control, switch, pc, fdvars, fdevent, first_coroutine, m_task, raised,
                 m_reactor, conn_timer, is_timeout, cause, wire, server, m_error_code, async, astray>>

\* A callback that refers to the stack of a hook, or to a TcpClient, that is gone.
Dangling(t, c) ==
  /\ clash' = TRUE
  /\ misplaced' = (misplaced \/ thr[c] = t) /\ loose' = (loose \/ thr[c] # t)
  /\ UNCHANGED <<ip, kpc, cur, thr, early, pc>>

Callback(t, e) == Free(t) /\ e \in due[t] /\ due' = [due EXCEPT ![t] = @ \ {e}]

\* timeout_cb of connect_hook.  m_is_cancled is not tested any more.
ConnectTimeout(t, x) ==
  LET c == Runner(x) e == <<"conn", x>> IN
  /\ Callback(t, e)
  /\ IF conn_timer[x] = t THEN Resume(t, c, pc[x] = "connecting", OnItsWay(t, c, e)) ELSE Dangling(t, c)
  /\ UNCHANGED <<prog, fdvars, fdevent, re_events, first_coroutine, m_task, raised, timer,
                 cause, wire, server, m_error_code, async, astray>>

\* Mutant: timer_cb raises the flags only.
RpcTimeout_NoResume(t, x) ==
  LET c == Runner(x) e == <<"rpc", x>> IN
  /\ Callback(t, e)
  /\ \/ /\ pc[x] \notin {"ret", "done"} /\ is_timeout' = [is_timeout EXCEPT ![x] = TRUE]
        /\ UNCHANGED <<raised, switch, ip, kpc, pc>>
     \/ pc[x] \in {"ret", "done"} /\ Dangling(t, c) /\ UNCHANGED <<raised, is_timeout>>
  /\ UNCHANGED <<prog, fdvars, fdevent, re_events, first_coroutine, m_task, m_reactor,
                 conn_timer, m_pending_events, dead, cause, wire, server, m_error_code, async, astray>>

\* timer_cb of the call raises the flags ...
RpcTimeout(t, x) ==
  LET c == Runner(x) e == <<"rpc", x>> IN
  /\ Callback(t, e)
  /\ \/ /\ pc[x] \notin {"ret", "done"} /\ is_timeout' = [is_timeout EXCEPT ![x] = TRUE]
        /\ raised' = [raised EXCEPT ![t] = x] /\ UNCHANGED <<switch, ip, kpc, pc>>
     \/ pc[x] \in {"ret", "done"} /\ Dangling(t, c) /\ UNCHANGED <<raised, is_timeout>>
  /\ UNCHANGED <<prog, fdvars, fdevent, re_events, first_coroutine, m_task, m_reactor,
                 conn_timer, m_pending_events, dead, cause, wire, server, m_error_code, async, astray>>

\* ... and resumes the coroutine.
RpcTimeoutResume(t) ==
  LET x == raised[t] c == Runner(x) IN
  /\ x # NULL /\ cur[t] = NULL /\ raised' = [raised EXCEPT ![t] = NULL]
  /\ Resume(t, c, pc[x] \in DOMAIN Behind \cup {"stuck"}, OnItsWay(t, c, <<"rpc", x>>))
  /\ UNCHANGED <<prog, fdvars, fdevent, re_events, first_coroutine, m_task, due, timer,
                 cause, wire, server, m_error_code, async, astray>>

\* The next iteration resumes the first coroutine, wherever it may be by now ...
ResumeFirst(t) ==
  LET c == first_coroutine[t] IN
  /\ Free(t) /\ re_events[t] = {} /\ due[t] = {} /\ c # NULL
  /\ first_coroutine' = [first_coroutine EXCEPT ![t] = NULL]
  /\ Resume(t, c, Hooked(c) \/ Stuck(c), FALSE)
  /\ UNCHANGED <<prog, fdvars, fdevent, re_events, m_task, due, raised, timer, cause, wire,
                 server, m_error_code, async, astray>>

\* ... and the coroutines of the descriptors that are queued.
PopCoroutine(t) ==
  LET f == Head(m_task) c == m_coroutine[f] IN
  /\ Idle(t) /\ m_task # <<>> /\ m_task' = Tail(m_task)
  /\ fd_reactor' = [fd_reactor EXCEPT ![f] = t]
  /\ IF c = NULL THEN UNCHANGED <<switch, ip, kpc, pc>>
     ELSE Resume(t, c, Hooked(c) \/ Stuck(c), FALSE)
  /\ UNCHANGED <<prog, fdvars, m_coroutine, re_events, first_coroutine, due, raised, timer,
                 cause, wire, server, m_error_code, async, astray>>

\* call_back runs the closure and sets m_is_finished ...
Finish(t) ==
  /\ Idle(t) /\ m_tasks[t] # <<>>
  /\ m_is_finished' = [m_is_finished EXCEPT ![Head(m_tasks[t])] = TRUE]
  /\ UNCHANGED <<control, switch, pc, fdvars, fdevent, batch, timer, cause, wire, server,
                 m_error_code, m_current_iothread, m_need_resume, m_tasks, astray>>

\* ... and resumes the caller if m_need_resume is set.
FinishResume(t) ==
  LET x == Head(m_tasks[t]) k == Caller(x) IN
  /\ m_tasks[t] # <<>> /\ m_is_finished[x] /\ cur[t] = NULL
  /\ m_tasks' = [m_tasks EXCEPT ![t] = Tail(@)]
  /\ IF m_need_resume[x]
       THEN Resume(t, k, kpc[k] = "waiting" /\ Doing(k, "wait", x), OnItsWay(t, k, <<"rpc", x>>))
       ELSE UNCHANGED <<switch, ip, kpc, pc>>
  /\ UNCHANGED <<prog, fdvars, fdevent, batch, timer, cause, wire, server, m_error_code,
                 m_current_iothread, m_is_finished, m_need_resume, astray>>

-----------------------------------------------------------------------------
(* The server, and the network.                                            *)

Serve(x) ==
  /\ requests[x] > 0 /\ net[x] = "up"
  /\ requests' = [requests EXCEPT ![x] = @ - 1]
  /\ served' = [served EXCEPT ![x] = IF Runs(prog.request[x]) THEN @ + 1 ELSE @]
  /\ \E n \in 1..ReplyParts : arrived' = [arrived EXCEPT ![x] = n]
  /\ UNCHANGED <<control, switch, pc, fdvars, fdevent, batch, timer, cause, net, taken,
                 m_error_code, async, astray>>

Arrive(x) ==
  /\ net[x] = "up" /\ arrived[x] \in 1..(ReplyParts - 1)
  /\ arrived' = [arrived EXCEPT ![x] = @ + 1]
  /\ UNCHANGED <<control, switch, pc, fdvars, fdevent, batch, timer, cause, net, taken, server,
                 m_error_code, async, astray>>

PeerClose(x) ==
  /\ net[x] = "up" /\ net' = [net EXCEPT ![x] = "dead"]
  /\ UNCHANGED <<control, switch, pc, fdvars, fdevent, batch, timer, cause, arrived, taken, server,
                 m_error_code, async, astray>>

-----------------------------------------------------------------------------
CallStep(x) ==
  \/ Connect(x) \/ ConnectAgain(x) \/ ResetClose(x) \/ ResetOpen(x) \/ ConnectTooLate(x)
  \/ Send(x) \/ SendAgain(x) \/ SendTooLate(x)
  \/ GetReply(x) \/ Receive(x) \/ ReceiveTooLate(x) \/ ReceiveAgain(x) \/ ReceiveEof(x)
  \/ FailClose(x) \/ FailOpen(x) \/ End(x)

CallerStep(k) ==
  \/ EndCaller(k)
  \/ \E x \in Calls : \/ Hook(k, x) \/ SyncCall(k, x) \/ MakeChannel(k, x)
                      \/ Wait(k, x) \/ WaitYield(k, x)
                      \/ \E t \in Threads : AsyncCall(k, x, t)

\* What the loop of thread t runs.
LoopStep(t) ==
  \/ \E f \in FdNumbers : HandleFd(t, f)
  \/ \E S \in SUBSET On(t) : OnTimer(t, S)
  \/ \E x \in Calls : \/ ConnectTimeout(t, x) \/ RpcTimeout(t, x)
                      \/ thr[x] = t /\ BeginCall(x)
  \/ RpcTimeoutResume(t) \/ ResumeFirst(t) \/ PopCoroutine(t) \/ Finish(t) \/ FinishResume(t)

Environment ==
  \/ \E k \in Callers : BeginCaller(k) \/ \E t \in Threads : HookBack(k, t)
  \/ \E x \in Calls : Serve(x) \/ Arrive(x) \/ PeerClose(x)

Sound == ~clash /\ astray = {}  \* beyond, the code's behaviour is undefined

Next ==
  /\ Sound
  /\ \/ \E x \in Calls : CallStep(x)
     \/ \E k \in Callers : CallerStep(k)
     \/ \E t \in Threads : LoopStep(t) \/ \E S \in SUBSET Reportable(t) : EpollReturn(t, S)
     \/ Environment

\* Threads run: a coroutine goes on until it waits, a loop comes to its tasks.
\* The timerfd stays readable until it is handled, however often coroutines take
\* the thread in between, and an event is due sooner or later: strong fairness.
\* The server, the network and the other hooks promise nothing.
TimerReported(t) ==
  \E S \in SUBSET Reportable(t) : m_timer_fd \in S /\ EpollReturn(t, S)
TakenByTimer(x) ==
  \E t \in Threads : \E S \in SUBSET On(t) : <<"rpc", x>> \in S /\ OnTimer(t, S)

Fairness ==
  /\ \A x \in Calls : WF_vars(Sound /\ CallStep(x)) /\ SF_vars(Sound /\ TakenByTimer(x))
  /\ \A k \in Callers : WF_vars(Sound /\ CallerStep(k))
  /\ \A t \in Threads : SF_vars(Sound /\ LoopStep(t)) /\ SF_vars(Sound /\ TimerReported(t))

Spec == Init /\ [][Next]_vars /\ Fairness

-----------------------------------------------------------------------------
(* Properties.                                                             *)

\* A call connects, reads, writes and closes on a socket of its own, though
\* numbers are reused across threads as soon as they are free and a call opens
\* up to three sockets.  The exception the code makes: resetFd() can get another
\* number than the TcpConnection has, if a thread opens one in between.
OwnSocketOnly == astray # {} => renumbered # {}

\* err_code 0 means that the method ran, once, and its response was received;
\* the exception is a request that cannot be serialized, for which CallMethod
\* returns without an error.  No request is executed twice, whatever is retried.
OkMeansServed ==
  /\ \A x \in Calls : served[x] <= 1
  /\ \A x \in Calls : pc[x] = "done" /\ m_error_code[x] = "OK" =>
       \/ "serialize" \notin prog.request[x]
       \/ served[x] = 1 /\ taken[x] = ReplyParts /\ Virtues \subseteq prog.request[x]

\* Whatever fails, times out or is retried, on however many threads: a call is
\* executed at most once and has one result, which does not change; it is OK only
\* if the method ran and the whole answer came; and neither CallMethod() nor
\* wait() returns before the result is there, unless the caller is resumed out of
\* wait() by something that was meant for an earlier wait of its (early).
Over(x) == pc[x] = "done" \/ (pc[x] = "none" /\ m_is_finished[x])
Passed(k, x) ==
  \E i \in 1..Len(prog.script[k]) : i < ip[k] /\ prog.script[k][i] \in {<<"call", x>>, <<"wait", x>>}

Unsendable == {x \in Calls : ~ {"serialize", "encode"} \subseteq prog.request[x]}
Unreported == {x \in Calls : "serialize" \notin prog.request[x]}
Faulty == {x \in Calls : ~ Virtues \ {"serialize"} \subseteq prog.request[x]}
Begun == {x \in Calls : pc[x] # "none" \/ m_is_finished[x]}
Executed == {x \in Calls : served[x] = 1}
Received == {x \in Calls : taken[x] = ReplyParts}
Result == [x \in Calls |-> IF Over(x) THEN m_error_code[x] ELSE "none"]
Returned == {x \in Calls : \E k \in Callers : Passed(k, x)} \ early

RC == INSTANCE RemoteCall WITH
        Call <- Calls, OK <- "OK", Error <- Codes \ {"OK"}, NoResult <- "none",
        unsendable <- Unsendable, unreported <- Unreported, faulty <- Faulty, begun <- Begun,
        executed <- Executed, answered <- Received, result <- Result, returned <- Returned

ImplementsRemoteCall == RC!RCSpec

\* Nothing but its own hook or wait() is ended by resuming a coroutine, or by a
\* timer event that outlives its call, on the thread the coroutine was last on.
\* Excepted is what follows once something that was to wake a coroutine has been
\* overtaken by a timer event or the end of an async call, a thread has resumed a
\* coroutine that had moved to another one, or a descriptor was registered with
\* the epoll of a thread its coroutine had left (loose).
ResumedWhereItWaits == misplaced \/ early # {} => loose

\* A call ends, by its reply, an error or the timeout, and wait() returns.  The
\* ways the code has not to: a peer closes the connection before the reply is
\* there ("stuck"), a caller waits on another thread than the one its async call
\* reports to, which can miss it, the timer of the call's thread is dead or
\* delTimerEvent() for another event has taken the call's, and a connect() fails
\* at once for ever, so that the thread never comes to its timers.
Guarded(x) ==
  \/ pc[x] \in {"none", "queued", "ret", "done"} \/ is_timeout[x]
  \/ <<"rpc", x>> \in m_pending_events /\ m_reactor[x] \notin dead
  \/ \E t \in Threads : <<"rpc", x>> \in due[t]
Excused ==
  \/ ~Sound
  \/ \E x \in Calls : pc[x] = "stuck" \/ ~Guarded(x)
  \/ \E k \in Callers, x \in Calls : /\ kpc[k] = "waiting" /\ Doing(k, "wait", x)
                                     /\ thr[k] # m_current_iothread[x]
CallReturns ==
  \/ <>[](\E x \in Calls : pc[x] \in {"connect", "reset", "reopen"})
  \/ \A k \in Callers : kpc[k] \in {"in", "waiting"} ~> (kpc[k] \notin {"in", "waiting"} \/ Excused)
=============================================================================
