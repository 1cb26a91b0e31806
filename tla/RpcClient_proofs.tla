--------------------------- MODULE RpcClient_proofs ---------------------------
(***************************************************************************)
(* Proofs about RpcClient, for any threads, callers, calls and programs.   *)
(***************************************************************************)
EXTENDS RpcClient, TLAPS

Kpcs == {"new", "run", "hook", "in", "yield", "late", "waiting", "end"}
RunPcs == {"connect", "connected", "reset", "reopen", "send", "sent", "recv", "input", "read",
           "fail", "failed", "ret"}
WaitPcs == {"connecting", "sending", "reading"}
Pcs == RunPcs \cup WaitPcs \cup {"none", "queued", "stuck", "done"}
Ops == {"channel", "call", "async", "wait", "hook"}

\* A request reaches the server once at most, after which the call is past
\* sending it; the reply comes when it has been handled.
Answered == {"recv", "input", "reading", "read", "stuck", "fail", "failed", "ret", "done"}
Once ==
  \A x \in Calls :
    /\ requests[x] + served[x] <= 1 /\ taken[x] <= arrived[x]
    /\ requests[x] = 1 => arrived[x] = 0
    /\ arrived[x] > 0 /\ Runs(prog.request[x]) => served[x] = 1
    /\ pc[x] \notin Answered => requests[x] = 0 /\ served[x] = 0 /\ arrived[x] = 0

\* A call that has begun is in the script of a caller; call_backs are queued for
\* calls that are done, and only they can be finished.
InScript(x) == \E k \in Callers : \E i \in 1..Len(prog.script[k]) : Makes(prog.script[k][i], x)
Made ==
  /\ \A x \in Calls : pc[x] # "none" => InScript(x)
  /\ \A t \in Threads : \A i \in 1..Len(m_tasks[t]) : pc[m_tasks[t][i]] = "done"
  /\ \A x \in Calls : m_is_finished[x] => pc[x] \in {"none", "done"}

\* A call that its caller has not come to has not begun.
NotYet ==
  \A k \in Callers, x \in Calls : \A i \in 1..Len(prog.script[k]) :
    Makes(prog.script[k][i], x) /\ (i > ip[k] \/ (i = ip[k] /\ kpc[k] # "in"))
      => pc[x] = "none" /\ ~m_is_finished[x]

\* The time of a call is over only after it has begun, and it fails only then.
HasTimer(x) == <<"rpc", x>> \in m_pending_events \/ \E t \in Threads : <<"rpc", x>> \in due[t]
Timed ==
  \A x \in Calls :
    /\ HasTimer(x) \/ is_timeout[x] => pc[x] \notin {"none", "queued"}
    /\ pc[x] \in {"fail", "failed"} => is_timeout[x]

\* What a call that has ended has come to.
Sendable(x) == {"serialize", "encode"} \subseteq prog.request[x]
Answers ==
  \A x \in Calls :
    /\ pc[x] \notin {"none", "queued", "ret", "done"} => Sendable(x)
    /\ pc[x] \in {"ret", "done"} /\ m_error_code[x] = "OK" =>
         \/ "serialize" \notin prog.request[x]
         \/ served[x] = 1 /\ taken[x] = ReplyParts /\ Virtues \subseteq prog.request[x]
    /\ pc[x] \in {"none", "queued"} /\ ~m_is_finished[x] => m_error_code[x] = "OK"

-----------------------------------------------------------------------------
(* Who makes a call, and on which coroutine it runs.                       *)

LEMMA Scripts ==
  ASSUME TypeOK
  PROVE  /\ prog \in Programs
         /\ \A k \in Callers : prog.script[k] \in Seq(Ops \X Calls) /\ Len(prog.script[k]) \in Nat
         /\ \A x \in Calls : prog.request[x] \in SUBSET Virtues
<1>1. prog \in Programs BY DEF TypeOK
<1>2. prog.script \in [Callers -> Seq(Ops \X Calls)] /\ prog.request \in [Calls -> SUBSET Virtues]
  BY <1>1, ProgramsAssumption DEF Ops
<1>3. \A k \in Callers : prog.script[k] \in Seq(Ops \X Calls) BY <1>2
<1> QED BY <1>1, <1>2, <1>3

LEMMA MadeOnce ==
  ASSUME TypeOK, NEW k \in Callers, NEW l \in Callers, NEW x \in Calls,
         NEW i \in 1..Len(prog.script[k]), NEW j \in 1..Len(prog.script[l]),
         Makes(prog.script[k][i], x), Makes(prog.script[l][j], x)
  PROVE  k = l /\ i = j
BY Scripts, ProgramsAssumption

LEMMA CallerIs ==
  ASSUME TypeOK, NEW k \in Callers, NEW x \in Calls, NEW i \in 1..Len(prog.script[k]),
         Makes(prog.script[k][i], x)
  PROVE  Caller(x) = k
<1> DEFINE P(c) == \E j \in 1..Len(prog.script[c]) : Makes(prog.script[c][j], x)
<1>1. P(k) OBVIOUS
<1>2. \A l \in Callers : P(l) => l = k BY MadeOnce
<1>3. Caller(x) = CHOOSE c \in Callers : P(c) BY DEF Caller
<1> HIDE DEF P
<1> QED BY <1>1, <1>2, <1>3

LEMMA SyncRunner ==
  ASSUME TypeOK, NEW k \in Callers, NEW x \in Calls, NEW i \in 1..Len(prog.script[k]),
         prog.script[k][i] = <<"call", x>>
  PROVE  Caller(x) = k /\ ~IsAsync(x) /\ Runner(x) = k
<1>1. Makes(prog.script[k][i], x) BY DEF Makes
<1>2. Caller(x) = k BY <1>1, CallerIs
<1>3. ~IsAsync(x)
  <2> SUFFICES ASSUME <<"async", x>> \in Range(prog.script[k]) PROVE FALSE
    BY <1>2 DEF IsAsync
  <2>1. PICK j \in DOMAIN prog.script[k] : prog.script[k][j] = <<"async", x>> BY DEF Range
  <2>2. j \in 1..Len(prog.script[k]) BY <2>1, Scripts
  <2>3. Makes(prog.script[k][j], x) BY <2>1 DEF Makes
  <2>4. i = j BY <1>1, <2>2, <2>3, MadeOnce
  <2> QED BY <2>1, <2>4
<1> QED BY <1>2, <1>3 DEF Runner

LEMMA AsyncRunner ==
  ASSUME TypeOK, NEW k \in Callers, NEW x \in Calls, NEW i \in 1..Len(prog.script[k]),
         prog.script[k][i] = <<"async", x>>
  PROVE  Caller(x) = k /\ IsAsync(x) /\ Runner(x) = x
<1>1. Makes(prog.script[k][i], x) BY DEF Makes
<1>2. Caller(x) = k BY <1>1, CallerIs
<1>3. i \in DOMAIN prog.script[k] BY Scripts
<1>4. IsAsync(x) BY <1>2, <1>3 DEF IsAsync, Range
<1> QED BY <1>2, <1>4 DEF Runner

LEMMA InScriptRunner ==
  ASSUME TypeOK, NEW x \in Calls, InScript(x)
  PROVE  Caller(x) \in Callers /\ Runner(x) \in Coroutines
<1>1. PICK k \in Callers : \E i \in 1..Len(prog.script[k]) : Makes(prog.script[k][i], x)
  BY DEF InScript
<1>2. Caller(x) = k BY <1>1, CallerIs
<1> QED BY <1>2 DEF Runner, Coroutines

\* The coroutine of a call that has begun is one.
LEMMA Runners ==
  ASSUME TypeOK, Made, NEW x \in Calls, pc[x] # "none"
  PROVE  InScript(x) /\ Caller(x) \in Callers /\ Runner(x) \in Coroutines
BY InScriptRunner DEF Made

\* What a caller is about to make has not begun.
LEMMA Unmade ==
  ASSUME TypeOK, NotYet, NEW k \in Callers, NEW x \in Calls, NEW op \in {"call", "async"},
         kpc[k] # "in", Doing(k, op, x)
  PROVE  /\ ip[k] \in 1..Len(prog.script[k]) /\ prog.script[k][ip[k]] = <<op, x>>
         /\ Makes(prog.script[k][ip[k]], x) /\ InScript(x) /\ Caller(x) = k
         /\ pc[x] = "none" /\ ~m_is_finished[x]
<1>1. ip[k] \in Nat \ {0} BY DEF TypeOK
<1>2. ip[k] \in 1..Len(prog.script[k]) /\ prog.script[k][ip[k]] = <<op, x>>
  BY <1>1, Scripts DEF Doing, Op
<1>3. Makes(prog.script[k][ip[k]], x) BY <1>2 DEF Makes
<1>4. InScript(x) BY <1>2, <1>3 DEF InScript
<1> QED BY <1>2, <1>3, <1>4, CallerIs DEF NotYet

\* A caller waits for a call it has made before.
LEMMA WaitsForMade ==
  ASSUME TypeOK, NEW k \in Callers, NEW x \in Calls, Doing(k, "wait", x)
  PROVE  /\ InScript(x) /\ Caller(x) = k
         /\ \A l \in Callers : \A i \in 1..Len(prog.script[l]) :
              Makes(prog.script[l][i], x) =>
                l = k /\ i < ip[k] /\ prog.script[l][i] = <<"async", x>>
<1>1. ip[k] \in Nat \ {0} BY DEF TypeOK
<1>2. ip[k] \in 1..Len(prog.script[k]) /\ prog.script[k][ip[k]] = <<"wait", x>>
  BY <1>1, Scripts DEF Doing, Op
<1>3. PICK j \in 1..(ip[k] - 1) : prog.script[k][j] = <<"async", x>>
  BY <1>2, Scripts, ProgramsAssumption
<1>4. j \in 1..Len(prog.script[k]) /\ j < ip[k] BY <1>1, <1>2, <1>3, Scripts
<1>5. Makes(prog.script[k][j], x) BY <1>3 DEF Makes
<1> QED BY <1>3, <1>4, <1>5, MadeOnce, CallerIs DEF InScript

-----------------------------------------------------------------------------
(* The kinds of steps.                                                     *)

\* What a caller does outside of calls.
CallerMoves(k) ==
  \/ BeginCaller(k) \/ EndCaller(k) \/ \E t \in Threads : HookBack(k, t)
  \/ \E x \in Calls : Hook(k, x) \/ MakeChannel(k, x) \/ Wait(k, x) \/ WaitYield(k, x)
\* What the loop of a thread resumes ...
Wakes(t) ==
  \/ \E x \in Calls : ConnectTimeout(t, x) \/ RpcTimeout(t, x)
  \/ RpcTimeoutResume(t) \/ ResumeFirst(t) \/ PopCoroutine(t) \/ FinishResume(t)
\* ... and finds out.
Batches(t) ==
  \/ \E f \in FdNumbers : HandleFd(t, f)
  \/ \E S \in SUBSET On(t) : OnTimer(t, S)
  \/ \E S \in SUBSET Reportable(t) : EpollReturn(t, S)
Outside(x) == Serve(x) \/ Arrive(x) \/ PeerClose(x)

LEMMA Steps ==
  [Next]_vars =>
    \/ \E x \in Calls : CallStep(x) \/ BeginCall(x) \/ Outside(x)
    \/ \E k \in Callers, x \in Calls : SyncCall(k, x) \/ \E t \in Threads : AsyncCall(k, x, t)
    \/ \E k \in Callers : CallerMoves(k)
    \/ \E t \in Threads : Wakes(t) \/ Batches(t) \/ Finish(t)
    \/ UNCHANGED vars
BY DEF Next, CallerStep, LoopStep, Environment, CallerMoves, Wakes, Batches, Outside

\* A descriptor number that is free.
LEMMA OpenSocketDoes ==
  ASSUME NEW x \in Calls, OpenSocket(x)
  PROVE  \E f \in FdNumbers : /\ owner[f] = NULL
                              /\ m_fd' = [m_fd EXCEPT ![x] = f]
                              /\ owner' = [owner EXCEPT ![f] = x]
BY DEF OpenSocket, LowestFree

\* A timer that loses an event gets none.
LEMMA DelTimerEventDoes ==
  ASSUME NEW e, delTimerEvent(e)
  PROVE  m_pending_events' \subseteq m_pending_events
BY DEF delTimerEvent

\* A call begins: it goes on to connect, or has failed already.
LEMMA CallMethodDoes ==
  ASSUME TypeOK, NEW x \in Calls, NEW t, CallMethod(x, t)
  PROVE  /\ \E f \in FdNumbers : /\ owner[f] = NULL
                                 /\ m_fd' = [m_fd EXCEPT ![x] = f]
                                 /\ owner' = [owner EXCEPT ![f] = x]
                                 /\ conn_fd' = [conn_fd EXCEPT ![x] = f]
                                 /\ fd_reactor' = [fd_reactor EXCEPT ![f] = t]
         /\ m_reactor' = [m_reactor EXCEPT ![x] = t]
         /\ \/ /\ pc' = [pc EXCEPT ![x] = "connect"] /\ Sendable(x)
               /\ m_pending_events' = m_pending_events \cup {<<"rpc", x>>}
               /\ dead' \subseteq dead /\ m_error_code' = m_error_code
            \/ /\ pc' = [pc EXCEPT ![x] = "ret"] /\ ~Sendable(x)
               /\ UNCHANGED <<m_pending_events, dead>>
               /\ \/ m_error_code' = m_error_code /\ "serialize" \notin prog.request[x]
                  \/ m_error_code' = [m_error_code EXCEPT ![x] = "FAILED_ENCODE"]
         /\ UNCHANGED <<renumbered, m_coroutine, conn_timer, is_timeout>>
<1>1. PICK f \in FdNumbers : /\ owner[f] = NULL
                             /\ m_fd' = [m_fd EXCEPT ![x] = f]
                             /\ owner' = [owner EXCEPT ![f] = x]
  BY OpenSocketDoes DEF CallMethod
<1>2. m_fd'[x] = f BY <1>1 DEF TypeOK
<1>3. conn_fd' = [conn_fd EXCEPT ![x] = f] /\ fd_reactor' = [fd_reactor EXCEPT ![f] = t]
  BY <1>2 DEF CallMethod
<1>4. /\ m_reactor' = [m_reactor EXCEPT ![x] = t]
      /\ UNCHANGED <<renumbered, m_coroutine, conn_timer, is_timeout>>
  BY DEF CallMethod
<1>5. CASE Sendable(x)
  BY <1>1, <1>3, <1>4, <1>5 DEF CallMethod, GoTo, Sendable, addTimerEvent
<1>6. CASE ~Sendable(x)
  <2>1. /\ pc' = [pc EXCEPT ![x] = "ret"] /\ UNCHANGED <<m_pending_events, dead>>
        /\ m_error_code' = [m_error_code EXCEPT ![x] =
                 IF "serialize" \in prog.request[x] THEN "FAILED_ENCODE" ELSE @]
    BY <1>6 DEF CallMethod, GoTo, Sendable
  <2>2. \/ m_error_code' = m_error_code /\ "serialize" \notin prog.request[x]
        \/ m_error_code' = [m_error_code EXCEPT ![x] = "FAILED_ENCODE"]
    BY <2>1 DEF TypeOK
  <2> QED BY <1>1, <1>3, <1>4, <1>6, <2>1, <2>2
<1> QED BY <1>5, <1>6

\* Whatever epoll and the timer report, coroutines stay where they are.
LEMMA BatchesDo ==
  ASSUME NEW t \in Threads, Batches(t)
  PROVE  /\ UNCHANGED <<control, switch, pc, fdvars, is_timeout, cause, wire, server,
                        m_error_code, async, astray, m_coroutine, m_reactor, conn_timer, raised>>
         /\ \/ UNCHANGED <<m_pending_events, due>>
            \/ \E S \in SUBSET m_pending_events :
                 m_pending_events' = m_pending_events \ S /\ due' = [due EXCEPT ![t] = S]
<1>1. ASSUME NEW f \in FdNumbers, HandleFd(t, f)
      PROVE  UNCHANGED <<control, switch, pc, fdvars, timer, cause, wire, server, m_error_code,
                         async, astray, m_coroutine, raised, due>>
  BY <1>1 DEF HandleFd
<1>2. ASSUME NEW S \in SUBSET On(t), OnTimer(t, S)
      PROVE  /\ UNCHANGED <<control, switch, pc, fdvars, is_timeout, cause, wire, server,
                            m_error_code, async, astray, m_coroutine, m_reactor, conn_timer, raised>>
             /\ m_pending_events' = m_pending_events \ S /\ due' = [due EXCEPT ![t] = S]
             /\ S \in SUBSET m_pending_events
  BY <1>2 DEF OnTimer, fdevent, On
<1>3. ASSUME NEW S \in SUBSET Reportable(t), EpollReturn(t, S)
      PROVE  UNCHANGED <<control, switch, pc, fdvars, timer, cause, wire, server, m_error_code,
                         async, astray, m_coroutine, raised, due>>
  BY <1>3 DEF EpollReturn, fdevent
<1> QED BY <1>1, <1>2, <1>3 DEF Batches, timer

\* Resuming a coroutine ends what it waits for, if it waits.
WokenPcs == {"connected", "sent", "read"}
Woken(t) ==
  /\ cur[t] = NULL
  /\ \/ \E x \in Calls, w \in WokenPcs :
          /\ pc[x] \in WaitPcs /\ pc' = [pc EXCEPT ![x] = w]
          /\ w = "connected" <=> pc[x] = "connecting"
          /\ w = "sent" <=> pc[x] = "sending"
          /\ SwitchTo(t, Runner(x)) /\ UNCHANGED <<ip, kpc, early>>
     \/ \E k \in Callers :
          /\ kpc[k] \in {"hook", "waiting"} /\ kpc' = [kpc EXCEPT ![k] = "run"]
          /\ ip' = [ip EXCEPT ![k] = ip[k] + 1] /\ SwitchTo(t, k) /\ UNCHANGED pc
          /\ early' = early \cup {x \in Calls : /\ kpc[k] = "waiting" /\ Doing(k, "wait", x)
                                                /\ ~m_is_finished[x]}
StaysPut == UNCHANGED <<ip, kpc, pc, cur, thr, early>>

LEMMA ResumeDoes ==
  ASSUME TypeOK, NEW t, NEW c, NEW m, NEW o, Resume(t, c, m, o), cur[t] = NULL
  PROVE  /\ Woken(t) \/ StaysPut
         /\ misplaced' = (misplaced \/ (~m /\ thr[c] = t))
         /\ loose' = (loose \/ o \/ (~m /\ thr[c] # t))
         /\ clash' = clash \/ clash' = TRUE
<1>1. misplaced' = (misplaced \/ (~m /\ thr[c] = t)) /\ loose' = (loose \/ o \/ (~m /\ thr[c] # t))
  BY DEF Resume
<1>2. ASSUME NEW x \in Calls, Runner(x) = c, pc[x] \in DOMAIN Behind, GoTo(x, Behind[pc[x]]),
             SwitchTo(t, c), UNCHANGED <<ip, kpc, clash, early>>
      PROVE  Woken(t) /\ clash' = clash
  <2>1. pc[x] \in WaitPcs BY <1>2 DEF Behind, WaitPcs
  <2>2. /\ Behind[pc[x]] \in WokenPcs
        /\ Behind[pc[x]] = "connected" <=> pc[x] = "connecting"
        /\ Behind[pc[x]] = "sent" <=> pc[x] = "sending"
    BY <2>1 DEF Behind, WaitPcs, WokenPcs
  <2>3. pc' = [pc EXCEPT ![x] = Behind[pc[x]]] BY <1>2 DEF GoTo
  <2> QED BY <1>2, <2>1, <2>2, <2>3 DEF Woken
<1>3. ASSUME Waits(c), kpc' = [kpc EXCEPT ![c] = "run"], NextOp(c), SwitchTo(t, c),
             early' = early \cup {x \in Calls : /\ kpc[c] = "waiting" /\ Doing(c, "wait", x)
                                                /\ ~m_is_finished[x]},
             UNCHANGED <<pc, clash>>
      PROVE  Woken(t) /\ clash' = clash
  <2>1. c \in Callers /\ kpc[c] \in {"hook", "waiting"} BY <1>3 DEF Waits
  <2>2. ip' = [ip EXCEPT ![c] = ip[c] + 1] BY <1>3 DEF NextOp
  <2> QED BY <1>3, <2>1, <2>2 DEF Woken
<1>4. ASSUME UNCHANGED <<ip, kpc, pc, cur, thr, early>> PROVE StaysPut BY <1>4 DEF StaysPut
<1>5. \/ /\ \E x \in Calls : Runner(x) = c /\ pc[x] \in DOMAIN Behind /\ GoTo(x, Behind[pc[x]])
         /\ SwitchTo(t, c) /\ UNCHANGED <<ip, kpc, clash, early>>
      \/ /\ Waits(c) /\ kpc' = [kpc EXCEPT ![c] = "run"] /\ NextOp(c) /\ SwitchTo(t, c)
         /\ early' = early \cup {x \in Calls : /\ kpc[c] = "waiting" /\ Doing(c, "wait", x)
                                               /\ ~m_is_finished[x]}
         /\ UNCHANGED <<pc, clash>>
      \/ UNCHANGED <<ip, kpc, pc, cur, thr, clash, early>>
      \/ clash' = TRUE /\ UNCHANGED <<ip, kpc, pc, cur, thr, early>>
  BY DEF Resume
<1> QED BY <1>1, <1>2, <1>3, <1>4, <1>5

\* Nothing else happens to calls and callers, but that the time of a call is over.
WakesOnly(t) ==
  /\ Woken(t) \/ StaysPut
  /\ UNCHANGED <<prog, fdvars, wire, server, m_error_code, cause, m_current_iothread, m_is_finished,
                 m_need_resume, astray, m_reactor, conn_timer, m_pending_events, dead, m_coroutine,
                 re_events>>
  /\ misplaced' \in BOOLEAN /\ loose' \in BOOLEAN /\ clash' \in BOOLEAN
  /\ \/ UNCHANGED is_timeout
     \/ \E x \in Calls : <<"rpc", x>> \in due[t] /\ is_timeout' = [is_timeout EXCEPT ![x] = TRUE]
  /\ UNCHANGED due \/ \E e \in due[t] : due' = [due EXCEPT ![t] = @ \ {e}]
  /\ UNCHANGED raised \/ \E x \in Calls \cup {NULL} : raised' = [raised EXCEPT ![t] = x]
  /\ UNCHANGED first_coroutine \/ first_coroutine' = [first_coroutine EXCEPT ![t] = NULL]
  /\ \/ UNCHANGED <<m_task, fd_reactor>>
     \/ /\ m_task # <<>> /\ m_task' = Tail(m_task)
        /\ fd_reactor' = [fd_reactor EXCEPT ![Head(m_task)] = t]
  /\ UNCHANGED m_tasks \/ (m_tasks[t] # <<>> /\ m_tasks' = [m_tasks EXCEPT ![t] = Tail(@)])

LEMMA WakesDo ==
  ASSUME TypeOK, NEW t \in Threads, Wakes(t)
  PROVE  WakesOnly(t)
<1> DEFINE Flags == misplaced' \in BOOLEAN /\ loose' \in BOOLEAN /\ clash' \in BOOLEAN
<1>b. misplaced \in BOOLEAN /\ loose \in BOOLEAN /\ clash \in BOOLEAN BY DEF TypeOK
<1>d. ASSUME NEW c, Dangling(t, c) PROVE (Woken(t) \/ StaysPut) /\ Flags
  <2>1. StaysPut BY <1>d DEF Dangling, StaysPut
  <2>2. Flags BY <1>b, <1>d DEF Dangling
  <2> QED BY <2>1, <2>2
<1>s. ASSUME UNCHANGED <<switch, ip, kpc, pc>> PROVE (Woken(t) \/ StaysPut) /\ Flags
  <2>1. StaysPut BY <1>s DEF switch, StaysPut
  <2>2. Flags BY <1>b, <1>s DEF switch
  <2> QED BY <2>1, <2>2
<1>r. ASSUME NEW c, NEW m, NEW o, Resume(t, c, m, o), cur[t] = NULL
      PROVE  (Woken(t) \/ StaysPut) /\ Flags
  BY <1>b, <1>r, ResumeDoes
<1> HIDE DEF Flags
<1>1. ASSUME NEW x \in Calls, ConnectTimeout(t, x) PROVE WakesOnly(t)
  <2>1. cur[t] = NULL BY <1>1 DEF ConnectTimeout, Callback, Free
  <2>2. (Woken(t) \/ StaysPut) /\ Flags BY <1>1, <1>r, <1>d, <2>1 DEF ConnectTimeout
  <2>3. \E e \in due[t] : due' = [due EXCEPT ![t] = @ \ {e}] BY <1>1 DEF ConnectTimeout, Callback
  <2> QED BY <1>1, <2>2, <2>3 DEF ConnectTimeout, WakesOnly, Flags, fdvars, fdevent, timer, wire,
                                 server, async
<1>2. ASSUME NEW x \in Calls, RpcTimeout(t, x) PROVE WakesOnly(t)
  <2>2. (Woken(t) \/ StaysPut) /\ Flags BY <1>2, <1>s, <1>d DEF RpcTimeout
  <2>3. <<"rpc", x>> \in due[t] /\ due' = [due EXCEPT ![t] = @ \ {<<"rpc", x>>}]
    BY <1>2 DEF RpcTimeout, Callback
  <2>4. /\ UNCHANGED is_timeout \/ is_timeout' = [is_timeout EXCEPT ![x] = TRUE]
        /\ UNCHANGED raised \/ raised' = [raised EXCEPT ![t] = x]
    BY <1>2 DEF RpcTimeout
  <2> QED BY <1>2, <2>2, <2>3, <2>4 DEF RpcTimeout, WakesOnly, Flags, fdvars, fdevent, wire,
                                        server, async
<1>3. ASSUME RpcTimeoutResume(t) PROVE WakesOnly(t)
  <2>1. cur[t] = NULL BY <1>3 DEF RpcTimeoutResume
  <2>2. (Woken(t) \/ StaysPut) /\ Flags BY <1>3, <1>r, <2>1 DEF RpcTimeoutResume
  <2>3. raised' = [raised EXCEPT ![t] = NULL] BY <1>3 DEF RpcTimeoutResume
  <2> QED BY <1>3, <2>2, <2>3 DEF RpcTimeoutResume, WakesOnly, Flags, fdvars, fdevent, timer, wire,
                                  server, async
<1>4. ASSUME ResumeFirst(t) PROVE WakesOnly(t)
  <2>1. cur[t] = NULL BY <1>4 DEF ResumeFirst, Free
  <2>2. (Woken(t) \/ StaysPut) /\ Flags BY <1>4, <1>r, <2>1 DEF ResumeFirst
  <2>3. first_coroutine' = [first_coroutine EXCEPT ![t] = NULL] BY <1>4 DEF ResumeFirst
  <2> QED BY <1>4, <2>2, <2>3 DEF ResumeFirst, WakesOnly, Flags, fdvars, fdevent, timer, wire,
                                  server, async
<1>5. ASSUME PopCoroutine(t) PROVE WakesOnly(t)
  <2>1. cur[t] = NULL BY <1>5 DEF PopCoroutine, Idle, Free
  <2>2. (Woken(t) \/ StaysPut) /\ Flags BY <1>5, <1>r, <1>s, <2>1 DEF PopCoroutine
  <2>3. /\ m_task # <<>> /\ m_task' = Tail(m_task)
        /\ fd_reactor' = [fd_reactor EXCEPT ![Head(m_task)] = t]
    BY <1>5 DEF PopCoroutine
  <2> QED BY <1>5, <2>2, <2>3 DEF PopCoroutine, WakesOnly, Flags, fdvars, timer, wire, server, async
<1>6. ASSUME FinishResume(t) PROVE WakesOnly(t)
  <2>1. cur[t] = NULL BY <1>6 DEF FinishResume
  <2>2. (Woken(t) \/ StaysPut) /\ Flags BY <1>6, <1>r, <1>s, <2>1 DEF FinishResume
  <2>3. m_tasks[t] # <<>> /\ m_tasks' = [m_tasks EXCEPT ![t] = Tail(@)] BY <1>6 DEF FinishResume
  <2> QED BY <1>6, <2>2, <2>3 DEF FinishResume, WakesOnly, Flags, fdvars, fdevent, batch, timer, wire,
                                  server
<1> QED BY <1>1, <1>2, <1>3, <1>4, <1>5, <1>6 DEF Wakes

\* What a caller does is its own: calls stay as they are.
LEMMA CallerMovesDo ==
  ASSUME NEW k \in Callers, CallerMoves(k)
  PROVE  /\ UNCHANGED <<prog, pc, fdvars, fdevent, batch, timer, cause, wire, server, m_error_code,
                        m_is_finished, m_tasks, astray, clash, misplaced, loose, early>>
         /\ kpc[k] \in {"new", "run", "hook", "yield", "late"}
         /\ kpc' = kpc \/ \E w \in {"run", "hook", "end", "yield", "late", "waiting"} :
                            kpc' = [kpc EXCEPT ![k] = w]
         /\ ip' = ip \/ ip' = [ip EXCEPT ![k] = @ + 1]
<1>1. ASSUME BeginCaller(k) \/ EndCaller(k) \/ \E t \in Threads : HookBack(k, t)
      PROVE  /\ UNCHANGED <<prog, pc, fdvars, fdevent, batch, timer, cause, wire, server, m_error_code,
                            m_is_finished, m_tasks, astray, clash, misplaced, loose, early>>
             /\ kpc[k] \in {"new", "run", "hook"}
             /\ kpc' = [kpc EXCEPT ![k] = "run"] \/ kpc' = [kpc EXCEPT ![k] = "end"]
             /\ ip' = ip \/ ip' = [ip EXCEPT ![k] = @ + 1]
  BY <1>1 DEF BeginCaller, EndCaller, HookBack, NextOp, async
<1>2. ASSUME NEW x \in Calls, Hook(k, x) \/ WaitYield(k, x)
      PROVE  /\ UNCHANGED <<prog, pc, fdvars, fdevent, batch, timer, cause, wire, server, m_error_code,
                            m_is_finished, m_tasks, astray, clash, misplaced, loose, early, ip>>
             /\ kpc[k] \in {"run", "yield", "late"}
             /\ kpc' = [kpc EXCEPT ![k] = "hook"] \/ kpc' = [kpc EXCEPT ![k] = "waiting"]
  BY <1>2 DEF Hook, WaitYield, async
<1>3. ASSUME NEW x \in Calls, MakeChannel(k, x)
      PROVE  /\ UNCHANGED <<prog, pc, fdvars, fdevent, batch, timer, cause, wire, server, m_error_code,
                            m_is_finished, m_tasks, astray, clash, misplaced, loose, early, kpc>>
             /\ kpc[k] = "run" /\ ip' = [ip EXCEPT ![k] = @ + 1]
  BY <1>3 DEF MakeChannel, NextOp, switch
<1>4. ASSUME NEW x \in Calls, Wait(k, x)
      PROVE  /\ UNCHANGED <<prog, pc, fdvars, fdevent, batch, timer, cause, wire, server, m_error_code,
                            m_is_finished, m_tasks, astray, clash, misplaced, loose, early>>
             /\ kpc[k] = "run"
             /\ kpc' = kpc \/ \E w \in {"yield", "late"} : kpc' = [kpc EXCEPT ![k] = w]
             /\ ip' = ip \/ ip' = [ip EXCEPT ![k] = @ + 1]
  BY <1>4 DEF Wait, NextOp, switch
<1> QED BY <1>1, <1>2, <1>3, <1>4 DEF CallerMoves

\* A step of a call is a step of a coroutine that runs; it goes on elsewhere.
NextPcs == RunPcs \cup WaitPcs \cup {"stuck", "done"}
LEMMA CallStepMoves ==
  ASSUME TypeOK, NEW x \in Calls, CallStep(x)
  PROVE  /\ pc[x] \in RunPcs /\ Running(Runner(x))
         /\ \E w \in NextPcs : pc' = [pc EXCEPT ![x] = w]
<1>1. pc[x] \in RunPcs /\ Running(Runner(x))
  BY DEF CallStep, Connect, ConnectAgain, ResetClose, ResetOpen, ConnectTooLate, Send, SendAgain,
         SendTooLate, GetReply, Receive, ReceiveTooLate, ReceiveAgain, ReceiveEof, FailClose,
         FailOpen, End, At, RunPcs
<1> DEFINE Goes == \E w \in NextPcs : pc' = [pc EXCEPT ![x] = w]
<1>2. \A w \in NextPcs : GoTo(x, w) => Goes BY DEF GoTo
<1>3. {"connect", "connecting", "connected", "reset", "reopen", "send", "sending", "sent",
       "recv", "input", "reading", "read", "stuck", "fail", "failed", "ret", "done"} \subseteq NextPcs
  BY DEF NextPcs, RunPcs, WaitPcs
<1> HIDE DEF Goes
<1> USE <1>2, <1>3
<1>4. Connect(x) \/ ConnectAgain(x) \/ ResetClose(x) => Goes
  BY DEF Connect, ConnectAgain, ResetClose, HookWait
<1>5. ResetOpen(x) \/ ConnectTooLate(x) => Goes BY DEF ResetOpen, ConnectTooLate, GiveUp, Return
<1>6. Send(x) \/ SendTooLate(x) => Goes BY DEF Send, SendTooLate, HookWait
<1>7. SendAgain(x) => Goes BY DEF SendAgain
<1>8. GetReply(x) \/ FailOpen(x) => Goes BY DEF GetReply, FailOpen, GiveUp, Return
<1>9. Receive(x) \/ ReceiveAgain(x) \/ ReceiveTooLate(x) => Goes
  BY DEF Receive, ReceiveAgain, ReceiveTooLate, Take, HookWait
<1>10. ReceiveEof(x) \/ FailClose(x) \/ End(x) => Goes BY DEF ReceiveEof, FailClose, End
<1>11. Goes BY <1>4, <1>5, <1>6, <1>7, <1>8, <1>9, <1>10 DEF CallStep
<1> QED BY <1>1, <1>11 DEF Goes

\* Until its end a call changes nothing of its caller's or of the loops', and then
\* it lets the caller go on, or queues its call_back.
LEMMA CallStepKeeps ==
  ASSUME NEW x \in Calls, CallStep(x)
  PROVE  /\ UNCHANGED dead \/ Connect(x)
         /\ UNCHANGED <<prog, batch, early, misplaced, loose, is_timeout, m_reactor,
                        m_need_resume, m_is_finished, m_current_iothread>>
         /\ End(x) \/ UNCHANGED <<ip, kpc, m_tasks>>
         /\ m_pending_events' \subseteq m_pending_events \cup {<<"conn", x>>}
BY DelTimerEventDoes
   DEF CallStep, Connect, ConnectAgain, ResetClose, ResetOpen, ConnectTooLate, Send, SendAgain,
       SendTooLate, GetReply, Receive, ReceiveTooLate, ReceiveAgain, ReceiveEof, FailClose,
       FailOpen, End, control, async, switch, timer, batch, GiveUp, HookWait, addTimerEvent

\* A call_back that is queued is that of a call that is done.
LEMMA TasksDo ==
  ASSUME TypeOK, NEW t \in Threads,
         m_tasks' = m_tasks \/ (m_tasks[t] # <<>> /\ m_tasks' = [m_tasks EXCEPT ![t] = Tail(@)])
  PROVE  \A u \in Threads : \A i \in 1..Len(m_tasks'[u]) :
           \E j \in 1..Len(m_tasks[u]) : m_tasks'[u][i] = m_tasks[u][j]
<1>0. m_tasks \in [Threads -> Seq(Calls)] BY DEF TypeOK
<1> SUFFICES ASSUME NEW u \in Threads, NEW i \in 1..Len(m_tasks'[u])
             PROVE  \E j \in 1..Len(m_tasks[u]) : m_tasks'[u][i] = m_tasks[u][j]
  OBVIOUS
<1>1. CASE m_tasks'[u] = m_tasks[u] BY <1>1
<1>2. CASE m_tasks'[u] # m_tasks[u]
  <2>1. m_tasks'[u] = Tail(m_tasks[u]) /\ m_tasks[u] # <<>> /\ m_tasks[u] \in Seq(Calls)
    BY <1>0, <1>2
  <2>2. i + 1 \in 1..Len(m_tasks[u]) /\ m_tasks'[u][i] = m_tasks[u][i + 1] BY <2>1
  <2> QED BY <2>2
<1> QED BY <1>1, <1>2

\* A call that is woken goes on behind its hook.
LEMMA PcsWoken ==
  ASSUME TypeOK, NEW t, WakesOnly(t)
  PROVE  \A y \in Calls : pc'[y] = pc[y] \/ (pc[y] \in WaitPcs /\ pc'[y] \in WokenPcs)
<1>0. pc \in [Calls -> Pcs] BY DEF TypeOK, Pcs, RunPcs, WaitPcs
<1>1. CASE Woken(t) BY <1>0, <1>1 DEF Woken
<1>2. CASE StaysPut BY <1>2 DEF StaysPut
<1> QED BY <1>1, <1>2 DEF WakesOnly

LEMMA MadeMoves ==
  ASSUME TypeOK, Made, NEW x \in Calls, InScript(x), ~m_is_finished[x], pc[x] # "done", NEW w \in Pcs,
         pc' = pc \/ pc' = [pc EXCEPT ![x] = w], UNCHANGED <<prog, m_tasks, m_is_finished>>
  PROVE  Made'
<1>0. pc \in [Calls -> Pcs] /\ m_tasks \in [Threads -> Seq(Calls)]
  BY DEF TypeOK, Pcs, RunPcs, WaitPcs
<1> QED BY <1>0 DEF Made, InScript

LEMMA MadeStep == TypeOK /\ Made /\ NotYet /\ [Next]_vars => Made'
<1> SUFFICES ASSUME TypeOK, Made, NotYet, [Next]_vars PROVE Made'
  OBVIOUS
<1>0. /\ pc \in [Calls -> Pcs] /\ m_tasks \in [Threads -> Seq(Calls)]
      /\ m_is_finished \in [Calls -> BOOLEAN]
  BY DEF TypeOK, Pcs, RunPcs, WaitPcs
<1>1. CASE UNCHANGED <<pc, m_tasks, prog, m_is_finished>> BY <1>0, <1>1 DEF Made, InScript
<1>2. ASSUME NEW x \in Calls, CallStep(x) PROVE Made'
  <2>1. PICK w \in NextPcs : pc[x] \in RunPcs /\ pc' = [pc EXCEPT ![x] = w] BY <1>2, CallStepMoves
  <2>2. InScript(x) /\ ~m_is_finished[x] /\ pc[x] # "done" /\ w \in Pcs
    BY <2>1 DEF Made, RunPcs, NextPcs, Pcs
  <2>3. CASE UNCHANGED m_tasks BY <1>2, <2>1, <2>2, <2>3, CallStepKeeps, MadeMoves
  <2>4. CASE End(x)
    <3>1. pc' = [pc EXCEPT ![x] = "done"] /\ UNCHANGED <<prog, m_is_finished>> BY <2>4 DEF End, GoTo
    <3>2. \A t \in Threads : \A i \in 1..Len(m_tasks'[t]) :
            \/ m_tasks'[t][i] = x
            \/ i \in 1..Len(m_tasks[t]) /\ m_tasks'[t][i] = m_tasks[t][i]
      <4>1. CASE IsAsync(x)
        <5>1. m_tasks' = [m_tasks EXCEPT ![m_current_iothread[x]] = Append(@, x)]
          BY <2>4, <4>1 DEF End
        <5> QED BY <1>0, <5>1
      <4>2. CASE ~IsAsync(x) BY <1>0, <2>4, <4>2 DEF End
      <4> QED BY <4>1, <4>2
    <3>3. \A t \in Threads : \A i \in 1..Len(m_tasks[t]) : m_tasks[t][i] \in Calls BY <1>0
    <3>4. \A t \in Threads : \A i \in 1..Len(m_tasks'[t]) : pc'[m_tasks'[t][i]] = "done"
      BY <1>0, <3>1, <3>2, <3>3 DEF Made
    <3>5. \A y \in Calls : pc'[y] # "none" => InScript(y)
      BY <1>0, <2>1, <3>1 DEF Made, RunPcs
    <3>6. \A y \in Calls : m_is_finished'[y] => pc'[y] \in {"none", "done"}
      BY <1>0, <3>1 DEF Made
    <3> QED BY <3>1, <3>4, <3>5, <3>6 DEF Made, InScript
  <2> QED BY <1>2, <2>3, <2>4, CallStepKeeps
<1>3. ASSUME NEW k \in Callers, NEW x \in Calls, SyncCall(k, x) PROVE Made'
  <2>1. InScript(x) /\ pc[x] = "none" /\ ~m_is_finished[x] BY <1>3, Unmade DEF SyncCall
  <2>2. UNCHANGED <<prog, m_tasks, m_is_finished>> BY <1>3 DEF SyncCall, async
  <2>3. pc' = [pc EXCEPT ![x] = "connect"] \/ pc' = [pc EXCEPT ![x] = "ret"]
    BY <1>3, CallMethodDoes DEF SyncCall
  <2> QED BY <2>1, <2>2, <2>3, MadeMoves DEF Pcs, RunPcs
<1>4. ASSUME NEW k \in Callers, NEW x \in Calls, NEW t \in Threads, AsyncCall(k, x, t) PROVE Made'
  <2>1. InScript(x) /\ pc[x] = "none" /\ ~m_is_finished[x] BY <1>4, Unmade DEF AsyncCall
  <2>2. UNCHANGED <<prog, m_tasks>>
    BY <1>4 DEF AsyncCall
  <2>3. CASE pc' = [pc EXCEPT ![x] = "queued"] /\ UNCHANGED m_is_finished
    BY <2>1, <2>2, <2>3, MadeMoves DEF Pcs
  <2>4. CASE pc' = pc /\ m_is_finished' = [m_is_finished EXCEPT ![x] = TRUE]
    BY <1>0, <2>1, <2>2, <2>4 DEF Made, InScript
  <2> QED BY <1>4, <2>3, <2>4 DEF AsyncCall, GoTo
<1>5. ASSUME NEW x \in Calls, BeginCall(x) PROVE Made'
  <2>1. /\ InScript(x) /\ pc[x] = "queued" /\ ~m_is_finished[x]
        /\ UNCHANGED <<prog, m_tasks, m_is_finished>>
    BY <1>5 DEF Made, BeginCall, control, async
  <2>2. pc' = [pc EXCEPT ![x] = "connect"] \/ pc' = [pc EXCEPT ![x] = "ret"]
    BY <1>5, CallMethodDoes DEF BeginCall
  <2> QED BY <2>1, <2>2, MadeMoves DEF Pcs, RunPcs
<1>6. ASSUME NEW t \in Threads, Wakes(t) PROVE Made'
  <2>0. WakesOnly(t) BY <1>6, WakesDo
  <2>1. UNCHANGED <<prog, m_is_finished>> BY <2>0 DEF WakesOnly
  <2>2. \A u \in Threads : \A i \in 1..Len(m_tasks'[u]) :
          \E j \in 1..Len(m_tasks[u]) : m_tasks'[u][i] = m_tasks[u][j]
    BY <2>0, TasksDo DEF WakesOnly
  <2>3. \A y \in Calls : pc'[y] = pc[y] \/ (pc[y] \in WaitPcs /\ pc'[y] \in WokenPcs)
    BY <2>0, PcsWoken
  <2>4. \A y \in Calls : \/ pc'[y] = pc[y]
                         \/ pc[y] \notin {"none", "done"} /\ InScript(y)
    BY <2>3 DEF WaitPcs, Made
  <2>5. \A t1 \in Threads : \A i \in 1..Len(m_tasks[t1]) : m_tasks[t1][i] \in Calls BY <1>0
  <2>6. \A u \in Threads : \A i \in 1..Len(m_tasks'[u]) : pc'[m_tasks'[u][i]] = "done"
    BY <2>2, <2>4, <2>5 DEF Made
  <2> QED BY <2>1, <2>4, <2>6 DEF Made, InScript
<1>7. ASSUME NEW k \in Callers, CallerMoves(k) PROVE Made' BY <1>1, <1>7, CallerMovesDo
<1>8. ASSUME NEW x \in Calls, Outside(x) PROVE Made'
  BY <1>1, <1>8 DEF Outside, Serve, Arrive, PeerClose, control, async
<1>9. ASSUME NEW t \in Threads, Batches(t) PROVE Made' BY <1>1, <1>9, BatchesDo DEF control, async
<1>10. ASSUME NEW t \in Threads, Finish(t) PROVE Made'
  <2>1. UNCHANGED <<pc, m_tasks, prog>> /\ m_tasks[t] # <<>>
        /\ m_is_finished' = [m_is_finished EXCEPT ![Head(m_tasks[t])] = TRUE]
    BY <1>10 DEF Finish, control
  <2>2. Head(m_tasks[t]) = m_tasks[t][1] /\ 1 \in 1..Len(m_tasks[t])
        /\ Head(m_tasks[t]) \in Calls
    BY <1>0, <2>1
  <2>3. pc[Head(m_tasks[t])] = "done" BY <2>2 DEF Made
  <2> QED BY <1>0, <2>1, <2>2, <2>3 DEF Made, InScript
<1>11. CASE UNCHANGED vars BY <1>1, <1>11 DEF vars, control, async
<1> QED BY <1>2, <1>3, <1>4, <1>5, <1>6, <1>7, <1>8, <1>9, <1>10, <1>11, Steps

-----------------------------------------------------------------------------
\* What keeps NotYet: a caller goes on, and what a call gets it has begun.
LEMMA NotYetStays ==
  ASSUME TypeOK, NotYet, prog' = prog,
         \A k \in Callers : \/ ip'[k] = ip[k] /\ (kpc[k] = "in" => kpc'[k] = "in")
                            \/ ip'[k] = ip[k] + 1,
         \A x \in Calls :
           \/ pc[x] # "none" \/ m_is_finished[x]
           \/ pc'[x] = pc[x] /\ m_is_finished'[x] = m_is_finished[x]
           \/ \A k \in Callers : \A i \in 1..Len(prog.script[k]) :
                Makes(prog.script[k][i], x) => i < ip'[k] \/ (i = ip'[k] /\ kpc'[k] = "in")
  PROVE  NotYet'
<1>0. ip \in [Callers -> Nat \ {0}] BY DEF TypeOK
<1> SUFFICES ASSUME NEW k \in Callers, NEW x \in Calls, NEW i \in 1..Len(prog.script[k]),
                    Makes(prog.script[k][i], x), i > ip'[k] \/ (i = ip'[k] /\ kpc'[k] # "in")
             PROVE  pc'[x] = "none" /\ ~m_is_finished'[x]
  BY DEF NotYet
<1>1. i \in Nat /\ ip[k] \in Nat BY <1>0, Scripts
<1>2. i > ip[k] \/ (i = ip[k] /\ kpc[k] # "in")
  <2>1. CASE ip'[k] = ip[k] /\ (kpc[k] = "in" => kpc'[k] = "in") BY <2>1
  <2>2. CASE ip'[k] = ip[k] + 1 BY <1>1, <2>2
  <2> QED BY <2>1, <2>2
<1>3. pc[x] = "none" /\ ~m_is_finished[x] BY <1>2 DEF NotYet
<1>4. ~(i < ip'[k] \/ (i = ip'[k] /\ kpc'[k] = "in"))
  <2>1. ip'[k] \in Nat BY <1>1
  <2> QED BY <1>1, <2>1
<1> QED BY <1>3, <1>4

LEMMA NotYetStep == TypeOK /\ Made /\ NotYet /\ [Next]_vars => NotYet'
<1> SUFFICES ASSUME TypeOK, Made, NotYet, [Next]_vars PROVE NotYet'
  OBVIOUS
<1>0. /\ pc \in [Calls -> Pcs] /\ m_tasks \in [Threads -> Seq(Calls)]
      /\ ip \in [Callers -> Nat \ {0}] /\ kpc \in [Callers -> Kpcs]
      /\ m_is_finished \in [Calls -> BOOLEAN]
  BY DEF TypeOK, Pcs, RunPcs, WaitPcs, Kpcs
<1>1. ASSUME UNCHANGED <<prog, m_is_finished, ip, kpc>>,
             NEW x \in Calls, NEW w, pc[x] # "none", pc' = pc \/ pc' = [pc EXCEPT ![x] = w]
      PROVE  NotYet'
  BY <1>0, <1>1, NotYetStays
<1>2. ASSUME NEW k \in Callers, UNCHANGED <<prog, pc, m_is_finished>>,
             \/ ip' = ip /\ kpc[k] # "in"
             \/ ip' = [ip EXCEPT ![k] = @ + 1],
             kpc' = kpc \/ \E w : kpc' = [kpc EXCEPT ![k] = w]
      PROVE  NotYet'
  BY <1>0, <1>2, NotYetStays
<1>s. ASSUME UNCHANGED <<prog, pc, m_is_finished, ip, kpc>> PROVE NotYet' BY <1>s, NotYetStays
<1>3. ASSUME NEW x \in Calls, CallStep(x) PROVE NotYet'
  <2>1. PICK w \in NextPcs : pc[x] \in RunPcs /\ pc' = [pc EXCEPT ![x] = w] BY <1>3, CallStepMoves
  <2>2. CASE UNCHANGED <<ip, kpc>> BY <1>1, <1>3, <2>1, <2>2, CallStepKeeps DEF RunPcs
  <2>3. CASE End(x) /\ ~UNCHANGED <<ip, kpc>>
    <3>1. /\ ip' = [ip EXCEPT ![Caller(x)] = @ + 1] /\ kpc' = [kpc EXCEPT ![Caller(x)] = "run"]
          /\ UNCHANGED <<prog, m_is_finished>>
      BY <2>3 DEF End, NextOp
    <3>2. Caller(x) \in Callers BY <2>1, Runners DEF RunPcs
    <3>3. \A k \in Callers : \/ ip'[k] = ip[k] /\ (kpc[k] = "in" => kpc'[k] = "in")
                             \/ ip'[k] = ip[k] + 1
      BY <1>0, <3>1, <3>2
    <3>4. \A y \in Calls : pc[y] # "none" \/ pc'[y] = pc[y] BY <1>0, <2>1 DEF RunPcs
    <3> QED BY <3>1, <3>3, <3>4, NotYetStays
  <2> QED BY <1>3, <2>2, <2>3, CallStepKeeps
<1>4. ASSUME NEW k \in Callers, NEW x \in Calls, SyncCall(k, x) PROVE NotYet'
  <2>1. /\ Makes(prog.script[k][ip[k]], x) /\ ip[k] \in 1..Len(prog.script[k])
        /\ kpc' = [kpc EXCEPT ![k] = "in"] /\ UNCHANGED <<prog, ip, m_is_finished>>
    BY <1>4, Unmade DEF SyncCall, async
  <2>2. pc' = [pc EXCEPT ![x] = "connect"] \/ pc' = [pc EXCEPT ![x] = "ret"]
    BY <1>4, CallMethodDoes DEF SyncCall
  <2>3. \A l \in Callers : \A i \in 1..Len(prog.script[l]) :
          Makes(prog.script[l][i], x) => i < ip'[l] \/ (i = ip'[l] /\ kpc'[l] = "in")
    BY <1>0, <2>1, MadeOnce
  <2> QED BY <1>0, <2>1, <2>2, <2>3, NotYetStays
<1>5. ASSUME NEW k \in Callers, NEW x \in Calls, NEW t \in Threads, AsyncCall(k, x, t) PROVE NotYet'
  <2>1. /\ Makes(prog.script[k][ip[k]], x) /\ ip[k] \in 1..Len(prog.script[k])
        /\ ip' = [ip EXCEPT ![k] = @ + 1] /\ UNCHANGED <<prog, kpc>>
    BY <1>5, Unmade DEF AsyncCall, NextOp
  <2>2. \A y \in Calls : y # x => pc'[y] = pc[y] /\ m_is_finished'[y] = m_is_finished[y]
    BY <1>0, <1>5 DEF AsyncCall, GoTo
  <2>3. \A l \in Callers : \A i \in 1..Len(prog.script[l]) :
          Makes(prog.script[l][i], x) => i < ip'[l]
    <3> SUFFICES ASSUME NEW l \in Callers,
                        NEW i \in 1..Len(prog.script[l]), Makes(prog.script[l][i], x)
                 PROVE  i < ip'[l]
      OBVIOUS
    <3>1. l = k /\ i = ip[k] BY <2>1, MadeOnce
    <3> QED BY <1>0, <2>1, <3>1
  <2>4. \A l \in Callers : ip'[l] = ip[l] \/ ip'[l] = ip[l] + 1 BY <1>0, <2>1
  <2> QED BY <2>1, <2>2, <2>3, <2>4, NotYetStays
<1>6. ASSUME NEW x \in Calls, BeginCall(x) PROVE NotYet'
  <2>1. pc[x] = "queued" /\ UNCHANGED <<prog, ip, kpc, m_is_finished>>
    BY <1>6 DEF BeginCall, control, async
  <2>2. pc' = [pc EXCEPT ![x] = "connect"] \/ pc' = [pc EXCEPT ![x] = "ret"]
    BY <1>6, CallMethodDoes DEF BeginCall
  <2> QED BY <1>1, <2>1, <2>2
<1>7. ASSUME NEW t \in Threads, Wakes(t) PROVE NotYet'
  <2>0. WakesOnly(t) BY <1>7, WakesDo
  <2>1. UNCHANGED <<prog, m_is_finished>> BY <2>0 DEF WakesOnly
  <2>2. CASE StaysPut BY <1>s, <2>1, <2>2 DEF StaysPut
  <2>3. CASE Woken(t)
    <3>1. ASSUME NEW x \in Calls, NEW w \in WokenPcs, pc[x] \in WaitPcs, pc' = [pc EXCEPT ![x] = w],
                 UNCHANGED <<ip, kpc>>
          PROVE  NotYet'
      BY <1>1, <2>1, <3>1 DEF WaitPcs
    <3>2. ASSUME NEW k \in Callers, ip' = [ip EXCEPT ![k] = ip[k] + 1], UNCHANGED pc,
                 kpc' = [kpc EXCEPT ![k] = "run"]
          PROVE  NotYet'
      BY <1>2, <2>1, <3>2
    <3> QED BY <2>3, <3>1, <3>2 DEF Woken
  <2> QED BY <2>0, <2>2, <2>3 DEF WakesOnly
<1>8. ASSUME NEW k \in Callers, CallerMoves(k) PROVE NotYet'
  BY <1>2, <1>8, CallerMovesDo
<1>9. ASSUME NEW x \in Calls, Outside(x) PROVE NotYet'
  BY <1>s, <1>9 DEF Outside, Serve, Arrive, PeerClose, control, async
<1>10. ASSUME NEW t \in Threads, Batches(t) PROVE NotYet' BY <1>s, <1>10, BatchesDo DEF control, async
<1>11. ASSUME NEW t \in Threads, Finish(t) PROVE NotYet'
  <2>1. /\ UNCHANGED <<prog, ip, kpc, pc>> /\ m_tasks[t] # <<>>
        /\ m_is_finished' = [m_is_finished EXCEPT ![Head(m_tasks[t])] = TRUE]
    BY <1>11 DEF Finish, control
  <2>2. pc[Head(m_tasks[t])] = "done" BY <1>0, <2>1 DEF Made
  <2>3. \A y \in Calls : y # Head(m_tasks[t]) => m_is_finished'[y] = m_is_finished[y] BY <1>0, <2>1
  <2> QED BY <2>1, <2>2, <2>3, NotYetStays
<1>12. CASE UNCHANGED vars BY <1>s, <1>12 DEF vars, control, async
<1> QED BY <1>3, <1>4, <1>5, <1>6, <1>7, <1>8, <1>9, <1>10, <1>11, <1>12, Steps

-----------------------------------------------------------------------------
\* A call fails when its time is over.
LEMMA FailsLate ==
  ASSUME TypeOK, Timed, NEW x \in Calls, CallStep(x), pc'[x] \in {"fail", "failed"}
  PROVE  is_timeout[x]
<1>0. pc \in [Calls -> Pcs] BY DEF TypeOK, Pcs, RunPcs, WaitPcs
<1> DEFINE Late == pc'[x] \in {"fail", "failed"} => is_timeout[x]
<1>1. \A w : GoTo(x, w) => pc'[x] = w BY <1>0 DEF GoTo
<1> USE <1>1
<1>2. Connect(x) \/ ConnectAgain(x) \/ ResetClose(x) => Late
  BY DEF Connect, ConnectAgain, ResetClose, HookWait
<1>3. ResetOpen(x) \/ ConnectTooLate(x) => Late BY DEF ResetOpen, ConnectTooLate, GiveUp, Return
<1>4. Send(x) \/ SendTooLate(x) \/ SendAgain(x) => Late BY DEF Send, SendTooLate, SendAgain, HookWait
<1>5. GetReply(x) \/ FailOpen(x) => Late BY DEF GetReply, FailOpen, GiveUp, Return
<1>6. Receive(x) \/ ReceiveAgain(x) \/ ReceiveTooLate(x) => Late
  BY DEF Receive, ReceiveAgain, ReceiveTooLate, Take, HookWait
<1>7. ReceiveEof(x) \/ End(x) => Late BY DEF ReceiveEof, End
<1>8. FailClose(x) => Late BY DEF FailClose, At, Timed
<1> HIDE DEF Late
<1>9. Late BY <1>2, <1>3, <1>4, <1>5, <1>6, <1>7, <1>8 DEF CallStep
<1> QED BY <1>9 DEF Late

LEMMA TimedStep == TypeOK /\ Made /\ NotYet /\ Timed /\ [Next]_vars => Timed'
<1> SUFFICES ASSUME TypeOK, Made, NotYet, Timed, [Next]_vars PROVE Timed'
  OBVIOUS
<1>0. /\ pc \in [Calls -> Pcs] /\ is_timeout \in [Calls -> BOOLEAN]
      /\ due \in [Threads -> SUBSET Events]
  BY DEF TypeOK, Pcs, RunPcs, WaitPcs
<1>s. ASSUME UNCHANGED <<pc, is_timeout, m_pending_events, due>> PROVE Timed'
  BY <1>s DEF Timed, HasTimer
<1>2. ASSUME NEW x \in Calls, CallStep(x) PROVE Timed'
  <2>1. PICK w \in NextPcs : pc[x] \in RunPcs /\ pc' = [pc EXCEPT ![x] = w] BY <1>2, CallStepMoves
  <2>2. /\ UNCHANGED <<is_timeout, due>>
        /\ m_pending_events' \subseteq m_pending_events \cup {<<"conn", x>>}
    BY <1>2, CallStepKeeps DEF batch
  <2>3. \A y \in Calls : HasTimer(y)' => HasTimer(y) BY <2>2 DEF HasTimer
  <2>4. pc'[x] \in {"fail", "failed"} => is_timeout[x] BY <1>2, FailsLate
  <2>5. pc'[x] \notin {"none", "queued"} /\ \A y \in Calls : y # x => pc'[y] = pc[y]
    BY <1>0, <2>1 DEF NextPcs, RunPcs, WaitPcs
  <2> QED BY <2>2, <2>3, <2>4, <2>5 DEF Timed
<1>3. ASSUME NEW x \in Calls, NEW t, CallMethod(x, t), pc[x] \in {"none", "queued"},
             UNCHANGED due
      PROVE  Timed'
  <2>1. pc' = [pc EXCEPT ![x] = "connect"] \/ pc' = [pc EXCEPT ![x] = "ret"] BY <1>3, CallMethodDoes
  <2>2. UNCHANGED is_timeout /\ m_pending_events' \subseteq m_pending_events \cup {<<"rpc", x>>}
    BY <1>3, CallMethodDoes
  <2>3. \A y \in Calls : HasTimer(y)' => HasTimer(y) \/ y = x BY <1>3, <2>2 DEF HasTimer
  <2>4. pc'[x] \in {"connect", "ret"} /\ \A y \in Calls : y # x => pc'[y] = pc[y] BY <1>0, <2>1
  <2> QED BY <2>2, <2>3, <2>4 DEF Timed
<1>4. ASSUME NEW k \in Callers, NEW x \in Calls, SyncCall(k, x) PROVE Timed'
  <2>1. pc[x] = "none" BY <1>4, Unmade DEF SyncCall
  <2> QED BY <1>3, <1>4, <2>1 DEF SyncCall, batch
<1>5. ASSUME NEW k \in Callers, NEW x \in Calls, NEW t \in Threads, AsyncCall(k, x, t) PROVE Timed'
  <2>1. pc[x] = "none" BY <1>5, Unmade DEF AsyncCall
  <2>2. UNCHANGED <<is_timeout, m_pending_events, due>> BY <1>5 DEF AsyncCall, timer, batch
  <2>3. pc' = pc \/ pc' = [pc EXCEPT ![x] = "queued"] BY <1>5 DEF AsyncCall, GoTo
  <2>4. \A y \in Calls : \/ pc'[y] = pc[y]
                         \/ pc[y] = "none" /\ pc'[y] = "queued"
    BY <1>0, <2>1, <2>3
  <2>5. \A y \in Calls : HasTimer(y)' => HasTimer(y) BY <2>2 DEF HasTimer
  <2> QED BY <2>2, <2>4, <2>5 DEF Timed
<1>6. ASSUME NEW x \in Calls, BeginCall(x) PROVE Timed'
  BY <1>3, <1>6 DEF BeginCall, batch
<1>7. ASSUME NEW k \in Callers, CallerMoves(k) PROVE Timed'
  BY <1>7, <1>s, CallerMovesDo DEF timer, batch
<1>8. ASSUME NEW t \in Threads, Wakes(t) PROVE Timed'
  <2>0. WakesOnly(t) BY <1>8, WakesDo
  <2>1. /\ UNCHANGED m_pending_events
        /\ \A y \in Calls : is_timeout'[y] => is_timeout[y] \/ <<"rpc", y>> \in due[t]
        /\ \A u \in Threads : due'[u] \subseteq due[u]
    BY <1>0, <2>0 DEF WakesOnly
  <2>2. \A y \in Calls : pc'[y] = pc[y] \/ (pc[y] \in WaitPcs /\ pc'[y] \in WokenPcs)
    BY <2>0, PcsWoken
  <2>3. \A y \in Calls : HasTimer(y)' \/ is_timeout'[y] => HasTimer(y) \/ is_timeout[y]
    BY <2>1 DEF HasTimer
  <2>4. \A y \in Calls : is_timeout[y] => is_timeout'[y] BY <1>0, <2>0 DEF WakesOnly
  <2> QED BY <2>2, <2>3, <2>4 DEF Timed, WaitPcs, WokenPcs
<1>9. ASSUME NEW t \in Threads, Batches(t) PROVE Timed'
  <2>1. UNCHANGED <<pc, is_timeout>> BY <1>9, BatchesDo
  <2>2. \A y \in Calls : HasTimer(y)' => HasTimer(y)
    <3>1. CASE UNCHANGED <<m_pending_events, due>> BY <3>1 DEF HasTimer
    <3>2. ASSUME NEW S \in SUBSET m_pending_events,
                 m_pending_events' = m_pending_events \ S, due' = [due EXCEPT ![t] = S]
          PROVE  \A y \in Calls : HasTimer(y)' => HasTimer(y)
      BY <1>0, <3>2 DEF HasTimer
    <3> QED BY <1>9, <3>1, <3>2, BatchesDo
  <2> QED BY <2>1, <2>2 DEF Timed
<1>10. ASSUME NEW x \in Calls, Outside(x) PROVE Timed'
  BY <1>10, <1>s DEF Outside, Serve, Arrive, PeerClose, timer, batch
<1>11. ASSUME NEW t \in Threads, Finish(t) PROVE Timed' BY <1>11, <1>s DEF Finish, timer, batch
<1>12. CASE UNCHANGED vars BY <1>12, <1>s DEF vars, timer, batch
<1> QED BY <1>2, <1>4, <1>5, <1>6, <1>7, <1>8, <1>9, <1>10, <1>11, <1>12, Steps

\* Where a woken call goes on depends on where it waited.
LEMMA Behinds ==
  ASSUME TypeOK, NEW t, WakesOnly(t), NEW y \in Calls
  PROVE  \/ pc'[y] = pc[y]
         \/ pc[y] = "connecting" /\ pc'[y] = "connected"
         \/ pc[y] = "sending" /\ pc'[y] = "sent"
         \/ pc[y] = "reading" /\ pc'[y] = "read"
<1>0. pc \in [Calls -> Pcs] BY DEF TypeOK, Pcs, RunPcs, WaitPcs
<1>1. CASE Woken(t) BY <1>0, <1>1 DEF Woken, WokenPcs, WaitPcs
<1>2. CASE StaysPut BY <1>2 DEF StaysPut
<1> QED BY <1>1, <1>2 DEF WakesOnly

LEMMA OnceStep == TypeOK /\ NotYet /\ Once /\ [Next]_vars => Once'
<1> SUFFICES ASSUME TypeOK, NotYet, Once, [Next]_vars PROVE Once'
  OBVIOUS
<1>0. /\ pc \in [Calls -> Pcs]
      /\ requests \in [Calls -> 0..1] /\ served \in [Calls -> 0..1]
      /\ arrived \in [Calls -> 0..ReplyParts] /\ taken \in [Calls -> 0..ReplyParts]
  BY DEF TypeOK, Pcs, RunPcs, WaitPcs
<1>s. ASSUME UNCHANGED <<prog, pc, requests, served, arrived, taken>> PROVE Once'
  BY <1>s DEF Once, Answered, ReplyParts
<1>1. ASSUME NEW x \in Calls, Connect(x) PROVE Once'
  BY <1>0, <1>1 DEF Connect, At, GoTo, HookWait, Once, Answered, ReplyParts, control, server
<1>2. ASSUME NEW x \in Calls, ConnectAgain(x) PROVE Once'
  BY <1>0, <1>2 DEF ConnectAgain, At, GoTo, Once, Answered, ReplyParts, control, server
<1>3. ASSUME NEW x \in Calls, ResetClose(x) PROVE Once'
  BY <1>0, <1>3 DEF ResetClose, At, GoTo, Close, Once, Answered, ReplyParts, control, server
<1>4. ASSUME NEW x \in Calls, ResetOpen(x) PROVE Once'
  BY <1>0, <1>4
  DEF ResetOpen, At, GoTo, GiveUp, Return, Once, Answered, ReplyParts, control, wire, server
<1>5. ASSUME NEW x \in Calls, ConnectTooLate(x) PROVE Once'
  BY <1>0, <1>5
  DEF ConnectTooLate, At, GoTo, GiveUp, Return, Once, Answered, ReplyParts, control, wire, server
<1>6. ASSUME NEW x \in Calls, Send(x) PROVE Once'
  BY <1>0, <1>6 DEF Send, At, GoTo, Delivered, HookWait, Once, Answered, ReplyParts, control, wire
<1>7. ASSUME NEW x \in Calls, SendAgain(x) PROVE Once'
  BY <1>0, <1>7 DEF SendAgain, At, GoTo, Delivered, Once, Answered, ReplyParts, control, wire
<1>8. ASSUME NEW x \in Calls, SendTooLate(x) PROVE Once'
  BY <1>0, <1>8 DEF SendTooLate, At, GoTo, Once, Answered, ReplyParts, control, wire, server
<1>9. ASSUME NEW x \in Calls, GetReply(x) PROVE Once'
  BY <1>0, <1>9
  DEF GetReply, At, GoTo, GiveUp, Return, Once, Answered, ReplyParts, control, wire, server
<1>10. ASSUME NEW x \in Calls, Receive(x) PROVE Once'
  BY <1>0, <1>10 DEF Receive, At, GoTo, Take, HookWait, Once, Answered, ReplyParts, control, server
<1>11. ASSUME NEW x \in Calls, ReceiveTooLate(x) PROVE Once'
  BY <1>0, <1>11 DEF ReceiveTooLate, At, GoTo, Once, Answered, ReplyParts, control, wire, server
<1>12. ASSUME NEW x \in Calls, ReceiveAgain(x) PROVE Once'
  BY <1>0, <1>12 DEF ReceiveAgain, At, GoTo, Take, Once, Answered, ReplyParts, control, server
<1>13. ASSUME NEW x \in Calls, ReceiveEof(x) PROVE Once'
  BY <1>0, <1>13 DEF ReceiveEof, At, GoTo, Once, Answered, ReplyParts, control, server
<1>14. ASSUME NEW x \in Calls, FailClose(x) PROVE Once'
  BY <1>0, <1>14 DEF FailClose, At, GoTo, Close, Once, Answered, ReplyParts, control, server
<1>15. ASSUME NEW x \in Calls, FailOpen(x) PROVE Once'
  BY <1>0, <1>15 DEF FailOpen, At, GoTo, Return, Once, Answered, ReplyParts, control, wire, server
<1>16. ASSUME NEW x \in Calls, End(x) PROVE Once'
  BY <1>0, <1>16 DEF End, At, GoTo, Close, Once, Answered, ReplyParts, server
<1>17. ASSUME NEW x \in Calls, NEW t, CallMethod(x, t), pc[x] \in {"none", "queued"},
              UNCHANGED <<prog, wire, server>>
       PROVE  Once'
  BY <1>0, <1>17, CallMethodDoes DEF Once, Answered, ReplyParts, wire, server
<1>18. ASSUME NEW k \in Callers, NEW x \in Calls, SyncCall(k, x) PROVE Once'
  BY <1>17, <1>18, Unmade DEF SyncCall
<1>19. ASSUME NEW x \in Calls, BeginCall(x) PROVE Once'
  BY <1>17, <1>19 DEF BeginCall, control
<1>20. ASSUME NEW k \in Callers, NEW x \in Calls, NEW t \in Threads, AsyncCall(k, x, t) PROVE Once'
  BY <1>0, <1>20, Unmade DEF AsyncCall, GoTo, Once, Answered, ReplyParts, wire, server
<1>21. ASSUME NEW k \in Callers, CallerMoves(k) PROVE Once'
  BY <1>21, <1>s, CallerMovesDo DEF wire, server
<1>22. ASSUME NEW t \in Threads, Wakes(t) PROVE Once'
  <2>0. WakesOnly(t) BY <1>22, WakesDo
  <2>1. UNCHANGED <<prog, requests, served, arrived, taken>> BY <2>0 DEF WakesOnly, wire, server
  <2>2. \A y \in Calls : pc'[y] = pc[y] \/ (pc[y] \in WaitPcs /\ pc'[y] \in WokenPcs)
    BY <2>0, PcsWoken
  <2>3. \A y \in Calls : pc'[y] \notin Answered => pc[y] \notin Answered
    BY <2>0, <2>2, Behinds DEF Answered, WaitPcs, WokenPcs
  <2> QED BY <2>1, <2>3 DEF Once
<1>23. ASSUME NEW t \in Threads, Batches(t) PROVE Once'
  BY <1>23, <1>s, BatchesDo DEF control, wire, server
<1>24. ASSUME NEW x \in Calls, Serve(x) PROVE Once'
  BY <1>0, <1>24 DEF Serve, Once, Answered, ReplyParts, control
<1>25. ASSUME NEW x \in Calls, Arrive(x) PROVE Once'
  BY <1>0, <1>25 DEF Arrive, Once, Answered, ReplyParts, control, server
<1>26. ASSUME NEW x \in Calls, PeerClose(x) PROVE Once'
  BY <1>26, <1>s DEF PeerClose, control, server
<1>27. ASSUME NEW t \in Threads, Finish(t) PROVE Once'
  BY <1>27, <1>s DEF Finish, control, wire, server
<1>28. CASE UNCHANGED vars
  BY <1>28, <1>s DEF vars, control, wire, server
<1> QED
  BY <1>1, <1>2, <1>3, <1>4, <1>5, <1>6, <1>7, <1>8, <1>9, <1>10, <1>11, <1>12, <1>13, <1>14, <1>15,
     <1>16, <1>17, <1>18, <1>19, <1>20, <1>21, <1>22, <1>23, <1>24, <1>25, <1>26, <1>27, <1>28,
     Steps
  DEF CallStep, Outside

LEMMA AnswersStep == TypeOK /\ Made /\ NotYet /\ Timed /\ Once /\ Answers /\ [Next]_vars => Answers'
<1> SUFFICES ASSUME TypeOK, Made, NotYet, Timed, Once, Answers, [Next]_vars PROVE Answers'
  OBVIOUS
<1>0. /\ pc \in [Calls -> Pcs] /\ m_error_code \in [Calls -> Codes]
      /\ requests \in [Calls -> 0..1] /\ served \in [Calls -> 0..1]
      /\ arrived \in [Calls -> 0..ReplyParts] /\ taken \in [Calls -> 0..ReplyParts]
      /\ m_is_finished \in [Calls -> BOOLEAN]
  BY DEF TypeOK, Pcs, RunPcs, WaitPcs
<1>s. ASSUME UNCHANGED <<prog, pc, served, taken, m_error_code, m_is_finished>> PROVE Answers'
  BY <1>s DEF Answers, Sendable, ReplyParts
<1>1. ASSUME NEW x \in Calls, Connect(x) PROVE Answers'
  BY <1>0, <1>1
  DEF Connect, At, GoTo, HookWait, Answers, Sendable, ReplyParts, control, server, async
<1>2. ASSUME NEW x \in Calls, ConnectAgain(x) PROVE Answers'
  BY <1>0, <1>2 DEF ConnectAgain, At, GoTo, Answers, Sendable, ReplyParts, control, server, async
<1>3. ASSUME NEW x \in Calls, ResetClose(x) PROVE Answers'
  BY <1>0, <1>3
  DEF ResetClose, At, GoTo, Close, Answers, Sendable, ReplyParts, control, server, async
<1>4. ASSUME NEW x \in Calls, ResetOpen(x) PROVE Answers'
  BY <1>0, <1>4
  DEF ResetOpen, At, GoTo, GiveUp, Return, Answers, Sendable, ReplyParts, control, wire, server,
      async
<1>5. ASSUME NEW x \in Calls, ConnectTooLate(x) PROVE Answers'
  BY <1>0, <1>5
  DEF ConnectTooLate, At, GoTo, GiveUp, Return, Answers, Sendable, ReplyParts, control, wire,
      server, async
<1>6. ASSUME NEW x \in Calls, Send(x) PROVE Answers'
  BY <1>0, <1>6
  DEF Send, At, GoTo, Delivered, HookWait, Answers, Sendable, ReplyParts, control, wire, async
<1>7. ASSUME NEW x \in Calls, SendAgain(x) PROVE Answers'
  BY <1>0, <1>7
  DEF SendAgain, At, GoTo, Delivered, Answers, Sendable, ReplyParts, control, wire, async
<1>8. ASSUME NEW x \in Calls, SendTooLate(x) PROVE Answers'
  BY <1>0, <1>8
  DEF SendTooLate, At, GoTo, Answers, Sendable, ReplyParts, control, wire, server, async
<1>9. ASSUME NEW x \in Calls, GetReply(x) PROVE Answers'
  <2>1. PICK code \in Codes : /\ pc' = [pc EXCEPT ![x] = "ret"]
                              /\ m_error_code' = [m_error_code EXCEPT ![x] = code]
                              /\ code = "OK" => Dispatch(prog.request[x]) = "OK" /\ "parse" \in prog.request[x]
    BY <1>9 DEF GetReply, GiveUp, Return, GoTo, Codes, Dispatch
  <2>2. /\ pc[x] = "recv" /\ taken[x] = ReplyParts /\ UNCHANGED <<prog, served, taken, m_is_finished>>
    BY <1>9 DEF GetReply, At, control, server, wire, async
  <2>3. (served[x] = 1 /\ Virtues \subseteq prog.request[x]) \/ code # "OK"
    <3>1. CASE code = "OK"
      <4>0. Dispatch(prog.request[x]) = "OK" /\ "parse" \in prog.request[x] BY <2>1, <3>1
      <4>1. {"name", "service", "method", "body", "response", "parse"} \subseteq prog.request[x]
        <5> DEFINE r == prog.request[x]
        <5>1. "parse" \in r /\ Dispatch(r) = "OK" BY <4>0
        <5> HIDE DEF r
        <5>2. "name" \in r /\ "service" \in r /\ "method" \in r /\ "body" \in r /\ "response" \in r
          BY <5>1 DEF Dispatch
        <5> QED BY <5>1, <5>2 DEF r
      <4>2. Sendable(x) BY <2>2 DEF Answers
      <4>3. Runs(prog.request[x]) BY <4>1 DEF Runs
      <4>4. served[x] = 1 BY <1>0, <2>2, <4>3 DEF Once, ReplyParts
      <4> QED BY <4>1, <4>2, <4>4 DEF Virtues, Sendable
    <3> QED BY <3>1
  <2>4. /\ pc'[x] = "ret" /\ served'[x] = served[x] /\ taken'[x] = ReplyParts /\ m_error_code'[x] = code
        /\ \A y \in Calls : y # x => /\ pc'[y] = pc[y] /\ m_error_code'[y] = m_error_code[y]
                                     /\ served'[y] = served[y] /\ taken'[y] = taken[y]
    BY <1>0, <2>1, <2>2
  <2> QED BY <2>2, <2>3, <2>4 DEF Answers, Sendable
<1>10. ASSUME NEW x \in Calls, Receive(x) PROVE Answers'
  BY <1>0, <1>10
  DEF Receive, At, GoTo, Take, HookWait, Answers, Sendable, ReplyParts, control, server, async
<1>11. ASSUME NEW x \in Calls, ReceiveTooLate(x) PROVE Answers'
  BY <1>0, <1>11
  DEF ReceiveTooLate, At, GoTo, Answers, Sendable, ReplyParts, control, wire, server, async
<1>12. ASSUME NEW x \in Calls, ReceiveAgain(x) PROVE Answers'
  BY <1>0, <1>12
  DEF ReceiveAgain, At, GoTo, Take, Answers, Sendable, ReplyParts, control, server, async
<1>13. ASSUME NEW x \in Calls, ReceiveEof(x) PROVE Answers'
  BY <1>0, <1>13 DEF ReceiveEof, At, GoTo, Answers, Sendable, ReplyParts, control, server, async
<1>14. ASSUME NEW x \in Calls, FailClose(x) PROVE Answers'
  BY <1>0, <1>14
  DEF FailClose, At, GoTo, Close, Answers, Sendable, ReplyParts, control, server, async
<1>15. ASSUME NEW x \in Calls, FailOpen(x) PROVE Answers'
  BY <1>0, <1>15
  DEF FailOpen, At, GoTo, Return, Answers, Sendable, ReplyParts, control, wire, server, async
<1>16. ASSUME NEW x \in Calls, End(x) PROVE Answers'
  BY <1>0, <1>16 DEF End, At, GoTo, Close, Answers, Sendable, ReplyParts, server, async
<1>17. ASSUME NEW x \in Calls, NEW t, CallMethod(x, t), pc[x] \in {"none", "queued"},
              ~m_is_finished[x], UNCHANGED <<prog, wire, server, m_is_finished>>
       PROVE  Answers'
  <2>1. \A y \in Calls : y # x => pc'[y] = pc[y] /\ m_error_code'[y] = m_error_code[y]
    BY <1>0, <1>17, CallMethodDoes
  <2>2. \/ pc'[x] = "connect" /\ Sendable(x)
        \/ pc'[x] = "ret" /\ (m_error_code'[x] # "OK" \/ "serialize" \notin prog.request[x])
    BY <1>0, <1>17, CallMethodDoes DEF Codes
  <2> QED BY <1>17, <2>1, <2>2 DEF Answers, Sendable, wire, server
<1>18. ASSUME NEW k \in Callers, NEW x \in Calls, SyncCall(k, x) PROVE Answers'
  BY <1>17, <1>18, Unmade DEF SyncCall, async
<1>19. ASSUME NEW x \in Calls, BeginCall(x) PROVE Answers'
  BY <1>17, <1>19 DEF BeginCall, control, async, Made
<1>20. ASSUME NEW k \in Callers, NEW x \in Calls, NEW t \in Threads, AsyncCall(k, x, t) PROVE Answers'
  BY <1>0, <1>20, Unmade DEF AsyncCall, GoTo, Answers, Sendable, ReplyParts, wire, server
<1>21. ASSUME NEW k \in Callers, CallerMoves(k) PROVE Answers'
  BY <1>21, <1>s, CallerMovesDo DEF wire, server
<1>22. ASSUME NEW t \in Threads, Wakes(t) PROVE Answers'
  <2>0. WakesOnly(t) BY <1>22, WakesDo
  <2>1. UNCHANGED <<prog, served, taken, m_error_code, m_is_finished>>
    BY <2>0 DEF WakesOnly, wire, server
  <2>2. \A y \in Calls : pc'[y] = pc[y] \/ (pc[y] \in WaitPcs /\ pc'[y] \in WokenPcs)
    BY <2>0, PcsWoken
  <2> QED BY <2>1, <2>2 DEF Answers, Sendable, WaitPcs, WokenPcs
<1>23. ASSUME NEW t \in Threads, Batches(t) PROVE Answers'
  BY <1>23, <1>s, BatchesDo DEF control, wire, server, async
<1>24. ASSUME NEW x \in Calls, Serve(x) PROVE Answers'
  <2>1. /\ UNCHANGED <<prog, pc, taken, m_error_code, m_is_finished>> /\ requests[x] > 0
        /\ \A y \in Calls : y # x => served'[y] = served[y]
    BY <1>0, <1>24 DEF Serve, control, wire, async
  <2>2. served[x] # 1 BY <1>0, <2>1 DEF Once
  <2> QED BY <2>1, <2>2 DEF Answers, Sendable
<1>25. ASSUME NEW x \in Calls, Arrive(x) \/ PeerClose(x) PROVE Answers'
  BY <1>25, <1>s DEF Arrive, PeerClose, control, server, async
<1>26. ASSUME NEW t \in Threads, Finish(t) PROVE Answers'
  <2>1. /\ UNCHANGED <<prog, pc, served, taken, m_error_code>>
        /\ \A y \in Calls : m_is_finished[y] => m_is_finished'[y]
    BY <1>0, <1>26 DEF Finish, control, wire, server
  <2> QED BY <2>1 DEF Answers, Sendable
<1>27. CASE UNCHANGED vars
  BY <1>27, <1>s DEF vars, control, wire, server, async
<1> QED
  BY <1>1, <1>2, <1>3, <1>4, <1>5, <1>6, <1>7, <1>8, <1>9, <1>10, <1>11, <1>12, <1>13, <1>14, <1>15,
     <1>16, <1>17, <1>18, <1>19, <1>20, <1>21, <1>22, <1>23, <1>24, <1>25, <1>26, <1>27, Steps
  DEF CallStep, Outside

-----------------------------------------------------------------------------
(* Every step keeps the variables within their types.                      *)

LEMMA UsesTyped ==
  ASSUME TypeOK, Made, NEW x \in Calls, pc[x] # "none", NEW f, Uses(x, f)
  PROVE  astray' \in SUBSET Calls /\ fd_reactor' \in [FdNumbers -> Threads \cup {NULL}]
<1>1. thr[Runner(x)] \in Threads BY Runners DEF TypeOK
<1> QED BY <1>1 DEF Uses, TypeOK

LEMMA HookWaitTyped ==
  ASSUME TypeOK, Made, NEW x \in Calls, pc[x] # "none", NEW f, NEW w \in Pcs, HookWait(x, f, w)
  PROVE  /\ m_coroutine' \in [FdNumbers -> Coroutines \cup {NULL}] /\ pc' \in [Calls -> Pcs]
         /\ cur' \in [Threads -> Coroutines \cup {NULL}] /\ clash' \in BOOLEAN
         /\ UNCHANGED <<thr, misplaced, loose, early>>
<1>1. Runner(x) \in Coroutines BY Runners
<1>2. /\ m_coroutine' = [m_coroutine EXCEPT ![f] = Runner(x)]
      /\ pc' = [pc EXCEPT ![x] = w]
      /\ cur' = [cur EXCEPT ![thr[Runner(x)]] = NULL]
      /\ UNCHANGED <<thr, misplaced, loose, early>>
  BY DEF HookWait, GoTo, Suspend
<1>3. clash' \in BOOLEAN BY DEF HookWait, TypeOK
<1>4. pc \in [Calls -> Pcs] BY DEF TypeOK, Pcs, RunPcs, WaitPcs
<1>5. m_coroutine' \in [FdNumbers -> Coroutines \cup {NULL}] BY <1>1, <1>2 DEF TypeOK
<1>6. cur' \in [Threads -> Coroutines \cup {NULL}] BY <1>2 DEF TypeOK
<1>7. pc' \in [Calls -> Pcs] BY <1>2, <1>4
<1> QED BY <1>2, <1>3, <1>5, <1>6, <1>7

LEMMA addTimerEventTyped ==
  ASSUME TypeOK, NEW t, NEW e \in Events, addTimerEvent(t, e)
  PROVE  m_pending_events' \in SUBSET Events /\ dead' \in SUBSET Threads
BY DEF addTimerEvent, TypeOK

\* The timer event of either kind of a call.
LEMMA EventsOf ==
  ASSUME NEW x \in Calls
  PROVE  <<"rpc", x>> \in Events /\ <<"conn", x>> \in Events
BY DEF Events

LEMMA GoesTo ==
  ASSUME TypeOK, NEW x \in Calls, NEW w \in NextPcs, pc' = [pc EXCEPT ![x] = w]
  PROVE  pc' \in [Calls -> Pcs]
<1>1. pc \in [Calls -> Pcs] BY DEF TypeOK, Pcs, RunPcs, WaitPcs
<1>2. w \in Pcs BY DEF NextPcs, Pcs
<1> QED BY <1>1, <1>2

LEMMA WokenTyped ==
  ASSUME TypeOK, Made, NEW t \in Threads, Woken(t) \/ StaysPut
  PROVE  /\ ip' \in [Callers -> Nat \ {0}] /\ kpc' \in [Callers -> Kpcs] /\ pc' \in [Calls -> Pcs]
         /\ cur' \in [Threads -> Coroutines \cup {NULL}] /\ thr' \in [Coroutines -> Threads]
         /\ early' \in SUBSET Calls
<1>0. /\ ip \in [Callers -> Nat \ {0}] /\ kpc \in [Callers -> Kpcs] /\ pc \in [Calls -> Pcs]
      /\ cur \in [Threads -> Coroutines \cup {NULL}] /\ thr \in [Coroutines -> Threads]
      /\ early \in SUBSET Calls
  BY DEF TypeOK, Kpcs, Pcs, RunPcs, WaitPcs
<1>1. CASE StaysPut BY <1>0, <1>1 DEF StaysPut
<1>2. ASSUME NEW x \in Calls, NEW w \in WokenPcs, pc[x] \in WaitPcs, pc' = [pc EXCEPT ![x] = w],
             SwitchTo(t, Runner(x)), UNCHANGED <<ip, kpc, early>>
      PROVE  /\ pc' \in [Calls -> Pcs] /\ cur' \in [Threads -> Coroutines \cup {NULL}]
             /\ thr' \in [Coroutines -> Threads]
  <2>1. Runner(x) \in Coroutines BY <1>2, Runners DEF WaitPcs
  <2>2. cur' = [cur EXCEPT ![t] = Runner(x)] /\ thr' = [thr EXCEPT ![Runner(x)] = t]
    BY <1>2 DEF SwitchTo
  <2>3. w \in Pcs BY DEF WokenPcs, Pcs, RunPcs
  <2>4. pc' \in [Calls -> Pcs] BY <1>0, <1>2, <2>3
  <2> QED BY <1>0, <2>1, <2>2, <2>4
<1>3. ASSUME NEW k \in Callers, kpc' = [kpc EXCEPT ![k] = "run"], ip' = [ip EXCEPT ![k] = ip[k] + 1],
             SwitchTo(t, k), UNCHANGED pc
      PROVE  /\ kpc' \in [Callers -> Kpcs] /\ ip' \in [Callers -> Nat \ {0}]
             /\ cur' \in [Threads -> Coroutines \cup {NULL}] /\ thr' \in [Coroutines -> Threads]
  <2>1. k \in Coroutines BY DEF Coroutines
  <2>2. cur' = [cur EXCEPT ![t] = k] /\ thr' = [thr EXCEPT ![k] = t] BY <1>3 DEF SwitchTo
  <2>3. kpc' \in [Callers -> Kpcs] BY <1>0, <1>3 DEF Kpcs
  <2>4. ip' \in [Callers -> Nat \ {0}] BY <1>0, <1>3
  <2> QED BY <1>0, <2>1, <2>2, <2>3, <2>4
<1>4. CASE Woken(t)
  <2>1. \/ \E x \in Calls, w \in WokenPcs :
             /\ pc[x] \in WaitPcs /\ pc' = [pc EXCEPT ![x] = w]
             /\ SwitchTo(t, Runner(x)) /\ UNCHANGED <<ip, kpc, early>>
        \/ \E k \in Callers :
             /\ kpc' = [kpc EXCEPT ![k] = "run"] /\ ip' = [ip EXCEPT ![k] = ip[k] + 1]
             /\ SwitchTo(t, k) /\ UNCHANGED pc
    BY <1>4 DEF Woken
  <2>2. early' \in SUBSET Calls BY <1>0, <1>4 DEF Woken
  <2> QED BY <1>0, <1>2, <1>3, <2>1, <2>2
<1> QED BY <1>1, <1>4

LEMMA CallMethodTyped ==
  ASSUME TypeOK, NEW x \in Calls, NEW t \in Threads, CallMethod(x, t)
  PROVE  /\ m_fd' \in [Calls -> 0..MaxFd] /\ conn_fd' \in [Calls -> 0..MaxFd]
         /\ owner' \in [FdNumbers -> Calls \cup {NULL}]
         /\ fd_reactor' \in [FdNumbers -> Threads \cup {NULL}]
         /\ m_reactor' \in [Calls -> Threads \cup {NULL}]
         /\ m_pending_events' \in SUBSET Events /\ dead' \in SUBSET Threads
         /\ pc' \in [Calls -> Pcs] /\ m_error_code' \in [Calls -> Codes]
<1>1. PICK f \in FdNumbers : /\ m_fd' = [m_fd EXCEPT ![x] = f]
                             /\ owner' = [owner EXCEPT ![f] = x]
                             /\ conn_fd' = [conn_fd EXCEPT ![x] = f]
                             /\ fd_reactor' = [fd_reactor EXCEPT ![f] = t]
  BY CallMethodDoes
<1>2. f \in 0..MaxFd BY BoundsAssumption DEF FdNumbers
<1>3. m_fd' \in [Calls -> 0..MaxFd] /\ conn_fd' \in [Calls -> 0..MaxFd]
  BY <1>1, <1>2 DEF TypeOK
<1>4. owner' \in [FdNumbers -> Calls \cup {NULL}] BY <1>1 DEF TypeOK
<1>5. fd_reactor' \in [FdNumbers -> Threads \cup {NULL}] BY <1>1 DEF TypeOK
<1>a. /\ m_reactor' = [m_reactor EXCEPT ![x] = t]
      /\ m_pending_events' \subseteq m_pending_events \cup {<<"rpc", x>>} /\ dead' \subseteq dead
  BY CallMethodDoes
<1>6. m_reactor' \in [Calls -> Threads \cup {NULL}] BY <1>a DEF TypeOK
<1>7. m_pending_events' \in SUBSET Events /\ dead' \in SUBSET Threads
  BY <1>a, EventsOf DEF TypeOK
<1>8. pc' \in [Calls -> Pcs]
  <2>1. {"connect", "ret"} \subseteq NextPcs BY DEF NextPcs, RunPcs
  <2> QED BY <2>1, CallMethodDoes, GoesTo
<1>9. m_error_code' \in [Calls -> Codes]
  <2>1. m_error_code' = m_error_code \/ m_error_code' = [m_error_code EXCEPT ![x] = "FAILED_ENCODE"]
    BY CallMethodDoes
  <2>2. m_error_code \in [Calls -> Codes] BY DEF TypeOK
  <2>3. "FAILED_ENCODE" \in Codes BY DEF Codes
  <2> HIDE DEF Codes
  <2> QED BY <2>1, <2>2, <2>3
<1> QED BY <1>3, <1>4, <1>5, <1>6, <1>7, <1>8, <1>9

LEMMA TypeStep == TypeOK /\ Made /\ NotYet /\ Timed /\ Once /\ [Next]_vars => TypeOK'
<1> SUFFICES ASSUME TypeOK, Made, NotYet, Timed, Once, [Next]_vars PROVE TypeOK'
  OBVIOUS
<1>prog. prog \in Programs BY DEF TypeOK
<1>ip. ip \in [Callers -> Nat \ {0}] BY DEF TypeOK
<1>kpc. kpc \in [Callers -> Kpcs] BY DEF TypeOK, Kpcs
<1>cur. cur \in [Threads -> Coroutines \cup {NULL}] BY DEF TypeOK
<1>thr. thr \in [Coroutines -> Threads] BY DEF TypeOK
<1>clash. clash \in BOOLEAN BY DEF TypeOK
<1>misplaced. misplaced \in BOOLEAN BY DEF TypeOK
<1>loose. loose \in BOOLEAN BY DEF TypeOK
<1>early. early \in SUBSET Calls BY DEF TypeOK
<1>m_fd. m_fd \in [Calls -> 0..MaxFd] BY DEF TypeOK
<1>conn_fd. conn_fd \in [Calls -> 0..MaxFd] BY DEF TypeOK
<1>owner. owner \in [FdNumbers -> Calls \cup {NULL}] BY DEF TypeOK
<1>renumbered. renumbered \in SUBSET Calls BY DEF TypeOK
<1>m_coroutine. m_coroutine \in [FdNumbers -> Coroutines \cup {NULL}] BY DEF TypeOK
<1>fd_reactor. fd_reactor \in [FdNumbers -> Threads \cup {NULL}] BY DEF TypeOK
<1>re_events. re_events \in [Threads -> SUBSET (FdNumbers \cup {m_timer_fd})] BY DEF TypeOK
<1>first_coroutine. first_coroutine \in [Threads -> Coroutines \cup {NULL}] BY DEF TypeOK
<1>m_task. m_task \in Seq(FdNumbers) BY DEF TypeOK
<1>due. due \in [Threads -> SUBSET Events] BY DEF TypeOK
<1>raised. raised \in [Threads -> Calls \cup {NULL}] BY DEF TypeOK
<1>m_reactor. m_reactor \in [Calls -> Threads \cup {NULL}] BY DEF TypeOK
<1>conn_timer. conn_timer \in [Calls -> Threads \cup {NULL}] BY DEF TypeOK
<1>m_pending_events. m_pending_events \in SUBSET Events BY DEF TypeOK
<1>is_timeout. is_timeout \in [Calls -> BOOLEAN] BY DEF TypeOK
<1>dead. dead \in SUBSET Threads BY DEF TypeOK
<1>net. net \in [Calls -> {"new", "up", "dead"}] BY DEF TypeOK
<1>arrived. arrived \in [Calls -> 0..ReplyParts] BY DEF TypeOK
<1>taken. taken \in [Calls -> 0..ReplyParts] BY DEF TypeOK
<1>requests. requests \in [Calls -> 0..1] BY DEF TypeOK
<1>served. served \in [Calls -> 0..1] BY DEF TypeOK
<1>m_current_iothread. m_current_iothread \in [Calls -> Threads \cup {NULL}] BY DEF TypeOK
<1>m_is_finished. m_is_finished \in [Calls -> BOOLEAN] BY DEF TypeOK
<1>m_need_resume. m_need_resume \in [Calls -> BOOLEAN] BY DEF TypeOK
<1>m_tasks. m_tasks \in [Threads -> Seq(Calls)] BY DEF TypeOK
<1>pc. pc \in [Calls -> Pcs] BY DEF TypeOK, Pcs, RunPcs, WaitPcs
<1>cause. cause \in [Calls -> Errnos] BY DEF TypeOK
<1>m_error_code. m_error_code \in [Calls -> Codes] BY DEF TypeOK
<1>astray. astray \in SUBSET Calls BY DEF TypeOK
<1>1. ASSUME NEW k \in Callers, BeginCaller(k) PROVE TypeOK'
  <2>a. k \in Coroutines /\ thr[k] \in Threads BY <1>thr DEF Coroutines
  <2>1. UNCHANGED <<prog, ip, clash, misplaced, loose, early, fdvars, fdevent, batch, timer, wire,
                    server, async, pc, cause, m_error_code, astray>>
    BY <1>1 DEF BeginCaller, SwitchTo, control, switch
  <2>2. kpc' \in [Callers -> Kpcs]
    BY <1>1, <1>kpc DEF BeginCaller, Kpcs
  <2>3. cur' \in [Threads -> Coroutines \cup {NULL}]
    BY <1>1, <1>cur, <2>a DEF BeginCaller, SwitchTo
  <2>4. thr' \in [Coroutines -> Threads]
    BY <1>1, <1>thr, <2>a DEF BeginCaller, SwitchTo
  <2> QED
    BY <2>1, <2>2, <2>3, <2>4
    DEF TypeOK, Kpcs, Pcs, RunPcs, WaitPcs, fdvars, fdevent, batch, timer, wire, server, async
<1>2. ASSUME NEW k \in Callers, NEW x \in Calls, Hook(k, x) PROVE TypeOK'
  <2>1. UNCHANGED <<prog, ip, thr, clash, misplaced, loose, early, fdvars, fdevent, batch, timer,
                    wire, server, async, pc, cause, m_error_code, astray>>
    BY <1>2 DEF Hook, Suspend, control, switch
  <2>2. kpc' \in [Callers -> Kpcs]
    BY <1>2, <1>kpc DEF Hook, Kpcs
  <2>3. cur' \in [Threads -> Coroutines \cup {NULL}]
    BY <1>2, <1>cur DEF Hook, Suspend
  <2> QED
    BY <2>1, <2>2, <2>3
    DEF TypeOK, Kpcs, Pcs, RunPcs, WaitPcs, fdvars, fdevent, batch, timer, wire, server, async
<1>3. ASSUME NEW k \in Callers, NEW t \in Threads, HookBack(k, t) PROVE TypeOK'
  <2>a. k \in Coroutines /\ thr[k] \in Threads BY <1>thr DEF Coroutines
  <2>1. UNCHANGED <<prog, clash, misplaced, loose, early, fdvars, fdevent, batch, timer, wire,
                    server, async, pc, cause, m_error_code, astray>>
    BY <1>3 DEF HookBack, SwitchTo, NextOp, control, switch
  <2>2. ip' \in [Callers -> Nat \ {0}]
    BY <1>3, <1>ip DEF HookBack, NextOp
  <2>3. kpc' \in [Callers -> Kpcs]
    BY <1>3, <1>kpc DEF HookBack, Kpcs
  <2>4. cur' \in [Threads -> Coroutines \cup {NULL}]
    BY <1>3, <1>cur, <2>a DEF HookBack, SwitchTo
  <2>5. thr' \in [Coroutines -> Threads]
    BY <1>3, <1>thr, <2>a DEF HookBack, SwitchTo
  <2> QED
    BY <2>1, <2>2, <2>3, <2>4, <2>5
    DEF TypeOK, Kpcs, Pcs, RunPcs, WaitPcs, fdvars, fdevent, batch, timer, wire, server, async
<1>4. ASSUME NEW k \in Callers, EndCaller(k) PROVE TypeOK'
  <2>1. UNCHANGED <<prog, ip, thr, clash, misplaced, loose, early, fdvars, fdevent, batch, timer,
                    wire, server, async, pc, cause, m_error_code, astray>>
    BY <1>4 DEF EndCaller, Suspend, control, switch
  <2>2. kpc' \in [Callers -> Kpcs]
    BY <1>4, <1>kpc DEF EndCaller, Kpcs
  <2>3. cur' \in [Threads -> Coroutines \cup {NULL}]
    BY <1>4, <1>cur DEF EndCaller, Suspend
  <2> QED
    BY <2>1, <2>2, <2>3
    DEF TypeOK, Kpcs, Pcs, RunPcs, WaitPcs, fdvars, fdevent, batch, timer, wire, server, async
<1>5. ASSUME NEW k \in Callers, NEW x \in Calls, MakeChannel(k, x) PROVE TypeOK'
  <2>a. k \in Coroutines /\ thr[k] \in Threads BY <1>thr DEF Coroutines
  <2>1. UNCHANGED <<prog, kpc, switch, fdvars, fdevent, batch, timer, wire, server, m_is_finished,
                    m_need_resume, m_tasks, pc, cause, m_error_code, astray>>
    BY <1>5 DEF MakeChannel, NextOp, control, async
  <2>2. ip' \in [Callers -> Nat \ {0}]
    BY <1>5, <1>ip DEF MakeChannel, NextOp
  <2>3. m_current_iothread' \in [Calls -> Threads \cup {NULL}]
    BY <1>5, <1>m_current_iothread, <2>a DEF MakeChannel
  <2> QED
    BY <2>1, <2>2, <2>3
    DEF TypeOK, Kpcs, Pcs, RunPcs, WaitPcs, switch, fdvars, fdevent, batch, timer, wire, server
<1>6. ASSUME NEW k \in Callers, NEW x \in Calls, Wait(k, x) PROVE TypeOK'
  <2>1. UNCHANGED <<prog, switch, fdvars, fdevent, batch, timer, wire, server, m_current_iothread,
                    m_is_finished, m_tasks, pc, cause, m_error_code, astray>>
    BY <1>6 DEF Wait, NextOp, control, async
  <2>2. ip' \in [Callers -> Nat \ {0}]
    BY <1>6, <1>ip DEF Wait, NextOp
  <2>3. kpc' \in [Callers -> Kpcs]
    BY <1>6, <1>kpc DEF Wait, Kpcs
  <2>4. m_need_resume' \in [Calls -> BOOLEAN]
    BY <1>6, <1>m_need_resume DEF Wait
  <2> QED
    BY <2>1, <2>2, <2>3, <2>4
    DEF TypeOK, Kpcs, Pcs, RunPcs, WaitPcs, switch, fdvars, fdevent, batch, timer, wire, server
<1>7. ASSUME NEW k \in Callers, NEW x \in Calls, WaitYield(k, x) PROVE TypeOK'
  <2>1. UNCHANGED <<prog, ip, thr, clash, misplaced, loose, early, fdvars, fdevent, batch, timer,
                    wire, server, m_current_iothread, m_is_finished, m_tasks, pc, cause,
                    m_error_code, astray>>
    BY <1>7 DEF WaitYield, Suspend, control, switch, async
  <2>2. kpc' \in [Callers -> Kpcs]
    BY <1>7, <1>kpc DEF WaitYield, Kpcs
  <2>3. cur' \in [Threads -> Coroutines \cup {NULL}]
    BY <1>7, <1>cur DEF WaitYield, Suspend
  <2>4. m_need_resume' \in [Calls -> BOOLEAN]
    BY <1>7, <1>m_need_resume DEF WaitYield
  <2> QED
    BY <2>1, <2>2, <2>3, <2>4
    DEF TypeOK, Kpcs, Pcs, RunPcs, WaitPcs, fdvars, fdevent, batch, timer, wire, server
<1>8. ASSUME NEW k \in Callers, NEW x \in Calls, SyncCall(k, x) PROVE TypeOK'
  <2>a. CallMethod(x, thr[k]) /\ thr[k] \in Threads BY <1>8, <1>thr DEF SyncCall, Coroutines
  <2>1. UNCHANGED <<prog, ip, switch, renumbered, m_coroutine, batch, conn_timer, is_timeout, wire,
                    server, async, cause, astray>>
    BY <1>8 DEF SyncCall, CallMethod, control, fdvars, fdevent, timer
  <2>2. /\ m_fd' \in [Calls -> 0..MaxFd] /\ conn_fd' \in [Calls -> 0..MaxFd]
        /\ owner' \in [FdNumbers -> Calls \cup {NULL}]
        /\ fd_reactor' \in [FdNumbers -> Threads \cup {NULL}]
        /\ m_reactor' \in [Calls -> Threads \cup {NULL}]
        /\ m_pending_events' \in SUBSET Events /\ dead' \in SUBSET Threads
        /\ pc' \in [Calls -> Pcs] /\ m_error_code' \in [Calls -> Codes]
    BY <2>a, CallMethodTyped
  <2>3. kpc' \in [Callers -> Kpcs]
    BY <1>8, <1>kpc DEF SyncCall, Kpcs
  <2> QED
    BY <2>1, <2>2, <2>3 DEF TypeOK, Kpcs, Pcs, RunPcs, WaitPcs, switch, batch, wire, server, async
<1>9. ASSUME NEW x \in Calls, BeginCall(x) PROVE TypeOK'
  <2>a. x \in Coroutines BY DEF Coroutines
  <2>b. CallMethod(x, thr[x]) /\ SwitchTo(thr[x], x) /\ thr[x] \in Threads
    BY <1>9, <2>a, <1>thr DEF BeginCall
  <2>1. UNCHANGED <<control, clash, misplaced, loose, early, renumbered, m_coroutine, batch,
                    conn_timer, is_timeout, wire, server, async, cause, astray>>
    BY <1>9 DEF BeginCall, CallMethod, switch, fdvars, fdevent, timer
  <2>2. /\ m_fd' \in [Calls -> 0..MaxFd] /\ conn_fd' \in [Calls -> 0..MaxFd]
        /\ owner' \in [FdNumbers -> Calls \cup {NULL}]
        /\ fd_reactor' \in [FdNumbers -> Threads \cup {NULL}]
        /\ m_reactor' \in [Calls -> Threads \cup {NULL}]
        /\ m_pending_events' \in SUBSET Events /\ dead' \in SUBSET Threads
        /\ pc' \in [Calls -> Pcs] /\ m_error_code' \in [Calls -> Codes]
    BY <2>b, CallMethodTyped
  <2>3. cur' \in [Threads -> Coroutines \cup {NULL}] /\ thr' \in [Coroutines -> Threads]
    BY <2>a, <2>b, <1>cur, <1>thr DEF SwitchTo
  <2> QED
    BY <2>1, <2>2, <2>3 DEF TypeOK, Kpcs, Pcs, RunPcs, WaitPcs, control, batch, wire, server, async
<1>10. ASSUME NEW k \in Callers, NEW x \in Calls, NEW t \in Threads, AsyncCall(k, x, t)
       PROVE  TypeOK'
  <2>1. UNCHANGED <<prog, kpc, cur, clash, misplaced, loose, early, fdvars, fdevent, batch, timer,
                    wire, server, m_current_iothread, m_need_resume, m_tasks, cause, astray>>
    BY <1>10 DEF AsyncCall, NextOp, control, switch, async
  <2>2. ip' \in [Callers -> Nat \ {0}]
    BY <1>10, <1>ip DEF AsyncCall, NextOp
  <2>3. pc' \in [Calls -> Pcs]
    BY <1>10, <1>pc DEF AsyncCall, GoTo, Pcs
  <2>4. thr' \in [Coroutines -> Threads]
    BY <1>10, <1>thr DEF AsyncCall, Coroutines
  <2>5. m_is_finished' \in [Calls -> BOOLEAN]
    BY <1>10, <1>m_is_finished DEF AsyncCall
  <2>6. m_error_code' \in [Calls -> Codes]
    BY <1>10, <1>m_error_code DEF AsyncCall, Codes
  <2> QED
    BY <2>1, <2>2, <2>3, <2>4, <2>5, <2>6
    DEF TypeOK, Kpcs, Pcs, RunPcs, WaitPcs, fdvars, fdevent, batch, timer, wire, server
<1>11. ASSUME NEW x \in Calls, Connect(x) PROVE TypeOK'
  <2>a. pc[x] # "none" BY <1>11 DEF Connect, At
  <2>b. pc[x] # "none" /\ Uses(x, m_fd[x]) BY <1>11, <2>a DEF Connect
  <2>h. /\ m_coroutine' \in [FdNumbers -> Coroutines \cup {NULL}] /\ clash' \in BOOLEAN
        /\ cur' \in [Threads -> Coroutines \cup {NULL}] /\ UNCHANGED <<thr, misplaced, loose, early>>
    <3>1. "connecting" \in Pcs BY DEF Pcs, WaitPcs
    <3>2. CASE HookWait(x, m_fd[x], "connecting") BY <2>a, <3>1, <3>2, HookWaitTyped
    <3>3. CASE UNCHANGED <<m_coroutine, switch>> BY <1>m_coroutine, <1>clash, <1>cur, <3>3 DEF switch
    <3> QED BY <1>11, <3>2, <3>3 DEF Connect
  <2>t. m_pending_events' \in SUBSET Events /\ dead' \in SUBSET Threads
    <3>1. CASE addTimerEvent(thr[Runner(x)], <<"conn", x>>) BY <3>1, EventsOf, addTimerEventTyped
    <3> QED BY <1>11, <3>1, <1>m_pending_events, <1>dead DEF Connect
  <2>r. thr[Runner(x)] \in Threads BY <2>a, <1>thr, Runners
  <2>1. UNCHANGED <<control, fdvars, batch, m_reactor, is_timeout, arrived, taken, server, async,
                    m_error_code>>
    BY <1>11 DEF Connect, timer, wire
  <2>2. astray' \in SUBSET Calls /\ fd_reactor' \in [FdNumbers -> Threads \cup {NULL}]
    BY <2>b, UsesTyped
  <2>3. m_coroutine' \in [FdNumbers -> Coroutines \cup {NULL}] /\ clash' \in BOOLEAN
    BY <2>h
  <2>4. cur' \in [Threads -> Coroutines \cup {NULL}] /\ UNCHANGED <<thr, misplaced, loose, early>>
    BY <2>h
  <2>5. m_pending_events' \in SUBSET Events /\ dead' \in SUBSET Threads
    BY <2>t
  <2>6. pc' \in [Calls -> Pcs]
    BY <1>11, CallStepMoves, GoesTo DEF CallStep
  <2>7. conn_timer' \in [Calls -> Threads \cup {NULL}]
    BY <1>11, <1>conn_timer, <2>r DEF Connect
  <2>8. net' \in [Calls -> {"new", "up", "dead"}]
    BY <1>11, <1>net DEF Connect
  <2>9. cause' \in [Calls -> Errnos]
    BY <1>11, <1>cause DEF Connect
  <2> QED
    BY <2>1, <2>2, <2>3, <2>4, <2>5, <2>6, <2>7, <2>8, <2>9
    DEF TypeOK, Kpcs, Pcs, RunPcs, WaitPcs, control, fdvars, batch, server, async
<1>12. ASSUME NEW x \in Calls, ConnectAgain(x) PROVE TypeOK'
  <2>a. pc[x] # "none" BY <1>12 DEF ConnectAgain, At
  <2>b. pc[x] # "none" /\ Uses(x, m_fd[x]) BY <1>12, <2>a DEF ConnectAgain
  <2>1. UNCHANGED <<control, switch, fdvars, batch, m_reactor, is_timeout, dead, arrived, taken,
                    server, async, m_error_code>>
    BY <1>12 DEF ConnectAgain, timer, wire
  <2>2. astray' \in SUBSET Calls /\ fd_reactor' \in [FdNumbers -> Threads \cup {NULL}]
    BY <2>b, UsesTyped
  <2>3. m_coroutine' \in [FdNumbers -> Coroutines \cup {NULL}]
    BY <1>12, <1>m_coroutine DEF ConnectAgain, clearCoroutine
  <2>4. m_pending_events' \in SUBSET Events
    BY <1>12, <1>m_pending_events, DelTimerEventDoes DEF ConnectAgain
  <2>5. pc' \in [Calls -> Pcs]
    BY <1>12, CallStepMoves, GoesTo DEF CallStep
  <2>6. conn_timer' \in [Calls -> Threads \cup {NULL}]
    BY <1>12, <1>conn_timer DEF ConnectAgain
  <2>7. net' \in [Calls -> {"new", "up", "dead"}]
    BY <1>12, <1>net DEF ConnectAgain
  <2>8. cause' \in [Calls -> Errnos]
    BY <1>12, <1>cause DEF ConnectAgain, Errnos
  <2> QED
    BY <2>1, <2>2, <2>3, <2>4, <2>5, <2>6, <2>7, <2>8
    DEF TypeOK, Kpcs, Pcs, RunPcs, WaitPcs, control, switch, fdvars, batch, server, async
<1>13. ASSUME NEW x \in Calls, ResetClose(x) PROVE TypeOK'
  <2>a. pc[x] # "none" BY <1>13 DEF ResetClose, At
  <2>b. pc[x] # "none" /\ Uses(x, m_fd[x]) BY <1>13, <2>a DEF ResetClose, Close
  <2>1. UNCHANGED <<control, switch, m_fd, conn_fd, renumbered, m_coroutine, batch, timer, arrived,
                    taken, server, async, cause, m_error_code>>
    BY <1>13 DEF ResetClose, Close, fdvars, fdevent, wire
  <2>2. astray' \in SUBSET Calls /\ fd_reactor' \in [FdNumbers -> Threads \cup {NULL}]
    BY <2>b, UsesTyped
  <2>3. pc' \in [Calls -> Pcs]
    BY <1>13, CallStepMoves, GoesTo DEF CallStep
  <2>4. owner' \in [FdNumbers -> Calls \cup {NULL}]
    BY <1>13, <1>owner DEF ResetClose, Close
  <2>5. net' \in [Calls -> {"new", "up", "dead"}]
    BY <1>13, <1>net DEF ResetClose, Close
  <2> QED
    BY <2>1, <2>2, <2>3, <2>4, <2>5
    DEF TypeOK, Kpcs, Pcs, RunPcs, WaitPcs, control, switch, batch, timer, server, async
<1>14. ASSUME NEW x \in Calls, ResetOpen(x) PROVE TypeOK'
  <2>1. UNCHANGED <<control, switch, conn_fd, fdevent, batch, m_reactor, conn_timer, is_timeout,
                    dead, wire, server, async, astray>>
    BY <1>14 DEF ResetOpen, GiveUp, Return, fdvars, timer
  <2>2. m_fd' \in [Calls -> 0..MaxFd] /\ owner' \in [FdNumbers -> Calls \cup {NULL}]
    BY <1>14, <1>m_fd, <1>owner, OpenSocketDoes, BoundsAssumption DEF ResetOpen, FdNumbers
  <2>3. pc' \in [Calls -> Pcs]
    BY <1>14, CallStepMoves, GoesTo DEF CallStep
  <2>4. renumbered' \in SUBSET Calls
    BY <1>14, <1>renumbered DEF ResetOpen
  <2>5. m_pending_events' \in SUBSET Events
    BY <1>14, <1>m_pending_events, DelTimerEventDoes DEF ResetOpen, GiveUp
  <2>6. m_error_code' \in [Calls -> Codes]
    BY <1>14, <1>m_error_code DEF ResetOpen, GiveUp, Return, Codes
  <2>7. cause' \in [Calls -> Errnos]
    BY <1>14, <1>cause DEF ResetOpen, Errnos
  <2> QED
    BY <2>1, <2>2, <2>3, <2>4, <2>5, <2>6, <2>7
    DEF TypeOK, Kpcs, Pcs, RunPcs, WaitPcs, control, switch, fdevent, batch, wire, server, async
<1>15. ASSUME NEW x \in Calls, ConnectTooLate(x) PROVE TypeOK'
  <2>1. UNCHANGED <<control, switch, fdvars, fdevent, batch, m_reactor, conn_timer, is_timeout,
                    dead, wire, server, async, cause, astray>>
    BY <1>15 DEF ConnectTooLate, GiveUp, Return, timer
  <2>2. pc' \in [Calls -> Pcs]
    BY <1>15, CallStepMoves, GoesTo DEF CallStep
  <2>3. m_pending_events' \in SUBSET Events
    BY <1>15, <1>m_pending_events, DelTimerEventDoes DEF ConnectTooLate, GiveUp
  <2>4. m_error_code' \in [Calls -> Codes]
    BY <1>15, <1>m_error_code DEF ConnectTooLate, GiveUp, Return, Codes
  <2> QED
    BY <2>1, <2>2, <2>3, <2>4
    DEF TypeOK, Kpcs, Pcs, RunPcs, WaitPcs, control, switch, fdvars, fdevent, batch, wire, server,
        async
<1>16. ASSUME NEW x \in Calls, Send(x) PROVE TypeOK'
  <2>a. pc[x] # "none" BY <1>16 DEF Send, At
  <2>b. pc[x] # "none" /\ Uses(x, conn_fd[x]) BY <1>16, <2>a DEF Send
  <2>c. requests[x] = 0 BY <1>16 DEF Send, At, Once, Answered
  <2>h. /\ m_coroutine' \in [FdNumbers -> Coroutines \cup {NULL}] /\ clash' \in BOOLEAN
        /\ cur' \in [Threads -> Coroutines \cup {NULL}] /\ UNCHANGED <<thr, misplaced, loose, early>>
    <3>1. "sending" \in Pcs BY DEF Pcs, WaitPcs
    <3>2. CASE HookWait(x, conn_fd[x], "sending") BY <2>a, <3>1, <3>2, HookWaitTyped
    <3>3. CASE UNCHANGED <<m_coroutine, switch>> BY <1>m_coroutine, <1>clash, <1>cur, <3>3 DEF switch
    <3> QED BY <1>16, <3>2, <3>3 DEF Send
  <2>1. UNCHANGED <<control, fdvars, batch, timer, wire, served, async, cause, m_error_code>>
    BY <1>16 DEF Send, server
  <2>2. astray' \in SUBSET Calls /\ fd_reactor' \in [FdNumbers -> Threads \cup {NULL}]
    BY <2>b, UsesTyped
  <2>3. m_coroutine' \in [FdNumbers -> Coroutines \cup {NULL}] /\ clash' \in BOOLEAN
    BY <2>h
  <2>4. cur' \in [Threads -> Coroutines \cup {NULL}] /\ UNCHANGED <<thr, misplaced, loose, early>>
    BY <2>h
  <2>5. pc' \in [Calls -> Pcs]
    BY <1>16, CallStepMoves, GoesTo DEF CallStep
  <2>6. requests' \in [Calls -> 0..1]
    BY <1>16, <1>requests, <2>c DEF Send, Delivered
  <2> QED
    BY <2>1, <2>2, <2>3, <2>4, <2>5, <2>6
    DEF TypeOK, Kpcs, Pcs, RunPcs, WaitPcs, control, fdvars, batch, timer, wire, async
<1>17. ASSUME NEW x \in Calls, SendAgain(x) PROVE TypeOK'
  <2>a. pc[x] # "none" BY <1>17 DEF SendAgain, At
  <2>b. pc[x] # "none" /\ Uses(x, conn_fd[x]) BY <1>17, <2>a DEF SendAgain
  <2>c. requests[x] = 0 BY <1>17 DEF SendAgain, At, Once, Answered
  <2>1. UNCHANGED <<control, switch, fdvars, batch, timer, wire, served, async, cause,
                    m_error_code>>
    BY <1>17 DEF SendAgain, server
  <2>2. astray' \in SUBSET Calls /\ fd_reactor' \in [FdNumbers -> Threads \cup {NULL}]
    BY <2>b, UsesTyped
  <2>3. m_coroutine' \in [FdNumbers -> Coroutines \cup {NULL}]
    BY <1>17, <1>m_coroutine DEF SendAgain, clearCoroutine
  <2>4. pc' \in [Calls -> Pcs]
    BY <1>17, CallStepMoves, GoesTo DEF CallStep
  <2>5. requests' \in [Calls -> 0..1]
    BY <1>17, <1>requests, <2>c DEF SendAgain, Delivered
  <2> QED
    BY <2>1, <2>2, <2>3, <2>4, <2>5
    DEF TypeOK, Kpcs, Pcs, RunPcs, WaitPcs, control, switch, fdvars, batch, timer, wire, async
<1>18. ASSUME NEW x \in Calls, SendTooLate(x) PROVE TypeOK'
  <2>1. UNCHANGED <<control, switch, fdvars, fdevent, batch, timer, wire, server, async, cause,
                    m_error_code, astray>>
    BY <1>18 DEF SendTooLate
  <2>2. pc' \in [Calls -> Pcs]
    BY <1>18, CallStepMoves, GoesTo DEF CallStep
  <2> QED
    BY <2>1, <2>2
    DEF TypeOK, Kpcs, Pcs, RunPcs, WaitPcs, control, switch, fdvars, fdevent, batch, timer, wire,
        server, async
<1>19. ASSUME NEW x \in Calls, GetReply(x) PROVE TypeOK'
  <2>1. UNCHANGED <<control, switch, fdvars, fdevent, batch, m_reactor, conn_timer, is_timeout,
                    dead, wire, server, async, cause, astray>>
    BY <1>19 DEF GetReply, GiveUp, Return, timer
  <2>2. pc' \in [Calls -> Pcs]
    BY <1>19, CallStepMoves, GoesTo DEF CallStep
  <2>3. m_pending_events' \in SUBSET Events
    BY <1>19, <1>m_pending_events, DelTimerEventDoes DEF GetReply, GiveUp
  <2>4. m_error_code' \in [Calls -> Codes]
    BY <1>19, <1>m_error_code DEF GetReply, GiveUp, Return, Dispatch, Codes
  <2> QED
    BY <2>1, <2>2, <2>3, <2>4
    DEF TypeOK, Kpcs, Pcs, RunPcs, WaitPcs, control, switch, fdvars, fdevent, batch, wire, server,
        async
<1>20. ASSUME NEW x \in Calls, Receive(x) PROVE TypeOK'
  <2>a. pc[x] # "none" BY <1>20 DEF Receive, At
  <2>b. pc[x] # "none" /\ Uses(x, conn_fd[x]) BY <1>20, <2>a DEF Receive
  <2>h. /\ m_coroutine' \in [FdNumbers -> Coroutines \cup {NULL}] /\ clash' \in BOOLEAN
        /\ cur' \in [Threads -> Coroutines \cup {NULL}] /\ UNCHANGED <<thr, misplaced, loose, early>>
    <3>1. "reading" \in Pcs BY DEF Pcs, WaitPcs
    <3>2. CASE HookWait(x, conn_fd[x], "reading") BY <2>a, <3>1, <3>2, HookWaitTyped
    <3>3. CASE UNCHANGED <<m_coroutine, switch>> BY <1>m_coroutine, <1>clash, <1>cur, <3>3 DEF switch
    <3> QED BY <1>20, <3>2, <3>3 DEF Receive
  <2>1. UNCHANGED <<control, fdvars, batch, timer, net, arrived, server, async, cause,
                    m_error_code>>
    BY <1>20 DEF Receive, Take, wire
  <2>2. astray' \in SUBSET Calls /\ fd_reactor' \in [FdNumbers -> Threads \cup {NULL}]
    BY <2>b, UsesTyped
  <2>3. m_coroutine' \in [FdNumbers -> Coroutines \cup {NULL}] /\ clash' \in BOOLEAN
    BY <2>h
  <2>4. cur' \in [Threads -> Coroutines \cup {NULL}] /\ UNCHANGED <<thr, misplaced, loose, early>>
    BY <2>h
  <2>5. pc' \in [Calls -> Pcs]
    BY <1>20, CallStepMoves, GoesTo DEF CallStep
  <2>6. taken' \in [Calls -> 0..ReplyParts]
    BY <1>20, <1>taken, <1>arrived DEF Receive, Take
  <2> QED
    BY <2>1, <2>2, <2>3, <2>4, <2>5, <2>6
    DEF TypeOK, Kpcs, Pcs, RunPcs, WaitPcs, control, fdvars, batch, timer, server, async
<1>21. ASSUME NEW x \in Calls, ReceiveTooLate(x) PROVE TypeOK'
  <2>1. UNCHANGED <<control, switch, fdvars, fdevent, batch, timer, wire, server, async, cause,
                    m_error_code, astray>>
    BY <1>21 DEF ReceiveTooLate
  <2>2. pc' \in [Calls -> Pcs]
    BY <1>21, CallStepMoves, GoesTo DEF CallStep
  <2> QED
    BY <2>1, <2>2
    DEF TypeOK, Kpcs, Pcs, RunPcs, WaitPcs, control, switch, fdvars, fdevent, batch, timer, wire,
        server, async
<1>22. ASSUME NEW x \in Calls, ReceiveAgain(x) PROVE TypeOK'
  <2>a. pc[x] # "none" BY <1>22 DEF ReceiveAgain, At
  <2>b. pc[x] # "none" /\ Uses(x, conn_fd[x]) BY <1>22, <2>a DEF ReceiveAgain
  <2>1. UNCHANGED <<control, switch, fdvars, batch, timer, net, arrived, server, async, cause,
                    m_error_code>>
    BY <1>22 DEF ReceiveAgain, Take, wire
  <2>2. astray' \in SUBSET Calls /\ fd_reactor' \in [FdNumbers -> Threads \cup {NULL}]
    BY <2>b, UsesTyped
  <2>3. m_coroutine' \in [FdNumbers -> Coroutines \cup {NULL}]
    BY <1>22, <1>m_coroutine DEF ReceiveAgain, clearCoroutine
  <2>4. pc' \in [Calls -> Pcs]
    BY <1>22, CallStepMoves, GoesTo DEF CallStep
  <2>5. taken' \in [Calls -> 0..ReplyParts]
    BY <1>22, <1>taken, <1>arrived DEF ReceiveAgain, Take
  <2> QED
    BY <2>1, <2>2, <2>3, <2>4, <2>5
    DEF TypeOK, Kpcs, Pcs, RunPcs, WaitPcs, control, switch, fdvars, batch, timer, server, async
<1>23. ASSUME NEW x \in Calls, ReceiveEof(x) PROVE TypeOK'
  <2>a. pc[x] # "none" BY <1>23 DEF ReceiveEof, At
  <2>b. pc[x] # "none" /\ Uses(x, conn_fd[x]) BY <1>23, <2>a DEF ReceiveEof
  <2>1. UNCHANGED <<control, thr, clash, misplaced, loose, early, m_fd, conn_fd, renumbered, batch,
                    timer, arrived, taken, server, async, cause, m_error_code>>
    BY <1>23 DEF ReceiveEof, Suspend, switch, fdvars, wire
  <2>2. astray' \in SUBSET Calls /\ fd_reactor' \in [FdNumbers -> Threads \cup {NULL}]
    BY <2>b, UsesTyped
  <2>3. m_coroutine' \in [FdNumbers -> Coroutines \cup {NULL}]
    BY <1>23, <1>m_coroutine DEF ReceiveEof, clearCoroutine
  <2>4. pc' \in [Calls -> Pcs]
    BY <1>23, CallStepMoves, GoesTo DEF CallStep
  <2>5. owner' \in [FdNumbers -> Calls \cup {NULL}]
    BY <1>23, <1>owner DEF ReceiveEof
  <2>6. net' \in [Calls -> {"new", "up", "dead"}]
    BY <1>23, <1>net DEF ReceiveEof
  <2>7. cur' \in [Threads -> Coroutines \cup {NULL}]
    BY <1>23, <1>cur DEF ReceiveEof, Suspend
  <2> QED
    BY <2>1, <2>2, <2>3, <2>4, <2>5, <2>6, <2>7
    DEF TypeOK, Kpcs, Pcs, RunPcs, WaitPcs, control, batch, timer, server, async
<1>24. ASSUME NEW x \in Calls, FailClose(x) PROVE TypeOK'
  <2>a. pc[x] # "none" BY <1>24 DEF FailClose, At
  <2>b. pc[x] # "none" /\ Uses(x, m_fd[x]) BY <1>24, <2>a DEF FailClose, Close
  <2>1. UNCHANGED <<control, switch, m_fd, conn_fd, renumbered, m_coroutine, batch, timer, arrived,
                    taken, server, async, cause, m_error_code>>
    BY <1>24 DEF FailClose, Close, fdvars, fdevent, wire
  <2>2. astray' \in SUBSET Calls /\ fd_reactor' \in [FdNumbers -> Threads \cup {NULL}]
    BY <2>b, UsesTyped
  <2>3. pc' \in [Calls -> Pcs]
    BY <1>24, CallStepMoves, GoesTo DEF CallStep
  <2>4. owner' \in [FdNumbers -> Calls \cup {NULL}]
    BY <1>24, <1>owner DEF FailClose, Close
  <2>5. net' \in [Calls -> {"new", "up", "dead"}]
    BY <1>24, <1>net DEF FailClose, Close
  <2> QED
    BY <2>1, <2>2, <2>3, <2>4, <2>5
    DEF TypeOK, Kpcs, Pcs, RunPcs, WaitPcs, control, switch, batch, timer, server, async
<1>25. ASSUME NEW x \in Calls, FailOpen(x) PROVE TypeOK'
  <2>1. UNCHANGED <<control, switch, conn_fd, renumbered, fdevent, batch, timer, wire, server,
                    async, cause, astray>>
    BY <1>25 DEF FailOpen, Return, fdvars
  <2>2. m_fd' \in [Calls -> 0..MaxFd] /\ owner' \in [FdNumbers -> Calls \cup {NULL}]
    BY <1>25, <1>m_fd, <1>owner, OpenSocketDoes, BoundsAssumption DEF FailOpen, FdNumbers
  <2>3. pc' \in [Calls -> Pcs]
    BY <1>25, CallStepMoves, GoesTo DEF CallStep
  <2>4. m_error_code' \in [Calls -> Codes]
    BY <1>25, <1>m_error_code DEF FailOpen, Return, Codes
  <2> QED
    BY <2>1, <2>2, <2>3, <2>4
    DEF TypeOK, Kpcs, Pcs, RunPcs, WaitPcs, control, switch, fdevent, batch, timer, wire, server,
        async
<1>26. ASSUME NEW x \in Calls, End(x) PROVE TypeOK'
  <2>a. pc[x] # "none" BY <1>26 DEF End, At
  <2>b. pc[x] # "none" /\ Uses(x, m_fd[x]) BY <1>26, <2>a DEF End, Close
  <2>1. UNCHANGED <<prog, thr, clash, misplaced, loose, early, m_fd, conn_fd, renumbered,
                    m_coroutine, batch, timer, arrived, taken, server, m_current_iothread,
                    m_is_finished, m_need_resume, cause, m_error_code>>
    BY <1>26 DEF End, Close, Suspend, NextOp, control, switch, fdvars, fdevent, wire, async
  <2>2. astray' \in SUBSET Calls /\ fd_reactor' \in [FdNumbers -> Threads \cup {NULL}]
    BY <2>b, UsesTyped
  <2>3. pc' \in [Calls -> Pcs]
    BY <1>26, CallStepMoves, GoesTo DEF CallStep
  <2>4. owner' \in [FdNumbers -> Calls \cup {NULL}]
    BY <1>26, <1>owner DEF End, Close
  <2>5. net' \in [Calls -> {"new", "up", "dead"}]
    BY <1>26, <1>net DEF End, Close
  <2>6. cur' \in [Threads -> Coroutines \cup {NULL}]
    BY <1>26, <1>cur DEF End, Suspend
  <2>7. kpc' \in [Callers -> Kpcs] /\ ip' \in [Callers -> Nat \ {0}]
    BY <1>26, <1>kpc, <1>ip DEF End, NextOp, Kpcs
  <2>8. m_tasks' \in [Threads -> Seq(Calls)]
    <3>1. \A u \in Threads : m_tasks[u] \in Seq(Calls) /\ Append(m_tasks[u], x) \in Seq(Calls)
      BY <1>m_tasks
    <3> QED BY <1>26, <1>m_tasks, <3>1 DEF End
  <2> QED
    BY <2>1, <2>2, <2>3, <2>4, <2>5, <2>6, <2>7, <2>8
    DEF TypeOK, Kpcs, Pcs, RunPcs, WaitPcs, batch, timer, server
<1>27. ASSUME NEW t \in Threads, Wakes(t) PROVE TypeOK'
  <2>a. WakesOnly(t) BY <1>27, WakesDo
  <2>b. Woken(t) \/ StaysPut BY <2>a DEF WakesOnly
  <2>1. UNCHANGED <<prog, fdvars, m_coroutine, re_events, m_reactor, conn_timer, m_pending_events,
                    dead, wire, server, m_current_iothread, m_is_finished, m_need_resume, cause,
                    m_error_code, astray>>
    BY <1>27, <2>a DEF WakesOnly, fdvars, wire, server, control, fdevent, batch, timer, async
  <2>2. /\ ip' \in [Callers -> Nat \ {0}] /\ kpc' \in [Callers -> Kpcs] /\ pc' \in [Calls -> Pcs]
        /\ cur' \in [Threads -> Coroutines \cup {NULL}] /\ thr' \in [Coroutines -> Threads]
        /\ early' \in SUBSET Calls
    BY <2>b, WokenTyped
  <2>3. misplaced' \in BOOLEAN /\ loose' \in BOOLEAN /\ clash' \in BOOLEAN
    BY <2>a DEF WakesOnly
  <2>4. is_timeout' \in [Calls -> BOOLEAN]
    BY <2>a, <1>is_timeout DEF WakesOnly
  <2>5. due' \in [Threads -> SUBSET Events]
    BY <2>a, <1>due DEF WakesOnly
  <2>6. raised' \in [Threads -> Calls \cup {NULL}]
    BY <2>a, <1>raised DEF WakesOnly
  <2>7. first_coroutine' \in [Threads -> Coroutines \cup {NULL}]
    BY <2>a, <1>first_coroutine DEF WakesOnly
  <2>8. m_task' \in Seq(FdNumbers)
    <3>1. m_task # <<>> => Tail(m_task) \in Seq(FdNumbers) BY <1>m_task
    <3> QED BY <2>a, <1>m_task, <3>1 DEF WakesOnly
  <2>9. fd_reactor' \in [FdNumbers -> Threads \cup {NULL}]
    BY <2>a, <1>fd_reactor DEF WakesOnly
  <2>10. m_tasks' \in [Threads -> Seq(Calls)]
    <3>1. CASE UNCHANGED m_tasks BY <1>m_tasks, <3>1
    <3>2. CASE m_tasks[t] # <<>> /\ m_tasks' = [m_tasks EXCEPT ![t] = Tail(@)]
      <4>1. m_tasks[t] \in Seq(Calls) BY <1>m_tasks
      <4>2. Tail(m_tasks[t]) \in Seq(Calls) BY <3>2, <4>1
      <4> QED BY <1>m_tasks, <3>2, <4>2
    <3> QED BY <2>a, <3>1, <3>2 DEF WakesOnly
  <2> QED
    BY <2>1, <2>2, <2>3, <2>4, <2>5, <2>6, <2>7, <2>8, <2>9, <2>10
    DEF TypeOK, Kpcs, Pcs, RunPcs, WaitPcs, fdvars, wire, server
<1>28. ASSUME NEW t \in Threads, NEW f \in FdNumbers, HandleFd(t, f) PROVE TypeOK'
  <2>1. UNCHANGED <<control, switch, fdvars, m_coroutine, due, raised, timer, wire, server, async,
                    pc, cause, m_error_code, astray>>
    BY <1>28 DEF HandleFd, Handling, fdevent, batch
  <2>2. re_events' \in [Threads -> SUBSET (FdNumbers \cup {m_timer_fd})]
    BY <1>28, <1>re_events DEF HandleFd, Handling
  <2>3. first_coroutine' \in [Threads -> Coroutines \cup {NULL}]
    BY <1>28, <1>first_coroutine, <1>m_coroutine DEF HandleFd
  <2>4. m_task' \in Seq(FdNumbers)
    BY <1>28, <1>m_task DEF HandleFd
  <2>5. fd_reactor' \in [FdNumbers -> Threads \cup {NULL}]
    BY <1>28, <1>fd_reactor DEF HandleFd
  <2> QED
    BY <2>1, <2>2, <2>3, <2>4, <2>5
    DEF TypeOK, Kpcs, Pcs, RunPcs, WaitPcs, control, switch, fdvars, timer, wire, server, async
<1>29. ASSUME NEW t \in Threads, NEW S \in SUBSET On(t), OnTimer(t, S) PROVE TypeOK'
  <2>1. UNCHANGED <<control, switch, fdvars, fdevent, first_coroutine, m_task, raised, m_reactor,
                    conn_timer, is_timeout, wire, server, async, pc, cause, m_error_code, astray>>
    BY <1>29 DEF OnTimer, Handling, batch, timer
  <2>2. re_events' \in [Threads -> SUBSET (FdNumbers \cup {m_timer_fd})]
    BY <1>29, <1>re_events DEF OnTimer, Handling
  <2>3. due' \in [Threads -> SUBSET Events]
    BY <1>29, <1>due, <1>m_pending_events DEF OnTimer, On
  <2>4. m_pending_events' \in SUBSET Events
    BY <1>29, <1>m_pending_events DEF OnTimer
  <2>5. dead' \in SUBSET Threads
    BY <1>29, <1>dead DEF OnTimer
  <2> QED
    BY <2>1, <2>2, <2>3, <2>4, <2>5
    DEF TypeOK, Kpcs, Pcs, RunPcs, WaitPcs, control, switch, fdvars, fdevent, wire, server, async
<1>30. ASSUME NEW t \in Threads, NEW S \in SUBSET Reportable(t), EpollReturn(t, S) PROVE TypeOK'
  <2>1. UNCHANGED <<control, switch, fdvars, fdevent, first_coroutine, m_task, due, raised, timer,
                    wire, server, async, pc, cause, m_error_code, astray>>
    BY <1>30 DEF EpollReturn, batch
  <2>2. re_events' \in [Threads -> SUBSET (FdNumbers \cup {m_timer_fd})]
    BY <1>30, <1>re_events DEF EpollReturn, Reportable
  <2> QED
    BY <2>1, <2>2
    DEF TypeOK, Kpcs, Pcs, RunPcs, WaitPcs, control, switch, fdvars, fdevent, timer, wire, server,
        async
<1>31. ASSUME NEW t \in Threads, Finish(t) PROVE TypeOK'
  <2>1. UNCHANGED <<control, switch, fdvars, fdevent, batch, timer, wire, server,
                    m_current_iothread, m_need_resume, m_tasks, pc, cause, m_error_code, astray>>
    BY <1>31 DEF Finish, async
  <2>2. m_is_finished' \in [Calls -> BOOLEAN]
    BY <1>31, <1>m_is_finished DEF Finish
  <2> QED
    BY <2>1, <2>2
    DEF TypeOK, Kpcs, Pcs, RunPcs, WaitPcs, control, switch, fdvars, fdevent, batch, timer, wire,
        server
<1>32. ASSUME NEW x \in Calls, Serve(x) PROVE TypeOK'
  <2>a. requests[x] = 1 /\ served[x] = 0
    BY <1>32, <1>requests, <1>served DEF Serve, Once
  <2>1. UNCHANGED <<control, switch, fdvars, fdevent, batch, timer, net, taken, async, pc, cause,
                    m_error_code, astray>>
    BY <1>32 DEF Serve, wire
  <2>2. requests' \in [Calls -> 0..1]
    BY <1>32, <1>requests, <2>a DEF Serve
  <2>3. served' \in [Calls -> 0..1]
    BY <1>32, <1>served, <2>a DEF Serve
  <2>4. arrived' \in [Calls -> 0..ReplyParts]
    BY <1>32, <1>arrived DEF Serve, ReplyParts
  <2> QED
    BY <2>1, <2>2, <2>3, <2>4
    DEF TypeOK, Kpcs, Pcs, RunPcs, WaitPcs, control, switch, fdvars, fdevent, batch, timer, async
<1>33. ASSUME NEW x \in Calls, Arrive(x) PROVE TypeOK'
  <2>1. UNCHANGED <<control, switch, fdvars, fdevent, batch, timer, net, taken, server, async, pc,
                    cause, m_error_code, astray>>
    BY <1>33 DEF Arrive, wire
  <2>2. arrived' \in [Calls -> 0..ReplyParts]
    BY <1>33, <1>arrived DEF Arrive, ReplyParts
  <2> QED
    BY <2>1, <2>2
    DEF TypeOK, Kpcs, Pcs, RunPcs, WaitPcs, control, switch, fdvars, fdevent, batch, timer, server,
        async
<1>34. ASSUME NEW x \in Calls, PeerClose(x) PROVE TypeOK'
  <2>1. UNCHANGED <<control, switch, fdvars, fdevent, batch, timer, arrived, taken, server, async,
                    pc, cause, m_error_code, astray>>
    BY <1>34 DEF PeerClose, wire
  <2>2. net' \in [Calls -> {"new", "up", "dead"}]
    BY <1>34, <1>net DEF PeerClose
  <2> QED
    BY <2>1, <2>2
    DEF TypeOK, Kpcs, Pcs, RunPcs, WaitPcs, control, switch, fdvars, fdevent, batch, timer, server,
        async
<1>35. CASE UNCHANGED vars
  BY <1>35 DEF TypeOK, vars, control, switch, fdvars, fdevent, batch, timer, wire, server, async
<1> QED
  BY <1>1, <1>2, <1>3, <1>4, <1>5, <1>6, <1>7, <1>8, <1>9, <1>10, <1>11, <1>12, <1>13, <1>14, <1>15,
     <1>16, <1>17, <1>18, <1>19, <1>20, <1>21, <1>22, <1>23, <1>24, <1>25, <1>26, <1>27, <1>28,
     <1>29, <1>30, <1>31, <1>32, <1>33, <1>34, <1>35, Steps
  DEF CallStep, CallerMoves, Batches, Outside

-----------------------------------------------------------------------------
\* Until a reset gives a socket another number, each call that has one open has
\* its number in m_fd, and in the TcpConnection as long as that is used.
Own ==
  renumbered = {} =>
    /\ astray = {}
    /\ \A x \in Calls : pc[x] \notin {"none", "queued", "reopen", "failed", "stuck", "done"} =>
         m_fd[x] \in FdNumbers /\ owner[m_fd[x]] = x
    /\ \A x \in Calls : pc[x] \notin {"none", "queued", "fail", "failed", "ret", "stuck", "done"} =>
         conn_fd[x] = m_fd[x]

LEMMA OwnStep == TypeOK /\ NotYet /\ Own /\ [Next]_vars => Own'
<1> SUFFICES ASSUME TypeOK, NotYet, Own, [Next]_vars PROVE Own'
  OBVIOUS
<1>0. /\ pc \in [Calls -> Pcs]
      /\ m_fd \in [Calls -> 0..MaxFd]
      /\ conn_fd \in [Calls -> 0..MaxFd]
      /\ owner \in [FdNumbers -> Calls \cup {NULL}]
  BY DEF TypeOK, Pcs, RunPcs, WaitPcs
<1>s. ASSUME UNCHANGED <<pc, m_fd, conn_fd, owner, renumbered, astray>> PROVE Own'
  BY <1>s DEF Own
<1>1. ASSUME NEW x \in Calls, Connect(x) PROVE Own'
  BY <1>0, BoundsAssumption, <1>1 DEF Connect, At, GoTo, HookWait, Uses, Own, fdvars
<1>2. ASSUME NEW x \in Calls, ConnectAgain(x) PROVE Own'
  BY <1>0, BoundsAssumption, <1>2 DEF ConnectAgain, At, GoTo, Uses, Own, fdvars
<1>3. ASSUME NEW x \in Calls, ResetClose(x) PROVE Own'
  BY <1>0, BoundsAssumption, <1>3 DEF ResetClose, At, GoTo, Close, Uses, Own
<1>4. ASSUME NEW x \in Calls, ResetOpen(x) PROVE Own'
  <2>1. PICK f \in FdNumbers : /\ owner[f] = NULL /\ m_fd' = [m_fd EXCEPT ![x] = f]
                               /\ owner' = [owner EXCEPT ![f] = x]
    BY <1>4, OpenSocketDoes DEF ResetOpen
  <2>2. PICK w \in Pcs : w # "none" /\ pc' = [pc EXCEPT ![x] = w]
    BY <1>4 DEF ResetOpen, GiveUp, Return, GoTo, Pcs, RunPcs
  <2>3. UNCHANGED <<astray, conn_fd>> /\ (renumbered' = {} => renumbered = {} /\ f = conn_fd[x])
    BY <1>0, BoundsAssumption, <1>4, <2>1 DEF ResetOpen
  <2> QED BY <1>0, BoundsAssumption, <2>1, <2>2, <2>3 DEF Own
<1>5. ASSUME NEW x \in Calls, ConnectTooLate(x) PROVE Own'
  BY <1>0, BoundsAssumption, <1>5 DEF ConnectTooLate, At, GoTo, GiveUp, Return, Own, fdvars
<1>6. ASSUME NEW x \in Calls, Send(x) PROVE Own'
  BY <1>0, BoundsAssumption, <1>6 DEF Send, At, GoTo, Delivered, HookWait, Uses, Own, fdvars
<1>7. ASSUME NEW x \in Calls, SendAgain(x) PROVE Own'
  BY <1>0, BoundsAssumption, <1>7 DEF SendAgain, At, GoTo, Delivered, Uses, Own, fdvars
<1>8. ASSUME NEW x \in Calls, SendTooLate(x) PROVE Own'
  BY <1>0, BoundsAssumption, <1>8 DEF SendTooLate, At, GoTo, Own, fdvars
<1>9. ASSUME NEW x \in Calls, GetReply(x) PROVE Own'
  <2>1. pc[x] = "recv" /\ pc' = [pc EXCEPT ![x] = "ret"] /\ UNCHANGED <<fdvars, astray>>
    BY <1>9 DEF GetReply, At, GiveUp, Return, GoTo
  <2> QED BY <1>0, <2>1 DEF Own, fdvars
<1>10. ASSUME NEW x \in Calls, Receive(x) PROVE Own'
  BY <1>0, BoundsAssumption, <1>10 DEF Receive, At, GoTo, Take, HookWait, Uses, Own, fdvars
<1>11. ASSUME NEW x \in Calls, ReceiveTooLate(x) PROVE Own'
  BY <1>0, BoundsAssumption, <1>11 DEF ReceiveTooLate, At, GoTo, Own, fdvars
<1>12. ASSUME NEW x \in Calls, ReceiveAgain(x) PROVE Own'
  BY <1>0, BoundsAssumption, <1>12 DEF ReceiveAgain, At, GoTo, Take, Uses, Own, fdvars
<1>13. ASSUME NEW x \in Calls, ReceiveEof(x) PROVE Own'
  BY <1>0, BoundsAssumption, <1>13 DEF ReceiveEof, At, GoTo, Uses, Own
<1>14. ASSUME NEW x \in Calls, FailClose(x) PROVE Own'
  BY <1>0, BoundsAssumption, <1>14 DEF FailClose, At, GoTo, Close, Uses, Own
<1>15. ASSUME NEW x \in Calls, FailOpen(x) PROVE Own'
  <2>1. PICK f \in FdNumbers : /\ owner[f] = NULL /\ m_fd' = [m_fd EXCEPT ![x] = f]
                               /\ owner' = [owner EXCEPT ![f] = x]
    BY <1>15, OpenSocketDoes DEF FailOpen
  <2>2. pc[x] = "failed" /\ pc' = [pc EXCEPT ![x] = "ret"] /\ UNCHANGED <<astray, conn_fd, renumbered>>
    BY <1>15 DEF FailOpen, At, Return, GoTo
  <2> QED BY <1>0, BoundsAssumption, <2>1, <2>2 DEF Own
<1>16. ASSUME NEW x \in Calls, End(x) PROVE Own'
  <2>1. /\ pc[x] = "ret" /\ pc' = [pc EXCEPT ![x] = "done"]
        /\ Close(x, m_fd[x]) /\ UNCHANGED <<m_fd, conn_fd, renumbered>>
    BY <1>16 DEF End, At, GoTo
  <2> QED BY <1>0, BoundsAssumption, <2>1 DEF Own, Close, Uses
<1>17. ASSUME NEW x \in Calls, NEW t, CallMethod(x, t), pc[x] \in {"none", "queued"}, UNCHANGED astray
       PROVE  Own'
  <2>1. PICK f \in FdNumbers : /\ owner[f] = NULL /\ m_fd' = [m_fd EXCEPT ![x] = f]
                               /\ owner' = [owner EXCEPT ![f] = x]
                               /\ conn_fd' = [conn_fd EXCEPT ![x] = f]
    BY <1>17, CallMethodDoes
  <2>2. /\ pc' = [pc EXCEPT ![x] = "connect"] \/ pc' = [pc EXCEPT ![x] = "ret"]
        /\ UNCHANGED <<astray, renumbered>>
    BY <1>17, CallMethodDoes
  <2> QED BY <1>0, BoundsAssumption, <1>17, BoundsAssumption, <2>1, <2>2 DEF Own
<1>18. ASSUME NEW k \in Callers, NEW x \in Calls, SyncCall(k, x) PROVE Own'
  BY <1>17, <1>18, Unmade DEF SyncCall
<1>19. ASSUME NEW x \in Calls, BeginCall(x) PROVE Own'
  BY <1>17, <1>19 DEF BeginCall
<1>20. ASSUME NEW k \in Callers, NEW x \in Calls, NEW t \in Threads, AsyncCall(k, x, t) PROVE Own'
  BY <1>0, BoundsAssumption, <1>20, Unmade DEF AsyncCall, GoTo, Own, fdvars
<1>21. ASSUME NEW k \in Callers, CallerMoves(k) PROVE Own'
  BY <1>21, <1>s, CallerMovesDo DEF fdvars
<1>22. ASSUME NEW t \in Threads, Wakes(t) PROVE Own'
  <2>0. WakesOnly(t) BY <1>22, WakesDo
  <2>1. UNCHANGED <<m_fd, conn_fd, owner, renumbered, astray>>
    BY <2>0 DEF WakesOnly, fdvars
  <2>2. \A y \in Calls : pc'[y] = pc[y] \/ (pc[y] \in WaitPcs /\ pc'[y] \in WokenPcs)
    BY <2>0, PcsWoken
  <2> QED BY <2>1, <2>2 DEF Own, WaitPcs, WokenPcs
<1>23. ASSUME NEW t \in Threads, Batches(t) PROVE Own'
  BY <1>23, <1>s, BatchesDo DEF fdvars
<1>24. ASSUME NEW x \in Calls, Outside(x) PROVE Own'
  BY <1>24, <1>s DEF Outside, Serve, Arrive, PeerClose, fdvars
<1>25. ASSUME NEW t \in Threads, Finish(t) PROVE Own'
  BY <1>25, <1>s DEF Finish, fdvars
<1>26. CASE UNCHANGED vars
  BY <1>26, <1>s DEF vars, fdvars
<1> QED
  BY <1>1, <1>2, <1>3, <1>4, <1>5, <1>6, <1>7, <1>8, <1>9, <1>10, <1>11, <1>12, <1>13, <1>14, <1>15,
     <1>16, <1>17, <1>18, <1>19, <1>20, <1>21, <1>22, <1>23, <1>24, <1>25, <1>26, Steps
  DEF CallStep

-----------------------------------------------------------------------------
(* Where coroutines are.                                                   *)

ActivePcs == RunPcs \cup WaitPcs \cup {"stuck"}

\* A call that is not suspended runs; a call by a caller itself has the caller in
\* it; and a caller that has decided to wait runs until it yields.
Places ==
  /\ \A x \in Calls : pc[x] \in RunPcs => Running(Runner(x))
  /\ \A x \in Calls : pc[x] \in ActivePcs /\ ~IsAsync(x) =>
       kpc[Caller(x)] = "in" /\ Doing(Caller(x), "call", x)
  /\ \A x \in Calls : pc[x] = "queued" => IsAsync(x)
  /\ \A k \in Callers : kpc[k] \in {"yield", "late"} => Running(k)

LEMMA SameProgram ==
  ASSUME prog' = prog
  PROVE  \A x : /\ Caller(x)' = Caller(x) /\ IsAsync(x)' = IsAsync(x) /\ Runner(x)' = Runner(x)
BY DEF Runner, Caller, IsAsync

LEMMA ResumeRuns ==
  ASSUME TypeOK, NEW t \in Threads, cur[t] = NULL, NEW c \in Coroutines, SwitchTo(t, c)
  PROVE  cur'[thr'[c]] = c /\ \A d \in Coroutines : Running(d) => cur'[thr'[d]] = d
<1>1. cur \in [Threads -> Coroutines \cup {NULL}] /\ thr \in [Coroutines -> Threads]
  BY DEF TypeOK
<1> QED BY <1>1, BoundsAssumption DEF SwitchTo, Running, Coroutines

LEMMA LeaveRuns ==
  ASSUME TypeOK, NEW c \in Coroutines, Running(c),
         cur' = [cur EXCEPT ![thr[c]] = NULL], thr' = thr
  PROVE  \A d \in Coroutines : d # c /\ Running(d) => cur'[thr'[d]] = d
<1>1. cur \in [Threads -> Coroutines \cup {NULL}] /\ thr \in [Coroutines -> Threads]
  BY DEF TypeOK
<1> QED BY <1>1 DEF Running

\* A step of a call either keeps its thread or gives it up to wait.
LEMMA CallStepRuns ==
  ASSUME TypeOK, NEW x \in Calls, CallStep(x), ~End(x)
  PROVE  \/ /\ \E w \in RunPcs : pc' = [pc EXCEPT ![x] = w]
            /\ UNCHANGED <<cur, thr>>
         \/ /\ \E w \in WaitPcs \cup {"stuck"} : pc' = [pc EXCEPT ![x] = w]
            /\ cur' = [cur EXCEPT ![thr[Runner(x)]] = NULL] /\ UNCHANGED thr
<1> DEFINE Goes == \E w \in RunPcs : pc' = [pc EXCEPT ![x] = w]
           Same == UNCHANGED <<cur, thr>>
           Waiting == \E w \in WaitPcs \cup {"stuck"} : GoTo(x, w) /\ Suspend(Runner(x))
<1>1. \A w \in RunPcs : GoTo(x, w) => Goes BY DEF GoTo
<1>2. {"connect", "connected", "reset", "reopen", "send", "sent", "recv", "input", "read",
       "fail", "failed", "ret"} \subseteq RunPcs
  BY DEF RunPcs
<1>3. \A f, w : w \in WaitPcs /\ HookWait(x, f, w) => Waiting BY DEF HookWait
<1>w. {"connecting", "sending", "reading"} \subseteq WaitPcs BY DEF WaitPcs
<1>x. GoTo(x, "stuck") /\ Suspend(Runner(x)) => Waiting OBVIOUS
<1> HIDE DEF Goes, Waiting
<1> USE <1>1, <1>2, <1>3, <1>w, <1>x
<1>4. Connect(x) \/ ConnectAgain(x) \/ ResetClose(x) => (Goes /\ Same) \/ Waiting
  BY DEF Connect, ConnectAgain, ResetClose, switch
<1>5. ResetOpen(x) \/ ConnectTooLate(x) => Goes /\ Same
  BY DEF ResetOpen, ConnectTooLate, GiveUp, Return, switch
<1>6. Send(x) \/ SendTooLate(x) => (Goes /\ Same) \/ Waiting BY DEF Send, SendTooLate, switch
<1>7. SendAgain(x) => Goes /\ Same BY DEF SendAgain, switch
<1>8. GetReply(x) \/ FailOpen(x) => Goes /\ Same BY DEF GetReply, FailOpen, GiveUp, Return, switch
<1>9. Receive(x) \/ ReceiveAgain(x) \/ ReceiveTooLate(x) => (Goes /\ Same) \/ Waiting
  BY DEF Receive, ReceiveAgain, ReceiveTooLate, Take, switch
<1>10. ReceiveEof(x) \/ FailClose(x) => (Goes /\ Same) \/ Waiting
  BY DEF ReceiveEof, FailClose, switch
<1>11. (Goes /\ Same) \/ Waiting BY <1>4, <1>5, <1>6, <1>7, <1>8, <1>9, <1>10 DEF CallStep
<1> QED BY <1>11 DEF Goes, Waiting, Suspend, GoTo

\* Nobody is in two calls.
LEMMA OneCallEach ==
  ASSUME TypeOK, Made, Places, NEW x \in Calls, NEW y \in Calls, x # y,
         pc[x] \in ActivePcs, pc[y] \in ActivePcs
  PROVE  Runner(x) # Runner(y)
<1>1. Caller(x) \in Callers /\ Caller(y) \in Callers BY Runners DEF ActivePcs, RunPcs, WaitPcs
<1>2. CASE IsAsync(x) \/ IsAsync(y) BY <1>1, <1>2, BoundsAssumption DEF Runner
<1>3. CASE ~IsAsync(x) /\ ~IsAsync(y)
  <2> SUFFICES ASSUME Caller(x) = Caller(y) PROVE FALSE BY <1>3 DEF Runner
  <2>1. Doing(Caller(x), "call", x) /\ Doing(Caller(x), "call", y) BY <1>3 DEF Places
  <2>2. <<"call", x>> = <<"call", y>> BY <2>1 DEF Doing
  <2> QED BY <2>2
<1> QED BY <1>2, <1>3

\* No call runs on a caller that is not in one.
LEMMA NotOnCaller ==
  ASSUME TypeOK, Made, Places, NEW k \in Callers, kpc[k] # "in",
         NEW x \in Calls, pc[x] \in ActivePcs
  PROVE  Runner(x) # k /\ (~IsAsync(x) => Caller(x) # k)
BY BoundsAssumption DEF Runner, Places

\* What a caller does outside of its calls.
LEMMA PlacesCaller ==
  ASSUME TypeOK, Made, Places, NEW k \in Callers, kpc[k] # "in", UNCHANGED <<pc, prog>>,
         \A l \in Callers : l # k => kpc'[l] = kpc[l] /\ ip'[l] = ip[l],
         kpc'[k] \in {"yield", "late"} => cur'[thr'[k]] = k,
         \A d \in Coroutines : d # k /\ Running(d) => cur'[thr'[d]] = d
  PROVE  Places'
<1>1. \A x : Caller(x)' = Caller(x) /\ IsAsync(x)' = IsAsync(x) /\ Runner(x)' = Runner(x)
  BY SameProgram
<1>2. \A x \in Calls : pc'[x] \in RunPcs => cur'[thr'[Runner(x)]] = Runner(x)
  <2> SUFFICES ASSUME NEW x \in Calls, pc[x] \in RunPcs PROVE cur'[thr'[Runner(x)]] = Runner(x)
    OBVIOUS
  <2>1. Runner(x) # k BY NotOnCaller DEF ActivePcs
  <2>2. Running(Runner(x)) /\ Runner(x) \in Coroutines BY Runners DEF Places, RunPcs
  <2> QED BY <2>1, <2>2
<1>3. \A x \in Calls : pc'[x] \in ActivePcs /\ ~IsAsync(x) =>
        kpc'[Caller(x)] = "in" /\ ip'[Caller(x)] = ip[Caller(x)] /\ Doing(Caller(x), "call", x)
  <2> SUFFICES ASSUME NEW x \in Calls, pc[x] \in ActivePcs, ~IsAsync(x)
               PROVE  kpc'[Caller(x)] = "in" /\ ip'[Caller(x)] = ip[Caller(x)] /\ Doing(Caller(x), "call", x)
    OBVIOUS
  <2>1. Caller(x) # k BY NotOnCaller
  <2>2. Caller(x) \in Callers BY Runners DEF ActivePcs, RunPcs, WaitPcs
  <2>3. kpc[Caller(x)] = "in" /\ Doing(Caller(x), "call", x) BY DEF Places
  <2> QED BY <2>1, <2>2, <2>3
<1>4. \A l \in Callers : kpc'[l] \in {"yield", "late"} => cur'[thr'[l]] = l
  <2> SUFFICES ASSUME NEW l \in Callers, l # k, kpc[l] \in {"yield", "late"} PROVE cur'[thr'[l]] = l
    OBVIOUS
  <2>1. Running(l) BY DEF Places
  <2> QED BY <2>1 DEF Coroutines
<1> QED BY <1>1, <1>2, <1>3, <1>4 DEF Places, Running, Doing, Op

\* What a call does, its caller being where it is.
LEMMA PlacesCall ==
  ASSUME TypeOK, Made, Places, NEW x \in Calls, NEW w \in Pcs, pc' = [pc EXCEPT ![x] = w],
         UNCHANGED <<prog, ip, kpc>>,
         w = "queued" => IsAsync(x),
         w \in ActivePcs /\ ~IsAsync(x) => kpc[Caller(x)] = "in" /\ Doing(Caller(x), "call", x),
         w \in RunPcs => cur'[thr'[Runner(x)]] = Runner(x),
         \A y \in Calls : y # x /\ pc[y] \in RunPcs => cur'[thr'[Runner(y)]] = Runner(y),
         \A k \in Callers : kpc[k] \in {"yield", "late"} => cur'[thr'[k]] = k
  PROVE  Places'
<1>0. pc \in [Calls -> Pcs] BY DEF TypeOK, Pcs, RunPcs, WaitPcs
<1>1. \A y : Caller(y)' = Caller(y) /\ IsAsync(y)' = IsAsync(y) /\ Runner(y)' = Runner(y)
  BY SameProgram
<1>2. \A y \in Calls : y # x => pc'[y] = pc[y] BY <1>0
<1>3. pc'[x] = w BY <1>0
<1>4. \A y \in Calls : pc'[y] \in RunPcs => cur'[thr'[Runner(y)]] = Runner(y) BY <1>2, <1>3
<1>5. \A y \in Calls : pc'[y] \in ActivePcs /\ ~IsAsync(y) =>
        kpc[Caller(y)] = "in" /\ Doing(Caller(y), "call", y)
  BY <1>2, <1>3 DEF Places
<1>6. \A y \in Calls : pc'[y] = "queued" => IsAsync(y) BY <1>2, <1>3 DEF Places
<1> QED BY <1>1, <1>4, <1>5, <1>6 DEF Places, Running, Doing, Op

LEMMA PlacesStep == TypeOK /\ Made /\ NotYet /\ Places /\ [Next]_vars => Places'
<1> SUFFICES ASSUME TypeOK, Made, NotYet, Places, [Next]_vars PROVE Places'
  OBVIOUS
<1>0. /\ pc \in [Calls -> Pcs] /\ m_tasks \in [Threads -> Seq(Calls)]
      /\ ip \in [Callers -> Nat \ {0}] /\ kpc \in [Callers -> Kpcs]
      /\ cur \in [Threads -> Coroutines \cup {NULL}] /\ thr \in [Coroutines -> Threads]
  BY DEF TypeOK, Pcs, RunPcs, WaitPcs, Kpcs
<1>a. ActivePcs \subseteq Pcs /\ RunPcs \subseteq ActivePcs /\ "none" \notin ActivePcs /\ "queued" \notin ActivePcs
      /\ WaitPcs \subseteq ActivePcs /\ "stuck" \in ActivePcs /\ "done" \notin ActivePcs /\ "done" \in Pcs
  BY DEF ActivePcs, Pcs, RunPcs, WaitPcs
<1>b. \A y \in Calls : pc[y] \in ActivePcs => Runner(y) \in Coroutines /\ Caller(y) \in Callers
  BY <1>a, Runners
<1>c. \A y \in Calls : pc[y] \in RunPcs => Running(Runner(y)) BY DEF Places
<1>d. \A k \in Callers : kpc[k] \in {"yield", "late"} => Running(k) BY DEF Places
<1>1. CASE UNCHANGED <<pc, prog, kpc, ip, cur, thr>>
  <2>1. \A y : Caller(y)' = Caller(y) /\ IsAsync(y)' = IsAsync(y) /\ Runner(y)' = Runner(y)
    BY <1>1, SameProgram
  <2> QED BY <1>1, <2>1 DEF Places, Running, Doing, Op
<1>2. ASSUME NEW x \in Calls, CallStep(x), ~End(x) PROVE Places'
  <2>0. pc[x] \in RunPcs /\ Running(Runner(x)) BY <1>2, CallStepMoves
  <2>1. UNCHANGED <<prog, ip, kpc>> BY <1>2, CallStepKeeps
  <2>2. ~IsAsync(x) => kpc[Caller(x)] = "in" /\ Doing(Caller(x), "call", x) BY <1>a, <2>0 DEF Places
  <2>3. CASE \E w \in RunPcs : pc' = [pc EXCEPT ![x] = w] /\ UNCHANGED <<cur, thr>>
    <3>1. PICK w \in RunPcs : pc' = [pc EXCEPT ![x] = w] BY <2>3
    <3>2. w \in Pcs /\ w # "queued" BY <1>a
    <3>3. \A y \in Calls : pc[y] \in RunPcs => cur'[thr'[Runner(y)]] = Runner(y)
      BY <1>c, <2>3 DEF Running
    <3>4. \A k \in Callers : kpc[k] \in {"yield", "late"} => cur'[thr'[k]] = k
      BY <1>d, <2>3 DEF Running
    <3> QED BY <2>0, <2>1, <2>2, <3>1, <3>2, <3>3, <3>4, PlacesCall
  <2>4. CASE /\ \E w \in WaitPcs \cup {"stuck"} : pc' = [pc EXCEPT ![x] = w]
             /\ cur' = [cur EXCEPT ![thr[Runner(x)]] = NULL] /\ thr' = thr
    <3>1. PICK w \in WaitPcs \cup {"stuck"} : pc' = [pc EXCEPT ![x] = w] BY <2>4
    <3>2. w \in Pcs /\ w # "queued" /\ w \notin RunPcs BY <1>a DEF WaitPcs, RunPcs
    <3>3. \A d \in Coroutines : d # Runner(x) /\ Running(d) => cur'[thr'[d]] = d
      BY <1>a, <1>b, <2>0, <2>4, LeaveRuns
    <3>4. \A y \in Calls : y # x /\ pc[y] \in RunPcs => cur'[thr'[Runner(y)]] = Runner(y)
      BY <1>a, <1>b, <1>c, <2>0, <3>3, OneCallEach
    <3>5. \A k \in Callers : kpc[k] \in {"yield", "late"} => cur'[thr'[k]] = k
      <4> SUFFICES ASSUME NEW k \in Callers, kpc[k] \in {"yield", "late"} PROVE cur'[thr'[k]] = k
        OBVIOUS
      <4>1. Runner(x) # k BY <1>a, <2>0, NotOnCaller
      <4> QED BY <1>d, <3>3, <4>1 DEF Coroutines
    <3> QED BY <2>1, <2>2, <3>1, <3>2, <3>4, <3>5, PlacesCall
  <2> QED BY <1>2, <2>3, <2>4, CallStepRuns
<1>3. ASSUME NEW x \in Calls, End(x) PROVE Places'
  <2>0. /\ pc[x] = "ret" /\ Running(Runner(x)) /\ pc' = [pc EXCEPT ![x] = "done"] /\ UNCHANGED <<prog, thr>>
        /\ pc[x] \in RunPcs
    BY <1>3 DEF End, At, GoTo, Suspend, RunPcs
  <2>1. CASE IsAsync(x)
    <3>1. Runner(x) = x /\ cur' = [cur EXCEPT ![thr[x]] = NULL] /\ UNCHANGED <<kpc, ip>>
      BY <1>3, <2>1 DEF End, Runner, Suspend
    <3>2. \A d \in Coroutines : d # x /\ Running(d) => cur'[thr'[d]] = d
      BY <2>0, <3>1, LeaveRuns DEF Coroutines
    <3>3. \A y \in Calls : y # x /\ pc[y] \in RunPcs => cur'[thr'[Runner(y)]] = Runner(y)
      BY <1>a, <1>b, <1>c, <2>0, <3>1, <3>2, OneCallEach
    <3>4. \A k \in Callers : kpc[k] \in {"yield", "late"} => cur'[thr'[k]] = k
      BY <1>d, <3>2, BoundsAssumption DEF Coroutines
    <3> QED BY <1>a, <2>0, <2>1, <3>1, <3>3, <3>4, PlacesCall
  <2>2. CASE ~IsAsync(x)
    <3>1. /\ kpc' = [kpc EXCEPT ![Caller(x)] = "run"] /\ ip' = [ip EXCEPT ![Caller(x)] = @ + 1]
          /\ UNCHANGED cur
      BY <1>3, <2>2 DEF End, NextOp
    <3>2. Caller(x) = Runner(x) /\ Caller(x) \in Callers /\ kpc[Caller(x)] = "in"
      BY <1>a, <1>b, <2>0, <2>2 DEF Runner, Places
    <3>3. \A y : Caller(y)' = Caller(y) /\ IsAsync(y)' = IsAsync(y) /\ Runner(y)' = Runner(y)
      BY <2>0, SameProgram
    <3>4. \A y \in Calls : pc'[y] \in ActivePcs => y # x /\ pc[y] \in ActivePcs /\ pc'[y] = pc[y]
      BY <1>0, <1>a, <2>0
    <3>5. \A y \in Calls : pc'[y] \in ActivePcs /\ ~IsAsync(y) =>
            kpc'[Caller(y)] = "in" /\ ip'[Caller(y)] = ip[Caller(y)] /\ Doing(Caller(y), "call", y)
      <4> SUFFICES ASSUME NEW y \in Calls, y # x, pc[y] \in ActivePcs, ~IsAsync(y)
                   PROVE  kpc'[Caller(y)] = "in" /\ ip'[Caller(y)] = ip[Caller(y)] /\ Doing(Caller(y), "call", y)
        BY <3>4
      <4>1. Caller(y) # Caller(x)
        <5>1. Runner(y) # Runner(x) BY <1>a, <2>0, OneCallEach
        <5>2. Runner(y) = Caller(y) BY DEF Runner
        <5> QED BY <3>2, <5>1, <5>2
      <4>2. kpc[Caller(y)] = "in" /\ Doing(Caller(y), "call", y) /\ Caller(y) \in Callers
        BY <1>b DEF Places
      <4> QED BY <1>0, <3>1, <4>1, <4>2
    <3>6. \A y \in Calls : pc'[y] \in RunPcs => cur'[thr'[Runner(y)]] = Runner(y)
      BY <1>a, <1>c, <2>0, <3>1, <3>4 DEF Running
    <3>7. \A y \in Calls : pc'[y] = "queued" => IsAsync(y) BY <1>0, <2>0 DEF Places
    <3>8. \A k \in Callers : kpc'[k] \in {"yield", "late"} => cur'[thr'[k]] = k
      BY <1>0, <1>d, <2>0, <3>1 DEF Running
    <3> QED BY <2>0, <3>3, <3>5, <3>6, <3>7, <3>8 DEF Places, Running, Doing, Op
  <2> QED BY <2>1, <2>2
<1>5. ASSUME NEW k \in Callers,
             NEW t \in Threads, cur[t] = NULL, SwitchTo(t, k), UNCHANGED <<pc, prog>>,
             kpc[k] # "in", kpc' = [kpc EXCEPT ![k] = "run"], ip' = ip \/ ip' = [ip EXCEPT ![k] = @ + 1]
      PROVE  Places'
  <2>1. \A d \in Coroutines : Running(d) => cur'[thr'[d]] = d
    BY <1>5, ResumeRuns DEF Coroutines
  <2>2. \A l \in Callers : l # k => kpc'[l] = kpc[l] /\ ip'[l] = ip[l] BY <1>0, <1>5
  <2>3. kpc'[k] \notin {"yield", "late"} BY <1>0, <1>5
  <2> QED BY <1>5, <2>1, <2>2, <2>3, PlacesCaller
<1>6. ASSUME NEW k \in Callers, BeginCaller(k) \/ \E t \in Threads : HookBack(k, t) PROVE Places'
  <2>1. CASE BeginCaller(k)
    <3>1. thr[k] \in Threads /\ cur[thr[k]] = NULL BY <1>0, <2>1 DEF BeginCaller, Idle, Free, Coroutines
    <3> QED BY <1>5, <2>1, <3>1 DEF BeginCaller
  <2>2. ASSUME NEW t \in Threads, HookBack(k, t) PROVE Places'
    BY <1>5, <2>2 DEF HookBack, Idle, Free, NextOp
  <2> QED BY <1>6, <2>1, <2>2
<1>7. ASSUME NEW k \in Callers, EndCaller(k) \/ \E x \in Calls : Hook(k, x) \/ WaitYield(k, x)
      PROVE  Places'
  <2>1. /\ Running(k) /\ kpc[k] # "in" /\ UNCHANGED <<pc, prog, ip, thr>>
        /\ \E w \in {"hook", "end", "waiting"} : kpc' = [kpc EXCEPT ![k] = w]
        /\ cur' = [cur EXCEPT ![thr[k]] = NULL]
    BY <1>7 DEF EndCaller, Hook, WaitYield, Suspend
  <2>2. \A d \in Coroutines : d # k /\ Running(d) => cur'[thr'[d]] = d
    BY <2>1, LeaveRuns DEF Coroutines
  <2>3. \A l \in Callers : l # k => kpc'[l] = kpc[l] /\ ip'[l] = ip[l] BY <1>0, <2>1
  <2>4. kpc'[k] \notin {"yield", "late"} BY <1>0, <2>1
  <2> QED BY <2>1, <2>2, <2>3, <2>4, PlacesCaller
<1>8. ASSUME NEW k \in Callers, NEW x \in Calls, Wait(k, x) \/ MakeChannel(k, x) PROVE Places'
  <2>1. /\ Running(k) /\ kpc[k] # "in" /\ UNCHANGED <<pc, prog, cur, thr>>
        /\ kpc' = kpc \/ \E w : kpc' = [kpc EXCEPT ![k] = w]
        /\ ip' = ip \/ ip' = [ip EXCEPT ![k] = @ + 1]
    BY <1>8 DEF Wait, MakeChannel, NextOp, switch
  <2>2. \A d : Running(d) => cur'[thr'[d]] = d BY <2>1 DEF Running
  <2>3. \A l \in Callers : l # k => kpc'[l] = kpc[l] /\ ip'[l] = ip[l] BY <1>0, <2>1
  <2> QED BY <2>1, <2>2, <2>3, PlacesCaller
<1>9. ASSUME NEW k \in Callers, NEW x \in Calls, SyncCall(k, x) PROVE Places'
  <2>1. /\ Running(k) /\ kpc[k] = "run" /\ Doing(k, "call", x) /\ UNCHANGED <<prog, ip, cur, thr>>
        /\ kpc' = [kpc EXCEPT ![k] = "in"]
    BY <1>9 DEF SyncCall, switch
  <2>2. PICK w \in RunPcs : pc' = [pc EXCEPT ![x] = w]
    BY <1>9, CallMethodDoes DEF SyncCall, RunPcs
  <2>3. Caller(x) = k /\ ~IsAsync(x) /\ Runner(x) = k BY <2>1, Unmade, SyncRunner
  <2>4. \A y : Caller(y)' = Caller(y) /\ IsAsync(y)' = IsAsync(y) /\ Runner(y)' = Runner(y)
    BY <2>1, SameProgram
  <2>5. \A y \in Calls : pc'[y] \in ActivePcs /\ ~IsAsync(y) =>
          kpc'[Caller(y)] = "in" /\ Doing(Caller(y), "call", y)
    <3> SUFFICES ASSUME NEW y \in Calls, y # x, pc[y] \in ActivePcs, ~IsAsync(y)
                 PROVE  kpc'[Caller(y)] = "in" /\ Doing(Caller(y), "call", y)
      BY <1>0, <2>1, <2>2, <2>3
    <3>1. Caller(y) # k BY <2>1, NotOnCaller
    <3>2. Caller(y) \in Callers /\ kpc[Caller(y)] = "in" /\ Doing(Caller(y), "call", y)
      BY <1>b DEF Places
    <3> QED BY <1>0, <2>1, <3>1, <3>2
  <2>6. \A y \in Calls : pc'[y] \in RunPcs => cur'[thr'[Runner(y)]] = Runner(y)
    BY <1>0, <1>c, <2>1, <2>2, <2>3 DEF Running
  <2>7. \A y \in Calls : pc'[y] = "queued" => IsAsync(y) BY <1>0, <1>a, <2>2 DEF Places
  <2>8. \A l \in Callers : kpc'[l] \in {"yield", "late"} => cur'[thr'[l]] = l
    BY <1>0, <1>d, <2>1 DEF Running
  <2> QED BY <2>1, <2>4, <2>5, <2>6, <2>7, <2>8 DEF Places, Running, Doing, Op
<1>10. ASSUME NEW k \in Callers, NEW x \in Calls, NEW t \in Threads, AsyncCall(k, x, t)
       PROVE  Places'
  <2>1. /\ Running(k) /\ kpc[k] = "run" /\ pc[x] = "none" /\ UNCHANGED <<prog, kpc, cur>>
        /\ ip' = [ip EXCEPT ![k] = @ + 1]
        /\ \/ pc' = pc /\ thr' = thr
           \/ pc' = [pc EXCEPT ![x] = "queued"] /\ thr' = [thr EXCEPT ![x] = t]
    BY <1>10, Unmade DEF AsyncCall, NextOp, GoTo
  <2>2. IsAsync(x) BY <1>10, Unmade, AsyncRunner DEF AsyncCall
  <2>3. \A y : Caller(y)' = Caller(y) /\ IsAsync(y)' = IsAsync(y) /\ Runner(y)' = Runner(y)
    BY <2>1, SameProgram
  <2>4. \A y \in Calls : pc'[y] \in ActivePcs => y # x /\ pc[y] = pc'[y] BY <1>0, <1>a, <2>1
  <2>5. \A d \in Coroutines : d # x => thr'[d] = thr[d] BY <1>0, <2>1
  <2>6. \A y \in Calls : pc'[y] \in ActivePcs /\ ~IsAsync(y) =>
          kpc'[Caller(y)] = "in" /\ ip'[Caller(y)] = ip[Caller(y)] /\ Doing(Caller(y), "call", y)
    <3> SUFFICES ASSUME NEW y \in Calls, pc[y] \in ActivePcs, ~IsAsync(y)
                 PROVE  kpc'[Caller(y)] = "in" /\ ip'[Caller(y)] = ip[Caller(y)] /\ Doing(Caller(y), "call", y)
      BY <2>4
    <3>1. Caller(y) # k BY <2>1, NotOnCaller
    <3>2. Caller(y) \in Callers /\ kpc[Caller(y)] = "in" /\ Doing(Caller(y), "call", y)
      BY <1>b DEF Places
    <3> QED BY <1>0, <2>1, <3>1, <3>2
  <2>7. \A y \in Calls : pc'[y] \in RunPcs => cur'[thr'[Runner(y)]] = Runner(y)
    <3> SUFFICES ASSUME NEW y \in Calls, y # x, pc[y] \in RunPcs PROVE cur'[thr'[Runner(y)]] = Runner(y)
      BY <1>a, <2>4
    <3>1. Runner(y) # x /\ Runner(y) \in Coroutines
      BY <1>a, <1>b, BoundsAssumption DEF Runner
    <3> QED BY <1>c, <2>1, <2>5, <3>1 DEF Running
  <2>8. \A y \in Calls : pc'[y] = "queued" => IsAsync(y) BY <1>0, <2>1, <2>2 DEF Places
  <2>9. \A l \in Callers : kpc'[l] \in {"yield", "late"} => cur'[thr'[l]] = l
    BY <1>d, <2>1, <2>5, BoundsAssumption DEF Running, Coroutines
  <2>10. UNCHANGED prog BY <2>1
  <2> QED BY <2>3, <2>6, <2>7, <2>8, <2>9, <2>10 DEF Places, Running, Doing, Op
<1>11. ASSUME NEW x \in Calls, BeginCall(x) PROVE Places'
  <2>1. /\ pc[x] = "queued" /\ cur[thr[x]] = NULL /\ thr[x] \in Threads /\ UNCHANGED <<prog, ip, kpc>>
        /\ SwitchTo(thr[x], x)
    BY <1>0, <1>11 DEF BeginCall, Idle, Free, control, Coroutines
  <2>2. PICK w \in RunPcs : pc' = [pc EXCEPT ![x] = w]
    BY <1>11, CallMethodDoes DEF BeginCall, RunPcs
  <2>3. IsAsync(x) /\ Runner(x) = x BY <2>1 DEF Places, Runner
  <2>4. cur'[thr'[x]] = x /\ \A d \in Coroutines : Running(d) => cur'[thr'[d]] = d
    BY <2>1, ResumeRuns DEF Coroutines
  <2>5. \A y \in Calls : y # x /\ pc[y] \in RunPcs => cur'[thr'[Runner(y)]] = Runner(y)
    BY <1>a, <1>b, <1>c, <2>4
  <2>6. \A k \in Callers : kpc[k] \in {"yield", "late"} => cur'[thr'[k]] = k BY <1>d, <2>4 DEF Coroutines
  <2> QED BY <1>a, <2>1, <2>2, <2>3, <2>4, <2>5, <2>6, PlacesCall
<1>12. ASSUME NEW t \in Threads, Wakes(t) PROVE Places'
  <2>0. WakesOnly(t) BY <1>12, WakesDo
  <2>1. UNCHANGED prog BY <2>0 DEF WakesOnly
  <2>2. ASSUME cur[t] = NULL, NEW x \in Calls, NEW w \in WokenPcs, pc[x] \in WaitPcs,
               pc' = [pc EXCEPT ![x] = w], SwitchTo(t, Runner(x)), UNCHANGED <<ip, kpc>>
        PROVE  Places'
    <3>1. Runner(x) \in Coroutines BY <1>a, <1>b, <2>2
    <3>2. cur'[thr'[Runner(x)]] = Runner(x) /\ \A d \in Coroutines : Running(d) => cur'[thr'[d]] = d
      BY <2>2, <3>1, ResumeRuns
    <3>3. w \in Pcs /\ w \in RunPcs /\ w # "queued" BY <1>a DEF WokenPcs, RunPcs
    <3>4. ~IsAsync(x) => kpc[Caller(x)] = "in" /\ Doing(Caller(x), "call", x)
      BY <1>a, <2>2 DEF Places
    <3>5. \A y \in Calls : y # x /\ pc[y] \in RunPcs => cur'[thr'[Runner(y)]] = Runner(y)
      BY <1>a, <1>b, <1>c, <3>2
    <3>6. \A k \in Callers : kpc[k] \in {"yield", "late"} => cur'[thr'[k]] = k
      BY <1>d, <3>2 DEF Coroutines
    <3> QED BY <2>1, <2>2, <3>2, <3>3, <3>4, <3>5, <3>6, PlacesCall
  <2>3. ASSUME cur[t] = NULL, NEW k \in Callers, kpc[k] \in {"hook", "waiting"},
               kpc' = [kpc EXCEPT ![k] = "run"], ip' = [ip EXCEPT ![k] = ip[k] + 1], SwitchTo(t, k),
               UNCHANGED pc
        PROVE  Places'
    BY <1>5, <2>1, <2>3
  <2>4. CASE Woken(t) BY <2>2, <2>3, <2>4 DEF Woken
  <2>5. CASE StaysPut BY <1>1, <2>1, <2>5 DEF StaysPut
  <2> QED BY <2>0, <2>4, <2>5 DEF WakesOnly
<1>13. ASSUME NEW x \in Calls, Outside(x) PROVE Places'
  BY <1>1, <1>13 DEF Outside, Serve, Arrive, PeerClose, control, switch
<1>14. ASSUME NEW t \in Threads, Batches(t) \/ Finish(t) PROVE Places'
  <2>1. CASE Batches(t) BY <1>1, <2>1, BatchesDo DEF control, switch
  <2>2. CASE Finish(t) BY <1>1, <2>2 DEF Finish, control, switch
  <2> QED BY <1>14, <2>1, <2>2
<1>15. CASE UNCHANGED vars BY <1>1, <1>15 DEF vars, control, switch
<1>16. ASSUME NEW k \in Callers, CallerMoves(k) PROVE Places'
  BY <1>6, <1>7, <1>8, <1>16 DEF CallerMoves
<1> QED
  BY <1>2, <1>3, <1>9, <1>10, <1>11, <1>12, <1>13, <1>14, <1>15, <1>16, Steps

-----------------------------------------------------------------------------
(* The theorems.                                                           *)

IInv == Made /\ NotYet /\ Timed /\ Once /\ Answers /\ Own /\ Places

LEMMA InitOK == Init => TypeOK /\ IInv
<1> SUFFICES ASSUME Init PROVE TypeOK /\ IInv
  OBVIOUS
<1>1. thr \in [Coroutines -> Threads]
  <2>1. (CHOOSE t \in Threads : TRUE) \in Threads BY BoundsAssumption
  <2>2. prog.home \in [Callers -> Threads] BY ProgramsAssumption DEF Init
  <2> DEFINE home == prog.home
             first == CHOOSE t \in Threads : TRUE
  <2>3. thr = [c \in Coroutines |-> IF c \in Callers THEN home[c] ELSE first] BY DEF Init
  <2> HIDE DEF home, first
  <2>4. home \in [Callers -> Threads] /\ first \in Threads BY <2>1, <2>2 DEF home, first
  <2> QED BY <2>3, <2>4
<1>2. \A x \in Calls : /\ pc[x] = "none" /\ ~m_is_finished[x] /\ m_error_code[x] = "OK"
                       /\ ~is_timeout[x] /\ ~HasTimer(x)
                       /\ requests[x] = 0 /\ served[x] = 0 /\ taken[x] = 0 /\ arrived[x] = 0
  BY DEF Init, HasTimer
<1>3. /\ \A k \in Callers : kpc[k] \in {"new", "end"}
      /\ m_tasks \in [Threads -> Seq(Calls)] /\ \A t \in Threads : m_tasks[t] = <<>>
  BY DEF Init
<1>4. TypeOK
  <2>1. /\ prog \in Programs /\ ip \in [Callers -> Nat \ {0}]
        /\ kpc \in [Callers -> {"new", "run", "hook", "in", "yield", "late", "waiting", "end"}]
        /\ cur \in [Threads -> Coroutines \cup {NULL}]
    BY DEF Init
  <2>2. /\ m_fd \in [Calls -> 0..MaxFd] /\ conn_fd \in [Calls -> 0..MaxFd]
        /\ owner \in [FdNumbers -> Calls \cup {NULL}]
        /\ m_coroutine \in [FdNumbers -> Coroutines \cup {NULL}]
        /\ fd_reactor \in [FdNumbers -> Threads \cup {NULL}]
    BY BoundsAssumption DEF Init
  <2>3. /\ arrived \in [Calls -> 0..ReplyParts] /\ taken \in [Calls -> 0..ReplyParts]
        /\ requests \in [Calls -> 0..1] /\ served \in [Calls -> 0..1]
    BY DEF Init, ReplyParts
  <2>4. /\ re_events \in [Threads -> SUBSET (FdNumbers \cup {m_timer_fd})]
        /\ first_coroutine \in [Threads -> Coroutines \cup {NULL}] /\ m_task \in Seq(FdNumbers)
        /\ m_reactor \in [Calls -> Threads \cup {NULL}] /\ conn_timer \in [Calls -> Threads \cup {NULL}]
        /\ m_pending_events \subseteq Events /\ due \in [Threads -> SUBSET Events]
        /\ raised \in [Threads -> Calls \cup {NULL}] /\ dead \subseteq Threads
    BY DEF Init
  <2>5. /\ pc \in [Calls -> {"none", "queued", "connect", "connecting", "connected", "reset",
                             "reopen", "send", "sending", "sent", "recv", "input", "reading",
                             "read", "stuck", "fail", "failed", "ret", "done"}]
        /\ is_timeout \in [Calls -> BOOLEAN] /\ cause \in [Calls -> Errnos]
        /\ net \in [Calls -> {"new", "up", "dead"}] /\ m_error_code \in [Calls -> Codes]
        /\ m_current_iothread \in [Calls -> Threads \cup {NULL}]
        /\ m_is_finished \in [Calls -> BOOLEAN] /\ m_need_resume \in [Calls -> BOOLEAN]
    BY DEF Init, Errnos, Codes
  <2>6. /\ clash \in BOOLEAN /\ misplaced \in BOOLEAN /\ loose \in BOOLEAN /\ early \subseteq Calls
        /\ astray \subseteq Calls /\ renumbered \subseteq Calls
    BY DEF Init
  <2> QED BY <1>1, <1>3, <2>1, <2>2, <2>3, <2>4, <2>5, <2>6 DEF TypeOK
<1>5. Made /\ NotYet BY <1>2, <1>3 DEF Made, NotYet
<1>6. Timed /\ Once /\ Answers BY <1>2 DEF Timed, Once, Answers
<1>7. Own BY <1>2 DEF Init, Own
<1>8. Places BY <1>2, <1>3 DEF Places, ActivePcs, RunPcs, WaitPcs
<1> QED BY <1>4, <1>5, <1>6, <1>7, <1>8 DEF IInv

LEMMA IInvStep == TypeOK /\ IInv /\ [Next]_vars => (TypeOK /\ IInv)'
BY TypeStep, MadeStep, NotYetStep, TimedStep, OnceStep, AnswersStep, OwnStep, PlacesStep DEF IInv

LEMMA IInvHolds == Spec => [](TypeOK /\ IInv)
BY InitOK, IInvStep, PTL DEF Spec

\* The fields of calls, channels, timers and threads keep their types.
THEOREM TypeCorrect == Spec => []TypeOK
BY IInvHolds, PTL

\* CallMethod() reports success only for a request that was executed once and
\* whose whole response was read, or that could not be serialized; whatever is
\* retried, no request is executed twice.
THEOREM OkMeansServedHolds == Spec => []OkMeansServed
<1>1. TypeOK /\ IInv => OkMeansServed
  <2> SUFFICES ASSUME TypeOK, IInv PROVE OkMeansServed
    OBVIOUS
  <2>1. \A x \in Calls : served[x] <= 1
    <3>1. served \in [Calls -> 0..1] BY DEF TypeOK
    <3> QED BY <3>1
  <2> QED BY <2>1 DEF IInv, Answers, OkMeansServed
<1> QED BY <1>1, IInvHolds, PTL

\* Calls on any number of threads close, read and write only sockets of their
\* own, until resetFd() gives one another number.
THEOREM OwnSocketOnlyHolds == Spec => []OwnSocketOnly
<1>1. IInv => OwnSocketOnly BY DEF IInv, Own, OwnSocketOnly
<1> QED BY <1>1, IInvHolds, PTL

-----------------------------------------------------------------------------
(* Calls behave as RemoteCall says.                                        *)

\* A request that cannot be sent never reaches the server.
Unsent == \A x \in Calls : ~Sendable(x) => requests[x] = 0 /\ served[x] = 0

\* A caller in another hook, or in wait(), is at that operation.
AtOp ==
  \A k \in Callers :
    /\ kpc[k] = "hook" => \E x \in Calls : Doing(k, "hook", x)
    /\ kpc[k] \in {"yield", "late", "waiting"} => \E x \in Calls : Doing(k, "wait", x)

\* Who has come out of wait() has done so because the call was finished, unless
\* it was resumed too early.
Waited ==
  \A k \in Callers, x \in Calls : \A i \in 1..Len(prog.script[k]) :
    prog.script[k][i] = <<"wait", x>> /\ i < ip[k] => x \in early \/ m_is_finished[x]

LEMMA SameProg == [Next]_vars => prog' = prog
<1> SUFFICES ASSUME [Next]_vars PROVE prog' = prog OBVIOUS
<1>1. ASSUME NEW x \in Calls, CallStep(x) PROVE prog' = prog BY <1>1, CallStepKeeps
<1>2. ASSUME NEW x \in Calls, BeginCall(x) \/ Outside(x) PROVE prog' = prog
  BY <1>2 DEF BeginCall, Outside, Serve, Arrive, PeerClose, control
<1>3. ASSUME NEW k \in Callers, NEW x \in Calls, SyncCall(k, x) PROVE prog' = prog
  BY <1>3 DEF SyncCall
<1>4. ASSUME NEW k \in Callers, NEW x \in Calls, NEW t \in Threads, AsyncCall(k, x, t)
      PROVE  prog' = prog
  BY <1>4 DEF AsyncCall
<1>5. ASSUME NEW k \in Callers, CallerMoves(k) PROVE prog' = prog BY <1>5, CallerMovesDo
<1>6. ASSUME NEW t \in Threads, Wakes(t) PROVE prog' = prog
  BY <1>6 DEF Wakes, ConnectTimeout, RpcTimeout, RpcTimeoutResume, ResumeFirst, PopCoroutine,
              FinishResume
<1>7. ASSUME NEW t \in Threads, Batches(t) PROVE prog' = prog BY <1>7, BatchesDo DEF control
<1>8. ASSUME NEW t \in Threads, Finish(t) PROVE prog' = prog BY <1>8 DEF Finish, control
<1>9. CASE UNCHANGED vars BY <1>9 DEF vars, control
<1> QED BY <1>1, <1>2, <1>3, <1>4, <1>5, <1>6, <1>7, <1>8, <1>9, Steps

\* What happens to a request.
LEMMA ServerMoves ==
  ASSUME TypeOK, [Next]_vars
  PROVE  \/ UNCHANGED <<requests, served>>
         \/ \E x \in Calls : Serve(x) \/ ((Send(x) \/ SendAgain(x)) /\ Delivered(x))
<1>1. ASSUME NEW x \in Calls, CallStep(x)
      PROVE  UNCHANGED <<requests, served>> \/ ((Send(x) \/ SendAgain(x)) /\ Delivered(x))
  <2>1. CASE Send(x) BY <2>1 DEF Send, wire
  <2>2. CASE SendAgain(x) BY <2>2 DEF SendAgain, wire
  <2>3. CASE ~Send(x) /\ ~SendAgain(x)
    BY <1>1, <2>3 DEF CallStep, Connect, ConnectAgain, ResetClose, ResetOpen, ConnectTooLate,
         SendTooLate, GetReply, Receive, ReceiveTooLate, ReceiveAgain, ReceiveEof, FailClose,
         FailOpen, End, server
  <2> QED BY <2>1, <2>2, <2>3
<1>2. ASSUME NEW x \in Calls, BeginCall(x) \/ Outside(x)
      PROVE  UNCHANGED <<requests, served>> \/ Serve(x)
  BY <1>2 DEF BeginCall, Outside, Arrive, PeerClose, server
<1>3. ASSUME NEW k \in Callers, NEW x \in Calls, SyncCall(k, x) PROVE UNCHANGED <<requests, served>>
  BY <1>3 DEF SyncCall, server
<1>4. ASSUME NEW k \in Callers, NEW x \in Calls, NEW t \in Threads, AsyncCall(k, x, t)
      PROVE  UNCHANGED <<requests, served>>
  BY <1>4 DEF AsyncCall, server
<1>5. ASSUME NEW k \in Callers, CallerMoves(k) PROVE UNCHANGED <<requests, served>>
  BY <1>5, CallerMovesDo DEF server
<1>6. ASSUME NEW t \in Threads, Wakes(t) PROVE UNCHANGED <<requests, served>>
  BY <1>6, WakesDo DEF WakesOnly, server
<1>7. ASSUME NEW t \in Threads, Batches(t) PROVE UNCHANGED <<requests, served>>
  BY <1>7, BatchesDo DEF server
<1>8. ASSUME NEW t \in Threads, Finish(t) PROVE UNCHANGED <<requests, served>>
  BY <1>8 DEF Finish, server
<1>9. CASE UNCHANGED vars BY <1>9 DEF vars, server
<1> QED BY <1>1, <1>2, <1>3, <1>4, <1>5, <1>6, <1>7, <1>8, <1>9, Steps

LEMMA UnsentStep == TypeOK /\ Answers /\ Unsent /\ [Next]_vars => Unsent'
<1> SUFFICES ASSUME TypeOK, Answers, Unsent, [Next]_vars PROVE Unsent' OBVIOUS
<1>0. prog' = prog /\ requests \in [Calls -> 0..1] /\ served \in [Calls -> 0..1]
  BY SameProg DEF TypeOK
<1>a. \A x : Sendable(x)' <=> Sendable(x) BY <1>0 DEF Sendable
<1>1. CASE UNCHANGED <<requests, served>> BY <1>a, <1>1 DEF Unsent
<1>2. ASSUME NEW x \in Calls, Serve(x) PROVE Unsent'
  <2>1. requests[x] > 0 /\ \A y \in Calls : y # x => requests'[y] = requests[y] /\ served'[y] = served[y]
    BY <1>0, <1>2 DEF Serve
  <2>2. Sendable(x) BY <1>0, <2>1 DEF Unsent
  <2> QED BY <1>a, <2>1, <2>2 DEF Unsent
<1>3. ASSUME NEW x \in Calls, Send(x) \/ SendAgain(x), Delivered(x) PROVE Unsent'
  <2>1. pc[x] \in {"send", "sent"} /\ served' = served BY <1>3 DEF Send, SendAgain, At
  <2>2. Sendable(x) BY <2>1 DEF Answers
  <2>3. \A y \in Calls : y # x => requests'[y] = requests[y] BY <1>0, <1>3 DEF Delivered
  <2> QED BY <1>a, <2>1, <2>2, <2>3 DEF Unsent
<1> QED BY <1>1, <1>2, <1>3, ServerMoves

LEMMA AtOpStep == TypeOK /\ Made /\ AtOp /\ [Next]_vars => AtOp'
<1> SUFFICES ASSUME TypeOK, Made, AtOp, [Next]_vars PROVE AtOp' OBVIOUS
<1>0. prog' = prog /\ ip \in [Callers -> Nat \ {0}] /\ kpc \in [Callers -> Kpcs]
  BY SameProg DEF TypeOK, Kpcs
<1>1. CASE UNCHANGED <<ip, kpc>> BY <1>0, <1>1 DEF AtOp, Doing, Op
<1>2. ASSUME NEW k \in Callers, \A l \in Callers : l # k => ip'[l] = ip[l] /\ kpc'[l] = kpc[l],
             kpc'[k] \notin {"hook", "yield", "late", "waiting"}
      PROVE  AtOp'
  BY <1>0, <1>2 DEF AtOp, Doing, Op
<1>3. ASSUME NEW k \in Callers, NEW x \in Calls, NEW w, ip' = ip, kpc' = [kpc EXCEPT ![k] = w],
             \/ w = "hook" /\ Doing(k, "hook", x)
             \/ w \in {"yield", "late", "waiting"} /\ Doing(k, "wait", x)
      PROVE  AtOp'
  <2>1. kpc'[k] = w /\ \A l \in Callers : l # k => kpc'[l] = kpc[l] BY <1>0, <1>3
  <2>2. \A l \in Callers, y \in Calls, op \in {"hook", "wait"} : Doing(l, op, y)' <=> Doing(l, op, y)
    BY <1>0, <1>3 DEF Doing, Op
  <2> QED BY <1>3, <2>1, <2>2 DEF AtOp
<1>4. ASSUME NEW x \in Calls, CallStep(x) PROVE AtOp'
  <2>1. CASE UNCHANGED <<ip, kpc>> BY <1>1, <2>1
  <2>2. CASE End(x) /\ ~IsAsync(x)
    <3>1. kpc' = [kpc EXCEPT ![Caller(x)] = "run"] /\ ip' = [ip EXCEPT ![Caller(x)] = @ + 1]
      BY <2>2 DEF End, NextOp
    <3>2. Caller(x) \in Callers BY <1>4, CallStepMoves, Runners DEF RunPcs
    <3> QED BY <1>0, <1>2, <3>1, <3>2
  <2> QED BY <1>4, <2>1, <2>2, CallStepKeeps DEF End
<1>5. ASSUME NEW x \in Calls, BeginCall(x) \/ Outside(x) PROVE AtOp'
  BY <1>1, <1>5 DEF BeginCall, Outside, Serve, Arrive, PeerClose, control
<1>6. ASSUME NEW k \in Callers, NEW x \in Calls, SyncCall(k, x) PROVE AtOp'
  BY <1>0, <1>2, <1>6 DEF SyncCall
<1>7. ASSUME NEW k \in Callers, NEW x \in Calls, NEW t \in Threads, AsyncCall(k, x, t) PROVE AtOp'
  BY <1>0, <1>2, <1>7 DEF AsyncCall, NextOp
<1>8. ASSUME NEW k \in Callers, BeginCaller(k) \/ EndCaller(k) \/ \E t \in Threads : HookBack(k, t)
      PROVE  AtOp'
  BY <1>0, <1>2, <1>8 DEF BeginCaller, EndCaller, HookBack, NextOp
<1>9. ASSUME NEW k \in Callers, NEW x \in Calls, Hook(k, x) \/ WaitYield(k, x) PROVE AtOp'
  BY <1>3, <1>9 DEF Hook, WaitYield
<1>10. ASSUME NEW k \in Callers, NEW x \in Calls, MakeChannel(k, x) PROVE AtOp'
  BY <1>0, <1>2, <1>10 DEF MakeChannel, NextOp
<1>11. ASSUME NEW k \in Callers, NEW x \in Calls, Wait(k, x) PROVE AtOp'
  <2>1. CASE m_is_finished[x] BY <1>0, <1>2, <1>11, <2>1 DEF Wait, NextOp
  <2>2. CASE ~m_is_finished[x] BY <1>3, <1>11, <2>2 DEF Wait
  <2> QED BY <2>1, <2>2
<1>12. ASSUME NEW k \in Callers, CallerMoves(k) PROVE AtOp'
  BY <1>8, <1>9, <1>10, <1>11, <1>12 DEF CallerMoves
<1>13. ASSUME NEW t \in Threads, Wakes(t) PROVE AtOp'
  <2>1. CASE Woken(t)
    <3>1. CASE UNCHANGED <<ip, kpc>> BY <1>1, <3>1
    <3>2. ASSUME NEW k \in Callers, kpc' = [kpc EXCEPT ![k] = "run"],
                 ip' = [ip EXCEPT ![k] = ip[k] + 1]
          PROVE  AtOp'
      BY <1>0, <1>2, <3>2
    <3> QED BY <2>1, <3>1, <3>2 DEF Woken
  <2>2. CASE StaysPut BY <1>1, <2>2 DEF StaysPut
  <2> QED BY <1>13, <2>1, <2>2, WakesDo DEF WakesOnly
<1>14. ASSUME NEW t \in Threads, Batches(t) \/ Finish(t) PROVE AtOp'
  BY <1>1, <1>14, BatchesDo DEF Finish, control
<1>15. CASE UNCHANGED vars BY <1>1, <1>15 DEF vars, control
<1> QED BY <1>4, <1>5, <1>6, <1>7, <1>12, <1>13, <1>14, <1>15, Steps

\* What is kept: nobody comes out of wait() without having been let to.
LEMMA WaitedStays ==
  ASSUME TypeOK, Waited, prog' = prog, early \subseteq early',
         \A x \in Calls : m_is_finished[x] => m_is_finished'[x],
         \A k \in Callers :
           \/ ip'[k] = ip[k]
           \/ /\ ip'[k] = ip[k] + 1
              /\ \A x \in Calls : Doing(k, "wait", x) => x \in early' \/ m_is_finished'[x]
  PROVE  Waited'
<1> SUFFICES ASSUME NEW k \in Callers, NEW x \in Calls, NEW i \in 1..Len(prog.script[k]),
                    prog.script[k][i] = <<"wait", x>>, i < ip'[k]
             PROVE  x \in early' \/ m_is_finished'[x]
  BY DEF Waited
<1>1. ip[k] \in Nat /\ i \in Nat /\ i <= Len(prog.script[k]) BY Scripts DEF TypeOK
<1>2. CASE i < ip[k] BY <1>2 DEF Waited
<1>3. CASE ~(i < ip[k])
  <2>1. ip'[k] = ip[k] + 1 /\ i = ip[k] BY <1>1, <1>3
  <2>2. Doing(k, "wait", x) BY <1>1, <2>1 DEF Doing, Op
  <2>3. ip'[k] # ip[k] BY <1>1, <2>1
  <2> QED BY <2>2, <2>3
<1> QED BY <1>2, <1>3

LEMMA OneOp ==
  ASSUME NEW k, NEW op, NEW x, NEW q, NEW y, Doing(k, op, x), Doing(k, q, y)
  PROVE  op = q /\ x = y
BY DEF Doing

LEMMA WaitedStep == TypeOK /\ Made /\ Places /\ AtOp /\ Waited /\ [Next]_vars => Waited'
<1> SUFFICES ASSUME TypeOK, Made, Places, AtOp, Waited, [Next]_vars PROVE Waited' OBVIOUS
<1>0. /\ prog' = prog /\ ip \in [Callers -> Nat \ {0}] /\ kpc \in [Callers -> Kpcs]
      /\ m_is_finished \in [Calls -> BOOLEAN]
  BY SameProg DEF TypeOK, Kpcs
<1>s. ASSUME UNCHANGED <<ip, early, m_is_finished>> PROVE Waited' BY <1>0, <1>s, WaitedStays
<1>1. ASSUME NEW k \in Callers, ip' = [ip EXCEPT ![k] = ip[k] + 1], early' = early,
             \A x \in Calls : m_is_finished[x] => m_is_finished'[x],
             NEW x \in Calls, NEW op, Doing(k, op, x), op # "wait" \/ m_is_finished[x]
      PROVE  Waited'
  <2>1. ip'[k] = ip[k] + 1 /\ \A l \in Callers : l # k => ip'[l] = ip[l] BY <1>0, <1>1
  <2>2. \A y \in Calls : Doing(k, "wait", y) => m_is_finished'[y] BY <1>1, OneOp
  <2> QED BY <1>0, <1>1, <2>1, <2>2, WaitedStays
<1>2. ASSUME NEW x \in Calls, CallStep(x) PROVE Waited'
  <2>1. UNCHANGED <<early, m_is_finished>> BY <1>2, CallStepKeeps
  <2>2. CASE ip' = ip BY <1>s, <2>1, <2>2
  <2>3. CASE End(x) /\ ~IsAsync(x)
    <3>1. ip' = [ip EXCEPT ![Caller(x)] = ip[Caller(x)] + 1] BY <2>3 DEF End, NextOp
    <3>2. pc[x] \in ActivePcs BY <1>2, CallStepMoves DEF ActivePcs
    <3>3. Caller(x) \in Callers BY <1>2, CallStepMoves, Runners DEF RunPcs
    <3>4. Doing(Caller(x), "call", x) BY <2>3, <3>2 DEF Places
    <3> QED BY <1>1, <2>1, <3>1, <3>3, <3>4
  <2> QED BY <1>2, <2>2, <2>3, CallStepKeeps DEF End
<1>3. ASSUME NEW x \in Calls, BeginCall(x) \/ Outside(x) PROVE Waited'
  BY <1>s, <1>3 DEF BeginCall, Outside, Serve, Arrive, PeerClose, control, switch, async
<1>4. ASSUME NEW k \in Callers, NEW x \in Calls, SyncCall(k, x) PROVE Waited'
  BY <1>s, <1>4 DEF SyncCall, switch, async
<1>5. ASSUME NEW k \in Callers, NEW x \in Calls, NEW t \in Threads, AsyncCall(k, x, t) PROVE Waited'
  <2>1. /\ Doing(k, "async", x) /\ ip' = [ip EXCEPT ![k] = ip[k] + 1] /\ early' = early
        /\ \A y \in Calls : m_is_finished[y] => m_is_finished'[y]
    BY <1>0, <1>5 DEF AsyncCall, NextOp
  <2> QED BY <1>1, <2>1
<1>6. ASSUME NEW k \in Callers, CallerMoves(k) PROVE Waited'
  <2>0. UNCHANGED <<early, m_is_finished>> BY <1>6, CallerMovesDo
  <2>1. CASE BeginCaller(k) \/ EndCaller(k) BY <1>s, <2>0, <2>1 DEF BeginCaller, EndCaller
  <2>2. ASSUME NEW t \in Threads, HookBack(k, t) PROVE Waited'
    <3>1. PICK x \in Calls : Doing(k, "hook", x) BY <2>2 DEF HookBack, AtOp
    <3> QED BY <1>1, <2>0, <2>2, <3>1 DEF HookBack, NextOp
  <2>3. ASSUME NEW x \in Calls, Hook(k, x) \/ WaitYield(k, x) PROVE Waited'
    BY <1>s, <2>0, <2>3 DEF Hook, WaitYield
  <2>4. ASSUME NEW x \in Calls, MakeChannel(k, x) PROVE Waited'
    BY <1>1, <2>0, <2>4 DEF MakeChannel, NextOp
  <2>5. ASSUME NEW x \in Calls, Wait(k, x) PROVE Waited'
    BY <1>s, <1>1, <2>0, <2>5 DEF Wait, NextOp
  <2> QED BY <1>6, <2>1, <2>2, <2>3, <2>4, <2>5 DEF CallerMoves
<1>7. ASSUME NEW t \in Threads, Wakes(t) PROVE Waited'
  <2>0. WakesOnly(t) BY <1>7, WakesDo
  <2>1. m_is_finished' = m_is_finished BY <2>0 DEF WakesOnly
  <2>2. CASE UNCHANGED <<ip, early>> BY <1>s, <2>1, <2>2
  <2>3. ASSUME NEW k \in Callers, kpc[k] \in {"hook", "waiting"}, ip' = [ip EXCEPT ![k] = ip[k] + 1],
               early' = early \cup {x \in Calls : /\ kpc[k] = "waiting" /\ Doing(k, "wait", x)
                                                  /\ ~m_is_finished[x]}
        PROVE  Waited'
    <3>1. ip'[k] = ip[k] + 1 /\ \A l \in Callers : l # k => ip'[l] = ip[l] BY <1>0, <2>3
    <3>2. ASSUME NEW x \in Calls, Doing(k, "wait", x) PROVE x \in early' \/ m_is_finished'[x]
      <4>1. kpc[k] = "waiting" BY <2>3, <3>2, OneOp DEF AtOp
      <4> QED BY <2>1, <2>3, <3>2, <4>1
    <3>3. early \subseteq early' BY <2>3
    <3> QED BY <1>0, <2>1, <3>1, <3>2, <3>3, WaitedStays
  <2> QED BY <2>0, <2>2, <2>3 DEF WakesOnly, Woken, StaysPut
<1>8. ASSUME NEW t \in Threads, Batches(t) PROVE Waited'
  BY <1>s, <1>8, BatchesDo DEF control, switch, async
<1>9. ASSUME NEW t \in Threads, Finish(t) PROVE Waited'
  <2>1. /\ UNCHANGED <<ip, early>>
        /\ \A y \in Calls : m_is_finished[y] => m_is_finished'[y]
    BY <1>0, <1>9 DEF Finish, control, switch
  <2> QED BY <1>0, <2>1, WaitedStays
<1>10. CASE UNCHANGED vars BY <1>s, <1>10 DEF vars, control, switch, async
<1> QED BY <1>2, <1>3, <1>4, <1>5, <1>6, <1>7, <1>8, <1>9, <1>10, Steps

-----------------------------------------------------------------------------
\* What RemoteCall sees of a call does not change.
SameCall(x) ==
  /\ pc'[x] = "none" <=> pc[x] = "none"
  /\ pc'[x] = "done" <=> pc[x] = "done"
  /\ m_is_finished'[x] = m_is_finished[x] \/ pc[x] # "none"
  /\ m_error_code'[x] = m_error_code[x] \/ pc[x] \notin {"none", "done"}
  /\ served'[x] = served[x]
  /\ taken'[x] = ReplyParts <=> taken[x] = ReplyParts

LEMMA SameRequests ==
  ASSUME prog' = prog
  PROVE  UNCHANGED <<Unsendable, Unreported, Faulty>>
BY DEF Unsendable, Unreported, Faulty

LEMMA CallsStay ==
  ASSUME prog' = prog, \A x \in Calls : SameCall(x)
  PROVE  UNCHANGED <<Unsendable, Unreported, Faulty, Begun, Executed, Received, Result>>
<1>1. UNCHANGED <<Unsendable, Unreported, Faulty>> BY SameRequests
<1>2. Begun' = Begun BY DEF Begun, SameCall
<1>3. Executed' = Executed BY DEF Executed, SameCall
<1>4. Received' = Received BY DEF Received, SameCall
<1>5. \A x \in Calls : (Over(x)' <=> Over(x)) /\ (Over(x) => m_error_code'[x] = m_error_code[x])
  BY DEF Over, SameCall
<1>6. Result' = Result BY <1>5 DEF Result
<1> QED BY <1>1, <1>2, <1>3, <1>4, <1>6

LEMMA CallMoves ==
  ASSUME prog' = prog, NEW x \in Calls, \A y \in Calls : y # x => SameCall(y)
  PROVE  /\ UNCHANGED <<Unsendable, Unreported, Faulty>>
         /\ pc'[x] # "none" \/ m_is_finished'[x] => Begun' = Begun \cup {x}
         /\ Executed' = IF served'[x] = 1 THEN Executed \cup {x} ELSE Executed \ {x}
         /\ Received' = IF taken'[x] = ReplyParts THEN Received \cup {x} ELSE Received \ {x}
         /\ Result' = [Result EXCEPT ![x] = IF Over(x)' THEN m_error_code'[x] ELSE "none"]
<1>1. UNCHANGED <<Unsendable, Unreported, Faulty>> BY SameRequests
<1>2. pc'[x] # "none" \/ m_is_finished'[x] => Begun' = Begun \cup {x} BY DEF Begun, SameCall
<1>3. Executed' = IF served'[x] = 1 THEN Executed \cup {x} ELSE Executed \ {x}
  BY DEF Executed, SameCall
<1>4. Received' = IF taken'[x] = ReplyParts THEN Received \cup {x} ELSE Received \ {x}
  BY DEF Received, SameCall
<1>5. \A y \in Calls : y # x => (Over(y)' <=> Over(y)) /\ (Over(y) => m_error_code'[y] = m_error_code[y])
  BY DEF Over, SameCall
<1>6. Result' = [Result EXCEPT ![x] = IF Over(x)' THEN m_error_code'[x] ELSE "none"]
  BY <1>5 DEF Result
<1> QED BY <1>1, <1>2, <1>3, <1>4, <1>6

\* Which callers go on.
LEMMA PassedStays ==
  ASSUME TypeOK, prog' = prog, early' = early,
         \A k \in Callers : \/ ip'[k] = ip[k]
                            \/ /\ ip'[k] = ip[k] + 1
                               /\ \E op \in {"hook", "async", "channel"}, y \in Calls : Doing(k, op, y)
  PROVE  Returned' = Returned
<1>1. ASSUME NEW k \in Callers, NEW x \in Calls PROVE Passed(k, x)' <=> Passed(k, x)
  <2>0. ip[k] \in Nat \ {0} /\ Len(prog.script[k]) \in Nat BY Scripts DEF TypeOK
  <2>1. CASE ip'[k] = ip[k] BY <2>1 DEF Passed
  <2>2. CASE ip'[k] = ip[k] + 1 /\ \E op \in {"hook", "async", "channel"}, y \in Calls : Doing(k, op, y)
    <3>1. prog.script[k][ip[k]] \notin {<<"call", x>>, <<"wait", x>>} BY <2>2 DEF Doing, Op
    <3>2. \A i \in 1..Len(prog.script[k]) : i < ip'[k] <=> i < ip[k] \/ i = ip[k] BY <2>0, <2>2
    <3> QED BY <3>1, <3>2 DEF Passed
  <2> QED BY <2>1, <2>2
<1> QED BY <1>1 DEF Returned

\* The caller of x, or who has waited for it, goes on.
LEMMA PassedBy ==
  ASSUME TypeOK, prog' = prog, NEW k \in Callers, NEW x \in Calls, NEW op \in {"call", "wait"},
         Doing(k, op, x), ip' = [ip EXCEPT ![k] = ip[k] + 1]
  PROVE  /\ Passed(k, x)'
         /\ \A l \in Callers, y \in Calls : y # x => (Passed(l, y)' <=> Passed(l, y))
<1>0. ip[k] \in Nat \ {0} /\ Len(prog.script[k]) \in Nat /\ ip \in [Callers -> Nat \ {0}]
  BY Scripts DEF TypeOK
<1>1. ip'[k] = ip[k] + 1 /\ \A l \in Callers : l # k => ip'[l] = ip[l] BY <1>0
<1>2. ip[k] \in 1..Len(prog.script[k]) /\ prog.script[k][ip[k]] = <<op, x>> BY <1>0 DEF Doing, Op
<1>3. Passed(k, x)'
  <2>1. ip[k] < ip'[k] /\ prog.script[k][ip[k]] \in {<<"call", x>>, <<"wait", x>>}
    BY <1>0, <1>1, <1>2
  <2>2. \E i \in 1..Len(prog.script[k]) :
          i < ip'[k] /\ prog.script[k][i] \in {<<"call", x>>, <<"wait", x>>}
    BY <1>2, <2>1
  <2> QED BY <2>2 DEF Passed
<1>4. ASSUME NEW l \in Callers, NEW y \in Calls, y # x PROVE Passed(l, y)' <=> Passed(l, y)
  <2>1. CASE l # k BY <1>1, <2>1 DEF Passed
  <2>2. CASE l = k
    <3>1. prog.script[k][ip[k]] \notin {<<"call", y>>, <<"wait", y>>} BY <1>2, <1>4
    <3>2. \A i \in 1..Len(prog.script[k]) : i < ip'[k] <=> i < ip[k] \/ i = ip[k] BY <1>0, <1>1
    <3> QED BY <2>2, <3>1, <3>2 DEF Passed
  <2> QED BY <2>1, <2>2
<1> QED BY <1>3, <1>4

LEMMA PassedMoves ==
  ASSUME TypeOK, prog' = prog, NEW k \in Callers, NEW x \in Calls, NEW op \in {"call", "wait"},
         Doing(k, op, x), ip' = [ip EXCEPT ![k] = ip[k] + 1], early' = early
  PROVE  Returned' = IF x \in early THEN Returned ELSE Returned \cup {x}
<1> HIDE DEF Doing
<1>1. /\ Passed(k, x)'
      /\ \A l \in Callers, y \in Calls : y # x => (Passed(l, y)' <=> Passed(l, y))
  BY PassedBy
<1> QED BY <1>1 DEF Returned

\* A caller that comes out of wait() too early has not returned.
LEMMA PassedEarly ==
  ASSUME TypeOK, Waited, prog' = prog, NEW k \in Callers, NEW x \in Calls, Doing(k, "wait", x),
         ip' = [ip EXCEPT ![k] = ip[k] + 1], ~m_is_finished[x], early' = early \cup {x}
  PROVE  Returned' = Returned
<1> HIDE DEF Doing
<1>1. \A l \in Callers, y \in Calls : y # x => (Passed(l, y)' <=> Passed(l, y))
  BY PassedBy
<1>2. ASSUME NEW l \in Callers, Passed(l, x), x \notin early PROVE FALSE
  <2>1. PICK i \in 1..Len(prog.script[l]) :
          i < ip[l] /\ prog.script[l][i] \in {<<"call", x>>, <<"wait", x>>}
    BY <1>2 DEF Passed
  <2>2. prog.script[l][i] # <<"wait", x>> BY <1>2, <2>1 DEF Waited
  <2>3. prog.script[l][i] = <<"call", x>> BY <2>1, <2>2
  <2>4. Makes(prog.script[l][i], x) BY <2>3 DEF Makes
  <2>5. prog.script[l][i] = <<"async", x>> BY <2>4, WaitsForMade
  <2> QED BY <2>3, <2>5
<1> QED BY <1>1, <1>2 DEF Returned

\* Nothing that RemoteCall sees happens.
LEMMA UnseenBy ==
  ASSUME prog' = prog, \A x \in Calls : SameCall(x), Returned' = Returned
  PROVE  [RC!RCNext]_RC!rcvars
BY CallsStay DEF RC!rcvars

LEMMA Unseen ==
  ASSUME TypeOK, prog' = prog, \A x \in Calls : SameCall(x), ip' = ip, early' = early
  PROVE  [RC!RCNext]_RC!rcvars
<1>1. Returned' = Returned BY PassedStays
<1> QED BY <1>1, UnseenBy

\* A caller goes on with the result of the call it has waited for.
LEMMA GoesBack ==
  ASSUME TypeOK, Made, prog' = prog, NEW k \in Callers, NEW x \in Calls, Doing(k, "wait", x),
         ip' = [ip EXCEPT ![k] = ip[k] + 1], m_is_finished[x], early' = early,
         \A y \in Calls : SameCall(y)
  PROVE  [RC!RCNext]_RC!rcvars
<1> HIDE DEF Doing
<1>1. Returned' = IF x \in early THEN Returned ELSE Returned \cup {x} BY PassedMoves
<1>2. CASE x \in early BY <1>1, <1>2, UnseenBy
<1>3. CASE x \notin early
  <2>1. Over(x) BY DEF Made, Over
  <2>2. m_error_code[x] \in Codes BY DEF TypeOK
  <2>3. Result[x] # "none" BY <2>1, <2>2 DEF Result, Codes
  <2>4. RC!Return(x) BY <1>1, <1>3, <2>3, CallsStay DEF RC!Return
  <2> QED BY <2>4 DEF RC!RCNext
<1> QED BY <1>2, <1>3

\* A call that has begun, and is not over, goes on and does not end.
LEMMA GoesOn ==
  ASSUME TypeOK, prog' = prog, ip' = ip, early' = early, NEW x \in Calls, NEW w \in Pcs,
         pc[x] \notin {"none", "done"}, w \notin {"none", "done"}, pc' = [pc EXCEPT ![x] = w],
         UNCHANGED <<m_is_finished, served, taken>>,
         m_error_code' = m_error_code \/ \E c : m_error_code' = [m_error_code EXCEPT ![x] = c]
  PROVE  [RC!RCNext]_RC!rcvars
<1>0. pc \in [Calls -> Pcs] /\ m_error_code \in [Calls -> Codes] BY DEF TypeOK, Pcs, RunPcs, WaitPcs
<1>1. \A y \in Calls : SameCall(y) BY <1>0 DEF SameCall
<1> QED BY <1>1, Unseen

\* A call begins.
LEMMA Begins ==
  ASSUME TypeOK, prog' = prog, Returned' = Returned, NEW x \in Calls, NEW w \in Pcs, pc[x] = "none",
         ~m_is_finished[x], w \notin {"none", "done"}, pc' = [pc EXCEPT ![x] = w],
         UNCHANGED <<m_is_finished, served, taken>>,
         m_error_code' = m_error_code \/ \E c : m_error_code' = [m_error_code EXCEPT ![x] = c]
  PROVE  [RC!RCNext]_RC!rcvars
<1>0. pc \in [Calls -> Pcs] /\ m_error_code \in [Calls -> Codes] BY DEF TypeOK, Pcs, RunPcs, WaitPcs
<1>1. pc'[x] = w /\ \A y \in Calls : y # x => SameCall(y) BY <1>0 DEF SameCall
<1>2. /\ UNCHANGED <<Unsendable, Unreported, Faulty>> /\ Begun' = Begun \cup {x}
      /\ Result' = [Result EXCEPT ![x] = IF Over(x)' THEN m_error_code'[x] ELSE "none"]
  BY <1>1, CallMoves
<1>3. Executed' = Executed /\ Received' = Received BY DEF Executed, Received
<1>4. ~Over(x) /\ ~Over(x)' BY <1>1 DEF Over
<1>5. Result' = Result BY <1>2, <1>4 DEF Result
<1>6. x \notin Begun BY DEF Begun
<1>7. RC!Begin(x) BY <1>2, <1>3, <1>5, <1>6 DEF RC!Begin
<1> QED BY <1>7 DEF RC!RCNext

\* What a caller does outside of calls.
LEMMA CallerRefines ==
  ASSUME TypeOK, Made, AtOp, [Next]_vars, NEW k \in Callers, CallerMoves(k)
  PROVE  [RC!RCNext]_RC!rcvars
<1>0. /\ prog' = prog /\ ip \in [Callers -> Nat \ {0}]
      /\ UNCHANGED <<pc, m_error_code, served, taken, m_is_finished, early>>
  BY SameProg, CallerMovesDo DEF TypeOK, wire, server
<1>1. \A y \in Calls : SameCall(y) BY <1>0 DEF SameCall
<1>2. CASE BeginCaller(k) \/ EndCaller(k)
  BY <1>0, <1>1, <1>2, Unseen DEF BeginCaller, EndCaller
<1>3. ASSUME NEW x \in Calls, Hook(k, x) \/ WaitYield(k, x) PROVE [RC!RCNext]_RC!rcvars
  BY <1>0, <1>1, <1>3, Unseen DEF Hook, WaitYield
<1>4. ASSUME NEW x \in Calls, NEW op \in {"hook", "channel"}, Doing(k, op, x),
             ip' = [ip EXCEPT ![k] = ip[k] + 1]
      PROVE  [RC!RCNext]_RC!rcvars
  <2>1. ip'[k] = ip[k] + 1 /\ \A l \in Callers : l # k => ip'[l] = ip[l] BY <1>0, <1>4
  <2>2. Returned' = Returned BY <1>0, <1>4, <2>1, PassedStays
  <2> QED BY <1>0, <1>1, <2>2, UnseenBy
<1>5. ASSUME NEW t \in Threads, HookBack(k, t) PROVE [RC!RCNext]_RC!rcvars
  <2>1. PICK x \in Calls : Doing(k, "hook", x) BY <1>5 DEF HookBack, AtOp
  <2> QED BY <1>4, <1>5, <2>1 DEF HookBack, NextOp
<1>6. ASSUME NEW x \in Calls, MakeChannel(k, x) PROVE [RC!RCNext]_RC!rcvars
  BY <1>4, <1>6 DEF MakeChannel, NextOp
<1>7. ASSUME NEW x \in Calls, Wait(k, x) PROVE [RC!RCNext]_RC!rcvars
  <2>1. CASE m_is_finished[x]
    <3>1. Doing(k, "wait", x) /\ ip' = [ip EXCEPT ![k] = ip[k] + 1] BY <1>7, <2>1 DEF Wait, NextOp
    <3> QED BY <1>0, <1>1, <2>1, <3>1, GoesBack
  <2>2. CASE ~m_is_finished[x] BY <1>0, <1>1, <1>7, <2>2, Unseen DEF Wait
  <2> QED BY <2>1, <2>2
<1> QED BY <1>2, <1>3, <1>5, <1>6, <1>7 DEF CallerMoves

\* A caller makes a call.
LEMMA MakesRefine ==
  ASSUME TypeOK, NotYet, [Next]_vars, NEW k \in Callers, NEW x \in Calls,
         SyncCall(k, x) \/ \E t \in Threads : AsyncCall(k, x, t)
  PROVE  [RC!RCNext]_RC!rcvars
<1>0. /\ prog' = prog /\ ip \in [Callers -> Nat \ {0}] /\ pc \in [Calls -> Pcs]
      /\ m_error_code \in [Calls -> Codes] /\ m_is_finished \in [Calls -> BOOLEAN]
  BY SameProg DEF TypeOK, Pcs, RunPcs, WaitPcs
<1>a. "connect" \in Pcs /\ "ret" \in Pcs /\ "queued" \in Pcs BY DEF Pcs, RunPcs
<1>1. CASE SyncCall(k, x)
  <2>1. pc[x] = "none" /\ ~m_is_finished[x] BY <1>1, Unmade DEF SyncCall
  <2>2. /\ \E w \in {"connect", "ret"} : pc' = [pc EXCEPT ![x] = w]
        /\ m_error_code' = m_error_code \/ \E c : m_error_code' = [m_error_code EXCEPT ![x] = c]
    BY <1>1, CallMethodDoes DEF SyncCall
  <2>3. /\ ip' = ip /\ early' = early /\ UNCHANGED <<m_is_finished, served, taken>>
    BY <1>1 DEF SyncCall, switch, wire, server, async
  <2>4. Returned' = Returned BY <1>0, <2>3, PassedStays
  <2> QED BY <1>0, <1>a, <2>1, <2>2, <2>3, <2>4, Begins
<1>2. ASSUME NEW t \in Threads, AsyncCall(k, x, t) PROVE [RC!RCNext]_RC!rcvars
  <2>1. pc[x] = "none" /\ ~m_is_finished[x] BY <1>2, Unmade DEF AsyncCall
  <2>2. Returned' = Returned
    <3>1. Doing(k, "async", x) /\ ip' = [ip EXCEPT ![k] = ip[k] + 1] /\ early' = early
      BY <1>2 DEF AsyncCall, NextOp
    <3>2. ip'[k] = ip[k] + 1 /\ \A l \in Callers : l # k => ip'[l] = ip[l] BY <1>0, <3>1
    <3> QED BY <1>0, <3>1, <3>2, PassedStays
  <2>3. served' = served /\ taken' = taken BY <1>2 DEF AsyncCall, wire, server
  <2>4. CASE x \in prog.saved
    <3>1. pc' = [pc EXCEPT ![x] = "queued"] /\ UNCHANGED <<m_is_finished, m_error_code>>
      BY <1>2, <2>4 DEF AsyncCall, GoTo
    <3> QED BY <1>0, <1>a, <2>1, <2>2, <2>3, <3>1, Begins
  <2>5. CASE x \notin prog.saved
    <3>1. /\ pc' = pc /\ m_is_finished' = [m_is_finished EXCEPT ![x] = TRUE]
          /\ m_error_code' = [m_error_code EXCEPT ![x] = "NOT_SET_ASYNC_PRE_CALL"]
      BY <1>2, <2>5 DEF AsyncCall
    <3>2. \A y \in Calls : y # x => SameCall(y) BY <1>0, <2>3, <3>1 DEF SameCall
    <3>3. m_is_finished'[x] /\ m_error_code'[x] = "NOT_SET_ASYNC_PRE_CALL" BY <1>0, <3>1
    <3>4. Over(x)' BY <2>1, <3>1, <3>3 DEF Over
    <3>5. /\ UNCHANGED <<Unsendable, Unreported, Faulty>> /\ Begun' = Begun \cup {x}
          /\ Result' = [Result EXCEPT ![x] = "NOT_SET_ASYNC_PRE_CALL"]
      BY <1>0, <3>2, <3>3, <3>4, CallMoves
    <3>6. Executed' = Executed /\ Received' = Received BY <2>3 DEF Executed, Received
    <3>7. x \notin Begun BY <2>1 DEF Begun
    <3>8. "NOT_SET_ASYNC_PRE_CALL" \in Codes \ {"OK"} BY DEF Codes
    <3>9. RC!Refuse(x) BY <2>2, <3>5, <3>6, <3>7, <3>8 DEF RC!Refuse
    <3> QED BY <3>9 DEF RC!RCNext
  <2> QED BY <2>4, <2>5
<1> QED BY <1>1, <1>2

\* The end of a call.
LEMMA EndRefines ==
  ASSUME TypeOK, Made, Answers, Places, [Next]_vars, NEW x \in Calls, End(x)
  PROVE  RC!Finish(x)
<1>0. /\ prog' = prog /\ ip \in [Callers -> Nat \ {0}]
      /\ pc \in [Calls -> Pcs] /\ m_error_code \in [Calls -> Codes]
  BY SameProg DEF TypeOK, Pcs, RunPcs, WaitPcs
<1>1. pc[x] = "ret" /\ pc' = [pc EXCEPT ![x] = "done"]
      /\ UNCHANGED <<m_is_finished, m_error_code, served, taken, early>>
  BY DEF End, At, GoTo, Close, server
<1>2. pc'[x] = "done" /\ \A y \in Calls : y # x => SameCall(y) BY <1>0, <1>1 DEF SameCall
<1>3. Over(x)' /\ ~Over(x)
  <2>1. ~m_is_finished[x] BY <1>1 DEF Made
  <2> QED BY <1>1, <1>2, <2>1 DEF Over
<1>4. /\ UNCHANGED <<Unsendable, Unreported, Faulty>> /\ Begun' = Begun \cup {x}
      /\ Result' = [Result EXCEPT ![x] = m_error_code[x]]
  BY <1>0, <1>1, <1>2, <1>3, CallMoves
<1>5. Executed' = Executed /\ Received' = Received BY <1>1 DEF Executed, Received
<1>6. x \in Begun BY <1>1 DEF Begun
<1>7. Begun' = Begun BY <1>4, <1>6
<1>8. Result[x] = "none" BY <1>3 DEF Result
<1>9. m_error_code[x] \in (Codes \ {"OK"}) \cup {"OK"} BY <1>0
<1>10. m_error_code[x] = "OK" => x \in Unreported \cup (Received \ Faulty)
  <2> SUFFICES ASSUME m_error_code[x] = "OK" PROVE x \in Unreported \cup (Received \ Faulty) OBVIOUS
  <2>1. CASE "serialize" \notin prog.request[x] BY <2>1 DEF Unreported
  <2>2. CASE taken[x] = ReplyParts /\ Virtues \subseteq prog.request[x]
    BY <2>2 DEF Received, Faulty
  <2> QED BY <1>1, <2>1, <2>2 DEF Answers
<1>11. Returned' \in {Returned, Returned \cup {x}}
  <2>1. CASE IsAsync(x)
    <3>1. ip' = ip BY <2>1 DEF End
    <3> QED BY <1>0, <1>1, <3>1, PassedStays
  <2>2. CASE ~IsAsync(x)
    <3>1. Doing(Caller(x), "call", x) BY <1>1, <2>2 DEF Places, ActivePcs, RunPcs
    <3>2. Caller(x) \in Callers BY <1>1, Runners
    <3>3. ip' = [ip EXCEPT ![Caller(x)] = ip[Caller(x)] + 1] BY <2>2 DEF End, NextOp
    <3>4. Returned' = IF x \in early THEN Returned ELSE Returned \cup {x}
      BY <1>0, <1>1, <3>1, <3>2, <3>3, PassedMoves
    <3> QED BY <3>4
  <2> QED BY <2>1, <2>2
<1> QED BY <1>4, <1>5, <1>6, <1>7, <1>8, <1>9, <1>10, <1>11 DEF RC!Finish

\* A call goes on with what it has received.
LEMMA TakeRefines ==
  ASSUME TypeOK, Once, prog' = prog, ip' = ip, early' = early, NEW x \in Calls, NEW w \in Pcs,
         pc[x] \notin {"none", "done"}, w \notin {"none", "done"}, pc' = [pc EXCEPT ![x] = w],
         UNCHANGED <<m_is_finished, m_error_code, served>>,
         taken[x] < arrived[x], taken' = [taken EXCEPT ![x] = arrived[x]]
  PROVE  [RC!RCNext]_RC!rcvars
<1>0. /\ pc \in [Calls -> Pcs] /\ taken \in [Calls -> 0..ReplyParts]
      /\ arrived[x] \in 0..ReplyParts /\ served[x] \in 0..1
  BY DEF TypeOK, Pcs, RunPcs, WaitPcs
<1>1. taken'[x] = arrived[x] /\ \A y \in Calls : y # x => SameCall(y) BY <1>0 DEF SameCall
<1>2. taken[x] # ReplyParts /\ arrived[x] > 0 BY <1>0 DEF ReplyParts
<1>3. Returned' = Returned BY PassedStays
<1>4. CASE arrived[x] # ReplyParts
  <2>1. SameCall(x) BY <1>0, <1>1, <1>2, <1>4 DEF SameCall
  <2> QED BY <1>1, <2>1, Unseen
<1>5. CASE arrived[x] = ReplyParts
  <2>1. ~Over(x) /\ ~Over(x)' BY <1>0 DEF Over
  <2>2. /\ UNCHANGED <<Unsendable, Unreported, Faulty>> /\ Begun' = Begun \cup {x}
        /\ Received' = Received \cup {x}
        /\ Result' = [Result EXCEPT ![x] = "none"]
    BY <1>0, <1>1, <1>5, <2>1, CallMoves
  <2>3. x \in Begun /\ x \notin Received /\ Result[x] = "none"
    BY <1>2, <2>1 DEF Begun, Received, Result
  <2>4. Executed' = Executed /\ Begun' = Begun BY <2>2, <2>3 DEF Executed
  <2>5. Result' = Result BY <2>2, <2>3 DEF Result
  <2>6. x \in Executed \cup Faulty
    <3>1. CASE Runs(prog.request[x]) BY <1>2, <3>1 DEF Once, Executed
    <3>2. CASE ~Runs(prog.request[x]) BY <3>2 DEF Runs, Virtues, Faulty
    <3> QED BY <3>1, <3>2
  <2>7. RC!Answer(x) BY <1>3, <2>2, <2>3, <2>4, <2>5, <2>6 DEF RC!Answer
  <2> QED BY <2>7 DEF RC!RCNext
<1> QED BY <1>4, <1>5

\* A step of a call.
LEMMA CallRefines ==
  ASSUME TypeOK, Made, Once, Answers, Places, [Next]_vars, NEW x \in Calls, CallStep(x)
  PROVE  [RC!RCNext]_RC!rcvars
<1>0. prog' = prog /\ pc \in [Calls -> Pcs] BY SameProg DEF TypeOK, Pcs, RunPcs, WaitPcs
<1>1. CASE End(x)
  <2>1. RC!Finish(x) BY <1>1, EndRefines
  <2> QED BY <2>1 DEF RC!RCNext
<1>2. CASE ~End(x)
  <2>1. pc[x] \in RunPcs BY CallStepMoves
  <2>2. PICK w \in RunPcs \cup WaitPcs \cup {"stuck"} : pc' = [pc EXCEPT ![x] = w]
    BY <1>2, CallStepRuns
  <2>3. /\ pc[x] \notin {"none", "done"} /\ w \in Pcs /\ w \notin {"none", "done"}
    BY <2>1 DEF RunPcs, WaitPcs, Pcs
  <2>4. ip' = ip /\ early' = early /\ m_is_finished' = m_is_finished BY <1>2, CallStepKeeps
  <2>5. served' = served
    BY DEF CallStep, Connect, ConnectAgain, ResetClose, ResetOpen, ConnectTooLate, Send, SendAgain,
           SendTooLate, GetReply, Receive, ReceiveTooLate, ReceiveAgain, ReceiveEof, FailClose,
           FailOpen, End, server
  <2>6. CASE Receive(x) \/ ReceiveAgain(x)
    <3>1. m_error_code' = m_error_code /\ (Take(x) \/ taken' = taken)
      BY <2>6 DEF Receive, ReceiveAgain
    <3>2. CASE Take(x)
      <4>1. taken[x] < arrived[x] /\ taken' = [taken EXCEPT ![x] = arrived[x]] BY <3>2 DEF Take
      <4> QED BY <1>0, <2>2, <2>3, <2>4, <2>5, <3>1, <4>1, TakeRefines
    <3>3. CASE taken' = taken BY <1>0, <2>2, <2>3, <2>4, <2>5, <3>1, <3>3, GoesOn
    <3> QED BY <3>1, <3>2, <3>3
  <2>7. CASE ~Receive(x) /\ ~ReceiveAgain(x)
    <3>1. taken' = taken
      BY <1>2, <2>7 DEF CallStep, Connect, ConnectAgain, ResetClose, ResetOpen, ConnectTooLate, Send,
         SendAgain, SendTooLate, GetReply, ReceiveTooLate, ReceiveEof, FailClose, FailOpen, Close, wire
    <3>2. m_error_code' = m_error_code \/ \E c : m_error_code' = [m_error_code EXCEPT ![x] = c]
      <4>1. \A c : Return(x, c) \/ GiveUp(x, c) => \E d : m_error_code' = [m_error_code EXCEPT ![x] = d]
        BY DEF Return, GiveUp
      <4>2. Connect(x) \/ ConnectAgain(x) \/ ResetClose(x) \/ Send(x) \/ SendAgain(x)
              \/ SendTooLate(x) \/ ReceiveTooLate(x) \/ ReceiveEof(x) \/ FailClose(x)
              => m_error_code' = m_error_code
        BY DEF Connect, ConnectAgain, ResetClose, Send, SendAgain, SendTooLate, ReceiveTooLate,
               ReceiveEof, FailClose
      <4>3. ResetOpen(x) \/ ConnectTooLate(x) \/ GetReply(x) \/ FailOpen(x)
              => m_error_code' = m_error_code \/ \E c : Return(x, c) \/ GiveUp(x, c)
        BY DEF ResetOpen, ConnectTooLate, GetReply, FailOpen
      <4> QED BY <1>2, <2>7, <4>1, <4>2, <4>3 DEF CallStep
    <3> QED BY <1>0, <2>2, <2>3, <2>4, <2>5, <3>1, <3>2, GoesOn
  <2> QED BY <2>6, <2>7
<1> QED BY <1>1, <1>2

\* A call begins on its own coroutine.
LEMMA BeginRefines ==
  ASSUME TypeOK, [Next]_vars, NEW x \in Calls, BeginCall(x)
  PROVE  [RC!RCNext]_RC!rcvars
<1>1. /\ pc[x] = "queued" /\ ip' = ip /\ early' = early
      /\ UNCHANGED <<served, taken, m_is_finished>>
  BY DEF BeginCall, control, server, wire, async
<1>2. /\ \E w \in {"connect", "ret"} : pc' = [pc EXCEPT ![x] = w]
      /\ m_error_code' = m_error_code \/ \E c : m_error_code' = [m_error_code EXCEPT ![x] = c]
  BY CallMethodDoes DEF BeginCall
<1>3. "connect" \in Pcs /\ "ret" \in Pcs BY DEF Pcs, RunPcs
<1> QED BY <1>1, <1>2, <1>3, SameProg, GoesOn

\* A call_back.
LEMMA FinishRefines ==
  ASSUME TypeOK, Made, [Next]_vars, NEW t \in Threads, Finish(t)
  PROVE  [RC!RCNext]_RC!rcvars
<1>0. /\ prog' = prog /\ m_tasks \in [Threads -> Seq(Calls)] /\ m_is_finished \in [Calls -> BOOLEAN]
  BY SameProg DEF TypeOK
<1> DEFINE x == Head(m_tasks[t])
<1>1. 1 \in 1..Len(m_tasks[t]) /\ x = m_tasks[t][1] /\ x \in Calls BY <1>0 DEF Finish
<1>2. pc[x] = "done" BY <1>1 DEF Made
<1>3. /\ m_is_finished' = [m_is_finished EXCEPT ![x] = TRUE] /\ ip' = ip /\ early' = early
      /\ UNCHANGED <<pc, m_error_code, served, taken>>
  BY DEF Finish, control, switch, server, wire
<1> HIDE DEF x
<1>4. \A y \in Calls : SameCall(y) BY <1>0, <1>1, <1>2, <1>3 DEF SameCall
<1> QED BY <1>0, <1>3, <1>4, Unseen

\* What wakes a call or a caller, whatever it was meant for.
LEMMA WokenRefines ==
  ASSUME TypeOK, Made, AtOp, Waited, [Next]_vars, NEW t \in Threads, Wakes(t)
  PROVE  [RC!RCNext]_RC!rcvars
<1>0. prog' = prog /\ pc \in [Calls -> Pcs] /\ ip \in [Callers -> Nat \ {0}]
  BY SameProg DEF TypeOK, Pcs, RunPcs, WaitPcs
<1>1. WakesOnly(t) BY WakesDo
<1>2. UNCHANGED <<m_error_code, served, taken, m_is_finished>>
  BY <1>1 DEF WakesOnly, server, wire
<1>3. CASE StaysPut
  <2>1. \A y \in Calls : SameCall(y) BY <1>2, <1>3 DEF SameCall, StaysPut
  <2> QED BY <1>0, <1>3, <2>1, Unseen DEF StaysPut
<1>4. ASSUME NEW x \in Calls, NEW w \in WokenPcs, pc[x] \in WaitPcs, pc' = [pc EXCEPT ![x] = w],
             UNCHANGED <<ip, early>>
      PROVE  [RC!RCNext]_RC!rcvars
  <2>1. pc[x] \notin {"none", "done"} /\ w \in Pcs /\ w \notin {"none", "done"}
    BY <1>4 DEF WaitPcs, WokenPcs, Pcs, RunPcs
  <2> QED BY <1>0, <1>2, <1>4, <2>1, GoesOn
<1>5. ASSUME NEW k \in Callers, kpc[k] \in {"hook", "waiting"}, ip' = [ip EXCEPT ![k] = ip[k] + 1],
             pc' = pc, early' = early \cup {x \in Calls : /\ kpc[k] = "waiting" /\ Doing(k, "wait", x)
                                                          /\ ~m_is_finished[x]}
      PROVE  [RC!RCNext]_RC!rcvars
  <2>1. \A y \in Calls : SameCall(y) BY <1>2, <1>5 DEF SameCall
  <2>2. CASE kpc[k] = "hook"
    <3>1. PICK x \in Calls : Doing(k, "hook", x) BY <2>2 DEF AtOp
    <3>2. early' = early BY <1>5, <2>2
    <3>3. ip'[k] = ip[k] + 1 /\ \A l \in Callers : l # k => ip'[l] = ip[l] BY <1>0, <1>5
    <3>4. Returned' = Returned BY <1>0, <3>1, <3>2, <3>3, PassedStays
    <3> QED BY <1>0, <2>1, <3>4, UnseenBy
  <2>3. CASE kpc[k] = "waiting"
    <3>1. PICK x \in Calls : Doing(k, "wait", x) BY <2>3 DEF AtOp
    <3>2. \A y \in Calls : Doing(k, "wait", y) => y = x BY <3>1, OneOp
    <3>3. CASE m_is_finished[x]
      <4>1. early' = early BY <1>5, <3>2, <3>3
      <4> QED BY <1>0, <1>5, <2>1, <3>1, <3>3, <4>1, GoesBack
    <3>4. CASE ~m_is_finished[x]
      <4>1. early' = early \cup {x} BY <1>5, <2>3, <3>1, <3>2, <3>4
      <4>2. Returned' = Returned BY <1>0, <1>5, <3>1, <3>4, <4>1, PassedEarly
      <4> QED BY <1>0, <2>1, <4>2, UnseenBy
    <3> QED BY <3>3, <3>4
  <2> QED BY <1>5, <2>2, <2>3
<1>6. CASE Woken(t) BY <1>4, <1>5, <1>6 DEF Woken
<1> QED BY <1>1, <1>3, <1>6 DEF WakesOnly

LEMMA ServeRefines ==
  ASSUME TypeOK, Once, Unsent, [Next]_vars, NEW x \in Calls, Serve(x)
  PROVE  [RC!RCNext]_RC!rcvars
<1>0. /\ prog' = prog /\ served \in [Calls -> 0..1] /\ requests[x] \in 0..1 /\ served[x] \in 0..1
  BY SameProg DEF TypeOK
<1>1. ip' = ip /\ early' = early /\ UNCHANGED <<pc, m_error_code, taken, m_is_finished>>
  BY DEF Serve, control, switch, async
<1>2. requests[x] = 1 /\ served[x] = 0
  <2>1. requests[x] > 0 /\ requests[x] + served[x] <= 1 BY DEF Serve, Once
  <2> QED BY <1>0, <2>1
<1>3. Returned' = Returned BY <1>0, <1>1, PassedStays
<1>4. \A y \in Calls : y # x => SameCall(y)
  <2>1. \A y \in Calls : y # x => served'[y] = served[y] BY <1>0 DEF Serve
  <2> QED BY <1>1, <2>1 DEF SameCall
<1>5. CASE ~Runs(prog.request[x])
  <2>1. served' = served BY <1>0, <1>5 DEF Serve
  <2>2. SameCall(x) BY <1>1, <2>1 DEF SameCall
  <2> QED BY <1>0, <1>1, <1>4, <2>2, Unseen
<1>6. CASE Runs(prog.request[x])
  <2>1. served'[x] = 1 BY <1>0, <1>2, <1>6 DEF Serve
  <2>2. Executed' = Executed \cup {x} BY <1>0, <1>4, <2>1, CallMoves
  <2>3. UNCHANGED <<Unsendable, Unreported, Faulty, Begun, Received, Result>>
    BY <1>0, <1>1 DEF Unsendable, Unreported, Faulty, Begun, Received, Result, Over
  <2>4. x \in Begun /\ x \notin Executed
    BY <1>2 DEF Begun, Executed, Once, Answered
  <2>5. x \notin Unsendable BY <1>2 DEF Unsent, Unsendable, Sendable
  <2>6. RC!Execute(x) BY <1>3, <2>2, <2>3, <2>4, <2>5 DEF RC!Execute
  <2> QED BY <2>6 DEF RC!RCNext
<1> QED BY <1>5, <1>6

LEMMA RemoteStep ==
  ASSUME TypeOK, IInv, Unsent, AtOp, Waited, [Next]_vars
  PROVE  [RC!RCNext]_RC!rcvars
<1> USE DEF IInv
<1>1. ASSUME NEW x \in Calls, CallStep(x) PROVE [RC!RCNext]_RC!rcvars BY <1>1, CallRefines
<1>2. ASSUME NEW x \in Calls, BeginCall(x) PROVE [RC!RCNext]_RC!rcvars BY <1>2, BeginRefines
<1>3. ASSUME NEW x \in Calls, Outside(x) PROVE [RC!RCNext]_RC!rcvars
  <2>1. CASE Serve(x) BY <2>1, ServeRefines
  <2>2. CASE Arrive(x) \/ PeerClose(x)
    BY <2>2, SameProg, Unseen DEF Arrive, PeerClose, SameCall, control, switch, server, async
  <2> QED BY <1>3, <2>1, <2>2 DEF Outside
<1>4. ASSUME NEW k \in Callers, NEW x \in Calls, SyncCall(k, x) \/ \E t \in Threads : AsyncCall(k, x, t)
      PROVE  [RC!RCNext]_RC!rcvars
  BY <1>4, MakesRefine
<1>5. ASSUME NEW k \in Callers, CallerMoves(k) PROVE [RC!RCNext]_RC!rcvars BY <1>5, CallerRefines
<1>6. ASSUME NEW t \in Threads, Wakes(t) PROVE [RC!RCNext]_RC!rcvars BY <1>6, WokenRefines
<1>7. ASSUME NEW t \in Threads, Batches(t) PROVE [RC!RCNext]_RC!rcvars
  BY <1>7, BatchesDo, SameProg, Unseen DEF SameCall, control, switch, wire, server, async
<1>8. ASSUME NEW t \in Threads, Finish(t) PROVE [RC!RCNext]_RC!rcvars BY <1>8, FinishRefines
<1>9. CASE UNCHANGED vars
  BY <1>9, SameProg, Unseen DEF vars, SameCall, control, switch, wire, server, async
<1> QED BY <1>1, <1>2, <1>3, <1>4, <1>5, <1>6, <1>7, <1>8, <1>9, Steps

LEMMA RemoteInit == Init => RC!RCInit /\ Unsent /\ AtOp /\ Waited
<1> SUFFICES ASSUME Init PROVE RC!RCInit /\ Unsent /\ AtOp /\ Waited OBVIOUS
<1>1. /\ \A x \in Calls : /\ pc[x] = "none" /\ ~m_is_finished[x] /\ requests[x] = 0 /\ served[x] = 0
                          /\ taken[x] # ReplyParts
      /\ \A k \in Callers : ip[k] = 1 /\ kpc[k] \in {"new", "end"}
  BY DEF Init, ReplyParts
<1>2. Unsent /\ AtOp BY <1>1 DEF Unsent, AtOp
<1>3. /\ Unsendable \subseteq Calls /\ Faulty \subseteq Calls /\ Unreported \subseteq Unsendable
  BY DEF Unsendable, Unreported, Faulty
<1>4. Begun = {} /\ Executed = {} /\ Received = {} BY <1>1 DEF Begun, Executed, Received
<1>5. Result = [x \in Calls |-> "none"] BY <1>1 DEF Result, Over
<1>6. \A k \in Callers : \A i \in 1..Len(prog.script[k]) : ~(i < ip[k])
  <2>1. TypeOK BY InitOK
  <2> QED BY <1>1, <2>1, Scripts
<1>7. Returned = {} /\ Waited BY <1>6 DEF Returned, Passed, Waited
<1> QED BY <1>2, <1>3, <1>4, <1>5, <1>7 DEF RC!RCInit

\* FlconcPbRpcChannel and FlconcPbRpcAsyncChannel with their dispatcher do what
\* RemoteCall promises of a call, whatever is lost, late, refused or retried, and
\* whatever resumes its coroutine: it is executed at most once, has one result,
\* that is only OK when it was executed and answered, and its caller goes on only
\* after it is there, unless wait() was ended too early (early).
THEOREM RpcClientImplementsRemoteCall == Spec => ImplementsRemoteCall
<1>1. Init => RC!RCInit /\ Unsent /\ AtOp /\ Waited BY RemoteInit
<1>2. TypeOK /\ IInv /\ Unsent /\ AtOp /\ Waited /\ [Next]_vars => Unsent' /\ AtOp' /\ Waited'
  BY UnsentStep, AtOpStep, WaitedStep DEF IInv
<1>3. TypeOK /\ IInv /\ Unsent /\ AtOp /\ Waited /\ [Next]_vars => [RC!RCNext]_RC!rcvars
  BY RemoteStep
<1>4. Spec => [](TypeOK /\ IInv) BY IInvHolds
<1> QED BY <1>1, <1>2, <1>3, <1>4, PTL DEF Spec, ImplementsRemoteCall, RC!RCSpec
=============================================================================
