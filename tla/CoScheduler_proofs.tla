-------------------------- MODULE CoScheduler_proofs --------------------------
(***************************************************************************)
(* Proofs about CoScheduler, for any number of reactors and coroutines and *)
(* any programs.  The invariant says for each descriptor where the wakeup  *)
(* of its coroutine is: nowhere, in a batch of one reactor, first in its   *)
(* turn there, or in the CoroutineTaskQueue; and that it is in one of them *)
(* only, so that whoever resumes the coroutine is the only one to do so.   *)
(***************************************************************************)
EXTENDS CoScheduler, TLAPS

Owns(c, f) == \E x \in Range(prog.code[c]) : x[2] = f
InHook == {"registered", "wait", "back"}
On(c, f) == cpc[c] \in InHook /\ Call(c)[2] = f

\* The thread of a coroutine that runs; a thread whose loop is not where an
\* event batch is handled has neither events nor a first coroutine left.
Running ==
  /\ \A r \in Reactors : cur[r] # NULL => cpc[cur[r]] \in {"run", "registered", "back"}
  /\ \A r, q \in Reactors : cur[r] # NULL /\ cur[r] = cur[q] => r = q

Iterations ==
  \A r \in Reactors :
    /\ re_events[r] # {} => lpc[r] \in {"events", "timer"}
    /\ first_coroutine[r] # NULL => lpc[r] \in {"events", "timer", "top"}

\* Coroutines handed over have not run, and are handed over once.
TasksNew ==
  /\ \A r \in Reactors : \A i \in 1..Len(m_pending_tasks[r]) : cpc[m_pending_tasks[r][i]] = "new"
  /\ \A r, q \in Reactors :
       \A i \in 1..Len(m_pending_tasks[r]), j \in 1..Len(m_pending_tasks[q]) :
         m_pending_tasks[r][i] = m_pending_tasks[q][j] => r = q /\ i = j

\* Inside a hook there is a call; what epoll knows belongs to some coroutine.
Hooks ==
  /\ \A c \in Cors : cpc[c] \in InHook => next[c] <= Len(prog.code[c])
  /\ \A r \in Reactors, f \in Fds :
       m_fds[r][f] # NoEvent \/ m_pending_add_fds[r][f] # NoEvent => \E c \in Cors : Owns(c, f)

\* The timer event of a coroutine, until its callback has run, is pending in one
\* timer or picked by it, and is for one that sleeps or is in connect_hook.
Outstanding(c) == c \in m_pending_events \/ \E r \in Reactors : c \in due[r]
Asleep(c) == cpc[c] = "wait" /\ Sleeping(c)
Connecting(c) == cpc[c] \in InHook /\ Call(c)[1] = "connect"
Alarm(c) ==
  /\ c \in m_pending_events => event[c] # NULL /\ \A r \in Reactors : c \notin due[r]
  /\ \A r \in Reactors : c \in due[r] => event[c] = r
  /\ Outstanding(c) => Asleep(c) \/ Connecting(c)

Begun(c) == cpc[c] \notin {"unborn", "new"}
Timers ==
  /\ \A c \in Cors \ timed : Alarm(c)
  /\ \A c \in timed : Begun(c)
  /\ \A r \in Reactors : \A c \in late[r] : Begun(c)

\* An FdEvent has its coroutine, and its mask, while that is in the hook.
FdEvents ==
  \A f \in Fds :
    /\ m_coroutine[f] # NULL => /\ On(m_coroutine[f], f)
                                /\ m_listen_events[f] = {Kind(Call(m_coroutine[f])[1])}
    /\ m_coroutine[f] = NULL => m_listen_events[f] = {}
    /\ \A c \in Cors : On(c, f) => m_coroutine[f] = c

\* Nothing is said of the descriptors of a coroutine that a connect timeout resumed.
Late(f) == \E c \in timed : Owns(c, f)
InBatch(f, r) == <<f, "io">> \in re_events[r]
Queued(f) == \E i \in 1..Len(m_task) : m_task[i] = f
QueuedOnce(f) == \A i, j \in 1..Len(m_task) : m_task[i] = f /\ m_task[j] = f => i = j

\* A coroutine may be woken: it waits, or is about to and another thread's epoll
\* has been told before it yields, and its descriptor can do what it waits for.
Woken(f) ==
  /\ m_coroutine[f] # NULL /\ cpc[m_coroutine[f]] \in {"registered", "wait"}
  /\ cpc[m_coroutine[f]] = "registered" => m_coroutine[f] \in foreign
  /\ m_listen_events[f] \subseteq ready[f]

\* Which epoll watches a descriptor, and which is going to.
Epolls(f) ==
  /\ \A q \in Reactors : m_fds[q][f] \notin {NoEvent, {}} =>
       m_reactor[f] = q /\ m_fds[q][f] = m_listen_events[f]
  /\ \A q \in Reactors : m_pending_add_fds[q][f] # NoEvent =>
       /\ m_reactor[f] = q /\ m_pending_add_fds[q][f] = m_listen_events[f]
       /\ m_coroutine[f] # NULL /\ m_coroutine[f] \in foreign
       /\ cpc[m_coroutine[f]] \in {"registered", "wait"}
       /\ m_fds[q][f] \in {NoEvent, {}} /\ ~InBatch(f, q) /\ first_coroutine[q] # m_coroutine[f]

\* Where its wakeup is.
Wakeups(f) ==
  /\ \A q \in Reactors : InBatch(f, q) =>
       Woken(f) /\ m_reactor[f] = q /\ first_coroutine[q] # m_coroutine[f]
  /\ \A q \in Reactors : m_coroutine[f] # NULL /\ first_coroutine[q] = m_coroutine[f] =>
       Woken(f) /\ m_reactor[f] = q
  /\ Queued(f) => Woken(f) /\ m_reactor[f] = NULL
  /\ QueuedOnce(f)

\* The thread its coroutine is on inside the hook, and that something watches
\* it while its coroutine waits.
Threads(f) ==
  LET c == m_coroutine[f] IN
  /\ c # NULL /\ (cpc[c] = "back" \/ (cpc[c] = "registered" /\ c \notin foreign)) =>
       m_reactor[f] # NULL /\ cur[m_reactor[f]] = c
  /\ c # NULL /\ cpc[c] = "back" => m_listen_events[f] \subseteq ready[f]
  /\ c # NULL /\ cpc[c] \in {"registered", "wait"} /\ c \notin dropped =>
       IF m_reactor[f] = NULL THEN Queued(f)
       ELSE m_listen_events[f] \in {m_fds[m_reactor[f]][f], m_pending_add_fds[m_reactor[f]][f]}

Descriptor(f) == ~Late(f) => Epolls(f) /\ Wakeups(f) /\ Threads(f)
Descriptors == \A f \in Fds : Descriptor(f)

Firsts ==
  \A r \in Reactors : first_coroutine[r] # NULL /\ first_coroutine[r] \notin timed =>
    \E f \in Fds : m_coroutine[f] = first_coroutine[r]

Inner == Running /\ Iterations /\ TasksNew /\ Timers /\ FdEvents /\ Descriptors /\ Firsts

\* A resume that does not find its coroutine suspended is the last step: the
\* rest is said of the states before it.
IInv == Hooks /\ IF clash = {} THEN Inner ELSE ResumedOnlyWhenSuspended /\ WokenForCause

-----------------------------------------------------------------------------
(* Programs, and calls under way.                                          *)

LEMMA Programme ==
  ASSUME TypeOK
  PROVE  /\ prog \in Programs /\ m_size \in 1..NReactors /\ NReactors \in Nat
         /\ prog.code \in [Cors -> Seq(Calls)] /\ prog.loops \subseteq Cors
         /\ \A c \in Cors : Len(prog.code[c]) \in Nat
         /\ \A c \in Cors : \A i \in 1..Len(prog.code[c]) :
              prog.code[c][i] \in Calls /\ prog.code[c][i] \in Range(prog.code[c])
<1>1. prog \in Programs /\ NReactors \in Nat BY NullAssumption DEF TypeOK
<1>2. m_size \in 1..NReactors /\ prog.code \in [Cors -> Seq(Calls)] /\ prog.loops \subseteq Cors
  BY <1>1, ProgramsAssumption DEF m_size
<1>3. ASSUME NEW c \in Cors
      PROVE  /\ Len(prog.code[c]) \in Nat
             /\ \A i \in 1..Len(prog.code[c]) :
                  prog.code[c][i] \in Calls /\ prog.code[c][i] \in Range(prog.code[c])
  <2> DEFINE s == prog.code[c]
  <2>1. s \in Seq(Calls) BY <1>2
  <2> HIDE DEF s
  <2>2. Len(s) \in Nat /\ \A i \in 1..Len(s) : s[i] \in Calls /\ s[i] \in Range(s)
    BY <2>1 DEF Range
  <2> QED BY <2>2 DEF s
<1> QED BY <1>1, <1>2, <1>3

LEMMA OneOwner ==
  ASSUME TypeOK, NEW f \in Fds, NEW c \in Cors, NEW d \in Cors, Owns(c, f), Owns(d, f)
  PROVE  c = d
<1>1. PICK x \in Range(prog.code[c]) : x[2] = f BY DEF Owns
<1>2. PICK y \in Range(prog.code[d]) : y[2] = f BY DEF Owns
<1> QED BY <1>1, <1>2, Programme, ProgramsAssumption, NullAssumption

LEMMA CallTypes ==
  ASSUME TypeOK, NEW c \in Cors, next[c] <= Len(prog.code[c])
  PROVE  /\ Call(c) \in Calls /\ Call(c) \in Range(prog.code[c])
         /\ Call(c)[1] = "sleep" \/ Call(c)[1] \in {"read", "write", "connect"}
         /\ Call(c)[1] = "sleep" <=> Call(c)[2] = NULL
         /\ Call(c)[1] # "sleep" => Call(c)[2] \in Fds /\ Owns(c, Call(c)[2])
         /\ Kind(Call(c)[1]) \in {"READ", "WRITE"}
<1>1. next[c] \in 1..Len(prog.code[c]) BY Programme DEF TypeOK
<1>2. Call(c) \in Calls /\ Call(c) \in Range(prog.code[c]) BY <1>1, Programme DEF Call
<1>3. /\ Call(c)[1] = "sleep" \/ Call(c)[1] \in {"read", "write", "connect"}
      /\ Call(c)[1] = "sleep" <=> Call(c)[2] = NULL
      /\ Call(c)[1] # "sleep" => Call(c)[2] \in Fds
  BY <1>2, NullAssumption DEF Calls
<1>4. Call(c)[1] # "sleep" => Owns(c, Call(c)[2]) BY <1>2 DEF Owns
<1> QED BY <1>2, <1>3, <1>4 DEF Kind

\* A coroutine is in a hook for one descriptor, which is its own.
LEMMA OnOwns ==
  ASSUME TypeOK, Hooks, NEW c \in Cors, NEW f \in Fds, On(c, f)
  PROVE  /\ Owns(c, f) /\ Fd(c) = f /\ ~Sleeping(c) /\ cpc[c] \in InHook
         /\ next[c] <= Len(prog.code[c])
         /\ Call(c)[1] \in {"read", "write", "connect"}
         /\ Kind(Call(c)[1]) \in {"READ", "WRITE"}
         /\ \A d \in Cors : Owns(d, f) => d = c
         /\ \A g \in Fds : On(c, g) => g = f
<1>1. next[c] <= Len(prog.code[c]) BY DEF On, Hooks
<1>2. Call(c)[2] # NULL BY NullAssumption DEF On
<1> QED BY <1>1, <1>2, CallTypes, OneOwner DEF On, Fd, Sleeping

\* The descriptor an FdEvent with a coroutine belongs to.
LEMMA Holder ==
  ASSUME TypeOK, Hooks, FdEvents, NEW f \in Fds, m_coroutine[f] # NULL
  PROVE  /\ m_coroutine[f] \in Cors /\ On(m_coroutine[f], f) /\ Owns(m_coroutine[f], f)
         /\ Fd(m_coroutine[f]) = f /\ ~Sleeping(m_coroutine[f])
         /\ m_listen_events[f] = {Kind(Call(m_coroutine[f])[1])}
         /\ m_listen_events[f] \in Masks /\ m_listen_events[f] # {}
         /\ m_coroutine[f] \notin timed => ~Late(f)
         /\ Late(f) => m_coroutine[f] \in timed
         /\ \A g \in Fds : m_coroutine[g] = m_coroutine[f] => g = f
<1>1. m_coroutine[f] \in Cors BY DEF TypeOK
<1>2. On(m_coroutine[f], f) /\ m_listen_events[f] = {Kind(Call(m_coroutine[f])[1])}
  BY DEF FdEvents
<1>3. /\ Owns(m_coroutine[f], f) /\ Fd(m_coroutine[f]) = f /\ ~Sleeping(m_coroutine[f])
      /\ Kind(Call(m_coroutine[f])[1]) \in {"READ", "WRITE"}
      /\ \A d \in Cors : Owns(d, f) => d = m_coroutine[f]
      /\ \A g \in Fds : On(m_coroutine[f], g) => g = f
  BY <1>1, <1>2, OnOwns
<1>4. timed \subseteq Cors BY DEF TypeOK
<1>5. \A g \in Fds : m_coroutine[g] = m_coroutine[f] => g = f BY <1>3 DEF FdEvents
<1> QED BY <1>1, <1>2, <1>3, <1>4, <1>5 DEF Late, Masks

\* What becomes of a descriptor that a step does not touch.
LEMMA SameDescriptor ==
  ASSUME NEW f \in Fds, Epolls(f), Wakeups(f), Threads(f),
         foreign \subseteq foreign', dropped \subseteq dropped',
         \A q \in Reactors : /\ m_fds'[q][f] = m_fds[q][f]
                             /\ m_pending_add_fds'[q][f] = m_pending_add_fds[q][f]
                             /\ InBatch(f, q)' => InBatch(f, q)
                             /\ first_coroutine'[q] = m_coroutine[f] /\ m_coroutine[f] # NULL
                                  => first_coroutine[q] = m_coroutine[f]
                             /\ cur[q] = m_coroutine[f] /\ m_coroutine[f] # NULL
                                  => cur'[q] = m_coroutine[f],
         m_reactor[f] \in Reactors \cup {NULL},
         m_reactor'[f] = m_reactor[f], m_coroutine'[f] = m_coroutine[f],
         m_listen_events'[f] = m_listen_events[f], ready[f] \subseteq ready'[f],
         Queued(f)' <=> Queued(f), QueuedOnce(f) => QueuedOnce(f)',
         m_coroutine[f] # NULL => cpc'[m_coroutine[f]] = cpc[m_coroutine[f]]
  PROVE  (Epolls(f) /\ Wakeups(f) /\ Threads(f))'
<1>1. Woken(f) => Woken(f)' BY DEF Woken
<1>2. Epolls(f)'
  <2>1. ASSUME NEW q \in Reactors, m_fds'[q][f] \notin {NoEvent', {}}
        PROVE  m_reactor'[f] = q /\ m_fds'[q][f] = m_listen_events'[f]
    BY <2>1 DEF Epolls, NoEvent
  <2>2. ASSUME NEW q \in Reactors, m_pending_add_fds'[q][f] # NoEvent'
        PROVE  /\ m_reactor'[f] = q /\ m_pending_add_fds'[q][f] = m_listen_events'[f]
               /\ m_coroutine'[f] # NULL /\ m_coroutine'[f] \in foreign'
               /\ cpc'[m_coroutine'[f]] \in {"registered", "wait"}
               /\ m_fds'[q][f] \in {NoEvent', {}}
               /\ ~InBatch(f, q)' /\ first_coroutine'[q] # m_coroutine'[f]
    <3>1. m_pending_add_fds[q][f] # NoEvent BY <2>2 DEF NoEvent
    <3>2. /\ m_reactor[f] = q /\ m_pending_add_fds[q][f] = m_listen_events[f]
          /\ m_coroutine[f] # NULL /\ m_coroutine[f] \in foreign
          /\ cpc[m_coroutine[f]] \in {"registered", "wait"}
          /\ m_fds[q][f] \in {NoEvent, {}} /\ ~InBatch(f, q) /\ first_coroutine[q] # m_coroutine[f]
      BY <3>1 DEF Epolls
    <3> QED BY <3>2 DEF NoEvent
  <2> QED BY <2>1, <2>2 DEF Epolls, NoEvent
<1>3. Woken(f) => m_coroutine[f] # NULL BY DEF Woken
<1>4. Wakeups(f)' BY <1>1, <1>3 DEF Wakeups
<1>5. Threads(f)' BY DEF Threads
<1> QED BY <1>2, <1>4, <1>5

-----------------------------------------------------------------------------
(* Types.                                                                  *)

LEMMA ResumeTypes ==
  ASSUME TypeOK, NEW r \in Reactors, NEW c \in Cors \cup {NULL}, Resume(r, c)
  PROVE  /\ cur' \in [Reactors -> Cors \cup {NULL}]
         /\ cpc' \in [Cors -> {"unborn", "new", "run", "registered", "wait", "back", "done"}]
         /\ clash' \subseteq Cors
<1>1. CASE c = NULL BY <1>1 DEF Resume, switch, TypeOK
<1>2. CASE c # NULL /\ cpc[c] \in {"new", "wait"} BY <1>2 DEF Resume, TypeOK
<1>3. CASE c # NULL /\ cpc[c] \notin {"new", "wait"} BY <1>3 DEF Resume, TypeOK
<1> QED BY <1>1, <1>2, <1>3

LEMMA UpdateTypes ==
  ASSUME TypeOK, NEW r \in Reactors, NEW c \in Cors, NEW f \in Fds, NEW mask \in Masks,
         updateToReactor(r, c, f, mask)
  PROVE  /\ m_fds' \in [Reactors -> [Fds -> Masks \cup {NoEvent}]]
         /\ m_pending_add_fds' \in [Reactors -> [Fds -> Masks \cup {NoEvent}]]
         /\ m_listen_events' \in [Fds -> Masks] /\ m_reactor' \in [Fds -> Reactors \cup {NULL}]
         /\ foreign' \subseteq Cors /\ dropped' \subseteq Cors
<1> DEFINE q == IF m_reactor[f] = NULL THEN r ELSE m_reactor[f]
<1>1. q \in Reactors BY DEF TypeOK
<1>2. /\ m_listen_events' = [m_listen_events EXCEPT ![f] = mask]
      /\ m_reactor' = [m_reactor EXCEPT ![f] = q] /\ addEvent(r, q, f, mask)
      /\ foreign' = (IF q = r THEN foreign ELSE foreign \cup {c}) /\ dropped' = dropped
  BY DEF updateToReactor
<1> HIDE DEF q
<1>3. m_fds' \in [Reactors -> [Fds -> Masks \cup {NoEvent}]]
  <2>1. CASE q = r
    <3>1. m_fds' = [m_fds EXCEPT ![r] = [m_fds[r] EXCEPT ![f] = mask]] BY <1>2, <2>1 DEF addEvent
    <3> QED BY <3>1 DEF TypeOK
  <2>2. CASE q # r BY <1>2, <2>2 DEF addEvent, TypeOK
  <2> QED BY <2>1, <2>2
<1>4. m_pending_add_fds' \in [Reactors -> [Fds -> Masks \cup {NoEvent}]]
  <2>1. CASE q = r BY <1>2, <2>1 DEF addEvent, TypeOK
  <2>2. CASE q # r
    <3> DEFINE m == IF m_pending_add_fds[q][f] = NoEvent THEN mask ELSE m_pending_add_fds[q][f]
    <3>1. m_pending_add_fds' = [m_pending_add_fds EXCEPT ![q] = [m_pending_add_fds[q] EXCEPT ![f] = m]]
      BY <1>2, <2>2 DEF addEvent
    <3>2. m \in Masks \cup {NoEvent} BY <1>1 DEF TypeOK
    <3> QED BY <1>1, <3>1, <3>2 DEF TypeOK
  <2> QED BY <2>1, <2>2
<1> QED BY <1>1, <1>2, <1>3, <1>4 DEF TypeOK

LEMMA ListenTypes ==
  ASSUME TypeOK, NEW r \in Reactors, NEW c \in Cors, NEW f \in Fds, NEW k \in {"READ", "WRITE"},
         addListenEvents(r, c, f, k) \/ delListenEvents(r, c, f, k)
  PROVE  /\ m_fds' \in [Reactors -> [Fds -> Masks \cup {NoEvent}]]
         /\ m_pending_add_fds' \in [Reactors -> [Fds -> Masks \cup {NoEvent}]]
         /\ m_listen_events' \in [Fds -> Masks] /\ m_reactor' \in [Fds -> Reactors \cup {NULL}]
         /\ foreign' \subseteq Cors /\ dropped' \subseteq Cors
<1>1. CASE UNCHANGED <<m_listen_events, m_reactor, epoll, history>>
  BY <1>1 DEF TypeOK, epoll, history
<1>2. CASE \/ updateToReactor(r, c, f, m_listen_events[f] \cup {k})
           \/ updateToReactor(r, c, f, m_listen_events[f] \ {k})
  <2>1. m_listen_events[f] \cup {k} \in Masks /\ m_listen_events[f] \ {k} \in Masks
    BY DEF TypeOK, Masks
  <2> QED BY <1>2, <2>1, UpdateTypes
<1> QED BY <1>1, <1>2 DEF addListenEvents, delListenEvents

LEMMA CalledTypes ==
  ASSUME TypeOK, NEW c \in Cors, next[c] <= Len(prog.code[c]), Called(c)
  PROVE  /\ next' \in [Cors -> Nat \ {0}]
         /\ \A d \in Cors : next'[d] <= Len(prog.code[d]) + 1
         /\ \A d \in Cors : d # c => next'[d] = next[d]
<1> DEFINE n == IF next[c] = Len(prog.code[c]) /\ c \in prog.loops THEN 1 ELSE next[c] + 1
<1>1. Len(prog.code[c]) \in Nat /\ next[c] \in Nat \ {0} BY Programme DEF TypeOK
<1>2. n \in Nat \ {0} /\ n <= Len(prog.code[c]) + 1 BY <1>1
<1>3. next' = [next EXCEPT ![c] = n] BY DEF Called
<1> HIDE DEF n
<1> QED BY <1>2, <1>3 DEF TypeOK

LEMMA DeleteTypes ==
  ASSUME TypeOK, NEW c \in Cors, event[c] # NULL, delTimerEvent(c)
  PROVE  /\ event' \in [Cors -> Reactors \cup {NULL}] /\ is_timeout' \in [Cors -> BOOLEAN]
         /\ m_pending_events' \subseteq Cors /\ due' \in [Reactors -> SUBSET Cors]
         /\ late' \in [Reactors -> SUBSET Cors]
BY DEF delTimerEvent, TypeOK

LEMMA TypeStep == TypeOK /\ Hooks /\ [Next]_vars => TypeOK'
<1> SUFFICES ASSUME TypeOK, Hooks, [Next]_vars PROVE TypeOK'
  OBVIOUS
<1>0. m_size \in 1..NReactors /\ NReactors \in Nat BY Programme
<1> USE DEF pool, loopvars, epoll, fdevent, switch, timer, timers, kernel, history
<1>1. ASSUME CreateThread \/ WaitInit \/ PostStart PROVE TypeOK'
  <2>1. CASE CreateThread BY <2>1 DEF CreateThread, TypeOK, m_size
  <2>2. CASE WaitInit BY <1>0, <2>2 DEF WaitInit, TypeOK, m_size
  <2>3. CASE PostStart BY <1>0, <2>3 DEF PostStart, TypeOK, m_size
  <2> QED BY <1>1, <2>1, <2>2, <2>3
<1>2. ASSUME NEW r \in Reactors, InitThread(r) \/ EnterLoop(r) \/ PopDone(r) \/ TasksDone(r)
      PROVE  TypeOK'
  <2>1. CASE InitThread(r) BY <2>1 DEF InitThread, TypeOK, m_size
  <2>2. CASE EnterLoop(r) BY <2>2 DEF EnterLoop, TypeOK, m_size
  <2>3. CASE PopDone(r) BY <2>3 DEF PopDone, GoTo, TypeOK, m_size
  <2>4. CASE TasksDone(r) BY <2>4 DEF TasksDone, GoTo, TypeOK, m_size
  <2> QED BY <1>2, <2>1, <2>2, <2>3, <2>4
<1>3. ASSUME NEW r \in Reactors, NEW c \in Cors, addCoroutine(r, c),
             UNCHANGED <<pool, loopvars, epoll, m_task, fdevent, cur, clash, next, timer,
                         kernel, history>>
      PROVE  TypeOK'
  <2>1. m_pending_tasks' \in [Reactors -> Seq(Cors)]
    <3>1. Append(m_pending_tasks[r], c) \in Seq(Cors) BY DEF TypeOK
    <3> QED BY <1>3, <3>1 DEF addCoroutine, TypeOK
  <2> QED BY <1>3, <2>1 DEF addCoroutine, TypeOK, m_size
<1>4. ASSUME GiveWork PROVE TypeOK'
  <2>1. \A i \in 0..(m_size - 1) : i \in Reactors BY <1>0 DEF Reactors
  <2>2. ASSUME NEW c \in Cors, NEW i \in 0..(m_size - 1), GiveToIOThread(c, i) PROVE TypeOK'
    BY <1>3, <2>1, <2>2 DEF GiveToIOThread
  <2>3. ASSUME NEW r \in Reactors, NEW c \in Cors, GiveToMain(r, c) PROVE TypeOK'
    BY <1>3, <2>3 DEF GiveToMain
  <2>4. ASSUME NEW r \in Reactors, NEW c \in Cors, NEW i \in 0..(m_size - 1),
               GiveToRandomThread(r, c, i)
        PROVE  TypeOK'
    <3>1. OtherThan(r, i) \in Reactors BY <1>0, <2>1 DEF OtherThan, Reactors
    <3> QED BY <1>3, <2>4, <3>1 DEF GiveToRandomThread
  <2> QED BY <1>4, <2>2, <2>3, <2>4 DEF GiveWork
<1>5. ASSUME NEW r \in Reactors, HookYield(r) \/ Finish(r) PROVE TypeOK'
  <2>1. CASE HookYield(r) BY <2>1 DEF HookYield, Yield, TypeOK, m_size
  <2>2. CASE Finish(r) BY <2>2 DEF Finish, Yield, TypeOK, m_size
  <2> QED BY <1>5, <2>1, <2>2
<1>6. ASSUME NEW r \in Reactors, NEW f \in Fds, NEW h \in {"read", "write", "connect"},
             HookDirect(r, f, h)
      PROVE  TypeOK'
  <2> DEFINE c == cur[r]
  <2>1. c \in Cors BY <1>6 DEF HookDirect, TypeOK
  <2>2. next[c] <= Len(prog.code[c]) BY <1>6 DEF HookDirect, Calling
  <2>3. Called(c) BY <1>6 DEF HookDirect
  <2> HIDE DEF c
  <2>4. next' \in [Cors -> Nat \ {0}] /\ \A d \in Cors : next'[d] <= Len(prog.code[d]) + 1
    BY <2>1, <2>2, <2>3, CalledTypes
  <2>5. ready' \in [Fds -> Masks] BY <1>6 DEF HookDirect, Used, TypeOK, Masks
  <2> QED BY <1>6, <2>4, <2>5 DEF HookDirect, TypeOK, m_size
<1>7. ASSUME NEW r \in Reactors, NEW f \in Fds, NEW h \in {"read", "write", "connect"},
             HookRegister(r, f, h)
      PROVE  TypeOK'
  <2> DEFINE c == cur[r]
  <2>1. c \in Cors BY <1>7 DEF HookRegister, TypeOK
  <2>2. Kind(h) \in {"READ", "WRITE"} BY DEF Kind
  <2>3. addListenEvents(r, c, f, Kind(h)) BY <1>7 DEF HookRegister
  <2> HIDE DEF c
  <2>4. /\ m_fds' \in [Reactors -> [Fds -> Masks \cup {NoEvent}]]
        /\ m_pending_add_fds' \in [Reactors -> [Fds -> Masks \cup {NoEvent}]]
        /\ m_listen_events' \in [Fds -> Masks] /\ m_reactor' \in [Fds -> Reactors \cup {NULL}]
        /\ foreign' \subseteq Cors /\ dropped' \subseteq Cors
    BY <2>1, <2>2, <2>3, ListenTypes
  <2>5. event' \in [Cors -> Reactors \cup {NULL}] /\ m_pending_events' \subseteq Cors
    BY <1>7, <2>1 DEF HookRegister, addTimerEvent, TypeOK, c
  <2> QED BY <1>7, <2>1, <2>4, <2>5 DEF HookRegister, TypeOK, m_size, c
<1>8. ASSUME NEW r \in Reactors, HookReturn(r) PROVE TypeOK'
  <2> DEFINE c == cur[r]  k == Kind(Call(c)[1])
  <2>1. c \in Cors /\ cpc[c] = "back" /\ ~Sleeping(c) BY <1>8 DEF HookReturn, TypeOK
  <2>2. next[c] <= Len(prog.code[c]) BY <2>1 DEF Hooks, InHook
  <2>3. delListenEvents(r, c, Fd(c), k) /\ Called(c) /\ Used(Fd(c), k) BY <1>8 DEF HookReturn
  <2> HIDE DEF c, k
  <2>4. Fd(c) \in Fds /\ k \in {"READ", "WRITE"} BY <2>1, <2>2, CallTypes DEF Fd, Sleeping, k
  <2>5. next' \in [Cors -> Nat \ {0}] /\ \A d \in Cors : next'[d] <= Len(prog.code[d]) + 1
    BY <2>1, <2>2, <2>3, CalledTypes
  <2>6. ready' \in [Fds -> Masks] BY <2>3, <2>4 DEF Used, TypeOK, Masks
  <2>7. /\ m_fds' \in [Reactors -> [Fds -> Masks \cup {NoEvent}]]
        /\ m_pending_add_fds' \in [Reactors -> [Fds -> Masks \cup {NoEvent}]]
        /\ m_listen_events' \in [Fds -> Masks] /\ m_reactor' \in [Fds -> Reactors \cup {NULL}]
        /\ foreign' \subseteq Cors /\ dropped' \subseteq Cors
    BY <2>1, <2>3, <2>4, ListenTypes
  <2>8. /\ event' \in [Cors -> Reactors \cup {NULL}] /\ is_timeout' \in [Cors -> BOOLEAN]
        /\ m_pending_events' \subseteq Cors /\ due' \in [Reactors -> SUBSET Cors]
        /\ late' \in [Reactors -> SUBSET Cors]
    BY <1>8, <2>1, DeleteTypes DEF HookReturn, TypeOK, c
  <2> QED BY <1>8, <2>5, <2>6, <2>7, <2>8 DEF HookReturn, TypeOK, m_size
<1>9. ASSUME NEW r \in Reactors, HookSleep(r) PROVE TypeOK'
  BY <1>9 DEF HookSleep, addTimerEvent, Yield, TypeOK, m_size
<1>10. ASSUME NEW r \in Reactors, HookSleepBack(r) PROVE TypeOK'
  <2> DEFINE c == cur[r]
  <2>1. c \in Cors /\ cpc[c] = "back" BY <1>10 DEF HookSleepBack, TypeOK
  <2>2. next[c] <= Len(prog.code[c]) BY <2>1 DEF Hooks, InHook
  <2>3. next' \in [Cors -> Nat \ {0}] /\ \A d \in Cors : next'[d] <= Len(prog.code[d]) + 1
    <3>1. CASE Called(c)
      <4> HIDE DEF c
      <4> QED BY <2>1, <2>2, <3>1, CalledTypes
    <3>2. CASE UNCHANGED next BY <3>2 DEF TypeOK
    <3> QED BY <1>10, <3>1, <3>2 DEF HookSleepBack
  <2> QED BY <1>10, <2>1, <2>3 DEF HookSleepBack, Yield, TypeOK, m_size
<1>11. ASSUME NEW r \in Reactors, ResumeFirst(r) PROVE TypeOK'
  <2>1. first_coroutine[r] \in Cors \cup {NULL} /\ Resume(r, first_coroutine[r])
    BY <1>11 DEF ResumeFirst, TypeOK
  <2>2. /\ cur' \in [Reactors -> Cors \cup {NULL}]
        /\ cpc' \in [Cors -> {"unborn", "new", "run", "registered", "wait", "back", "done"}]
        /\ clash' \subseteq Cors
    BY <2>1, ResumeTypes
  <2> QED BY <1>11, <2>2 DEF ResumeFirst, GoTo, TypeOK, m_size
<1>12. ASSUME NEW r \in Reactors, PopCoroutine(r) PROVE TypeOK'
  <2>1. Head(m_task) \in Fds /\ Tail(m_task) \in Seq(Fds) BY <1>12 DEF PopCoroutine, TypeOK
  <2>2. m_coroutine[Head(m_task)] \in Cors \cup {NULL} /\ Resume(r, m_coroutine[Head(m_task)])
    BY <1>12, <2>1 DEF PopCoroutine, TypeOK
  <2>3. /\ cur' \in [Reactors -> Cors \cup {NULL}]
        /\ cpc' \in [Cors -> {"unborn", "new", "run", "registered", "wait", "back", "done"}]
        /\ clash' \subseteq Cors
    BY <2>2, ResumeTypes
  <2> QED BY <1>12, <2>1, <2>3 DEF PopCoroutine, TypeOK, m_size
<1>13. ASSUME NEW r \in Reactors, RunTask(r) PROVE TypeOK'
  <2>1. Head(m_pending_tasks[r]) \in Cors /\ Tail(m_pending_tasks[r]) \in Seq(Cors)
    <3>1. m_pending_tasks[r] \in Seq(Cors) /\ m_pending_tasks[r] # <<>>
      BY <1>13 DEF RunTask, TypeOK
    <3> QED BY <3>1
  <2>2. Resume(r, Head(m_pending_tasks[r])) BY <1>13 DEF RunTask
  <2>3. /\ cur' \in [Reactors -> Cors \cup {NULL}]
        /\ cpc' \in [Cors -> {"unborn", "new", "run", "registered", "wait", "back", "done"}]
        /\ clash' \subseteq Cors
    BY <2>1, <2>2, ResumeTypes
  <2> QED BY <1>13, <2>1, <2>3 DEF RunTask, TypeOK, m_size
<1>14. ASSUME NEW r \in Reactors, NEW b, EpollReturn(r, b),
              b = Reportable(r) \/ b = Reportable(r) \cup {<<m_timer_fd, "io">>}
       PROVE  TypeOK'
  <2>1. b \subseteq (Fds \X {"io", "hup"}) \cup {<<m_timer_fd, "io">>}
    BY <1>14 DEF Reportable, TypeOK
  <2> QED BY <1>14, <2>1 DEF EpollReturn, GoTo, TypeOK, m_size
<1>15. ASSUME NEW r \in Reactors, NEW f \in Fds, HandleUnknown(r, f) PROVE TypeOK'
  <2>1. dropped' \subseteq Cors
    <3>1. CASE m_fds[r][f] \in {{}, NoEvent} BY <1>15, <3>1 DEF HandleUnknown, TypeOK
    <3>2. CASE m_fds[r][f] \notin {{}, NoEvent}
      <4>1. \E c \in Cors : Owns(c, f) BY <3>2 DEF Hooks
      <4>2. Owner(f) \in Cors BY <4>1 DEF Owner, Owns
      <4> QED BY <1>15, <3>2, <4>2 DEF HandleUnknown, TypeOK
    <3> QED BY <3>1, <3>2
  <2>2. m_fds' \in [Reactors -> [Fds -> Masks \cup {NoEvent}]] BY <1>15 DEF HandleUnknown, TypeOK
  <2> QED BY <1>15, <2>1, <2>2 DEF HandleUnknown, Handled, TypeOK, m_size
<1>16. ASSUME NEW r \in Reactors, NEW f \in Fds, HandleNoCoroutine(r, f) \/ HandleFirst(r, f)
       PROVE  TypeOK'
  <2>1. CASE HandleNoCoroutine(r, f) BY <2>1 DEF HandleNoCoroutine, Handled, TypeOK, m_size
  <2>2. CASE HandleFirst(r, f) BY <2>2 DEF HandleFirst, Handled, TypeOK, m_size
  <2> QED BY <1>16, <2>1, <2>2
<1>17. ASSUME NEW r \in Reactors, NEW f \in Fds, HandleMigrate(r, f) PROVE TypeOK'
  <2>1. m_fds' \in [Reactors -> [Fds -> Masks \cup {NoEvent}]] BY <1>17 DEF HandleMigrate, TypeOK
  <2>2. m_task' \in Seq(Fds) BY <1>17 DEF HandleMigrate, TypeOK
  <2> QED BY <1>17, <2>1, <2>2 DEF HandleMigrate, Handled, TypeOK, m_size
<1>18. ASSUME NEW r \in Reactors, NEW f \in Fds, HandleMain(r, f) PROVE TypeOK'
  <2>1. m_coroutine[f] \in Cors \cup {NULL} /\ Resume(r, m_coroutine[f])
    BY <1>18 DEF HandleMain, TypeOK
  <2>2. /\ cur' \in [Reactors -> Cors \cup {NULL}]
        /\ cpc' \in [Cors -> {"unborn", "new", "run", "registered", "wait", "back", "done"}]
        /\ clash' \subseteq Cors
    BY <2>1, ResumeTypes
  <2> QED BY <1>18, <2>2 DEF HandleMain, Handled, TypeOK, m_size
<1>19. ASSUME NEW r \in Reactors, NEW c \in Cors, RunCallback(r, c) \/ RunLateCallback(r, c)
       PROVE  TypeOK'
  <2>1. Resume(r, c) BY <1>19 DEF RunCallback, RunLateCallback
  <2>2. /\ cur' \in [Reactors -> Cors \cup {NULL}]
        /\ cpc' \in [Cors -> {"unborn", "new", "run", "registered", "wait", "back", "done"}]
        /\ clash' \subseteq Cors
    BY <2>1, ResumeTypes
  <2>3. CASE RunCallback(r, c) BY <2>2, <2>3 DEF RunCallback, GoTo, TypeOK, m_size
  <2>4. CASE RunLateCallback(r, c) BY <2>2, <2>4 DEF RunLateCallback, GoTo, TypeOK, m_size
  <2> QED BY <1>19, <2>3, <2>4
<1>20. ASSUME NEW r \in Reactors, HandleTimer(r) PROVE TypeOK'
  <2>1. PICK S \in SUBSET Pending(r) : due' = [due EXCEPT ![r] = S] BY <1>20 DEF HandleTimer
  <2>2. S \subseteq Cors BY DEF Pending, TypeOK
  <2>3. due' \in [Reactors -> SUBSET Cors] BY <2>1, <2>2 DEF TypeOK
  <2> QED BY <1>20, <2>3 DEF HandleTimer, Handled, GoTo, TypeOK, m_size
<1>21. ASSUME NEW r \in Reactors, MergePending(r) PROVE TypeOK'
  <2>1. m_fds' \in [Reactors -> [Fds -> Masks \cup {NoEvent}]] BY <1>21 DEF MergePending, TypeOK
  <2>2. m_pending_add_fds' \in [Reactors -> [Fds -> Masks \cup {NoEvent}]]
    BY <1>21 DEF MergePending, TypeOK
  <2> QED BY <1>21, <2>1, <2>2 DEF MergePending, GoTo, TypeOK, m_size
<1>22. ASSUME NEW f \in Fds, PeerClose(f) \/ \E k \in {"READ", "WRITE"} : Arrive(f, k)
       PROVE  TypeOK'
  <2>1. ready' \in [Fds -> Masks]
    <3>1. CASE PeerClose(f) BY <3>1 DEF PeerClose, TypeOK, Masks
    <3>2. ASSUME NEW k \in {"READ", "WRITE"}, Arrive(f, k) PROVE ready' \in [Fds -> Masks]
      <4>1. ready[f] \cup {k} \in Masks BY DEF TypeOK, Masks
      <4> QED BY <3>2, <4>1 DEF Arrive, TypeOK
    <3> QED BY <1>22, <3>1, <3>2
  <2> QED BY <1>22, <2>1 DEF PeerClose, Arrive, TypeOK, m_size
<1>23. CASE UNCHANGED vars BY <1>23 DEF vars, TypeOK, m_size
<1> QED
  BY <1>1, <1>2, <1>4, <1>5, <1>6, <1>7, <1>8, <1>9, <1>10, <1>11, <1>12, <1>13, <1>14, <1>15,
     <1>16, <1>17, <1>18, <1>19, <1>20, <1>21, <1>22, <1>23
  DEF Next, StartUp, HookStep, UserStep, GiveBack, LoopStep, HandleEvent

-----------------------------------------------------------------------------
(* Hooks.                                                                  *)

LEMMA SameProgram ==
  ASSUME prog' = prog
  PROVE  \A c, f : Owns(c, f)' <=> Owns(c, f)
BY DEF Owns

LEMMA CallsStay ==
  ASSUME TypeOK, Hooks, prog' = prog, next' = next,
         \A c \in Cors : cpc'[c] \in InHook => cpc[c] \in InHook \/ next[c] <= Len(prog.code[c])
  PROVE  \A c \in Cors : cpc'[c] \in InHook => next'[c] <= Len(prog'.code[c])
BY DEF Hooks

LEMMA ResumeInHook ==
  ASSUME TypeOK, NEW r \in Reactors, NEW c \in Cors \cup {NULL}, Resume(r, c)
  PROVE  \A d \in Cors : cpc'[d] \in InHook => cpc[d] \in InHook
<1>1. CASE c = NULL \/ cpc[c] \notin {"new", "wait"} BY <1>1 DEF Resume, switch
<1>2. CASE c # NULL /\ cpc[c] \in {"new", "wait"} BY <1>2 DEF Resume, TypeOK, InHook
<1> QED BY <1>1, <1>2

LEMMA UpdateOwned ==
  ASSUME TypeOK, Hooks, NEW r \in Reactors, NEW c \in Cors, NEW f \in Fds, NEW mask, Owns(c, f),
         updateToReactor(r, c, f, mask), prog' = prog
  PROVE  \A q \in Reactors, g \in Fds :
           m_fds'[q][g] # NoEvent \/ m_pending_add_fds'[q][g] # NoEvent => \E d \in Cors : Owns(d, g)'
<1> DEFINE q == IF m_reactor[f] = NULL THEN r ELSE m_reactor[f]
<1>1. q \in Reactors /\ addEvent(r, q, f, mask) BY DEF updateToReactor, TypeOK
<1> HIDE DEF q
<1>2. \A p \in Reactors, g \in Fds :
        g # f => m_fds'[p][g] = m_fds[p][g] /\ m_pending_add_fds'[p][g] = m_pending_add_fds[p][g]
  <2>1. CASE q = r
    <3>1. m_fds' = [m_fds EXCEPT ![r] = [m_fds[r] EXCEPT ![f] = mask]] /\ UNCHANGED m_pending_add_fds
      BY <1>1, <2>1 DEF addEvent
    <3> QED BY <3>1 DEF TypeOK
  <2>2. CASE q # r
    <3>1. PICK m : /\ m_pending_add_fds' = [m_pending_add_fds EXCEPT ![q] =
                                              [m_pending_add_fds[q] EXCEPT ![f] = m]]
                   /\ UNCHANGED m_fds
      BY <1>1, <2>2 DEF addEvent
    <3> QED BY <1>1, <3>1 DEF TypeOK
  <2> QED BY <2>1, <2>2
<1> QED BY <1>2, SameProgram DEF Hooks

LEMMA HooksStep == TypeOK /\ Hooks /\ [Next]_vars => Hooks'
<1> SUFFICES ASSUME TypeOK, Hooks, [Next]_vars PROVE Hooks'
  OBVIOUS
<1> USE DEF pool, loopvars, epoll, fdevent, switch, timer, timers, kernel, history
<1>1. ASSUME prog' = prog,
             \A c \in Cors : cpc'[c] \in InHook => next'[c] <= Len(prog'.code[c]),
             \A r \in Reactors, f \in Fds :
               m_fds'[r][f] # NoEvent \/ m_pending_add_fds'[r][f] # NoEvent
                 => m_fds[r][f] # NoEvent \/ m_pending_add_fds[r][f] # NoEvent
      PROVE  Hooks'
  BY <1>1, SameProgram DEF Hooks, NoEvent, InHook
<1>2. ASSUME UNCHANGED <<prog, next, epoll>>, \A c \in Cors : cpc'[c] \in InHook => cpc[c] \in InHook
      PROVE  Hooks'
  BY <1>1, <1>2, CallsStay
<1>3. ASSUME CreateThread \/ WaitInit \/ PostStart \/ UNCHANGED vars PROVE Hooks'
  BY <1>2, <1>3 DEF CreateThread, WaitInit, PostStart, vars
<1>4. ASSUME NEW r \in Reactors,
             \/ InitThread(r) \/ EnterLoop(r) \/ PopDone(r) \/ TasksDone(r) \/ HandleTimer(r)
             \/ \E b : EpollReturn(r, b)
             \/ \E f \in Fds : HandleNoCoroutine(r, f) \/ HandleFirst(r, f) \/ PeerClose(f)
                               \/ \E k \in {"READ", "WRITE"} : Arrive(f, k)
      PROVE  Hooks'
  BY <1>2, <1>4 DEF InitThread, EnterLoop, PopDone, TasksDone, HandleTimer, EpollReturn,
    HandleNoCoroutine, HandleFirst, PeerClose, Arrive
<1>5. ASSUME GiveWork PROVE Hooks'
  <2>1. UNCHANGED <<prog, next, epoll>>
    BY <1>5 DEF GiveWork, GiveToIOThread, GiveToMain, GiveToRandomThread
  <2>2. PICK c \in Cors : \E r : addCoroutine(r, c)
    BY <1>5 DEF GiveWork, GiveToIOThread, GiveToMain, GiveToRandomThread
  <2>3. \A d \in Cors : cpc'[d] \in InHook => cpc[d] \in InHook
    BY <2>2 DEF addCoroutine, TypeOK, InHook
  <2> QED BY <1>2, <2>1, <2>3
<1>6. ASSUME NEW r \in Reactors, HookYield(r) \/ Finish(r) PROVE Hooks'
  BY <1>2, <1>6 DEF HookYield, Finish, Yield, TypeOK, InHook
<1>7. ASSUME NEW r \in Reactors, NEW f \in Fds, NEW h \in {"read", "write", "connect"},
             HookDirect(r, f, h)
      PROVE  Hooks'
  <2>1. PICK c \in Cors : c = cur[r] /\ cpc[c] = "run" /\ next[c] <= Len(prog.code[c]) /\ Called(c)
    BY <1>7 DEF HookDirect, Calling, TypeOK
  <2>2. \A d \in Cors : d # c => next'[d] = next[d] BY <2>1, CalledTypes
  <2>3. UNCHANGED <<prog, cpc, epoll>> BY <1>7 DEF HookDirect
  <2>4. \A d \in Cors : cpc'[d] \in InHook => next'[d] <= Len(prog'.code[d])
    BY <2>1, <2>2, <2>3 DEF Hooks, InHook
  <2> QED BY <1>1, <2>3, <2>4
<1>8. ASSUME NEW r \in Reactors, NEW f \in Fds, NEW h \in {"read", "write", "connect"},
             HookRegister(r, f, h)
      PROVE  Hooks'
  <2>1. PICK c \in Cors : /\ c = cur[r] /\ next[c] <= Len(prog.code[c]) /\ Call(c) = <<h, f>>
                          /\ addListenEvents(r, c, f, Kind(h))
                          /\ cpc' = [cpc EXCEPT ![c] = "registered"] /\ UNCHANGED <<prog, next>>
    BY <1>8 DEF HookRegister, Calling, TypeOK
  <2>2. \A d \in Cors : cpc'[d] \in InHook => next'[d] <= Len(prog'.code[d])
    BY <2>1, CallsStay DEF TypeOK
  <2>3. Owns(c, f)
    <3>1. h # "sleep" OBVIOUS
    <3> QED BY <2>1, <3>1, CallTypes
  <2>4. CASE UNCHANGED <<m_listen_events, m_reactor, epoll, history>> BY <1>1, <2>1, <2>2, <2>4
  <2>5. CASE updateToReactor(r, c, f, m_listen_events[f] \cup {Kind(h)})
    <3>1. \A q \in Reactors, g \in Fds :
            m_fds'[q][g] # NoEvent \/ m_pending_add_fds'[q][g] # NoEvent => \E d \in Cors : Owns(d, g)'
      BY <2>1, <2>3, <2>5, UpdateOwned
    <3> QED BY <2>2, <3>1 DEF Hooks, NoEvent, InHook
  <2> QED BY <2>1, <2>4, <2>5 DEF addListenEvents
<1>9. ASSUME NEW r \in Reactors, HookReturn(r) PROVE Hooks'
  <2>1. PICK c \in Cors : /\ c = cur[r] /\ cpc[c] = "back" /\ ~Sleeping(c)
                          /\ delListenEvents(r, c, Fd(c), Kind(Call(c)[1])) /\ Called(c)
                          /\ cpc' = [cpc EXCEPT ![c] = "run"] /\ UNCHANGED prog
    BY <1>9 DEF HookReturn, TypeOK
  <2>2. next[c] <= Len(prog.code[c]) BY <2>1 DEF Hooks, InHook
  <2>3. \A d \in Cors : d # c => next'[d] = next[d] BY <2>1, <2>2, CalledTypes
  <2>4. \A d \in Cors : cpc'[d] \in InHook => next'[d] <= Len(prog'.code[d])
    BY <2>1, <2>3 DEF Hooks, TypeOK, InHook
  <2>5. Fd(c) \in Fds /\ Owns(c, Fd(c)) BY <2>1, <2>2, CallTypes DEF Fd, Sleeping
  <2>6. CASE UNCHANGED <<m_listen_events, m_reactor, epoll, history>> BY <1>1, <2>1, <2>4, <2>6
  <2>7. CASE updateToReactor(r, c, Fd(c), m_listen_events[Fd(c)] \ {Kind(Call(c)[1])})
    <3>1. \A q \in Reactors, g \in Fds :
            m_fds'[q][g] # NoEvent \/ m_pending_add_fds'[q][g] # NoEvent => \E d \in Cors : Owns(d, g)'
      BY <2>1, <2>5, <2>7, UpdateOwned
    <3> QED BY <2>4, <3>1 DEF Hooks, NoEvent, InHook
  <2> QED BY <2>1, <2>6, <2>7 DEF delListenEvents
<1>10. ASSUME NEW r \in Reactors, HookSleep(r) PROVE Hooks'
  <2>1. PICK c \in Cors : /\ next[c] <= Len(prog.code[c]) /\ UNCHANGED <<prog, next, epoll>>
                          /\ cpc' = [cpc EXCEPT ![c] = "wait"]
    BY <1>10 DEF HookSleep, Calling, Yield, TypeOK
  <2>2. \A d \in Cors : cpc'[d] \in InHook => next'[d] <= Len(prog'.code[d])
    BY <2>1, CallsStay DEF TypeOK
  <2> QED BY <1>1, <2>1, <2>2
<1>11. ASSUME NEW r \in Reactors, HookSleepBack(r) PROVE Hooks'
  <2>1. PICK c \in Cors : /\ cpc[c] = "back" /\ UNCHANGED <<prog, epoll>>
                          /\ \/ cpc' = [cpc EXCEPT ![c] = "run"] /\ Called(c)
                             \/ cpc' = [cpc EXCEPT ![c] = "wait"] /\ UNCHANGED next
    BY <1>11 DEF HookSleepBack, Yield, TypeOK
  <2>2. next[c] <= Len(prog.code[c]) BY <2>1 DEF Hooks, InHook
  <2>3. CASE cpc' = [cpc EXCEPT ![c] = "run"] /\ Called(c)
    <3>1. \A d \in Cors : d # c => next'[d] = next[d] BY <2>2, <2>3, CalledTypes
    <3>2. \A d \in Cors : cpc'[d] \in InHook => next'[d] <= Len(prog'.code[d])
      BY <2>1, <2>3, <3>1 DEF Hooks, TypeOK, InHook
    <3> QED BY <1>1, <2>1, <3>2
  <2>4. CASE cpc' = [cpc EXCEPT ![c] = "wait"] /\ UNCHANGED next
    <3>1. \A d \in Cors : cpc'[d] \in InHook => cpc[d] \in InHook
      BY <2>1, <2>4 DEF TypeOK, InHook
    <3> QED BY <1>2, <2>1, <2>4, <3>1
  <2> QED BY <2>1, <2>3, <2>4
<1>12. ASSUME NEW r \in Reactors, NEW c \in Cors \cup {NULL}, Resume(r, c),
              UNCHANGED <<prog, next, epoll>>
       PROVE  Hooks'
  BY <1>2, <1>12, ResumeInHook
<1>13. ASSUME NEW r \in Reactors,
              \/ ResumeFirst(r) \/ PopCoroutine(r) \/ RunTask(r)
              \/ \E f \in Fds : HandleMain(r, f)
              \/ \E c \in Cors : RunCallback(r, c) \/ RunLateCallback(r, c)
       PROVE  Hooks'
  <2>1. CASE ResumeFirst(r) BY <1>12, <2>1 DEF ResumeFirst, TypeOK
  <2>2. CASE PopCoroutine(r)
    <3>1. Head(m_task) \in Fds BY <2>2 DEF PopCoroutine, TypeOK
    <3> QED BY <1>12, <2>2, <3>1 DEF PopCoroutine, TypeOK
  <2>3. CASE RunTask(r)
    <3>1. m_pending_tasks[r] \in Seq(Cors) /\ m_pending_tasks[r] # <<>> BY <2>3 DEF RunTask, TypeOK
    <3>2. Head(m_pending_tasks[r]) \in Cors BY <3>1
    <3> QED BY <1>12, <2>3, <3>2 DEF RunTask
  <2>4. ASSUME NEW f \in Fds, HandleMain(r, f) PROVE Hooks' BY <1>12, <2>4 DEF HandleMain, TypeOK
  <2>5. ASSUME NEW c \in Cors, RunCallback(r, c) \/ RunLateCallback(r, c) PROVE Hooks'
    BY <1>12, <2>5 DEF RunCallback, RunLateCallback
  <2> QED BY <1>13, <2>1, <2>2, <2>3, <2>4, <2>5
<1>14. ASSUME NEW r \in Reactors, NEW f \in Fds, HandleUnknown(r, f) \/ HandleMigrate(r, f)
       PROVE  Hooks'
  <2>1. /\ m_fds' = [m_fds EXCEPT ![r][f] = NoEvent]
        /\ UNCHANGED <<prog, next, cpc, m_pending_add_fds>>
    BY <1>14 DEF HandleUnknown, HandleMigrate
  <2>2. \A q \in Reactors, g \in Fds : m_fds'[q][g] # NoEvent => m_fds[q][g] # NoEvent
    BY <2>1 DEF TypeOK
  <2> QED BY <1>1, <2>1, <2>2, CallsStay
<1>15. ASSUME NEW r \in Reactors, MergePending(r) PROVE Hooks'
  <2>1. /\ m_fds' = [m_fds EXCEPT ![r] = [f \in Fds |->
                      IF m_pending_add_fds[r][f] = NoEvent THEN m_fds[r][f] ELSE m_pending_add_fds[r][f]]]
        /\ m_pending_add_fds' = [m_pending_add_fds EXCEPT ![r] = [f \in Fds |-> NoEvent]]
        /\ UNCHANGED <<prog, next, cpc>>
    BY <1>15 DEF MergePending
  <2>2. \A q \in Reactors, g \in Fds :
          m_fds'[q][g] # NoEvent \/ m_pending_add_fds'[q][g] # NoEvent
            => m_fds[q][g] # NoEvent \/ m_pending_add_fds[q][g] # NoEvent
    BY <2>1 DEF TypeOK
  <2> QED BY <1>1, <2>1, <2>2, CallsStay
<1> QED
  <2>1. \E r \in Reactors : TRUE BY Programme DEF Reactors
  <2> QED
    BY <2>1, <1>3, <1>4, <1>5, <1>6, <1>7, <1>8, <1>9, <1>10, <1>11, <1>13, <1>14, <1>15
    DEF Next, StartUp, HookStep, UserStep, GiveBack, LoopStep, HandleEvent

-----------------------------------------------------------------------------
(* Steps that keep parts of the invariant.                                 *)

\* A step that does not touch descriptor f, nor its coroutine.
Kept(f) ==
  /\ prog' = prog /\ timed \subseteq timed' /\ foreign \subseteq foreign' /\ dropped \subseteq dropped'
  /\ \A q \in Reactors :
       /\ m_fds'[q][f] = m_fds[q][f] /\ m_pending_add_fds'[q][f] = m_pending_add_fds[q][f]
       /\ InBatch(f, q)' => InBatch(f, q)
       /\ first_coroutine'[q] = m_coroutine[f] /\ m_coroutine[f] # NULL
            => first_coroutine[q] = m_coroutine[f]
       /\ cur[q] = m_coroutine[f] /\ m_coroutine[f] # NULL => cur'[q] = m_coroutine[f]
  /\ m_reactor'[f] = m_reactor[f] /\ m_coroutine'[f] = m_coroutine[f]
  /\ m_listen_events'[f] = m_listen_events[f] /\ ready[f] \subseteq ready'[f]
  /\ Queued(f)' <=> Queued(f)
  /\ QueuedOnce(f) => QueuedOnce(f)'
  /\ m_coroutine[f] # NULL => cpc'[m_coroutine[f]] = cpc[m_coroutine[f]]

LEMMA LateStays ==
  ASSUME prog' = prog, timed \subseteq timed', NEW f, ~Late(f)'
  PROVE  ~Late(f)
BY SameProgram DEF Late

LEMMA KeptDescriptor ==
  ASSUME TypeOK, Descriptors, NEW f \in Fds, Kept(f)
  PROVE  Descriptor(f)'
<1> SUFFICES ASSUME ~Late(f)' PROVE (Epolls(f) /\ Wakeups(f) /\ Threads(f))'
  BY DEF Descriptor
<1>1. ~Late(f) BY LateStays DEF Kept
<1>2. Epolls(f) /\ Wakeups(f) /\ Threads(f) BY <1>1 DEF Descriptors, Descriptor
<1>3. m_reactor[f] \in Reactors \cup {NULL} BY DEF TypeOK
<1>4. /\ foreign \subseteq foreign' /\ dropped \subseteq dropped'
      /\ \A q \in Reactors :
           /\ m_fds'[q][f] = m_fds[q][f] /\ m_pending_add_fds'[q][f] = m_pending_add_fds[q][f]
           /\ InBatch(f, q)' => InBatch(f, q)
           /\ first_coroutine'[q] = m_coroutine[f] /\ m_coroutine[f] # NULL
                => first_coroutine[q] = m_coroutine[f]
           /\ cur[q] = m_coroutine[f] /\ m_coroutine[f] # NULL => cur'[q] = m_coroutine[f]
      /\ m_reactor'[f] = m_reactor[f] /\ m_coroutine'[f] = m_coroutine[f]
      /\ m_listen_events'[f] = m_listen_events[f] /\ ready[f] \subseteq ready'[f]
      /\ Queued(f)' <=> Queued(f)
      /\ QueuedOnce(f) => QueuedOnce(f)'
      /\ m_coroutine[f] # NULL => cpc'[m_coroutine[f]] = cpc[m_coroutine[f]]
  BY DEF Kept
<1> QED BY <1>2, <1>3, <1>4, SameDescriptor

LEMMA SameQueue ==
  ASSUME m_task' = m_task
  PROVE  \A f : (Queued(f)' <=> Queued(f)) /\ (QueuedOnce(f)' <=> QueuedOnce(f))
BY DEF Queued, QueuedOnce

LEMMA FdEventsStay ==
  ASSUME FdEvents, UNCHANGED <<prog, m_coroutine, m_listen_events>>,
         \A c \in Cors : /\ cpc'[c] \in InHook <=> cpc[c] \in InHook
                         /\ cpc[c] \in InHook => next'[c] = next[c],
         \A f \in Fds : m_coroutine[f] \in Cors \cup {NULL}
  PROVE  FdEvents' /\ \A c \in Cors, f \in Fds : On(c, f)' <=> On(c, f)
<1>1. \A c \in Cors, f \in Fds : On(c, f)' <=> On(c, f) BY DEF On, Call, InHook
<1>2. ASSUME NEW f \in Fds, m_coroutine[f] # NULL
      PROVE  /\ On(m_coroutine[f], f)'
             /\ Call(m_coroutine[f])' = Call(m_coroutine[f])
  <2>1. m_coroutine[f] \in Cors /\ On(m_coroutine[f], f) BY <1>2 DEF FdEvents
  <2> QED BY <1>1, <2>1 DEF On, Call
<1> QED BY <1>1, <1>2 DEF FdEvents, Kind

LEMMA FdEventsNext ==
  ASSUME \A f \in Fds : /\ m_coroutine'[f] \in Cors \cup {NULL}
                        /\ m_coroutine'[f] = NULL => m_listen_events'[f] = {},
         \A f \in Fds, c \in Cors :
           /\ m_coroutine'[f] = c => On(c, f)' /\ m_listen_events'[f] = {Kind(Call(c)[1])'}
           /\ On(c, f)' => m_coroutine'[f] = c
  PROVE  FdEvents'
BY DEF FdEvents, On, Call, Kind

LEMMA FirstsStay ==
  ASSUME Firsts, timed \subseteq timed', UNCHANGED m_coroutine,
         \A r \in Reactors : first_coroutine'[r] \in {NULL, first_coroutine[r]}
  PROVE  Firsts'
BY DEF Firsts

\* Coroutine c has no descriptor in a hook, before and after the step.
LEMMA NoDescriptor ==
  ASSUME TypeOK, Hooks, FdEvents, NEW c \in Cors, \A f \in Fds : ~On(c, f) /\ ~On(c, f)',
         \A d \in Cors : d # c => cpc'[d] = cpc[d] /\ next'[d] = next[d],
         \A q \in Reactors : cur'[q] = cur[q] \/ cur[q] \in {NULL, c},
         UNCHANGED <<prog, m_coroutine, m_listen_events>>
  PROVE  /\ FdEvents'
         /\ \A f \in Fds : m_coroutine[f] # NULL =>
              /\ m_coroutine[f] # c /\ cpc'[m_coroutine[f]] = cpc[m_coroutine[f]]
              /\ \A q \in Reactors : cur[q] = m_coroutine[f] => cur'[q] = m_coroutine[f]
<1>1. ASSUME NEW f \in Fds, m_coroutine[f] # NULL
      PROVE  /\ m_coroutine[f] # c /\ m_coroutine[f] \in Cors
             /\ cpc'[m_coroutine[f]] = cpc[m_coroutine[f]]
             /\ next'[m_coroutine[f]] = next[m_coroutine[f]]
             /\ On(m_coroutine[f], f)' /\ Call(m_coroutine[f])' = Call(m_coroutine[f])
             /\ \A q \in Reactors : cur[q] = m_coroutine[f] => cur'[q] = m_coroutine[f]
  <2>1. m_coroutine[f] \in Cors /\ On(m_coroutine[f], f) BY <1>1, Holder
  <2>2. m_coroutine[f] # c BY <2>1
  <2> QED BY <1>1, <2>1, <2>2 DEF On, Call, InHook
<1>2. \A d \in Cors, f \in Fds : On(d, f)' => m_coroutine[f] = d
  <2> SUFFICES ASSUME NEW d \in Cors, NEW f \in Fds, On(d, f)' PROVE m_coroutine[f] = d
    OBVIOUS
  <2>1. d # c OBVIOUS
  <2>2. On(d, f) BY <2>1 DEF On, Call, InHook
  <2> QED BY <2>2 DEF FdEvents
<1> QED BY <1>1, <1>2 DEF FdEvents, Kind

LEMMA RunningYields ==
  ASSUME TypeOK, Running, NEW r \in Reactors, NEW c \in Cors, cur[r] = c,
         cur' = [cur EXCEPT ![r] = NULL], \A d \in Cors : d # c => cpc'[d] = cpc[d]
  PROVE  Running'
BY DEF Running, TypeOK

LEMMA RunningGoesOn ==
  ASSUME TypeOK, Running, cur' = cur, NEW c \in Cors,
         cpc'[c] \in {"run", "registered", "back"} \/ cpc[c] \notin {"run", "registered", "back"},
         \A d \in Cors : d # c => cpc'[d] = cpc[d]
  PROVE  Running'
<1>1. \A r \in Reactors : cur[r] \in Cors \cup {NULL} BY DEF TypeOK
<1> QED BY <1>1 DEF Running

\* A resume that finds its coroutine suspended.
LEMMA Resumes ==
  ASSUME TypeOK, Running, NEW r \in Reactors, NEW c \in Cors, cur[r] = NULL, Resume(r, c),
         clash = {}, clash' = {}
  PROVE  /\ cpc[c] \in {"new", "wait"}
         /\ cur' = [cur EXCEPT ![r] = c] /\ \A q \in Reactors : cur[q] # c
         /\ cpc' = [cpc EXCEPT ![c] = IF cpc[c] = "new" THEN "run" ELSE "back"]
         /\ Running'
<1>1. c # NULL BY NullAssumption
<1>2. cpc[c] \in {"new", "wait"} BY <1>1 DEF Resume
<1>3. /\ cur' = [cur EXCEPT ![r] = c]
      /\ cpc' = [cpc EXCEPT ![c] = IF cpc[c] = "new" THEN "run" ELSE "back"]
  BY <1>1, <1>2 DEF Resume
<1>4. \A q \in Reactors : cur[q] # c BY <1>1, <1>2 DEF Running
<1>5. Running' BY <1>2, <1>3, <1>4 DEF Running, TypeOK
<1> QED BY <1>2, <1>3, <1>4, <1>5

\* A coroutine that is woken has no other wakeup left.
LEMMA Woke ==
  ASSUME NEW f \in Fds, NEW r \in Reactors, Epolls(f), Woken(f),
         \A q \in Reactors : m_fds[q][f] \notin {NoEvent, {}} => q = r,
         \A q \in Reactors : m_pending_add_fds[q][f] = NoEvent,
         UNCHANGED <<epoll, m_coroutine, m_listen_events>>, ready[f] \subseteq ready'[f],
         cpc'[m_coroutine[f]] = "back", cur'[r] = m_coroutine[f], m_reactor'[f] = r, r # NULL,
         ~Queued(f)', QueuedOnce(f)',
         \A q \in Reactors : ~InBatch(f, q)' /\ first_coroutine'[q] # m_coroutine[f]
  PROVE  Descriptor(f)'
<1>1. m_fds' = m_fds /\ m_pending_add_fds' = m_pending_add_fds BY DEF epoll
<1>2. Epolls(f)' BY <1>1 DEF Epolls, NoEvent
<1>3. Wakeups(f)' BY DEF Wakeups
<1>4. Threads(f)' BY DEF Threads, Woken
<1> QED BY <1>2, <1>3, <1>4 DEF Descriptor

\* Timer events and those they are for, where a step leaves them alone.
LEMMA TimersStay ==
  ASSUME Timers, UNCHANGED <<prog, cpc, next, event, timers, timed>>
  PROVE  Timers'
BY DEF Timers, timers, Alarm, Outstanding, Asleep, Connecting, Begun, Sleeping, Call

\* ... and where it is a step of coroutine c.
LEMMA TimersNext ==
  ASSUME TypeOK, Timers, NEW c \in Cors, prog' = prog,
         \A d \in Cors : d # c => /\ cpc'[d] = cpc[d] /\ next'[d] = next[d] /\ event'[d] = event[d]
                                  /\ d \in m_pending_events' => d \in m_pending_events
                                  /\ \A r \in Reactors : d \in due'[r] => d \in due[r],
         timed \subseteq timed', \A d \in timed' : d \in timed \/ d = c,
         \A r \in Reactors : \A d \in late'[r] : d \in late[r] \/ d = c,
         c \in timed' \/ (\E r \in Reactors : c \in late'[r]) => Begun(c)',
         c \notin timed' => Alarm(c)'
  PROVE  Timers'
<1>1. ASSUME NEW d \in Cors, d # c, d \notin timed' PROVE Alarm(d)'
  <2>1. Alarm(d) BY <1>1 DEF Timers
  <2>2. Call(d)' = Call(d) BY <1>1 DEF Call
  <2>3. (Asleep(d)' <=> Asleep(d)) /\ (Connecting(d)' <=> Connecting(d))
    BY <1>1, <2>2 DEF Asleep, Connecting, Sleeping, InHook
  <2>4. Outstanding(d)' => Outstanding(d) BY <1>1 DEF Outstanding
  <2> QED BY <1>1, <2>1, <2>3, <2>4 DEF Alarm
<1>2. ASSUME NEW d \in timed' PROVE Begun(d)'
  <2>1. CASE d # c
    <3>1. d \in timed /\ d \in Cors BY <2>1 DEF TypeOK
    <3> QED BY <2>1, <3>1 DEF Timers, Begun
  <2> QED BY <2>1
<1>3. ASSUME NEW r \in Reactors, NEW d \in late'[r] PROVE Begun(d)'
  <2>1. CASE d # c
    <3>1. d \in late[r] /\ d \in Cors BY <2>1 DEF TypeOK
    <3> QED BY <2>1, <3>1 DEF Timers, Begun
  <2> QED BY <2>1
<1> QED BY <1>1, <1>2, <1>3 DEF Timers

\* A coroutine without a timer event.
LEMMA NoAlarm ==
  ASSUME NEW c, ~Outstanding(c)'
  PROVE  Alarm(c)'
BY DEF Alarm, Outstanding

LEMMA NotOutstanding ==
  ASSUME Timers, NEW c \in Cors, c \notin timed, ~Asleep(c), ~Connecting(c)
  PROVE  ~Outstanding(c)
BY DEF Timers, Alarm

\* Outside the hooks, in a read or a write, or back from a sleep there is none.
LEMMA Unalarmed ==
  ASSUME Timers, NEW c \in Cors, c \notin timed,
         cpc[c] \notin InHook \/ (cpc[c] # "wait" /\ Sleeping(c))
  PROVE  ~Outstanding(c)
<1>1. ~Asleep(c) /\ ~Connecting(c) BY DEF Asleep, Connecting, Sleeping, InHook
<1> QED BY <1>1, NotOutstanding

LEMMA InnerQuiet ==
  ASSUME TypeOK, Inner,
         UNCHANGED <<prog, first_coroutine, epoll, m_pending_tasks, m_task, fdevent, cur, cpc, next,
                     timed, history>>,
         \A r \in Reactors : /\ re_events'[r] \subseteq re_events[r]
                             /\ \/ lpc'[r] = lpc[r] \/ lpc[r] \notin {"events", "timer", "top"}
                                \/ lpc[r] = "events" /\ lpc'[r] = "timer",
         Timers',
         \A f \in Fds : ready[f] \subseteq ready'[f]
  PROVE  Inner'
<1> USE DEF epoll, fdevent, history
<1>1. Running' /\ TasksNew' BY DEF Inner, Running, TasksNew
<1>2. Iterations' BY DEF Inner, Iterations
<1>4. FdEvents' BY FdEventsStay DEF Inner, TypeOK
<1>5. Firsts' BY FirstsStay DEF Inner
<1>6. ASSUME NEW f \in Fds PROVE Descriptor(f)'
  <2>1. Kept(f) BY SameQueue DEF Kept, InBatch
  <2> QED BY <2>1, KeptDescriptor DEF Inner
<1> QED BY <1>1, <1>2, <1>4, <1>5, <1>6 DEF Inner, Descriptors

-----------------------------------------------------------------------------
(* Steps without an effect on descriptors.                                 *)

QuietLoop(r) ==
  \/ InitThread(r) \/ EnterLoop(r) \/ PopDone(r) \/ TasksDone(r) \/ HandleTimer(r)
  \/ \E f \in Fds : HandleNoCoroutine(r, f)

\* onTimer() picks: what was pending in its timer is now due there.
LEMMA PickTimers ==
  ASSUME TypeOK, Timers, NEW r \in Reactors, HandleTimer(r)
  PROVE  Timers'
<1>1. PICK S \in SUBSET Pending(r) :
        due' = [due EXCEPT ![r] = S] /\ m_pending_events' = m_pending_events \ due'[r]
  BY DEF HandleTimer
<1>2. UNCHANGED <<prog, cpc, next, event, timed, late>> BY DEF HandleTimer, pool, switch
<1>3. due'[r] = S /\ \A q \in Reactors : q # r => due'[q] = due[q] BY <1>1 DEF TypeOK
<1>4. ASSUME NEW c \in Cors \ timed PROVE Alarm(c)'
  <2>1. Alarm(c) BY DEF Timers
  <2>2. (Asleep(c)' <=> Asleep(c)) /\ (Connecting(c)' <=> Connecting(c))
    BY <1>2 DEF Asleep, Connecting, Sleeping, Call
  <2>3. CASE c \in S
    <3>1. c \in m_pending_events /\ event[c] = r BY <2>3 DEF Pending
    <3>2. \A q \in Reactors : c \notin due[q] BY <2>1, <3>1 DEF Alarm
    <3>3. Outstanding(c) BY <3>1 DEF Outstanding
    <3>4. c \notin m_pending_events' /\ \A q \in Reactors : c \in due'[q] => q = r
      BY <1>1, <1>3, <2>3, <3>2
    <3> QED BY <1>2, <2>1, <2>2, <3>1, <3>3, <3>4 DEF Alarm
  <2>4. CASE c \notin S
    <3>1. /\ c \in m_pending_events' <=> c \in m_pending_events
          /\ \A q \in Reactors : c \in due'[q] => c \in due[q]
      BY <1>1, <1>3, <2>4
    <3>2. Outstanding(c)' => Outstanding(c) BY <3>1 DEF Outstanding
    <3> QED BY <1>2, <2>1, <2>2, <3>1, <3>2 DEF Alarm
  <2> QED BY <2>3, <2>4
<1>5. (\A c \in timed' : Begun(c)') /\ \A q \in Reactors : \A c \in late'[q] : Begun(c)'
  BY <1>2 DEF Timers, Begun
<1> QED BY <1>2, <1>4, <1>5 DEF Timers

LEMMA QuietSteps ==
  ASSUME TypeOK, Inner,
         \/ CreateThread \/ WaitInit \/ PostStart
         \/ \E r \in Reactors : QuietLoop(r)
         \/ \E f \in Fds : PeerClose(f) \/ \E k \in {"READ", "WRITE"} : Arrive(f, k)
  PROVE  Inner'
<1> USE DEF pool, loopvars, fdevent, switch, timer, timers, kernel, history, TypeOK
<1>1. CASE CreateThread BY <1>1, TimersStay, InnerQuiet DEF CreateThread, Inner
<1>2. CASE WaitInit \/ PostStart BY <1>2, TimersStay, InnerQuiet DEF WaitInit, PostStart, Inner
<1>3. ASSUME NEW r \in Reactors, QuietLoop(r) PROVE Inner'
  <2>1. CASE InitThread(r) \/ EnterLoop(r)
    BY <2>1, TimersStay, InnerQuiet DEF InitThread, EnterLoop, Inner
  <2>2. CASE PopDone(r) \/ TasksDone(r)
    BY <2>2, TimersStay, InnerQuiet DEF PopDone, TasksDone, InLoop, GoTo, Inner
  <2>3. CASE HandleTimer(r) \/ \E f \in Fds : HandleNoCoroutine(r, f)
    <3>1. \A q \in Reactors : re_events'[q] \subseteq re_events[q]
      <4>1. PICK e : re_events' = [re_events EXCEPT ![r] = re_events[r] \ {e}]
        BY <2>3 DEF HandleNoCoroutine, HandleTimer, Handled
      <4> QED BY <4>1
    <3>2. CASE HandleTimer(r)
      <4>1. \A q \in Reactors : lpc'[q] = lpc[q] \/ (lpc[q] = "events" /\ lpc'[q] = "timer")
        BY <3>2 DEF HandleTimer, InLoop, GoTo
      <4>2. Timers' BY <3>2, PickTimers DEF Inner
      <4> QED BY <3>1, <3>2, <4>1, <4>2, InnerQuiet DEF HandleTimer
    <3>3. CASE \E f \in Fds : HandleNoCoroutine(r, f)
      BY <3>1, <3>3, TimersStay, InnerQuiet DEF HandleNoCoroutine, Inner
    <3> QED BY <2>3, <3>2, <3>3
  <2> QED BY <1>3, <2>1, <2>2, <2>3 DEF QuietLoop
<1>4. ASSUME NEW f \in Fds, PeerClose(f) \/ \E k \in {"READ", "WRITE"} : Arrive(f, k)
      PROVE  Inner'
  <2>1. \A g \in Fds : ready[g] \subseteq ready'[g]
    <3>1. CASE PeerClose(f) BY <3>1 DEF PeerClose, Masks
    <3>2. CASE \E k \in {"READ", "WRITE"} : Arrive(f, k) BY <3>2 DEF Arrive
    <3> QED BY <1>4, <3>1, <3>2
  <2> QED BY <1>4, <2>1, TimersStay, InnerQuiet DEF PeerClose, Arrive, Inner
<1> QED BY <1>1, <1>2, <1>3, <1>4

\* addCoroutine(): the coroutine has not been handed over before.
LEMMA GiveSteps ==
  ASSUME TypeOK, Hooks, Inner, NEW r \in Reactors, NEW c \in Cors, addCoroutine(r, c),
         UNCHANGED <<pool, loopvars, epoll, m_task, fdevent, cur, clash, next, timer, kernel, history>>
  PROVE  Inner'
<1> USE DEF pool, loopvars, epoll, fdevent, timer, timers, kernel, history
<1>1. /\ cpc[c] = "unborn" /\ cpc' = [cpc EXCEPT ![c] = "new"]
      /\ m_pending_tasks' = [m_pending_tasks EXCEPT ![r] = Append(m_pending_tasks[r], c)]
  BY DEF addCoroutine
<1>2. \A f \in Fds : ~On(c, f) /\ ~On(c, f)' BY <1>1 DEF On, InHook, TypeOK
<1>3. \A d \in Cors : d # c => cpc'[d] = cpc[d] /\ next'[d] = next[d] BY <1>1 DEF TypeOK
<1>4. /\ FdEvents'
      /\ \A f \in Fds : m_coroutine[f] # NULL =>
           /\ m_coroutine[f] # c /\ cpc'[m_coroutine[f]] = cpc[m_coroutine[f]]
           /\ \A q \in Reactors : cur[q] = m_coroutine[f] => cur'[q] = m_coroutine[f]
  BY <1>2, <1>3, NoDescriptor DEF Inner
<1>5. Running' BY <1>1, <1>3, RunningGoesOn DEF Inner
<1>6. Iterations' BY DEF Inner, Iterations
<1>7. TasksNew'
  <2>1. m_pending_tasks[r] \in Seq(Cors) BY DEF TypeOK
  <2>2. \A q \in Reactors : \A i \in 1..Len(m_pending_tasks[q]) : m_pending_tasks[q][i] # c
    BY <1>1 DEF Inner, TasksNew
  <2>3. /\ Len(m_pending_tasks'[r]) = Len(m_pending_tasks[r]) + 1 /\ Len(m_pending_tasks[r]) \in Nat
        /\ m_pending_tasks'[r][Len(m_pending_tasks[r]) + 1] = c
        /\ \A i \in 1..Len(m_pending_tasks[r]) : m_pending_tasks'[r][i] = m_pending_tasks[r][i]
    <3> DEFINE s == m_pending_tasks[r]
    <3>1. m_pending_tasks'[r] = Append(s, c) BY <1>1 DEF TypeOK
    <3>2. s \in Seq(Cors) BY <2>1
    <3> HIDE DEF s
    <3>3. /\ Len(Append(s, c)) = Len(s) + 1 /\ Len(s) \in Nat /\ Append(s, c)[Len(s) + 1] = c
          /\ \A i \in 1..Len(s) : Append(s, c)[i] = s[i]
      BY <3>2
    <3> QED BY <3>1, <3>3 DEF s
  <2>4. \A q \in Reactors : q # r => m_pending_tasks'[q] = m_pending_tasks[q] BY <1>1 DEF TypeOK
  <2> DEFINE Old(q, i) == i \in 1..Len(m_pending_tasks[q])
  <2>5. ASSUME NEW q \in Reactors, NEW i \in 1..Len(m_pending_tasks'[q])
        PROVE  \/ Old(q, i) /\ m_pending_tasks'[q][i] = m_pending_tasks[q][i]
               \/ ~Old(q, i) /\ q = r /\ i = Len(m_pending_tasks[r]) + 1 /\ m_pending_tasks'[q][i] = c
    <3>1. CASE q = r BY <2>3, <3>1
    <3>2. CASE q # r BY <2>4, <3>2
    <3> QED BY <3>1, <3>2
  <2>6. \A q \in Reactors : \A i \in 1..Len(m_pending_tasks'[q]) : cpc'[m_pending_tasks'[q][i]] = "new"
    <3> SUFFICES ASSUME NEW q \in Reactors, NEW i \in 1..Len(m_pending_tasks'[q])
                 PROVE  cpc'[m_pending_tasks'[q][i]] = "new"
      OBVIOUS
    <3>1. CASE Old(q, i) /\ m_pending_tasks'[q][i] = m_pending_tasks[q][i]
      <4>1. m_pending_tasks[q] \in Seq(Cors) BY DEF TypeOK
      <4>2. m_pending_tasks[q][i] \in Cors BY <3>1, <4>1
      <4>3. cpc[m_pending_tasks[q][i]] = "new" BY <3>1 DEF Inner, TasksNew
      <4> QED BY <1>1, <1>3, <3>1, <4>2, <4>3
    <3>2. CASE m_pending_tasks'[q][i] = c BY <1>1, <3>2 DEF TypeOK
    <3> QED BY <2>5, <3>1, <3>2
  <2>7. ASSUME NEW p \in Reactors, NEW q \in Reactors, NEW i \in 1..Len(m_pending_tasks'[p]),
               NEW j \in 1..Len(m_pending_tasks'[q]), m_pending_tasks'[p][i] = m_pending_tasks'[q][j]
        PROVE  p = q /\ i = j
    <3>1. CASE Old(p, i) /\ Old(q, j) BY <2>5, <2>7, <3>1 DEF Inner, TasksNew
    <3>2. CASE Old(p, i) /\ ~Old(q, j) BY <2>2, <2>5, <2>7, <3>2
    <3>3. CASE ~Old(p, i) /\ Old(q, j) BY <2>2, <2>5, <2>7, <3>3
    <3>4. CASE ~Old(p, i) /\ ~Old(q, j) BY <2>5, <3>4
    <3> QED BY <3>1, <3>2, <3>3, <3>4
  <2> QED BY <2>6, <2>7 DEF TasksNew
<1>8. Timers'
  <2>1. c \notin timed /\ \A q \in Reactors : c \notin late[q] BY <1>1 DEF Inner, Timers, Begun
  <2>2. ~Outstanding(c)' BY <1>1, <2>1, Unalarmed DEF Inner, InHook, Outstanding
  <2> QED BY <1>3, <2>1, <2>2, NoAlarm, TimersNext DEF Inner
<1>9. Firsts' BY FirstsStay DEF Inner
<1>10. ASSUME NEW f \in Fds PROVE Descriptor(f)'
  <2>1. Kept(f) BY <1>4, SameQueue DEF Kept, InBatch
  <2> QED BY <2>1, KeptDescriptor DEF Inner
<1> QED BY <1>4, <1>5, <1>6, <1>7, <1>8, <1>9, <1>10 DEF Inner, Descriptors

\* The tasks that wait keep waiting.
LEMMA TasksStay ==
  ASSUME TypeOK, TasksNew, UNCHANGED m_pending_tasks,
         \A c \in Cors : cpc[c] = "new" => cpc'[c] = "new"
  PROVE  TasksNew'
<1>1. ASSUME NEW r \in Reactors, NEW i \in 1..Len(m_pending_tasks[r])
      PROVE  m_pending_tasks[r][i] \in Cors
  <2>1. m_pending_tasks[r] \in Seq(Cors) BY DEF TypeOK
  <2> QED BY <2>1
<1> QED BY <1>1 DEF TasksNew

\* The running coroutine sleeps, goes on after it, or ends.
LEMMA RunSteps ==
  ASSUME TypeOK, Hooks, Inner, NEW r \in Reactors, HookSleep(r) \/ HookSleepBack(r) \/ Finish(r)
  PROVE  Inner'
<1> USE DEF pool, loopvars, epoll, fdevent, timer, timers, kernel, history
<1>1. PICK c \in Cors : c = cur[r] /\ c # NULL /\ cpc[c] \in {"run", "back"}
  BY DEF HookSleep, HookSleepBack, Finish, TypeOK
<1>2. /\ UNCHANGED <<prog, loopvars, epoll, m_pending_tasks, m_task, fdevent, clash, timed, ready, history>>
      /\ cpc'[c] \in {"run", "wait", "done"} /\ \A d \in Cors : d # c => cpc'[d] = cpc[d]
      /\ cur' = cur \/ cur' = [cur EXCEPT ![r] = NULL]
      /\ cur' = cur => cpc'[c] = "run"
  BY <1>1 DEF HookSleep, HookSleepBack, Finish, Yield, TypeOK
<1>3. \A d \in Cors : d # c => next'[d] = next[d] /\ event'[d] = event[d]
  BY <1>1 DEF HookSleep, HookSleepBack, Finish, addTimerEvent, Called, TypeOK
<1>4. /\ cpc[c] = "back" => Sleeping(c)
      /\ cpc'[c] = "wait" => Sleeping(c)' /\ next'[c] <= Len(prog'.code[c])
  <2>1. CASE HookSleep(r)
    <3>1. cpc[c] = "run" /\ next[c] <= Len(prog.code[c]) /\ Call(c) = <<"sleep", NULL>> /\ next' = next
         /\ cpc'[c] = "wait"
      BY <1>1, <2>1 DEF HookSleep, Calling, Yield, TypeOK
    <3> QED BY <1>1, <1>2, <3>1 DEF Sleeping, Call
  <2>2. CASE HookSleepBack(r)
    <3>1. cpc[c] = "back" /\ Sleeping(c) BY <1>1, <2>2 DEF HookSleepBack
    <3>2. next[c] <= Len(prog.code[c]) BY <1>1, <3>1 DEF Hooks, InHook
    <3>3. cpc'[c] = "wait" => next' = next BY <1>1, <2>2 DEF HookSleepBack, TypeOK
    <3> QED BY <1>2, <3>1, <3>2, <3>3 DEF Sleeping, Call
  <2>3. CASE Finish(r)
    <3>1. cpc[c] = "run" /\ cpc'[c] = "done" BY <1>1, <2>3 DEF Finish, Yield, TypeOK
    <3> QED BY <3>1
  <2> QED BY <2>1, <2>2, <2>3
<1>5. ASSUME NEW f \in Fds PROVE ~On(c, f) /\ ~On(c, f)'
  <2>1. ~On(c, f)
    <3>1. CASE cpc[c] = "run" BY <3>1 DEF On, InHook
    <3>2. CASE cpc[c] = "back"
      <4>1. Sleeping(c) /\ next[c] <= Len(prog.code[c]) BY <1>1, <1>4, <3>2 DEF Hooks, InHook
      <4>2. Call(c)[2] = NULL BY <1>1, <4>1, CallTypes DEF Sleeping
      <4> QED BY <4>2, NullAssumption DEF On
    <3> QED BY <1>1, <3>1, <3>2
  <2>2. ~On(c, f)'
    <3>1. CASE cpc'[c] # "wait" BY <1>2, <3>1 DEF On, InHook
    <3>2. CASE cpc'[c] = "wait"
      <4>1. CASE HookSleep(r)
        <5>1. Call(c) = <<"sleep", NULL>> /\ next' = next BY <1>1, <4>1 DEF HookSleep, Calling
        <5> QED BY <1>2, <5>1, NullAssumption DEF On, Call
      <4>2. CASE HookSleepBack(r)
        <5>1. next' = next BY <1>1, <3>2, <4>2 DEF HookSleepBack, TypeOK
        <5>2. cpc[c] = "back" BY <1>1, <4>2 DEF HookSleepBack
        <5> QED BY <1>2, <2>1, <5>1, <5>2 DEF On, Call, InHook
      <4>3. CASE Finish(r) BY <1>1, <3>2, <4>3 DEF Finish, Yield, TypeOK
      <4> QED BY <4>1, <4>2, <4>3
    <3> QED BY <3>1, <3>2
  <2> QED BY <2>1, <2>2
<1>6. \A q \in Reactors : cur'[q] = cur[q] \/ cur[q] \in {NULL, c} BY <1>1, <1>2 DEF TypeOK
<1>7. /\ FdEvents'
      /\ \A f \in Fds : m_coroutine[f] # NULL =>
           /\ m_coroutine[f] # c /\ cpc'[m_coroutine[f]] = cpc[m_coroutine[f]]
           /\ \A q \in Reactors : cur[q] = m_coroutine[f] => cur'[q] = m_coroutine[f]
  BY <1>1, <1>2, <1>3, <1>5, <1>6, NoDescriptor DEF Inner
<1>8. Running'
  <2>1. CASE cur' = cur BY <1>1, <1>2, <2>1, RunningGoesOn DEF Inner
  <2>2. CASE cur' = [cur EXCEPT ![r] = NULL] BY <1>1, <1>2, <2>2, RunningYields DEF Inner
  <2> QED BY <1>2, <2>1, <2>2
<1>9. Iterations' BY <1>2 DEF Inner, Iterations
<1>10. TasksNew' BY <1>1, <1>2, TasksStay DEF Inner
<1>11. Timers'
  <2>1. c \notin timed => ~Outstanding(c) BY <1>1, <1>4, Unalarmed DEF Inner, InHook
  <2>2. /\ due' = due /\ late' = late
        /\ \A d \in Cors : d # c => (d \in m_pending_events' <=> d \in m_pending_events)
    BY <1>1 DEF HookSleep, HookSleepBack, Finish, addTimerEvent
  <2>3. Begun(c)' BY <1>2 DEF Begun
  <2>4. ASSUME c \notin timed PROVE Alarm(c)'
    <3>1. CASE HookSleep(r)
      <4>1. event'[c] = r /\ r # NULL
        BY <1>1, <3>1, NullAssumption DEF HookSleep, addTimerEvent, TypeOK, Reactors
      <4>2. cpc'[c] = "wait" BY <1>1, <3>1 DEF HookSleep, Yield, TypeOK
      <4>3. Asleep(c)' BY <1>4, <4>2 DEF Asleep
      <4> QED BY <2>1, <2>2, <2>4, <4>1, <4>3 DEF Alarm, Outstanding
    <3>2. CASE HookSleepBack(r) \/ Finish(r)
      <4>1. m_pending_events' = m_pending_events BY <3>2 DEF HookSleepBack, Finish
      <4>2. ~Outstanding(c)' BY <2>1, <2>2, <2>4, <4>1 DEF Outstanding
      <4> QED BY <4>2, NoAlarm
    <3> QED BY <3>1, <3>2
  <2> QED BY <1>2, <1>3, <2>2, <2>3, <2>4, TimersNext DEF Inner
<1>12. Firsts' BY <1>2, FirstsStay DEF Inner
<1>13. ASSUME NEW f \in Fds PROVE Descriptor(f)'
  <2>1. Kept(f) BY <1>2, <1>7, SameQueue DEF Kept, InBatch
  <2> QED BY <2>1, KeptDescriptor DEF Inner
<1> QED BY <1>7, <1>8, <1>9, <1>10, <1>11, <1>12, <1>13 DEF Inner, Descriptors

-----------------------------------------------------------------------------
(* The hooks.                                                              *)

\* A descriptor whose coroutine is in no hook for it: nothing watches it.
LEMMA Idle ==
  ASSUME TypeOK, Inner, NEW f \in Fds, ~Late(f), m_coroutine[f] = NULL
  PROVE  /\ m_listen_events[f] = {} /\ ~Queued(f)
         /\ \A q \in Reactors : /\ m_fds[q][f] \in {NoEvent, {}} /\ m_pending_add_fds[q][f] = NoEvent
                                /\ ~InBatch(f, q)
<1>1. m_listen_events[f] = {} BY DEF Inner, FdEvents
<1>2. Epolls(f) /\ Wakeups(f) BY DEF Inner, Descriptors, Descriptor
<1>3. \A q \in Reactors : m_fds[q][f] \in {NoEvent, {}} /\ m_pending_add_fds[q][f] = NoEvent
  BY <1>1, <1>2 DEF Epolls
<1>4. ~Queued(f) /\ \A q \in Reactors : ~InBatch(f, q) BY <1>2 DEF Wakeups, Woken
<1> QED BY <1>1, <1>3, <1>4

LEMMA BecomesIdle ==
  ASSUME NEW f \in Fds, m_coroutine'[f] = NULL, ~Queued(f)',
         \A q \in Reactors : /\ m_fds'[q][f] \in {NoEvent, {}} /\ m_pending_add_fds'[q][f] = NoEvent
                             /\ ~InBatch(f, q)'
  PROVE  Descriptor(f)'
<1>1. Epolls(f)' BY DEF Epolls, NoEvent
<1>2. Wakeups(f)' BY DEF Wakeups, QueuedOnce, Queued
<1>3. Threads(f)' BY DEF Threads
<1> QED BY <1>1, <1>2, <1>3 DEF Descriptor

\* A coroutine that runs between hooks holds none of its descriptors.
LEMMA Unheld ==
  ASSUME TypeOK, Hooks, Inner, NEW c \in Cors, NEW f \in Fds, Owns(c, f), cpc[c] \notin InHook
  PROVE  m_coroutine[f] = NULL
<1> SUFFICES ASSUME m_coroutine[f] # NULL PROVE FALSE
  OBVIOUS
<1>1. m_coroutine[f] \in Cors /\ On(m_coroutine[f], f) /\ Owns(m_coroutine[f], f)
  BY Holder DEF Inner
<1>2. m_coroutine[f] = c BY <1>1, OneOwner
<1> QED BY <1>1, <1>2 DEF On

LEMMA DirectStep ==
  ASSUME TypeOK, Hooks, Inner, NEW r \in Reactors, NEW f \in Fds,
         NEW h \in {"read", "write", "connect"}, HookDirect(r, f, h)
  PROVE  Inner'
<1> USE DEF pool, loopvars, epoll, fdevent, switch, timer, timers, kernel, history
<1>1. PICK c \in Cors : /\ c = cur[r] /\ cpc[c] = "run" /\ Call(c) = <<h, f>>
                        /\ next[c] <= Len(prog.code[c]) /\ Called(c)
  BY DEF HookDirect, Calling, TypeOK
<1>2. /\ UNCHANGED <<pool, loopvars, epoll, m_pending_tasks, m_task, m_listen_events, m_coroutine,
                     cur, cpc, clash, event, timers, timed, history>>
      /\ \A g \in Fds : g # f => m_reactor'[g] = m_reactor[g] /\ ready'[g] = ready[g]
  BY DEF HookDirect, Used, TypeOK
<1>3. \A d \in Cors : d # c => next'[d] = next[d] BY <1>1, CalledTypes
<1>4. \A g \in Fds : ~On(c, g) /\ ~On(c, g)' BY <1>1, <1>2 DEF On, InHook
<1>5. /\ FdEvents'
      /\ \A g \in Fds : m_coroutine[g] # NULL =>
           /\ m_coroutine[g] # c /\ cpc'[m_coroutine[g]] = cpc[m_coroutine[g]]
           /\ \A q \in Reactors : cur[q] = m_coroutine[g] => cur'[q] = m_coroutine[g]
  BY <1>2, <1>3, <1>4, NoDescriptor DEF Inner
<1>6. Running' /\ Iterations' BY <1>2 DEF Inner, Running, Iterations
<1>7. TasksNew' BY <1>2, TasksStay DEF Inner
<1>8. Timers'
  <2>1. c \notin timed => ~Outstanding(c)' BY <1>1, <1>2, Unalarmed DEF Inner, InHook, Outstanding
  <2>2. Begun(c)' BY <1>1, <1>2 DEF Begun
  <2> QED BY <1>2, <1>3, <2>1, <2>2, NoAlarm, TimersNext DEF Inner
<1>9. Firsts' BY <1>2, FirstsStay DEF Inner
<1>10. ASSUME NEW g \in Fds, g # f PROVE Descriptor(g)'
  <2>1. Kept(g) BY <1>2, <1>5, <1>10, SameQueue DEF Kept, InBatch
  <2> QED BY <2>1, KeptDescriptor DEF Inner
<1>11. Descriptor(f)'
  <2>1. Owns(c, f) BY <1>1, CallTypes
  <2>2. m_coroutine[f] = NULL BY <1>1, <2>1, Unheld DEF InHook
  <2> SUFFICES ASSUME ~Late(f)' PROVE Descriptor(f)'
    BY DEF Descriptor
  <2>3. ~Late(f) BY <1>2, LateStays
  <2>4. /\ ~Queued(f)
        /\ \A q \in Reactors : /\ m_fds[q][f] \in {NoEvent, {}} /\ m_pending_add_fds[q][f] = NoEvent
                               /\ ~InBatch(f, q)
    BY <2>2, <2>3, Idle
  <2> QED BY <1>2, <2>2, <2>4, BecomesIdle, SameQueue DEF InBatch
<1> QED BY <1>5, <1>6, <1>7, <1>8, <1>9, <1>10, <1>11 DEF Inner, Descriptors

LEMMA RegisterStep ==
  ASSUME TypeOK, Hooks, Inner, NEW r \in Reactors, NEW f \in Fds,
         NEW h \in {"read", "write", "connect"}, HookRegister(r, f, h)
  PROVE  Inner'
<1> USE DEF pool, loopvars, fdevent, switch, timer, timers, kernel
<1> DEFINE k == Kind(h)
<1>1. PICK c \in Cors : /\ c = cur[r] /\ cpc[c] = "run" /\ Call(c) = <<h, f>>
                        /\ next[c] <= Len(prog.code[c])
                        /\ addListenEvents(r, c, f, k)
                        /\ cpc' = [cpc EXCEPT ![c] = "registered"]
                        /\ IF h = "connect" THEN addTimerEvent(r, c)
                                           ELSE UNCHANGED <<event, m_pending_events>>
                        /\ m_coroutine' = [m_coroutine EXCEPT ![f] = c]
  BY DEF HookRegister, Calling, TypeOK
<1>2. UNCHANGED <<prog, lpc, first_coroutine, re_events, m_pending_tasks, m_task, cur, clash, next,
                  timed, due, late, ready>>
  BY DEF HookRegister
<1>3. Owns(c, f) BY <1>1, CallTypes
<1>4. m_coroutine[f] = NULL /\ m_listen_events[f] = {}
  <2>1. m_coroutine[f] = NULL BY <1>1, <1>3, Unheld DEF InHook
  <2> QED BY <2>1 DEF Inner, FdEvents
<1> DEFINE q0 == IF m_reactor[f] = NULL THEN r ELSE m_reactor[f]
<1>5. /\ q0 \in Reactors /\ m_listen_events' = [m_listen_events EXCEPT ![f] = {k}]
      /\ m_reactor' = [m_reactor EXCEPT ![f] = q0] /\ addEvent(r, q0, f, {k})
      /\ foreign' = (IF q0 = r THEN foreign ELSE foreign \cup {c}) /\ dropped' = dropped
  <2>1. updateToReactor(r, c, f, m_listen_events[f] \cup {k}) BY <1>1, <1>4 DEF addListenEvents
  <2>2. m_listen_events[f] \cup {k} = {k} BY <1>4
  <2>3. updateToReactor(r, c, f, {k}) BY <2>1, <2>2
  <2> QED BY <2>3 DEF updateToReactor, TypeOK
<1>6. k \in {"READ", "WRITE"} /\ k = Kind(Call(c)[1]) BY <1>1 DEF Kind
<1> HIDE DEF q0, k
<1>7. \A g \in Fds, q \in Reactors : g # f =>
        /\ m_fds'[q][g] = m_fds[q][g] /\ m_pending_add_fds'[q][g] = m_pending_add_fds[q][g]
  <2>1. CASE q0 = r
    <3>1. m_fds' = [m_fds EXCEPT ![r] = [m_fds[r] EXCEPT ![f] = {k}]] /\ UNCHANGED m_pending_add_fds
      BY <1>5, <2>1 DEF addEvent
    <3> QED BY <3>1 DEF TypeOK
  <2>2. CASE q0 # r
    <3>1. PICK m : /\ m_pending_add_fds' = [m_pending_add_fds EXCEPT ![q0] =
                                              [m_pending_add_fds[q0] EXCEPT ![f] = m]]
                   /\ UNCHANGED m_fds
      BY <1>5, <2>2 DEF addEvent
    <3> QED BY <1>5, <3>1 DEF TypeOK
  <2> QED BY <2>1, <2>2
<1>8. \A d \in Cors : d # c => cpc'[d] = cpc[d] BY <1>1
<1>9. FdEvents'
  <2>1. \A d \in Cors, g \in Fds : d # c => (On(d, g)' <=> On(d, g)) /\ Call(d)' = Call(d)
    BY <1>2, <1>8 DEF On, Call, InHook
  <2>2. /\ On(c, f)' /\ Kind(Call(c)[1])' = k
        /\ \A g \in Fds : ~On(c, g) /\ (On(c, g)' => g = f)
    BY <1>1, <1>2, <1>6 DEF On, InHook, Call, TypeOK, Kind
  <2>3. ASSUME NEW g \in Fds, g # f
        PROVE  /\ m_coroutine'[g] \in Cors \cup {NULL}
               /\ m_coroutine'[g] = NULL => m_listen_events'[g] = {}
               /\ \A d \in Cors :
                    /\ m_coroutine'[g] = d => On(d, g)' /\ m_listen_events'[g] = {Kind(Call(d)[1])'}
                    /\ On(d, g)' => m_coroutine'[g] = d
    <3>1. m_coroutine'[g] = m_coroutine[g] /\ m_listen_events'[g] = m_listen_events[g]
      BY <1>1, <1>5, <2>3 DEF TypeOK
    <3>2. m_coroutine[g] \in Cors \cup {NULL} /\ (m_coroutine[g] = NULL => m_listen_events[g] = {})
      BY DEF Inner, FdEvents, TypeOK
    <3>3. ASSUME NEW d \in Cors, m_coroutine[g] = d
          PROVE  d # c /\ On(d, g) /\ m_listen_events[g] = {Kind(Call(d)[1])}
      BY <2>2, <3>3, NullAssumption, Holder DEF Inner
    <3>4. \A d \in Cors : On(d, g)' => m_coroutine'[g] = d
      BY <2>1, <2>2, <2>3, <3>1 DEF Inner, FdEvents
    <3> QED BY <2>1, <3>1, <3>2, <3>3, <3>4 DEF Kind
  <2>4. /\ m_coroutine'[f] = c /\ m_listen_events'[f] = {k}
        /\ \A d \in Cors : On(d, f)' => d = c
    <3>1. \A d \in Cors : d # c => ~On(d, f) BY <1>4, NullAssumption DEF Inner, FdEvents
    <3> QED BY <1>1, <1>5, <2>1, <3>1 DEF TypeOK
  <2>5. c # NULL BY NullAssumption
  <2>6. ASSUME NEW g \in Fds
        PROVE  /\ m_coroutine'[g] \in Cors \cup {NULL}
               /\ m_coroutine'[g] = NULL => m_listen_events'[g] = {}
               /\ \A d \in Cors :
                    /\ m_coroutine'[g] = d => On(d, g)' /\ m_listen_events'[g] = {Kind(Call(d)[1])'}
                    /\ On(d, g)' => m_coroutine'[g] = d
    <3>1. CASE g = f BY <2>2, <2>4, <2>5, <3>1
    <3>2. CASE g # f BY <2>3, <3>2
    <3> QED BY <3>1, <3>2
  <2> QED BY <2>6, FdEventsNext
<1>10. Running' BY <1>1, <1>2, <1>8, RunningGoesOn DEF Inner, TypeOK
<1>11. Iterations' BY <1>2 DEF Inner, Iterations
<1>12. TasksNew' BY <1>1, <1>2, <1>8, TasksStay DEF Inner
<1>13. Timers'
  <2>1. c \notin timed => ~Outstanding(c) BY <1>1, Unalarmed DEF Inner, InHook
  <2>2. cpc'[c] = "registered" BY <1>1 DEF TypeOK
  <2>3. \A d \in Cors : d # c => /\ event'[d] = event[d]
                                 /\ d \in m_pending_events' <=> d \in m_pending_events
    BY <1>1 DEF addTimerEvent, TypeOK
  <2>4. ASSUME c \notin timed PROVE Alarm(c)'
    <3>1. CASE h = "connect"
      <4>1. event'[c] = r /\ r # NULL
        BY <1>1, <3>1, NullAssumption DEF addTimerEvent, TypeOK, Reactors
      <4>2. Connecting(c)' BY <1>1, <1>2, <2>2, <3>1 DEF Connecting, InHook, Call
      <4> QED BY <1>2, <2>1, <2>4, <4>1, <4>2 DEF Alarm, Outstanding
    <3>2. CASE h # "connect"
      <4>1. ~Outstanding(c)' BY <1>1, <1>2, <2>1, <2>4, <3>2 DEF Outstanding
      <4> QED BY <4>1, NoAlarm
    <3> QED BY <3>1, <3>2
  <2>5. Begun(c)' BY <2>2 DEF Begun
  <2>6. UNCHANGED <<prog, next, timed, due, late>> BY <1>2
  <2>7. c \notin timed' => Alarm(c)' BY <2>4, <2>6
  <2>8. \A d \in Cors : d # c => /\ cpc'[d] = cpc[d] /\ next'[d] = next[d] /\ event'[d] = event[d]
                                 /\ d \in m_pending_events' => d \in m_pending_events
                                 /\ \A q \in Reactors : d \in due'[q] => d \in due[q]
    BY <1>8, <2>3, <2>6
  <2>9. timed \subseteq timed' /\ \A d \in timed' : d \in timed \/ d = c BY <2>6
  <2>10. \A q \in Reactors : \A d \in late'[q] : d \in late[q] \/ d = c BY <2>6
  <2>11. Timers /\ prog' = prog BY <2>6 DEF Inner
  <2> QED BY <2>5, <2>7, <2>8, <2>9, <2>10, <2>11, TimersNext
<1>14. Firsts'
  <2> SUFFICES ASSUME NEW q \in Reactors, first_coroutine'[q] # NULL, first_coroutine'[q] \notin timed'
               PROVE  \E g \in Fds : m_coroutine'[g] = first_coroutine'[q]
    BY DEF Firsts
  <2>1. PICK g \in Fds : m_coroutine[g] = first_coroutine[q] BY <1>2 DEF Inner, Firsts
  <2>2. g # f BY <1>2, <1>4, <2>1
  <2> QED BY <1>1, <1>2, <2>1, <2>2 DEF TypeOK
<1>15. ASSUME NEW g \in Fds, g # f PROVE Descriptor(g)'
  <2>1. m_coroutine[g] # NULL => m_coroutine[g] \in Cors /\ m_coroutine[g] # c
    <3> SUFFICES ASSUME m_coroutine[g] # NULL PROVE m_coroutine[g] \in Cors /\ m_coroutine[g] # c
      OBVIOUS
    <3>1. m_coroutine[g] \in Cors /\ On(m_coroutine[g], g) BY Holder DEF Inner
    <3> QED BY <1>1, <3>1 DEF On, InHook
  <2>2. /\ m_reactor'[g] = m_reactor[g] /\ m_coroutine'[g] = m_coroutine[g]
        /\ m_listen_events'[g] = m_listen_events[g]
    BY <1>1, <1>5, <1>15 DEF TypeOK
  <2>3. Kept(g) BY <1>2, <1>5, <1>7, <1>8, <1>15, <2>1, <2>2, SameQueue DEF Kept, InBatch
  <2> QED BY <2>3, KeptDescriptor DEF Inner
<1>16. Descriptor(f)'
  <2> SUFFICES ASSUME ~Late(f)' PROVE (Epolls(f) /\ Wakeups(f) /\ Threads(f))'
    BY DEF Descriptor
  <2>1. ~Late(f) BY <1>2, LateStays
  <2>2. /\ ~Queued(f)
        /\ \A q \in Reactors : /\ m_fds[q][f] \in {NoEvent, {}} /\ m_pending_add_fds[q][f] = NoEvent
                               /\ ~InBatch(f, q)
    BY <1>4, <2>1, Idle
  <2>3. \A q \in Reactors : first_coroutine[q] # c
    <3> SUFFICES ASSUME NEW q \in Reactors, first_coroutine[q] = c PROVE FALSE
      OBVIOUS
    <3>1. c \notin timed BY <1>3, <2>1 DEF Late
    <3>2. PICK g \in Fds : m_coroutine[g] = c BY <3>1, NullAssumption DEF Inner, Firsts
    <3>3. On(c, g) BY <3>2, Holder, NullAssumption DEF Inner
    <3> QED BY <1>1, <3>3 DEF On, InHook
  <2>4. /\ m_coroutine'[f] = c /\ c # NULL /\ m_listen_events'[f] = {k} /\ m_reactor'[f] = q0
        /\ q0 # NULL /\ cpc'[c] = "registered"
    BY <1>1, <1>5, NullAssumption DEF TypeOK, Reactors
  <2>5. ~Queued(f)' /\ \A q \in Reactors : ~InBatch(f, q)' /\ first_coroutine'[q] # c
    BY <1>2, <2>2, <2>3, SameQueue DEF InBatch
  <2>6. Wakeups(f)' BY <2>4, <2>5 DEF Wakeups, QueuedOnce, Queued
  <2>7. CASE q0 = r
    <3>1. /\ m_fds' = [m_fds EXCEPT ![r] = [m_fds[r] EXCEPT ![f] = {k}]]
          /\ UNCHANGED m_pending_add_fds
      BY <1>5, <2>7 DEF addEvent
    <3>2. /\ m_fds'[r][f] = {k} /\ \A q \in Reactors : q # r => m_fds'[q][f] = m_fds[q][f]
      BY <3>1 DEF TypeOK
    <3>3. Epolls(f)' BY <2>2, <2>4, <2>7, <3>1, <3>2 DEF Epolls, NoEvent
    <3>4. Threads(f)' BY <1>1, <1>2, <2>4, <2>7, <3>2 DEF Threads
    <3> QED BY <2>6, <3>3, <3>4
  <2>8. CASE q0 # r
    <3>1. /\ m_pending_add_fds' = [m_pending_add_fds EXCEPT ![q0] =
               [m_pending_add_fds[q0] EXCEPT ![f] = {k}]]
          /\ UNCHANGED m_fds
      BY <1>5, <2>2, <2>8 DEF addEvent
    <3>2. /\ m_pending_add_fds'[q0][f] = {k}
          /\ \A q \in Reactors : q # q0 => m_pending_add_fds'[q][f] = m_pending_add_fds[q][f]
      BY <1>5, <3>1 DEF TypeOK
    <3>3. c \in foreign' BY <1>5, <2>8
    <3>4. Epolls(f)' BY <2>2, <2>4, <2>5, <3>1, <3>2, <3>3 DEF Epolls, NoEvent
    <3>5. Threads(f)' BY <2>4, <3>2, <3>3 DEF Threads
    <3> QED BY <2>6, <3>4, <3>5
  <2> QED BY <2>7, <2>8
<1> QED BY <1>9, <1>10, <1>11, <1>12, <1>13, <1>14, <1>15, <1>16 DEF Inner, Descriptors

LEMMA YieldStep ==
  ASSUME TypeOK, Hooks, Inner, NEW r \in Reactors, HookYield(r)
  PROVE  Inner'
<1> USE DEF pool, loopvars, epoll, fdevent, timer, timers, kernel, history
<1>1. PICK c \in Cors : /\ c = cur[r] /\ cpc[c] = "registered"
                        /\ cur' = [cur EXCEPT ![r] = NULL] /\ cpc' = [cpc EXCEPT ![c] = "wait"]
  BY DEF HookYield, Yield, TypeOK
<1>2. UNCHANGED <<prog, loopvars, epoll, m_pending_tasks, m_task, fdevent, next, event, timers, timed, ready, history>>
  BY DEF HookYield
<1>3. \A d \in Cors : d # c => cpc'[d] = cpc[d] BY <1>1
<1>4. cpc'[c] = "wait" BY <1>1 DEF TypeOK
<1>5. FdEvents'
  <2>1. \A d \in Cors : cpc'[d] \in InHook <=> cpc[d] \in InHook BY <1>1, <1>3, <1>4 DEF InHook
  <2> QED BY <1>2, <2>1, FdEventsStay DEF Inner, TypeOK
<1>6. Running' BY <1>1, <1>3, RunningYields DEF Inner
<1>7. Iterations' BY <1>2 DEF Inner, Iterations
<1>8. TasksNew' BY <1>1, <1>2, <1>3, TasksStay DEF Inner
<1>9. Timers'
  <2>1. ASSUME c \notin timed PROVE Alarm(c)'
    <3>1. Alarm(c) BY <2>1 DEF Inner, Timers
    <3>2. Asleep(c) \/ Connecting(c) => Connecting(c)'
      BY <1>1, <1>2, <1>4 DEF Asleep, Connecting, Call, InHook
    <3> QED BY <1>2, <3>1, <3>2 DEF Alarm, Outstanding
  <2>2. Begun(c)' BY <1>4 DEF Begun
  <2> QED BY <1>2, <1>3, <2>1, <2>2, TimersNext DEF Inner
<1>10. Firsts' BY <1>2, FirstsStay DEF Inner
<1>11. ASSUME NEW f \in Fds, m_coroutine[f] # c PROVE Descriptor(f)'
  <2>1. m_coroutine[f] \in Cors \cup {NULL} BY DEF TypeOK
  <2>2. \A q \in Reactors : cur[q] = m_coroutine[f] => cur'[q] = cur[q] BY <1>1, <1>11 DEF TypeOK
  <2>3. Kept(f) BY <1>2, <1>3, <1>11, <2>1, <2>2, SameQueue DEF Kept, InBatch
  <2> QED BY <2>3, KeptDescriptor DEF Inner
<1>12. ASSUME NEW f \in Fds, m_coroutine[f] = c PROVE Descriptor(f)'
  <2> SUFFICES ASSUME ~Late(f)' PROVE (Epolls(f) /\ Wakeups(f) /\ Threads(f))'
    BY DEF Descriptor
  <2>1. ~Late(f) BY <1>2, LateStays
  <2>2. Epolls(f) /\ Wakeups(f) /\ Threads(f) BY <2>1 DEF Inner, Descriptors, Descriptor
  <2>3. Woken(f) => Woken(f)' BY <1>2, <1>4, <1>12 DEF Woken
  <2>4. Epolls(f)' BY <1>2, <1>4, <1>12, <2>2 DEF Epolls, InBatch, NoEvent
  <2>5. Wakeups(f)' BY <1>2, <2>2, <2>3, SameQueue DEF Wakeups, InBatch
  <2>6. Threads(f)' BY <1>1, <1>2, <1>4, <1>12, <2>2, SameQueue DEF Threads
  <2> QED BY <2>4, <2>5, <2>6
<1> QED BY <1>5, <1>6, <1>7, <1>8, <1>9, <1>10, <1>11, <1>12 DEF Inner, Descriptors

LEMMA ReturnStep ==
  ASSUME TypeOK, Hooks, Inner, NEW r \in Reactors, HookReturn(r)
  PROVE  Inner'
<1> USE DEF pool, loopvars, fdevent, switch, timer, timers, kernel
<1>1. PICK c \in Cors : /\ c = cur[r] /\ cpc[c] = "back" /\ ~Sleeping(c)
                        /\ delListenEvents(r, c, Fd(c), Kind(Call(c)[1])) /\ Called(c)
                        /\ m_coroutine' = [m_coroutine EXCEPT ![Fd(c)] = NULL]
                        /\ IF event[c] = NULL THEN UNCHANGED <<event, is_timeout, timers>>
                                              ELSE delTimerEvent(c)
                        /\ Used(Fd(c), Kind(Call(c)[1]))
                        /\ cpc' = [cpc EXCEPT ![c] = "run"]
  BY DEF HookReturn, TypeOK
<1>2. UNCHANGED <<prog, lpc, first_coroutine, re_events, m_pending_tasks, m_task, cur, timed>>
  BY DEF HookReturn
<1>3. next[c] <= Len(prog.code[c]) BY <1>1 DEF Hooks, InHook
<1>4. PICK f \in Fds : f = Fd(c) /\ On(c, f)
  BY <1>1, <1>3, CallTypes DEF Fd, Sleeping, On, InHook
<1>5. m_coroutine[f] = c /\ c # NULL BY <1>4, NullAssumption DEF Inner, FdEvents
<1> DEFINE k == Kind(Call(c)[1])
<1>6. m_listen_events[f] = {k} BY <1>5 DEF Inner, FdEvents
<1>7. \A d \in Cors : d # c => cpc'[d] = cpc[d] /\ next'[d] = next[d]
  BY <1>1, <1>3, CalledTypes DEF TypeOK
<1> DEFINE q0 == IF m_reactor[f] = NULL THEN r ELSE m_reactor[f]
<1>8. /\ q0 \in Reactors /\ m_listen_events' = [m_listen_events EXCEPT ![f] = {}]
      /\ m_reactor' = [m_reactor EXCEPT ![f] = q0] /\ addEvent(r, q0, f, {})
      /\ foreign' = (IF q0 = r THEN foreign ELSE foreign \cup {c}) /\ dropped' = dropped
  <2>1. updateToReactor(r, c, f, m_listen_events[f] \ {k}) BY <1>1, <1>4, <1>6 DEF delListenEvents
  <2>2. m_listen_events[f] \ {k} = {} BY <1>6
  <2>3. updateToReactor(r, c, f, {}) BY <2>1, <2>2
  <2> QED BY <2>3 DEF updateToReactor, TypeOK
<1>9. cpc'[c] = "run" BY <1>1 DEF TypeOK
<1>10. \A g \in Fds : g # f => ready'[g] = ready[g] BY <1>1, <1>4 DEF Used, TypeOK
<1> HIDE DEF q0, k
<1>11. \A g \in Fds, q \in Reactors : g # f =>
        /\ m_fds'[q][g] = m_fds[q][g] /\ m_pending_add_fds'[q][g] = m_pending_add_fds[q][g]
  <2>1. CASE q0 = r
    <3>1. m_fds' = [m_fds EXCEPT ![r] = [m_fds[r] EXCEPT ![f] = {}]] /\ UNCHANGED m_pending_add_fds
      BY <1>8, <2>1 DEF addEvent
    <3> QED BY <3>1 DEF TypeOK
  <2>2. CASE q0 # r
    <3>1. PICK m : /\ m_pending_add_fds' = [m_pending_add_fds EXCEPT ![q0] =
                                              [m_pending_add_fds[q0] EXCEPT ![f] = m]]
                   /\ UNCHANGED m_fds
      BY <1>8, <2>2 DEF addEvent
    <3> QED BY <1>8, <3>1 DEF TypeOK
  <2> QED BY <2>1, <2>2
<1>12. \A g \in Fds : m_coroutine[g] # NULL /\ g # f => m_coroutine[g] \in Cors /\ m_coroutine[g] # c
  BY <1>5, Holder DEF Inner
<1>13. \A g \in Fds : g # f => /\ m_coroutine'[g] = m_coroutine[g]
                               /\ m_listen_events'[g] = m_listen_events[g]
                               /\ m_reactor'[g] = m_reactor[g]
  BY <1>1, <1>4, <1>8 DEF TypeOK
<1>14. m_coroutine'[f] = NULL /\ m_listen_events'[f] = {} /\ m_reactor'[f] = q0
  BY <1>1, <1>4, <1>8 DEF TypeOK
<1>15. FdEvents'
  <2>1. \A d \in Cors, g \in Fds : d # c => (On(d, g)' <=> On(d, g)) /\ Call(d)' = Call(d)
    BY <1>2, <1>7 DEF On, Call, InHook
  <2>2. \A g \in Fds : ~On(c, g)' BY <1>9 DEF On, InHook
  <2>3. ASSUME NEW g \in Fds, g # f
        PROVE  /\ m_coroutine'[g] \in Cors \cup {NULL}
               /\ m_coroutine'[g] = NULL => m_listen_events'[g] = {}
               /\ \A d \in Cors :
                    /\ m_coroutine'[g] = d => On(d, g)' /\ m_listen_events'[g] = {Kind(Call(d)[1])'}
                    /\ On(d, g)' => m_coroutine'[g] = d
    <3>1. m_coroutine[g] \in Cors \cup {NULL} /\ (m_coroutine[g] = NULL => m_listen_events[g] = {})
      BY DEF Inner, FdEvents, TypeOK
    <3>2. ASSUME NEW d \in Cors, m_coroutine[g] = d
          PROVE  d # c /\ On(d, g) /\ m_listen_events[g] = {Kind(Call(d)[1])}
      BY <1>12, <2>3, <3>2, NullAssumption, Holder DEF Inner
    <3>3. \A d \in Cors : On(d, g)' => m_coroutine'[g] = d
      BY <1>13, <2>1, <2>2, <2>3 DEF Inner, FdEvents
    <3> QED BY <1>13, <2>1, <2>3, <3>1, <3>2, <3>3 DEF Kind
  <2>4. \A d \in Cors : ~On(d, f)'
    <3> SUFFICES ASSUME NEW d \in Cors, On(d, f)' PROVE FALSE
      OBVIOUS
    <3>1. d # c BY <2>2
    <3>2. On(d, f) BY <2>1, <3>1
    <3> QED BY <1>5, <3>1, <3>2 DEF Inner, FdEvents
  <2>5. ASSUME NEW g \in Fds
        PROVE  /\ m_coroutine'[g] \in Cors \cup {NULL}
               /\ m_coroutine'[g] = NULL => m_listen_events'[g] = {}
               /\ \A d \in Cors :
                    /\ m_coroutine'[g] = d => On(d, g)' /\ m_listen_events'[g] = {Kind(Call(d)[1])'}
                    /\ On(d, g)' => m_coroutine'[g] = d
    <3>1. CASE g = f BY <1>14, <2>4, <3>1, NullAssumption
    <3>2. CASE g # f BY <2>3, <3>2
    <3> QED BY <3>1, <3>2
  <2> QED BY <2>5, FdEventsNext
<1>16. Running' BY <1>1, <1>2, <1>7, <1>9, RunningGoesOn DEF Inner
<1>17. Iterations' BY <1>2 DEF Inner, Iterations
<1>18. TasksNew' BY <1>1, <1>2, <1>7, TasksStay DEF Inner
<1>19. Timers'
  <2>1. /\ \A d \in Cors : d # c => /\ event'[d] = event[d]
                                    /\ d \in m_pending_events' => d \in m_pending_events
                                    /\ \A q \in Reactors : d \in due'[q] => d \in due[q]
        /\ \A q \in Reactors : \A d \in late'[q] : d \in late[q] \/ d = c
    <3>1. CASE event[c] = NULL BY <1>1, <3>1
    <3>2. CASE event[c] # NULL
      <4>1. /\ event' = [event EXCEPT ![c] = NULL] /\ m_pending_events' \subseteq m_pending_events
            /\ due' = [due EXCEPT ![event[c]] = due[event[c]] \ {c}]
            /\ late' = [late EXCEPT ![event[c]] = late[event[c]] \cup (due[event[c]] \cap {c})]
        BY <1>1, <3>2 DEF delTimerEvent
      <4> QED BY <4>1 DEF TypeOK
    <3> QED BY <3>1, <3>2
  <2>2. ASSUME c \notin timed PROVE ~Outstanding(c)'
    <3>1. Alarm(c) BY <2>2 DEF Inner, Timers
    <3>2. CASE event[c] = NULL
      <4>1. \A q \in Reactors : q # NULL BY NullAssumption DEF Reactors
      <4> QED BY <1>1, <3>1, <3>2, <4>1 DEF Alarm, Outstanding
    <3>3. CASE event[c] # NULL
      <4>1. /\ c \notin m_pending_events' /\ event[c] \in Reactors
            /\ due' = [due EXCEPT ![event[c]] = due[event[c]] \ {c}]
        BY <1>1, <3>3 DEF delTimerEvent, TypeOK
      <4>2. \A q \in Reactors : c \notin due'[q] BY <3>1, <4>1 DEF Alarm, TypeOK
      <4> QED BY <4>1, <4>2 DEF Outstanding
    <3> QED BY <3>2, <3>3
  <2>3. Begun(c)' BY <1>9 DEF Begun
  <2> QED BY <1>2, <1>7, <2>1, <2>2, <2>3, NoAlarm, TimersNext DEF Inner
<1>20. ~Late(f) =>
         /\ m_reactor[f] = r
         /\ \A q \in Reactors : first_coroutine[q] # c /\ m_pending_add_fds[q][f] = NoEvent
                                /\ ~InBatch(f, q) /\ (q # r => m_fds[q][f] \in {NoEvent, {}})
         /\ ~Queued(f)
  <2> SUFFICES ASSUME ~Late(f)
               PROVE  /\ m_reactor[f] = r
                      /\ \A q \in Reactors :
                           /\ first_coroutine[q] # c /\ m_pending_add_fds[q][f] = NoEvent
                           /\ ~InBatch(f, q) /\ (q # r => m_fds[q][f] \in {NoEvent, {}})
                      /\ ~Queued(f)
    OBVIOUS
  <2>1. Epolls(f) /\ Wakeups(f) /\ Threads(f) BY DEF Inner, Descriptors, Descriptor
  <2>2. m_reactor[f] # NULL /\ cur[m_reactor[f]] = c BY <1>1, <1>5, <2>1 DEF Threads
  <2>3. m_reactor[f] = r BY <1>1, <1>5, <2>2 DEF Inner, Running, TypeOK
  <2>4. ~Woken(f) BY <1>1, <1>5 DEF Woken
  <2>5. \A q \in Reactors : first_coroutine[q] # c /\ ~InBatch(f, q) BY <1>5, <2>1, <2>4 DEF Wakeups
  <2>6. ~Queued(f) BY <2>1, <2>4 DEF Wakeups
  <2>7. \A q \in Reactors : m_pending_add_fds[q][f] = NoEvent BY <1>1, <1>5, <2>1 DEF Epolls
  <2>8. \A q \in Reactors : q # r => m_fds[q][f] \in {NoEvent, {}} BY <2>1, <2>3 DEF Epolls
  <2> QED BY <2>3, <2>5, <2>6, <2>7, <2>8
<1>21. Firsts'
  <2> SUFFICES ASSUME NEW q \in Reactors, first_coroutine'[q] # NULL, first_coroutine'[q] \notin timed'
               PROVE  \E g \in Fds : m_coroutine'[g] = first_coroutine'[q]
    BY DEF Firsts
  <2>1. PICK g \in Fds : m_coroutine[g] = first_coroutine[q] BY <1>2 DEF Inner, Firsts
  <2>2. g # f
    <3> SUFFICES ASSUME g = f PROVE FALSE
      OBVIOUS
    <3>1. c \notin timed /\ first_coroutine[q] = c BY <1>2, <1>5, <2>1
    <3>2. ~Late(f) BY <1>5, <3>1, Holder DEF Inner
    <3> QED BY <1>20, <3>1, <3>2
  <2> QED BY <1>2, <1>13, <2>1, <2>2
<1>22. ASSUME NEW g \in Fds, g # f PROVE Descriptor(g)'
  <2>1. Kept(g)
    BY <1>2, <1>7, <1>8, <1>10, <1>11, <1>12, <1>13, <1>22, SameQueue DEF Kept, InBatch
  <2> QED BY <2>1, KeptDescriptor DEF Inner
<1>23. Descriptor(f)'
  <2> SUFFICES ASSUME ~Late(f)' PROVE Descriptor(f)'
    BY DEF Descriptor
  <2>1. ~Late(f) BY <1>2, LateStays
  <2>2. q0 = r BY <1>20, <2>1, NullAssumption DEF q0, Reactors
  <2>3. m_fds' = [m_fds EXCEPT ![r] = [m_fds[r] EXCEPT ![f] = {}]] /\ UNCHANGED m_pending_add_fds
    BY <1>8, <2>2 DEF addEvent
  <2>4. \A q \in Reactors : /\ m_fds'[q][f] \in {NoEvent, {}} /\ m_pending_add_fds'[q][f] = NoEvent
                            /\ ~InBatch(f, q)'
    BY <1>2, <1>20, <2>1, <2>3 DEF TypeOK, InBatch
  <2>5. ~Queued(f)' BY <1>2, <1>20, <2>1, SameQueue
  <2> QED BY <1>14, <2>4, <2>5, BecomesIdle
<1> QED BY <1>15, <1>16, <1>17, <1>18, <1>19, <1>21, <1>22, <1>23 DEF Inner, Descriptors

-----------------------------------------------------------------------------
(* The loop: events, before anything is resumed.                           *)

\* What the wakeup of a descriptor in the batch of r being handled says.
LEMMA Batched ==
  ASSUME TypeOK, Inner, NEW r \in Reactors, NEW f \in Fds, InBatch(f, r), ~Late(f)
  PROVE  /\ Woken(f) /\ m_reactor[f] = r /\ m_coroutine[f] # NULL
         /\ Epolls(f) /\ Wakeups(f) /\ Threads(f) /\ ~Queued(f)
         /\ \A q \in Reactors : /\ first_coroutine[q] # m_coroutine[f]
                                /\ m_pending_add_fds[q][f] = NoEvent
                                /\ m_fds[q][f] \notin {NoEvent, {}} => q = r
                                /\ InBatch(f, q) => q = r
<1>1. Epolls(f) /\ Wakeups(f) /\ Threads(f) BY DEF Inner, Descriptors, Descriptor
<1>2. Woken(f) /\ m_reactor[f] = r /\ first_coroutine[r] # m_coroutine[f] BY <1>1 DEF Wakeups
<1>3. m_coroutine[f] # NULL BY <1>2 DEF Woken
<1>4. ~Queued(f) BY <1>1, <1>2, NullAssumption DEF Wakeups, Reactors
<1>5. \A q \in Reactors : InBatch(f, q) => q = r BY <1>1, <1>2 DEF Wakeups
<1>6. \A q \in Reactors : first_coroutine[q] # m_coroutine[f] BY <1>1, <1>2, <1>3 DEF Wakeups
<1>7. \A q \in Reactors : m_pending_add_fds[q][f] = NoEvent BY <1>1, <1>2 DEF Epolls
<1>8. \A q \in Reactors : m_fds[q][f] \notin {NoEvent, {}} => q = r BY <1>1, <1>2 DEF Epolls
<1> QED BY <1>1, <1>2, <1>3, <1>4, <1>5, <1>6, <1>7, <1>8

LEMMA EpollStep ==
  ASSUME TypeOK, Hooks, Inner, NEW r \in Reactors, NEW batch, EpollReturn(r, batch),
         batch \subseteq Reportable(r) \cup {<<m_timer_fd, "io">>}
  PROVE  Inner'
<1> USE DEF pool, epoll, fdevent, switch, timer, timers, kernel, history
<1>1. /\ lpc[r] = "wait" /\ cur[r] = NULL /\ lpc' = [lpc EXCEPT ![r] = "events"]
      /\ re_events' = [re_events EXCEPT ![r] = batch]
      /\ UNCHANGED <<prog, first_coroutine, epoll, m_pending_tasks, m_task, fdevent, cur, cpc, next,
                     event, timers, timed, ready, history>>
  BY DEF EpollReturn, InLoop, GoTo
<1>2. re_events[r] = {} /\ first_coroutine[r] = NULL BY <1>1 DEF Inner, Iterations
<1>3. Running' /\ TasksNew' BY <1>1 DEF Inner, Running, TasksNew
<1>4. Iterations' BY <1>1, <1>2 DEF Inner, Iterations, TypeOK
<1>5. Timers' BY <1>1, TimersStay DEF Inner
<1>6. FdEvents' BY <1>1, FdEventsStay DEF Inner, TypeOK
<1>7. Firsts' BY <1>1, FirstsStay DEF Inner
<1>8. ASSUME NEW f \in Fds, <<f, "io">> \notin batch PROVE Descriptor(f)'
  <2>1. \A q \in Reactors : InBatch(f, q)' => InBatch(f, q) BY <1>1, <1>8 DEF InBatch, TypeOK
  <2>2. Kept(f) BY <1>1, <2>1, SameQueue DEF Kept
  <2> QED BY <2>2, KeptDescriptor DEF Inner
<1>9. ASSUME NEW f \in Fds, <<f, "io">> \in batch PROVE Descriptor(f)'
  <2> SUFFICES ASSUME ~Late(f)' PROVE (Epolls(f) /\ Wakeups(f) /\ Threads(f))'
    BY DEF Descriptor
  <2>1. ~Late(f) BY <1>1, LateStays
  <2>2. Epolls(f) /\ Wakeups(f) /\ Threads(f) BY <2>1 DEF Inner, Descriptors, Descriptor
  <2>3. m_fds[r][f] \cap ready[f] # {} BY <1>9, NullAssumption DEF Reportable
  <2>4. m_fds[r][f] \notin {NoEvent, {}}
    <3>1. ready[f] \subseteq {"READ", "WRITE"} BY DEF TypeOK, Masks
    <3> QED BY <2>3, <3>1 DEF NoEvent
  <2>5. m_reactor[f] = r /\ m_listen_events[f] = m_fds[r][f] BY <2>2, <2>4 DEF Epolls
  <2>6. m_coroutine[f] # NULL BY <2>4, <2>5 DEF Inner, FdEvents
  <2>7. m_coroutine[f] \in Cors /\ cpc[m_coroutine[f]] \in InHook
        /\ \E k \in {"READ", "WRITE"} : m_listen_events[f] = {k}
    <3>1. m_coroutine[f] \in Cors /\ On(m_coroutine[f], f)
          /\ m_listen_events[f] = {Kind(Call(m_coroutine[f])[1])}
      BY <2>6, Holder DEF Inner
    <3> QED BY <3>1 DEF On, Kind
  <2>8. m_listen_events[f] \subseteq ready[f] BY <2>3, <2>5, <2>7
  <2>9. Woken(f) BY <1>1, <2>2, <2>5, <2>6, <2>7, <2>8 DEF Woken, Threads, InHook
  <2>10. Woken(f)' BY <1>1, <2>9 DEF Woken
  <2>11. \A q \in Reactors : InBatch(f, q)' => q = r
    BY <1>1, <2>2, <2>5 DEF Wakeups, InBatch, TypeOK
  <2>12. Epolls(f)'
    <3>1. \A q \in Reactors : m_pending_add_fds[q][f] = NoEvent BY <2>2, <2>4, <2>5 DEF Epolls
    <3> QED BY <1>1, <2>2, <3>1 DEF Epolls, NoEvent
  <2>13. Wakeups(f)'
    BY <1>1, <1>2, <2>2, <2>5, <2>6, <2>10, <2>11, SameQueue DEF Wakeups
  <2>14. Threads(f)' BY <1>1, <2>2, SameQueue DEF Threads
  <2> QED BY <2>12, <2>13, <2>14
<1> QED BY <1>3, <1>4, <1>5, <1>6, <1>7, <1>8, <1>9 DEF Inner, Descriptors

LEMMA UnknownStep ==
  ASSUME TypeOK, Hooks, Inner, NEW r \in Reactors, NEW f \in Fds, HandleUnknown(r, f)
  PROVE  Inner'
<1> USE DEF pool, fdevent, switch, timer, timers, kernel
<1>1. /\ re_events' = [re_events EXCEPT ![r] = re_events[r] \ {<<f, "hup">>}]
      /\ m_fds' = [m_fds EXCEPT ![r] = [m_fds[r] EXCEPT ![f] = NoEvent]]
      /\ dropped' = (IF m_fds[r][f] \in {{}, NoEvent} THEN dropped ELSE dropped \cup {Owner(f)})
      /\ UNCHANGED <<prog, lpc, first_coroutine, m_pending_add_fds, m_pending_tasks, m_task, fdevent,
                     cur, cpc, next, event, timers, timed, ready, foreign>>
  BY DEF HandleUnknown, Handled
<1>2. \A q \in Reactors : re_events'[q] \subseteq re_events[q] BY <1>1 DEF TypeOK
<1>3. Running' /\ TasksNew' BY <1>1 DEF Inner, Running, TasksNew
<1>4. Iterations' BY <1>1, <1>2 DEF Inner, Iterations
<1>5. Timers' BY <1>1, TimersStay DEF Inner
<1>6. FdEvents' BY <1>1, FdEventsStay DEF Inner, TypeOK
<1>7. Firsts' BY <1>1, FirstsStay DEF Inner
<1>8. \A g \in Fds, q \in Reactors : g # f \/ q # r => m_fds'[q][g] = m_fds[q][g]
  BY <1>1 DEF TypeOK
<1>9. m_fds'[r][f] = NoEvent BY <1>1 DEF TypeOK
<1>10. \A g \in Fds, q \in Reactors : InBatch(g, q)' => InBatch(g, q) BY <1>2 DEF InBatch
<1>11. ASSUME NEW g \in Fds, g # f PROVE Descriptor(g)'
  <2>1. Kept(g) BY <1>1, <1>8, <1>10, <1>11, SameQueue DEF Kept
  <2> QED BY <2>1, KeptDescriptor DEF Inner
<1>12. Descriptor(f)'
  <2> SUFFICES ASSUME ~Late(f)' PROVE (Epolls(f) /\ Wakeups(f) /\ Threads(f))'
    BY DEF Descriptor
  <2>1. ~Late(f) BY <1>1, LateStays
  <2>2. Epolls(f) /\ Wakeups(f) /\ Threads(f) BY <2>1 DEF Inner, Descriptors, Descriptor
  <2>3. Epolls(f)'
    <3>1. \A q \in Reactors : m_fds'[q][f] \in {NoEvent, m_fds[q][f]} BY <1>8, <1>9
    <3>2. \A q \in Reactors : m_fds'[q][f] \notin {NoEvent', {}} =>
            m_reactor'[f] = q /\ m_fds'[q][f] = m_listen_events'[f]
      BY <1>1, <2>2, <3>1 DEF Epolls, NoEvent
    <3>3. ASSUME NEW q \in Reactors, m_pending_add_fds'[q][f] # NoEvent'
          PROVE  /\ m_reactor'[f] = q /\ m_pending_add_fds'[q][f] = m_listen_events'[f]
                 /\ m_coroutine'[f] # NULL /\ m_coroutine'[f] \in foreign'
                 /\ cpc'[m_coroutine'[f]] \in {"registered", "wait"}
                 /\ m_fds'[q][f] \in {NoEvent', {}}
                 /\ ~InBatch(f, q)' /\ first_coroutine'[q] # m_coroutine'[f]
      <4>1. m_pending_add_fds[q][f] # NoEvent BY <1>1, <3>3 DEF NoEvent
      <4>2. /\ m_reactor[f] = q /\ m_pending_add_fds[q][f] = m_listen_events[f]
            /\ m_coroutine[f] # NULL /\ m_coroutine[f] \in foreign
            /\ cpc[m_coroutine[f]] \in {"registered", "wait"}
            /\ m_fds[q][f] \in {NoEvent, {}} /\ ~InBatch(f, q)
            /\ first_coroutine[q] # m_coroutine[f]
        BY <2>2, <4>1 DEF Epolls
      <4> QED BY <1>1, <1>10, <3>1, <4>2 DEF NoEvent
    <3> QED BY <3>2, <3>3 DEF Epolls, NoEvent
  <2>4. Woken(f) => Woken(f)' BY <1>1 DEF Woken
  <2>5. Wakeups(f)' BY <1>1, <1>10, <2>2, <2>4, SameQueue DEF Wakeups
  <2>6. m_coroutine[f] # NULL => Owner(f) = m_coroutine[f]
    <3> SUFFICES ASSUME m_coroutine[f] # NULL PROVE Owner(f) = m_coroutine[f]
      OBVIOUS
    <3>1. m_coroutine[f] \in Cors /\ Owns(m_coroutine[f], f) BY Holder DEF Inner
    <3>2. Owner(f) = CHOOSE c \in Cors : Owns(c, f) BY DEF Owner, Owns
    <3>3. Owner(f) \in Cors /\ Owns(Owner(f), f) BY <3>1, <3>2
    <3> QED BY <3>1, <3>3, OneOwner
  <2>7. m_coroutine[f] # NULL => m_listen_events[f] \notin {{}, NoEvent}
    <3> SUFFICES ASSUME m_coroutine[f] # NULL PROVE m_listen_events[f] \notin {{}, NoEvent}
      OBVIOUS
    <3>1. m_listen_events[f] \in Masks /\ m_listen_events[f] # {} BY Holder DEF Inner
    <3> QED BY <3>1 DEF Masks, NoEvent
  <2>8. Threads(f)'
    <3>1. ASSUME m_coroutine[f] # NULL, cpc[m_coroutine[f]] \in {"registered", "wait"},
                 m_coroutine[f] \notin dropped', m_reactor[f] # NULL
          PROVE  m_listen_events[f] \in {m_fds'[m_reactor[f]][f], m_pending_add_fds[m_reactor[f]][f]}
      <4>1. m_reactor[f] \in Reactors BY <3>1 DEF TypeOK
      <4>2. m_listen_events[f] \in {m_fds[m_reactor[f]][f], m_pending_add_fds[m_reactor[f]][f]}
        BY <1>1, <2>2, <3>1 DEF Threads
      <4>3. CASE m_reactor[f] # r BY <1>8, <4>1, <4>2, <4>3
      <4>4. CASE m_reactor[f] = r
        <5>1. m_fds[r][f] \in {{}, NoEvent} BY <1>1, <2>6, <3>1
        <5> QED BY <2>7, <3>1, <4>2, <4>4, <5>1
      <4> QED BY <4>3, <4>4
    <3>2. dropped \subseteq dropped' BY <1>1
    <3> QED BY <1>1, <2>2, <3>1, <3>2, SameQueue DEF Threads
  <2> QED BY <2>3, <2>5, <2>8
<1> QED BY <1>3, <1>4, <1>5, <1>6, <1>7, <1>11, <1>12 DEF Inner, Descriptors

LEMMA FirstStep ==
  ASSUME TypeOK, Hooks, Inner, NEW r \in Reactors, NEW f \in Fds, HandleFirst(r, f)
  PROVE  Inner'
<1> USE DEF pool, epoll, fdevent, switch, timer, timers, kernel, history
<1>1. /\ lpc[r] = "events" /\ InBatch(f, r) /\ m_coroutine[f] # NULL /\ first_coroutine[r] = NULL
      /\ re_events' = [re_events EXCEPT ![r] = re_events[r] \ {<<f, "io">>}]
      /\ first_coroutine' = [first_coroutine EXCEPT ![r] = m_coroutine[f]]
      /\ UNCHANGED <<prog, lpc, epoll, m_pending_tasks, m_task, fdevent, cur, cpc, next, event, timers,
                     timed, ready, history>>
  BY DEF HandleFirst, Handled, InLoop, InBatch
<1>2. \A q \in Reactors : re_events'[q] \subseteq re_events[q] BY <1>1 DEF TypeOK
<1>3. Running' /\ TasksNew' BY <1>1 DEF Inner, Running, TasksNew
<1>4. Iterations'
  <2>1. \A q \in Reactors : q # r => first_coroutine'[q] = first_coroutine[q] BY <1>1 DEF TypeOK
  <2> QED BY <1>1, <1>2, <2>1 DEF Inner, Iterations
<1>5. Timers' BY <1>1, TimersStay DEF Inner
<1>6. FdEvents' BY <1>1, FdEventsStay DEF Inner, TypeOK
<1>7. Firsts' BY <1>1 DEF Inner, Firsts, TypeOK
<1>8. ~InBatch(f, r)' /\ \A g \in Fds, q \in Reactors : InBatch(g, q)' => InBatch(g, q)
  BY <1>1, <1>2 DEF InBatch, TypeOK
<1>9. \A q \in Reactors : q # r => first_coroutine'[q] = first_coroutine[q] BY <1>1 DEF TypeOK
<1>10. first_coroutine'[r] = m_coroutine[f] BY <1>1 DEF TypeOK
<1>11. ASSUME NEW g \in Fds, g # f PROVE Descriptor(g)'
  <2>1. m_coroutine[g] # m_coroutine[f] BY <1>1, <1>11, Holder DEF Inner
  <2>2. Kept(g) BY <1>1, <1>8, <1>9, <1>10, <2>1, SameQueue DEF Kept
  <2> QED BY <2>2, KeptDescriptor DEF Inner
<1>12. Descriptor(f)'
  <2> SUFFICES ASSUME ~Late(f)' PROVE (Epolls(f) /\ Wakeups(f) /\ Threads(f))'
    BY DEF Descriptor
  <2>1. ~Late(f) BY <1>1, LateStays
  <2>2. /\ Woken(f) /\ m_reactor[f] = r /\ Epolls(f) /\ Wakeups(f) /\ Threads(f)
        /\ \A q \in Reactors : /\ first_coroutine[q] # m_coroutine[f]
                               /\ m_pending_add_fds[q][f] = NoEvent
                               /\ InBatch(f, q) => q = r
    BY <1>1, <2>1, Batched
  <2>3. \A q \in Reactors : ~InBatch(f, q)' BY <1>8, <2>2
  <2>4. Woken(f)' BY <1>1, <2>2 DEF Woken
  <2>5. Epolls(f)' BY <1>1, <2>2 DEF Epolls, NoEvent
  <2>6. Wakeups(f)' BY <1>1, <1>9, <2>2, <2>3, <2>4, SameQueue DEF Wakeups
  <2>7. Threads(f)' BY <1>1, <2>2, SameQueue DEF Threads
  <2> QED BY <2>5, <2>6, <2>7
<1> QED BY <1>3, <1>4, <1>5, <1>6, <1>7, <1>11, <1>12 DEF Inner, Descriptors

LEMMA MigrateStep ==
  ASSUME TypeOK, Hooks, Inner, NEW r \in Reactors, NEW f \in Fds, HandleMigrate(r, f)
  PROVE  Inner'
<1> USE DEF pool, fdevent, switch, timer, timers, kernel, history
<1>1. /\ InBatch(f, r)
      /\ re_events' = [re_events EXCEPT ![r] = re_events[r] \ {<<f, "io">>}]
      /\ m_fds' = [m_fds EXCEPT ![r] = [m_fds[r] EXCEPT ![f] = NoEvent]]
      /\ m_reactor' = [m_reactor EXCEPT ![f] = NULL] /\ m_task' = Append(m_task, f)
      /\ UNCHANGED <<prog, lpc, first_coroutine, m_pending_add_fds, m_pending_tasks, m_listen_events,
                     m_coroutine, cur, cpc, next, event, timers, timed, ready, history>>
  BY DEF HandleMigrate, Handled, InBatch
<1>2. \A q \in Reactors : re_events'[q] \subseteq re_events[q] BY <1>1 DEF TypeOK
<1>3. Running' /\ TasksNew' BY <1>1 DEF Inner, Running, TasksNew
<1>4. Iterations' BY <1>1, <1>2 DEF Inner, Iterations
<1>5. Timers' BY <1>1, TimersStay DEF Inner
<1>6. FdEvents' BY <1>1, FdEventsStay DEF Inner, TypeOK
<1>7. Firsts' BY <1>1, FirstsStay DEF Inner
<1>8. ~InBatch(f, r)' /\ \A g \in Fds, q \in Reactors : InBatch(g, q)' => InBatch(g, q)
  BY <1>1, <1>2 DEF InBatch, TypeOK
<1>9. \A g \in Fds, q \in Reactors : g # f \/ q # r => m_fds'[q][g] = m_fds[q][g]
  BY <1>1 DEF TypeOK
<1>10. m_fds'[r][f] = NoEvent /\ m_reactor'[f] = NULL BY <1>1 DEF TypeOK
<1>11. /\ Len(m_task) \in Nat /\ Len(m_task') = Len(m_task) + 1
       /\ m_task'[Len(m_task) + 1] = f /\ \A i \in 1..Len(m_task) : m_task'[i] = m_task[i]
  BY <1>1 DEF TypeOK
<1>12. Queued(f)' BY <1>11 DEF Queued
<1>13. ASSUME NEW g \in Fds, g # f PROVE Descriptor(g)'
  <2>1. Queued(g)' <=> Queued(g) BY <1>11, <1>13 DEF Queued
  <2>2. QueuedOnce(g) => QueuedOnce(g)' BY <1>11, <1>13 DEF QueuedOnce
  <2>3. m_reactor'[g] = m_reactor[g] BY <1>1, <1>13 DEF TypeOK
  <2>4. Kept(g) BY <1>1, <1>8, <1>9, <1>13, <2>1, <2>2, <2>3 DEF Kept
  <2> QED BY <2>4, KeptDescriptor DEF Inner
<1>14. Descriptor(f)'
  <2> SUFFICES ASSUME ~Late(f)' PROVE (Epolls(f) /\ Wakeups(f) /\ Threads(f))'
    BY DEF Descriptor
  <2>1. ~Late(f) BY <1>1, LateStays
  <2>2. /\ Woken(f) /\ m_reactor[f] = r /\ m_coroutine[f] # NULL /\ ~Queued(f)
        /\ \A q \in Reactors : /\ first_coroutine[q] # m_coroutine[f]
                               /\ m_pending_add_fds[q][f] = NoEvent
                               /\ m_fds[q][f] \notin {NoEvent, {}} => q = r
                               /\ InBatch(f, q) => q = r
    BY <1>1, <2>1, Batched
  <2>3. \A q \in Reactors : ~InBatch(f, q)' BY <1>8, <2>2
  <2>4. Woken(f)' BY <1>1, <2>2 DEF Woken
  <2>5. \A q \in Reactors : m_fds'[q][f] \in {NoEvent, {}} BY <1>9, <1>10, <2>2
  <2>6. Epolls(f)' BY <1>1, <2>2, <2>5 DEF Epolls, NoEvent
  <2>7. QueuedOnce(f)' BY <1>11, <2>2 DEF QueuedOnce, Queued
  <2>8. Wakeups(f)' BY <1>1, <1>10, <2>2, <2>3, <2>4, <2>7 DEF Wakeups
  <2>9. Threads(f)' BY <1>10, <1>12, <2>4 DEF Threads, Woken
  <2> QED BY <2>6, <2>8, <2>9
<1> QED BY <1>3, <1>4, <1>5, <1>6, <1>7, <1>13, <1>14 DEF Inner, Descriptors

LEMMA MergeStep ==
  ASSUME TypeOK, Hooks, Inner, NEW r \in Reactors, MergePending(r)
  PROVE  Inner'
<1> USE DEF pool, fdevent, switch, timer, timers, kernel, history
<1>1. /\ re_events[r] = {}
      /\ lpc' = [lpc EXCEPT ![r] = IF first_coroutine[r] = NULL THEN "pop" ELSE "top"]
      /\ m_fds' = [m_fds EXCEPT ![r] = [f \in Fds |->
           IF m_pending_add_fds[r][f] = NoEvent THEN m_fds[r][f] ELSE m_pending_add_fds[r][f]]]
      /\ m_pending_add_fds' = [m_pending_add_fds EXCEPT ![r] = [f \in Fds |-> NoEvent]]
      /\ UNCHANGED <<prog, first_coroutine, re_events, m_pending_tasks, m_task, fdevent, cur, cpc,
                     next, event, timers, timed, ready, history>>
  BY DEF MergePending, GoTo
<1>2. Running' /\ TasksNew' BY <1>1 DEF Inner, Running, TasksNew
<1>3. Iterations' BY <1>1 DEF Inner, Iterations, TypeOK
<1>4. Timers' BY <1>1, TimersStay DEF Inner
<1>5. FdEvents' BY <1>1, FdEventsStay DEF Inner, TypeOK
<1>6. Firsts' BY <1>1, FirstsStay DEF Inner
<1>7. \A f \in Fds, q \in Reactors : q # r =>
        m_fds'[q][f] = m_fds[q][f] /\ m_pending_add_fds'[q][f] = m_pending_add_fds[q][f]
  BY <1>1 DEF TypeOK
<1>8. \A f \in Fds :
        /\ m_pending_add_fds'[r][f] = NoEvent
        /\ m_fds'[r][f] = IF m_pending_add_fds[r][f] = NoEvent THEN m_fds[r][f]
                          ELSE m_pending_add_fds[r][f]
  BY <1>1 DEF TypeOK
<1>9. ASSUME NEW f \in Fds PROVE Descriptor(f)'
  <2> SUFFICES ASSUME ~Late(f)' PROVE (Epolls(f) /\ Wakeups(f) /\ Threads(f))'
    BY DEF Descriptor
  <2>1. ~Late(f) BY <1>1, LateStays
  <2>2. Epolls(f) /\ Wakeups(f) /\ Threads(f) BY <2>1 DEF Inner, Descriptors, Descriptor
  <2>3. Woken(f) => Woken(f)' BY <1>1 DEF Woken
  <2>4. Wakeups(f)' BY <1>1, <2>2, <2>3, SameQueue DEF Wakeups, InBatch
  <2>5. ASSUME NEW q \in Reactors, m_fds'[q][f] \notin {NoEvent, {}}
        PROVE  m_reactor[f] = q /\ m_fds'[q][f] = m_listen_events[f]
    <3>1. CASE q # r BY <1>7, <2>2, <2>5, <3>1 DEF Epolls
    <3>2. CASE q = r BY <1>8, <2>2, <2>5, <3>2 DEF Epolls
    <3> QED BY <3>1, <3>2
  <2>6. ASSUME NEW q \in Reactors, m_pending_add_fds'[q][f] # NoEvent
        PROVE  /\ m_reactor[f] = q /\ m_pending_add_fds'[q][f] = m_listen_events[f]
               /\ m_coroutine[f] # NULL /\ m_coroutine[f] \in foreign
               /\ cpc[m_coroutine[f]] \in {"registered", "wait"}
               /\ m_fds'[q][f] \in {NoEvent, {}} /\ ~InBatch(f, q)
               /\ first_coroutine[q] # m_coroutine[f]
    <3>1. q # r BY <1>8, <2>6
    <3> QED BY <1>7, <2>2, <2>6, <3>1 DEF Epolls
  <2>7. Epolls(f)' BY <1>1, <2>5, <2>6 DEF Epolls, NoEvent, InBatch
  <2>8. m_coroutine[f] # NULL => m_listen_events[f] # NoEvent
    <3> SUFFICES ASSUME m_coroutine[f] # NULL PROVE m_listen_events[f] # NoEvent
      OBVIOUS
    <3>1. m_listen_events[f] \in Masks BY Holder DEF Inner
    <3> QED BY <3>1 DEF Masks, NoEvent
  <2>9. ASSUME m_coroutine[f] # NULL, m_reactor[f] # NULL,
               m_listen_events[f] \in {m_fds[m_reactor[f]][f], m_pending_add_fds[m_reactor[f]][f]}
        PROVE  m_listen_events[f] \in {m_fds'[m_reactor[f]][f], m_pending_add_fds'[m_reactor[f]][f]}
    <3>1. m_reactor[f] \in Reactors BY <2>9 DEF TypeOK
    <3>2. CASE m_reactor[f] # r BY <1>7, <2>9, <3>1, <3>2
    <3>3. CASE m_reactor[f] = r BY <1>8, <2>2, <2>8, <2>9, <3>3 DEF Epolls
    <3> QED BY <3>2, <3>3
  <2>10. Threads(f)' BY <1>1, <2>2, <2>9, SameQueue DEF Threads
  <2> QED BY <2>4, <2>7, <2>10
<1> QED BY <1>2, <1>3, <1>4, <1>5, <1>6, <1>9 DEF Inner, Descriptors

-----------------------------------------------------------------------------
(* The loop: what resumes a coroutine.                                     *)

\* One that waits, or is about to after another thread was told, unless a
\* connect timeout has resumed it already.
Wakable(c) == c \in timed \/ \E f \in Fds : m_coroutine[f] = c /\ Woken(f)

LEMMA WakableIs ==
  ASSUME TypeOK, Hooks, Inner, NEW c \in Cors, Wakable(c)
  PROVE  /\ cpc[c] # "new" /\ (c \notin timed => ~Sleeping(c))
         /\ cpc[c] \notin {"new", "wait"} => c \in foreign \cup timed
<1>1. CASE c \in timed BY <1>1 DEF Inner, Timers, Begun
<1>2. CASE c \notin timed
  <2>1. PICK f \in Fds : m_coroutine[f] = c /\ Woken(f) BY <1>2 DEF Wakable
  <2>2. m_coroutine[f] # NULL BY <2>1 DEF Woken
  <2>3. ~Sleeping(c) BY <2>1, <2>2, Holder DEF Inner
  <2> QED BY <1>2, <2>1, <2>3 DEF Woken
<1> QED BY <1>1, <1>2

LEMMA ResumeChanges ==
  ASSUME TypeOK, Running, NEW r \in Reactors, NEW c \in Cors \cup {NULL}, cur[r] = NULL, Resume(r, c),
         clash = {}, clash' = {}
  PROVE  /\ Running'
         /\ \A d \in Cors : d # c => cpc'[d] = cpc[d]
         /\ \A d \in Cors : cpc'[d] \in InHook <=> cpc[d] \in InHook
         /\ \A q \in Reactors : cur[q] # NULL => cur'[q] = cur[q]
         /\ c # NULL => /\ cpc[c] \in {"new", "wait"} /\ cur'[r] = c
                        /\ cpc'[c] = IF cpc[c] = "new" THEN "run" ELSE "back"
<1>1. CASE c = NULL
  <2>1. cur' = cur /\ cpc' = cpc BY <1>1 DEF Resume, switch
  <2> QED BY <1>1, <2>1 DEF Running
<1>2. CASE c # NULL
  <2>1. c \in Cors BY <1>2
  <2>2. /\ cpc[c] \in {"new", "wait"} /\ cur' = [cur EXCEPT ![r] = c]
        /\ cpc' = [cpc EXCEPT ![c] = IF cpc[c] = "new" THEN "run" ELSE "back"] /\ Running'
    BY <2>1, Resumes
  <2> QED BY <2>1, <2>2 DEF InHook, TypeOK
<1> QED BY <1>1, <1>2

LEMMA ResumeTimers ==
  ASSUME TypeOK, Timers, NEW c \in Cors \cup {NULL}, UNCHANGED <<prog, next, event, timers, timed>>,
         \A d \in Cors : d # c => cpc'[d] = cpc[d],
         c # NULL => /\ cpc[c] \in {"new", "wait"}
                     /\ cpc'[c] = IF cpc[c] = "new" THEN "run" ELSE "back"
                     /\ c \notin timed => cpc[c] = "new" \/ ~Sleeping(c)
  PROVE  Timers'
<1> USE DEF timers
<1>1. CASE c = NULL
  <2>1. \A d \in Cors : Call(d)' = Call(d) /\ cpc'[d] = cpc[d] BY <1>1, NullAssumption DEF Call
  <2>2. \A d \in Cors : Alarm(d)' <=> Alarm(d)
    BY <2>1 DEF Alarm, Outstanding, Asleep, Connecting, Sleeping, InHook
  <2>3. \A d \in Cors : Begun(d)' <=> Begun(d) BY <2>1 DEF Begun
  <2> QED BY <2>2, <2>3 DEF Timers, TypeOK
<1>2. CASE c # NULL
  <2>1. c \in Cors /\ Begun(c)' BY <1>2 DEF Begun
  <2>2. ASSUME c \notin timed PROVE Alarm(c)'
    <3>1. Alarm(c) BY <2>1, <2>2 DEF Timers
    <3>2. Outstanding(c) => Connecting(c)'
      <4>1. Outstanding(c) => Connecting(c) /\ cpc[c] = "wait"
        BY <1>2, <2>2, <3>1 DEF Alarm, Asleep, Connecting, InHook
      <4> QED BY <1>2, <4>1 DEF Connecting, InHook, Call
    <3> QED BY <3>1, <3>2 DEF Alarm, Outstanding
  <2> QED BY <2>1, <2>2, TimersNext
<1> QED BY <1>1, <1>2

\* Coroutine c, or the loop itself, is resumed, and nothing else is known of c.
LEMMA ResumeDescriptors ==
  ASSUME TypeOK, Hooks, Inner, NEW r \in Reactors, NEW c \in Cors \cup {NULL}, cur[r] = NULL,
         Resume(r, c), clash = {}, clash' = {},
         UNCHANGED <<prog, epoll, m_coroutine, m_listen_events, next, ready, history>>,
         timed \subseteq timed',
         \A q \in Reactors : /\ first_coroutine'[q] \in {NULL, first_coroutine[q]}
                             /\ re_events'[q] \subseteq re_events[q],
         \A f \in Fds : ~Late(f)' =>
           IF m_coroutine[f] = c /\ c # NULL
             THEN /\ Woken(f) /\ m_reactor'[f] = r /\ ~Queued(f)' /\ QueuedOnce(f)'
                  /\ \A q \in Reactors : /\ m_fds[q][f] \notin {NoEvent, {}} => q = r
                                         /\ m_pending_add_fds[q][f] = NoEvent
                                         /\ ~InBatch(f, q)' /\ first_coroutine'[q] # c
             ELSE /\ m_reactor'[f] = m_reactor[f] /\ (Queued(f)' <=> Queued(f))
                  /\ QueuedOnce(f) => QueuedOnce(f)'
  PROVE  FdEvents' /\ Descriptors' /\ Firsts'
<1> USE DEF epoll, history
<1>1. /\ \A d \in Cors : d # c => cpc'[d] = cpc[d]
      /\ \A d \in Cors : cpc'[d] \in InHook <=> cpc[d] \in InHook
      /\ \A q \in Reactors : cur[q] # NULL => cur'[q] = cur[q]
      /\ c # NULL => /\ cpc[c] \in {"new", "wait"} /\ cur'[r] = c
                     /\ cpc'[c] = IF cpc[c] = "new" THEN "run" ELSE "back"
  BY ResumeChanges DEF Inner
<1>2. FdEvents' BY <1>1, FdEventsStay DEF Inner, TypeOK
<1>3. Firsts' BY FirstsStay DEF Inner
<1>4. ASSUME NEW f \in Fds PROVE Descriptor(f)'
  <2> SUFFICES ASSUME ~Late(f)' PROVE Descriptor(f)'
    BY DEF Descriptor
  <2>1. ~Late(f) BY LateStays
  <2>2. CASE m_coroutine[f] = c /\ c # NULL
    <3>1. /\ Woken(f) /\ m_reactor'[f] = r /\ ~Queued(f)' /\ QueuedOnce(f)'
          /\ \A q \in Reactors : /\ m_fds[q][f] \notin {NoEvent, {}} => q = r
                                 /\ m_pending_add_fds[q][f] = NoEvent
                                 /\ ~InBatch(f, q)' /\ first_coroutine'[q] # c
      BY <2>2
    <3>2. cpc'[m_coroutine[f]] = "back" BY <1>1, <2>2, <3>1 DEF Woken
    <3>3. Epolls(f) BY <2>1 DEF Inner, Descriptors, Descriptor
    <3>4. r # NULL BY NullAssumption DEF Reactors
    <3> QED BY <1>1, <2>2, <3>1, <3>2, <3>3, <3>4, Woke
  <2>3. CASE ~(m_coroutine[f] = c /\ c # NULL)
    <3>1. /\ m_reactor'[f] = m_reactor[f] /\ (Queued(f)' <=> Queued(f))
          /\ QueuedOnce(f) => QueuedOnce(f)'
      BY <2>3
    <3>2. m_coroutine[f] # NULL => cpc'[m_coroutine[f]] = cpc[m_coroutine[f]]
      BY <1>1, <2>3 DEF TypeOK
    <3>3. \A q \in Reactors : InBatch(f, q)' => InBatch(f, q) BY DEF InBatch
    <3>4. Kept(f) BY <1>1, <3>1, <3>2, <3>3 DEF Kept
    <3> QED BY <3>4, KeptDescriptor DEF Inner
  <2> QED BY <2>2, <2>3
<1> QED BY <1>2, <1>3, <1>4 DEF Descriptors

\* A resume that goes wrong changes nothing else, and was one of two kinds.
LEMMA ClashStep ==
  ASSUME TypeOK, Hooks, Inner, WokenForCause, clash = {}, clash' # {},
         NEW r \in Reactors, NEW c \in Cors \cup {NULL}, Resume(r, c),
         UNCHANGED <<prog, next, ready, foreign>>, timed \subseteq timed',
         c \in Cors /\ cpc[c] \notin {"new", "wait"} => c \in foreign \cup timed'
  PROVE  ResumedOnlyWhenSuspended' /\ WokenForCause'
<1>1. c # NULL /\ cpc[c] \notin {"new", "wait"} BY DEF Resume, switch
<1>2. clash' = {c} /\ cpc' = cpc BY <1>1 DEF Resume
<1>3. ResumedOnlyWhenSuspended' BY <1>1, <1>2 DEF ResumedOnlyWhenSuspended
<1>4. WokenForCause' BY <1>2 DEF WokenForCause, Sleeping, Fd, Call, Kind
<1> QED BY <1>3, <1>4

\* What the invariant says after a step that resumes.
Resumed == clash' = {} => Inner'
Clashed == clash' # {} => (ResumedOnlyWhenSuspended' /\ WokenForCause')

\* The loop resumes the coroutine of an FdEvent, or one that was its first.
LEMMA WakeStep ==
  ASSUME TypeOK, Hooks, Inner, WokenForCause, clash = {},
         NEW r \in Reactors, NEW c \in Cors \cup {NULL}, cur[r] = NULL, Resume(r, c),
         UNCHANGED <<prog, epoll, m_pending_tasks, m_coroutine, m_listen_events, next, event, timers, timed,
                     ready, history>>,
         c # NULL => Wakable(c), Iterations',
         \A q \in Reactors : /\ first_coroutine'[q] \in {NULL, first_coroutine[q]}
                             /\ re_events'[q] \subseteq re_events[q],
         \A f \in Fds : ~Late(f) =>
           IF m_coroutine[f] = c /\ c # NULL
             THEN /\ Woken(f) /\ m_reactor'[f] = r /\ ~Queued(f)' /\ QueuedOnce(f)'
                  /\ \A q \in Reactors : /\ m_fds[q][f] \notin {NoEvent, {}} => q = r
                                         /\ m_pending_add_fds[q][f] = NoEvent
                                         /\ ~InBatch(f, q)' /\ first_coroutine'[q] # c
             ELSE /\ m_reactor'[f] = m_reactor[f] /\ (Queued(f)' <=> Queued(f))
                  /\ QueuedOnce(f) => QueuedOnce(f)'
  PROVE  Resumed /\ Clashed
<1> USE DEF history
<1>1. c # NULL => /\ c \in Cors /\ cpc[c] # "new" /\ (c \notin timed => ~Sleeping(c))
                  /\ cpc[c] \notin {"new", "wait"} => c \in foreign \cup timed
  BY WakableIs
<1>2. ASSUME clash' = {} PROVE Inner'
  <2>1. /\ Running' /\ \A d \in Cors : d # c => cpc'[d] = cpc[d]
        /\ c # NULL => /\ cpc[c] \in {"new", "wait"}
                       /\ cpc'[c] = IF cpc[c] = "new" THEN "run" ELSE "back"
    BY <1>2, ResumeChanges DEF Inner
  <2>2. TasksNew' BY <1>1, <2>1, TasksStay, NullAssumption DEF Inner
  <2>3. Timers' BY <1>1, <2>1, ResumeTimers DEF Inner
  <2>4. \A f : ~Late(f)' => ~Late(f) BY LateStays
  <2>5. FdEvents' /\ Descriptors' /\ Firsts' BY <1>2, <2>4, ResumeDescriptors
  <2> QED BY <2>1, <2>2, <2>3, <2>5 DEF Inner
<1>3. ASSUME clash' # {} PROVE ResumedOnlyWhenSuspended' /\ WokenForCause'
  BY <1>1, <1>3, ClashStep, NullAssumption
<1> QED BY <1>2, <1>3 DEF Resumed, Clashed

LEMMA ResumeFirstStep ==
  ASSUME TypeOK, Hooks, Inner, WokenForCause, clash = {}, NEW r \in Reactors, ResumeFirst(r)
  PROVE  Resumed /\ Clashed
<1> USE DEF pool, epoll, fdevent, timer, timers, kernel, history
<1> DEFINE c == first_coroutine[r]
<1>1. /\ lpc[r] = "top" /\ cur[r] = NULL /\ lpc' = [lpc EXCEPT ![r] = "pop"] /\ Resume(r, c)
      /\ first_coroutine' = [first_coroutine EXCEPT ![r] = NULL]
      /\ UNCHANGED <<prog, re_events, epoll, m_pending_tasks, m_task, fdevent, next, event, timers, timed,
                     ready, history>>
  BY DEF ResumeFirst, InLoop, GoTo
<1>2. c \in Cors \cup {NULL} BY DEF TypeOK
<1>3. /\ first_coroutine'[r] = NULL
      /\ \A q \in Reactors : q # r => first_coroutine'[q] = first_coroutine[q]
  BY <1>1 DEF TypeOK
<1>4. Iterations' BY <1>1, <1>3 DEF Inner, Iterations, TypeOK
<1>5. ASSUME NEW f \in Fds, ~Late(f), m_coroutine[f] = c, c # NULL
      PROVE  /\ Woken(f) /\ m_reactor[f] = r /\ ~Queued(f) /\ QueuedOnce(f)
             /\ \A q \in Reactors : /\ m_fds[q][f] \notin {NoEvent, {}} => q = r
                                    /\ m_pending_add_fds[q][f] = NoEvent
                                    /\ ~InBatch(f, q) /\ first_coroutine'[q] # c
  <2>1. Epolls(f) /\ Wakeups(f) BY <1>5 DEF Inner, Descriptors, Descriptor
  <2>2. Woken(f) /\ m_reactor[f] = r BY <1>5, <2>1 DEF Wakeups
  <2>3. ~Queued(f) /\ QueuedOnce(f) BY <2>1, <2>2, NullAssumption DEF Wakeups, Reactors
  <2>4. \A q \in Reactors : m_fds[q][f] \notin {NoEvent, {}} => q = r BY <2>1, <2>2 DEF Epolls
  <2>5. \A q \in Reactors : m_pending_add_fds[q][f] = NoEvent BY <1>5, <2>1, <2>2 DEF Epolls
  <2>6. \A q \in Reactors : ~InBatch(f, q) BY <1>5, <2>1, <2>2 DEF Wakeups
  <2>7. \A q \in Reactors : first_coroutine'[q] # c BY <1>3, <1>5, <2>1, <2>2 DEF Wakeups
  <2> QED BY <2>2, <2>3, <2>4, <2>5, <2>6, <2>7
<1>6. c # NULL => Wakable(c)
  <2> SUFFICES ASSUME c # NULL, c \notin timed PROVE Wakable(c)
    BY DEF Wakable
  <2>1. PICK f \in Fds : m_coroutine[f] = c
    BY DEF Inner, Firsts
  <2>2. ~Late(f) BY <2>1, Holder DEF Inner
  <2> QED BY <1>5, <2>1, <2>2 DEF Wakable
<1> HIDE DEF c
<1>7. \A f \in Fds : ~Late(f) =>
        IF m_coroutine[f] = c /\ c # NULL
          THEN /\ Woken(f) /\ m_reactor'[f] = r /\ ~Queued(f)' /\ QueuedOnce(f)'
               /\ \A q \in Reactors : /\ m_fds[q][f] \notin {NoEvent, {}} => q = r
                                      /\ m_pending_add_fds[q][f] = NoEvent
                                      /\ ~InBatch(f, q)' /\ first_coroutine'[q] # c
          ELSE /\ m_reactor'[f] = m_reactor[f] /\ (Queued(f)' <=> Queued(f))
               /\ QueuedOnce(f) => QueuedOnce(f)'
  BY <1>1, <1>5, SameQueue DEF InBatch
<1> QED BY <1>1, <1>2, <1>3, <1>4, <1>6, <1>7, WakeStep

LEMMA MainStep ==
  ASSUME TypeOK, Hooks, Inner, WokenForCause, clash = {}, NEW r \in Reactors, NEW f \in Fds,
         HandleMain(r, f)
  PROVE  Resumed /\ Clashed
<1> USE DEF pool, epoll, fdevent, timer, timers, kernel, history
<1> DEFINE c == m_coroutine[f]
<1>1. /\ lpc[r] = "events" /\ cur[r] = NULL /\ InBatch(f, r) /\ c # NULL /\ Resume(r, c)
      /\ re_events' = [re_events EXCEPT ![r] = re_events[r] \ {<<f, "io">>}]
      /\ first_coroutine' = [first_coroutine EXCEPT ![r] = NULL]
      /\ UNCHANGED <<prog, lpc, epoll, m_pending_tasks, m_task, fdevent, next, event, timers, timed, ready,
                     history>>
  BY DEF HandleMain, Handled, InLoop, InBatch
<1>2. c \in Cors \cup {NULL} BY DEF TypeOK
<1>3. /\ \A q \in Reactors : /\ first_coroutine'[q] \in {NULL, first_coroutine[q]}
                             /\ re_events'[q] \subseteq re_events[q]
      /\ ~InBatch(f, r)' /\ \A q \in Reactors : InBatch(f, q)' => InBatch(f, q)
  BY <1>1 DEF InBatch, TypeOK
<1>4. Iterations' BY <1>1, <1>3 DEF Inner, Iterations
<1>5. ~Late(f) =>
        /\ Woken(f) /\ m_reactor[f] = r /\ ~Queued(f) /\ QueuedOnce(f)
        /\ \A q \in Reactors : /\ m_fds[q][f] \notin {NoEvent, {}} => q = r
                               /\ m_pending_add_fds[q][f] = NoEvent
                               /\ ~InBatch(f, q)' /\ first_coroutine'[q] # c
  BY <1>1, <1>3, Batched DEF Wakeups
<1>6. Wakable(c) BY <1>1, <1>5, Holder DEF Inner, Wakable
<1>7. \A g \in Fds : m_coroutine[g] = c => g = f BY <1>1, Holder DEF Inner
<1>8. \A g \in Fds : ~Late(g) =>
        IF m_coroutine[g] = c /\ c # NULL
          THEN /\ Woken(g) /\ m_reactor'[g] = r /\ ~Queued(g)' /\ QueuedOnce(g)'
               /\ \A q \in Reactors : /\ m_fds[q][g] \notin {NoEvent, {}} => q = r
                                      /\ m_pending_add_fds[q][g] = NoEvent
                                      /\ ~InBatch(g, q)' /\ first_coroutine'[q] # c
          ELSE /\ m_reactor'[g] = m_reactor[g] /\ (Queued(g)' <=> Queued(g))
               /\ QueuedOnce(g) => QueuedOnce(g)'
  BY <1>1, <1>5, <1>7, SameQueue
<1> HIDE DEF c
<1> QED BY <1>1, <1>2, <1>3, <1>4, <1>6, <1>8, WakeStep

LEMMA PopStep ==
  ASSUME TypeOK, Hooks, Inner, WokenForCause, clash = {}, NEW r \in Reactors, PopCoroutine(r)
  PROVE  Resumed /\ Clashed
<1> USE DEF pool, loopvars, epoll, fdevent, timer, timers, kernel, history
<1>1. PICK f \in Fds :
        /\ f = m_task[1] /\ Len(m_task) \in Nat \ {0} /\ m_task' = Tail(m_task)
        /\ Len(m_task') = Len(m_task) - 1 /\ \A i \in 1..Len(m_task') : m_task'[i] = m_task[i + 1]
        /\ m_reactor' = [m_reactor EXCEPT ![f] = r] /\ Resume(r, m_coroutine[f])
  <2>1. m_task \in Seq(Fds) /\ m_task # <<>> BY DEF PopCoroutine, TypeOK
  <2>2. /\ Head(m_task) \in Fds /\ Head(m_task) = m_task[1] /\ Len(m_task) \in Nat \ {0}
        /\ Len(Tail(m_task)) = Len(m_task) - 1
        /\ \A i \in 1..(Len(m_task) - 1) : Tail(m_task)[i] = m_task[i + 1]
    BY <2>1
  <2> QED BY <2>2 DEF PopCoroutine
<1> DEFINE c == m_coroutine[f]
<1>2. /\ cur[r] = NULL
      /\ UNCHANGED <<prog, loopvars, epoll, m_pending_tasks, m_listen_events, m_coroutine, next, event, timers,
                     timed, ready, history>>
  BY DEF PopCoroutine, InLoop
<1>3. c \in Cors \cup {NULL} BY DEF TypeOK
<1>4. Iterations' BY <1>2 DEF Inner, Iterations
<1>5. Queued(f) /\ (QueuedOnce(f) => ~Queued(f)') BY <1>1 DEF Queued, QueuedOnce
<1>6. \A g \in Fds : QueuedOnce(g) => QueuedOnce(g)'
  <2> SUFFICES ASSUME NEW g \in Fds, QueuedOnce(g),
                      NEW i \in 1..Len(m_task'), NEW j \in 1..Len(m_task'),
                      m_task'[i] = g, m_task'[j] = g
               PROVE  i = j
    BY DEF QueuedOnce
  <2>1. i + 1 \in 1..Len(m_task) /\ j + 1 \in 1..Len(m_task) BY <1>1
  <2>2. m_task[i + 1] = g /\ m_task[j + 1] = g BY <1>1
  <2>3. i + 1 = j + 1 BY <2>1, <2>2 DEF QueuedOnce
  <2> QED BY <2>3
<1>7. \A g \in Fds : g # f => (Queued(g)' <=> Queued(g))
  <2> SUFFICES ASSUME NEW g \in Fds, g # f PROVE Queued(g)' <=> Queued(g)
    OBVIOUS
  <2>1. ASSUME Queued(g) PROVE Queued(g)'
    <3>1. PICK i \in 1..Len(m_task) : m_task[i] = g BY <2>1 DEF Queued
    <3>2. i - 1 \in 1..Len(m_task') /\ m_task'[i - 1] = g BY <1>1, <3>1
    <3> QED BY <3>2 DEF Queued
  <2>2. ASSUME Queued(g)' PROVE Queued(g)
    <3>1. PICK i \in 1..Len(m_task') : m_task'[i] = g BY <2>2 DEF Queued
    <3>2. i + 1 \in 1..Len(m_task) /\ m_task[i + 1] = g BY <1>1, <3>1
    <3> QED BY <3>2 DEF Queued
  <2> QED BY <2>1, <2>2
<1>8. \A g \in Fds : g # f => m_reactor'[g] = m_reactor[g] BY <1>1 DEF TypeOK
<1>9. m_reactor'[f] = r BY <1>1 DEF TypeOK
<1>10. ~Late(f) =>
         /\ Woken(f) /\ c # NULL /\ ~Queued(f)' /\ QueuedOnce(f)'
         /\ \A q \in Reactors : /\ m_fds[q][f] \notin {NoEvent, {}} => q = r
                                /\ m_pending_add_fds[q][f] = NoEvent
                                /\ ~InBatch(f, q) /\ first_coroutine[q] # c
  <2> SUFFICES ASSUME ~Late(f)
               PROVE  /\ Woken(f) /\ c # NULL /\ ~Queued(f)' /\ QueuedOnce(f)'
                      /\ \A q \in Reactors : /\ m_fds[q][f] \notin {NoEvent, {}} => q = r
                                             /\ m_pending_add_fds[q][f] = NoEvent
                                             /\ ~InBatch(f, q) /\ first_coroutine[q] # c
    OBVIOUS
  <2>1. Epolls(f) /\ Wakeups(f) BY DEF Inner, Descriptors, Descriptor
  <2>2. Woken(f) /\ m_reactor[f] = NULL /\ QueuedOnce(f) BY <1>5, <2>1 DEF Wakeups
  <2>3. c # NULL BY <2>2 DEF Woken
  <2>4. \A q \in Reactors : q # NULL BY NullAssumption DEF Reactors
  <2> QED BY <1>5, <1>6, <2>1, <2>2, <2>3, <2>4 DEF Wakeups, Epolls
<1>11. c # NULL => Wakable(c) BY <1>10, Holder DEF Inner, Wakable
<1>12. c # NULL => \A g \in Fds : m_coroutine[g] = c => g = f BY Holder DEF Inner
<1>13. \A q \in Reactors : /\ first_coroutine'[q] \in {NULL, first_coroutine[q]}
                           /\ re_events'[q] \subseteq re_events[q]
  BY <1>2
<1>14. \A g \in Fds : ~Late(g) =>
        IF m_coroutine[g] = c /\ c # NULL
          THEN /\ Woken(g) /\ m_reactor'[g] = r /\ ~Queued(g)' /\ QueuedOnce(g)'
               /\ \A q \in Reactors : /\ m_fds[q][g] \notin {NoEvent, {}} => q = r
                                      /\ m_pending_add_fds[q][g] = NoEvent
                                      /\ ~InBatch(g, q)' /\ first_coroutine'[q] # c
          ELSE /\ m_reactor'[g] = m_reactor[g] /\ (Queued(g)' <=> Queued(g))
               /\ QueuedOnce(g) => QueuedOnce(g)'
  <2> SUFFICES ASSUME NEW g \in Fds, ~Late(g)
      PROVE IF m_coroutine[g] = c /\ c # NULL
          THEN /\ Woken(g) /\ m_reactor'[g] = r /\ ~Queued(g)' /\ QueuedOnce(g)'
               /\ \A q \in Reactors : /\ m_fds[q][g] \notin {NoEvent, {}} => q = r
                                      /\ m_pending_add_fds[q][g] = NoEvent
                                      /\ ~InBatch(g, q)' /\ first_coroutine'[q] # c
          ELSE /\ m_reactor'[g] = m_reactor[g] /\ (Queued(g)' <=> Queued(g))
               /\ QueuedOnce(g) => QueuedOnce(g)'
    OBVIOUS
  <2>1. CASE g = f BY <1>2, <1>9, <1>10, <2>1 DEF InBatch
  <2>2. CASE g # f BY <1>6, <1>7, <1>8, <1>12, <2>2
  <2> QED BY <2>1, <2>2
<1> HIDE DEF c
<1>15. Resume(r, c) BY <1>1 DEF c
<1> QED BY <1>2, <1>3, <1>4, <1>11, <1>13, <1>14, <1>15, WakeStep

LEMMA TaskStep ==
  ASSUME TypeOK, Hooks, Inner, WokenForCause, clash = {}, NEW r \in Reactors, RunTask(r)
  PROVE  Resumed /\ Clashed
<1> USE DEF pool, loopvars, epoll, fdevent, timer, timers, kernel, history
<1>1. PICK c \in Cors :
        /\ c = m_pending_tasks[r][1] /\ Len(m_pending_tasks[r]) \in Nat \ {0} /\ Resume(r, c)
        /\ m_pending_tasks' = [m_pending_tasks EXCEPT ![r] = Tail(m_pending_tasks[r])]
        /\ Len(m_pending_tasks'[r]) = Len(m_pending_tasks[r]) - 1
        /\ \A i \in 1..Len(m_pending_tasks'[r]) : m_pending_tasks'[r][i] = m_pending_tasks[r][i + 1]
  <2>1. m_pending_tasks[r] \in Seq(Cors) /\ m_pending_tasks[r] # <<>> BY DEF RunTask, TypeOK
  <2> DEFINE s == m_pending_tasks[r]
  <2> HIDE DEF s
  <2>2. /\ Head(s) \in Cors /\ Head(s) = s[1] /\ Len(s) \in Nat \ {0}
        /\ Len(Tail(s)) = Len(s) - 1 /\ \A i \in 1..(Len(s) - 1) : Tail(s)[i] = s[i + 1]
    BY <2>1 DEF s
  <2>3. m_pending_tasks' = [m_pending_tasks EXCEPT ![r] = Tail(s)] /\ Resume(r, Head(s))
    BY DEF RunTask, s
  <2>4. m_pending_tasks'[r] = Tail(s) BY <2>3 DEF TypeOK
  <2> QED BY <2>2, <2>3, <2>4 DEF s
<1>2. /\ cur[r] = NULL
      /\ UNCHANGED <<prog, loopvars, epoll, m_task, fdevent, next, event, timers, timed, ready, history>>
  BY DEF RunTask, InLoop
<1>3. cpc[c] = "new"
  <2>1. 1 \in 1..Len(m_pending_tasks[r]) BY <1>1
  <2> QED BY <1>1, <2>1 DEF Inner, TasksNew
<1>4. c # NULL BY NullAssumption
<1>5. ASSUME clash' = {} PROVE Inner'
  <2>1. /\ Running' /\ cpc'[c] = "run" /\ \A d \in Cors : d # c => cpc'[d] = cpc[d]
    BY <1>1, <1>2, <1>3, <1>4, <1>5, ResumeChanges DEF Inner
  <2>2. Iterations' BY <1>2 DEF Inner, Iterations
  <2>3. TasksNew'
    <3>1. \A q \in Reactors : q # r => m_pending_tasks'[q] = m_pending_tasks[q]
      BY <1>1 DEF TypeOK
    <3>2. ASSUME NEW q \in Reactors, NEW i \in 1..Len(m_pending_tasks'[q])
          PROVE  \E j \in 1..Len(m_pending_tasks[q]) :
                   /\ m_pending_tasks'[q][i] = m_pending_tasks[q][j]
                   /\ j = IF q = r THEN i + 1 ELSE i
                   /\ m_pending_tasks[q][j] \in Cors /\ m_pending_tasks[q][j] # c
      <4> DEFINE j == IF q = r THEN i + 1 ELSE i
      <4>1. m_pending_tasks[q] \in Seq(Cors) BY DEF TypeOK
      <4>2. CASE q = r
        <5>1. j \in 1..Len(m_pending_tasks[q]) /\ j # 1 BY <1>1, <3>2, <4>2
        <5>2. m_pending_tasks'[q][i] = m_pending_tasks[q][j] BY <1>1, <3>2, <4>2
        <5>3. m_pending_tasks[q][j] # c
          <6>1. 1 \in 1..Len(m_pending_tasks[r]) BY <1>1
          <6> QED BY <1>1, <4>2, <5>1, <6>1 DEF Inner, TasksNew
        <5>4. m_pending_tasks[q][j] \in Cors BY <4>1, <5>1
        <5> QED BY <5>1, <5>2, <5>3, <5>4
      <4>3. CASE q # r
        <5>1. j \in 1..Len(m_pending_tasks[q]) /\ m_pending_tasks'[q][i] = m_pending_tasks[q][j]
          BY <3>1, <3>2, <4>3
        <5>2. m_pending_tasks[q][j] # c
          <6>1. 1 \in 1..Len(m_pending_tasks[r]) BY <1>1
          <6> QED BY <1>1, <4>3, <5>1, <6>1 DEF Inner, TasksNew
        <5>3. m_pending_tasks[q][j] \in Cors BY <4>1, <5>1
        <5> QED BY <5>1, <5>2, <5>3
      <4> QED BY <4>2, <4>3
    <3>3. ASSUME NEW q \in Reactors, NEW i \in 1..Len(m_pending_tasks'[q])
          PROVE  cpc'[m_pending_tasks'[q][i]] = "new"
      BY <2>1, <3>2 DEF Inner, TasksNew
    <3>4. ASSUME NEW p \in Reactors, NEW q \in Reactors,
                 NEW i \in 1..Len(m_pending_tasks'[p]), NEW j \in 1..Len(m_pending_tasks'[q]),
                 m_pending_tasks'[p][i] = m_pending_tasks'[q][j]
          PROVE  p = q /\ i = j
      <4>1. PICK k \in 1..Len(m_pending_tasks[p]) :
              /\ m_pending_tasks'[p][i] = m_pending_tasks[p][k] /\ k = IF p = r THEN i + 1 ELSE i
        BY <3>2
      <4>2. PICK l \in 1..Len(m_pending_tasks[q]) :
              /\ m_pending_tasks'[q][j] = m_pending_tasks[q][l] /\ l = IF q = r THEN j + 1 ELSE j
        BY <3>2
      <4>3. m_pending_tasks[p][k] = m_pending_tasks[q][l] BY <3>4, <4>1, <4>2
      <4>4. \A x \in 1..Len(m_pending_tasks[p]), y \in 1..Len(m_pending_tasks[q]) :
              m_pending_tasks[p][x] = m_pending_tasks[q][y] => p = q /\ x = y
        BY DEF Inner, TasksNew
      <4>5. p = q /\ k = l BY <4>3, <4>4
      <4> QED BY <4>1, <4>2, <4>5
    <3> QED BY <3>3, <3>4 DEF TasksNew
  <2>5. Timers' BY <1>2, <1>3, <1>4, <2>1, ResumeTimers DEF Inner
  <2>6. \A f \in Fds : m_coroutine[f] # c
    <3> SUFFICES ASSUME NEW f \in Fds, m_coroutine[f] = c PROVE FALSE
      OBVIOUS
    <3>1. On(c, f) BY <1>4, Holder DEF Inner
    <3> QED BY <1>3, <3>1 DEF On, InHook
  <2>7. FdEvents' /\ Descriptors' /\ Firsts'
    BY <1>1, <1>2, <1>5, <2>6, SameQueue, ResumeDescriptors
  <2> QED BY <2>1, <2>2, <2>3, <2>5, <2>7 DEF Inner
<1>6. ASSUME clash' # {} PROVE ResumedOnlyWhenSuspended' /\ WokenForCause'
  BY <1>1, <1>2, <1>3, <1>6, ClashStep
<1> QED BY <1>5, <1>6 DEF Resumed, Clashed

\* A callback of onTimer(), whose hook may have returned.
LEMMA TimerStep ==
  ASSUME TypeOK, Hooks, Inner, WokenForCause, clash = {}, NEW r \in Reactors, NEW c \in Cors,
         RunCallback(r, c) \/ RunLateCallback(r, c)
  PROVE  Resumed /\ Clashed
<1> USE DEF pool, epoll, fdevent, kernel, history
<1>1. /\ lpc[r] = "timer" /\ cur[r] = NULL /\ Resume(r, c)
      /\ lpc' \in {[lpc EXCEPT ![r] = w] : w \in {"events", "timer"}}
      /\ UNCHANGED <<prog, first_coroutine, re_events, epoll, m_pending_tasks, m_task, fdevent, next,
                     event, m_pending_events, ready, history>>
  BY DEF RunCallback, RunLateCallback, InLoop, GoTo
<1>2. /\ timed \subseteq timed' /\ \A d \in timed' : d \in timed \/ d = c
      /\ \A q \in Reactors : due'[q] \subseteq due[q] /\ late'[q] \subseteq late[q]
  <2>1. due \in [Reactors -> SUBSET Cors] /\ late \in [Reactors -> SUBSET Cors] BY DEF TypeOK
  <2>2. CASE RunCallback(r, c) BY <2>1, <2>2 DEF RunCallback
  <2>3. CASE RunLateCallback(r, c) BY <2>1, <2>3 DEF RunLateCallback
  <2> QED BY <2>2, <2>3
<1>3. c # NULL BY NullAssumption
<1>4. /\ c \notin timed' => Asleep(c) /\ ~Outstanding(c)' /\ \A f \in Fds : m_coroutine[f] # c
      /\ Begun(c)
  <2>1. CASE RunLateCallback(r, c) BY <2>1 DEF RunLateCallback, Inner, Timers
  <2>2. CASE RunCallback(r, c) /\ c \in timed BY <1>2, <2>2 DEF Inner, Timers
  <2>3. CASE RunCallback(r, c) /\ c \notin timed
    <3>1. Alarm(c) /\ c \in due[r] BY <2>3 DEF RunCallback, Inner, Timers
    <3>2. Asleep(c) \/ Connecting(c) BY <3>1 DEF Alarm, Outstanding
    <3>3. Begun(c) BY <3>2 DEF Asleep, Connecting, InHook, Begun
    <3>4. c \notin timed' => Asleep(c) BY <2>3, <3>2 DEF RunCallback, Connecting
    <3>5. c \notin m_pending_events /\ \A q \in Reactors : q # r => c \notin due[q]
      BY <3>1 DEF Alarm
    <3>6. ~Outstanding(c)' BY <1>1, <1>2, <2>3, <3>5 DEF RunCallback, Outstanding, TypeOK
    <3>7. Asleep(c) => \A f \in Fds : m_coroutine[f] # c BY <1>3, Holder DEF Asleep, Inner
    <3> QED BY <3>3, <3>4, <3>6, <3>7
  <2> QED BY <2>1, <2>2, <2>3
<1>5. ASSUME clash' = {} PROVE Inner'
  <2>1. /\ Running' /\ cpc[c] \in {"new", "wait"} /\ \A d \in Cors : d # c => cpc'[d] = cpc[d]
        /\ cpc'[c] = IF cpc[c] = "new" THEN "run" ELSE "back"
    BY <1>1, <1>3, <1>5, ResumeChanges DEF Inner
  <2>2. Iterations' BY <1>1 DEF Inner, Iterations, TypeOK
  <2>3. TasksNew' BY <1>1, <1>4, <2>1, TasksStay DEF Inner, Begun
  <2>4. Timers'
    <3>1. Begun(c)' BY <2>1 DEF Begun
    <3>2. c \notin timed' => Alarm(c)' BY <1>4, NoAlarm
    <3> QED BY <1>1, <1>2, <2>1, <3>1, <3>2, TimersNext DEF Inner
  <2>5. \A f \in Fds : m_coroutine[f] = c => Late(f)'
    <3> SUFFICES ASSUME NEW f \in Fds, m_coroutine[f] = c PROVE Late(f)'
      OBVIOUS
    <3>1. Owns(c, f) BY <1>3, Holder DEF Inner
    <3>2. c \in timed' BY <1>4
    <3>3. Owns(c, f)' BY <1>1, <3>1, SameProgram
    <3> QED BY <3>2, <3>3 DEF Late
  <2>6. FdEvents' /\ Descriptors' /\ Firsts'
    BY <1>1, <1>2, <1>5, <2>5, SameQueue, ResumeDescriptors
  <2> QED BY <2>1, <2>2, <2>3, <2>4, <2>6 DEF Inner
<1>6. ASSUME clash' # {} PROVE ResumedOnlyWhenSuspended' /\ WokenForCause'
  <2>1. cpc[c] \notin {"new", "wait"} => c \in foreign \cup timed' BY <1>4 DEF Asleep
  <2> QED BY <1>1, <1>2, <1>6, <2>1, ClashStep
<1> QED BY <1>5, <1>6 DEF Resumed, Clashed

-----------------------------------------------------------------------------
(* The invariant.                                                          *)

\* A coroutine inside a hook for a descriptor, and what is known of that.
LEMMA InHookOf ==
  ASSUME TypeOK, Hooks, Inner, NEW c \in Cors, cpc[c] \in InHook, ~Sleeping(c), c \notin timed
  PROVE  /\ Fd(c) \in Fds /\ m_coroutine[Fd(c)] = c /\ c # NULL
         /\ m_listen_events[Fd(c)] = {Kind(Call(c)[1])} /\ Threads(Fd(c))
<1>1. next[c] <= Len(prog.code[c]) BY DEF Hooks
<1>2. Fd(c) \in Fds /\ On(c, Fd(c)) BY <1>1, CallTypes DEF Sleeping, Fd, On
<1>3. m_coroutine[Fd(c)] = c /\ c # NULL BY <1>2, NullAssumption DEF Inner, FdEvents
<1>4. ~Late(Fd(c)) /\ m_listen_events[Fd(c)] = {Kind(Call(c)[1])} BY <1>2, <1>3, Holder DEF Inner
<1> QED BY <1>2, <1>3, <1>4 DEF Inner, Descriptors, Descriptor

LEMMA InnerGivesWoken == TypeOK /\ Hooks /\ Inner => WokenForCause
<1> SUFFICES ASSUME TypeOK, Hooks, Inner, NEW c \in Cors, cpc[c] = "back", ~Sleeping(c), c \notin timed
             PROVE  Kind(Call(c)[1]) \in ready[Fd(c)]
  BY DEF WokenForCause
<1>1. /\ m_coroutine[Fd(c)] = c /\ c # NULL /\ Threads(Fd(c))
      /\ m_listen_events[Fd(c)] = {Kind(Call(c)[1])}
  BY InHookOf DEF InHook
<1> QED BY <1>1 DEF Threads

LEMMA InnerGivesNotForgotten == TypeOK /\ Hooks /\ Inner => NotForgotten
<1> SUFFICES ASSUME TypeOK, Hooks, Inner, NEW c \in Cors, cpc[c] = "wait", ~Sleeping(c),
                    c \notin timed, c \notin dropped
             PROVE  \/ m_reactor[Fd(c)] # NULL
                         /\ \/ Kind(Call(c)[1]) \in m_fds[m_reactor[Fd(c)]][Fd(c)]
                            \/ Kind(Call(c)[1]) \in m_pending_add_fds[m_reactor[Fd(c)]][Fd(c)]
                    \/ \E i \in 1..Len(m_task) : m_task[i] = Fd(c)
  BY DEF NotForgotten
<1>1. /\ m_coroutine[Fd(c)] = c /\ c # NULL /\ Threads(Fd(c))
      /\ m_listen_events[Fd(c)] = {Kind(Call(c)[1])}
  BY InHookOf DEF InHook
<1>2. IF m_reactor[Fd(c)] = NULL THEN Queued(Fd(c))
      ELSE m_listen_events[Fd(c)] \in {m_fds[m_reactor[Fd(c)]][Fd(c)],
                                       m_pending_add_fds[m_reactor[Fd(c)]][Fd(c)]}
  BY <1>1 DEF Threads
<1> QED BY <1>1, <1>2 DEF Queued

LEMMA InitHolds == Init => TypeOK /\ IInv
<1> SUFFICES ASSUME Init PROVE TypeOK /\ IInv
  OBVIOUS
<1>1. prog.size \in 1..NReactors /\ NReactors \in Nat /\ prog.code \in [Cors -> Seq(Calls)]
  BY NullAssumption, ProgramsAssumption DEF Init
<1>2. \A c \in Cors : Len(prog.code[c]) \in Nat BY <1>1
<1>3. TypeOK BY <1>1, <1>2 DEF Init, TypeOK, m_size, Masks
<1>4. Hooks BY DEF Init, Hooks, InHook
<1>5. Running /\ Iterations /\ TasksNew /\ Timers /\ Firsts
  BY DEF Init, Running, Iterations, TasksNew, Timers, Alarm, Outstanding, Firsts, InHook
<1>6. FdEvents BY DEF Init, FdEvents, On, InHook
<1>7. Descriptors
  BY DEF Init, Descriptors, Descriptor, Epolls, Wakeups, Threads, Queued, QueuedOnce, InBatch
<1> QED BY <1>3, <1>4, <1>5, <1>6, <1>7 DEF Init, IInv, Inner

LEMMA InnerStep ==
  ASSUME TypeOK, Hooks, Inner, WokenForCause, clash = {}, Next
  PROVE  Resumed /\ Clashed
<1>1. ASSUME Inner', clash' = {} PROVE Resumed /\ Clashed BY <1>1 DEF Resumed, Clashed
<1> USE DEF switch
<1>2. CASE StartUp
  <2>1. ASSUME CreateThread \/ WaitInit \/ PostStart PROVE Resumed /\ Clashed
    <3>1. clash' = {} BY <2>1 DEF CreateThread, WaitInit, PostStart
    <3>2. Inner' BY <2>1, QuietSteps
    <3> QED BY <1>1, <3>1, <3>2
  <2>2. ASSUME NEW r \in Reactors, InitThread(r) \/ EnterLoop(r) PROVE Resumed /\ Clashed
    <3>1. clash' = {} BY <2>2 DEF InitThread, EnterLoop
    <3>2. Inner' BY <2>2, QuietSteps DEF QuietLoop
    <3> QED BY <1>1, <3>1, <3>2
  <2> QED BY <1>2, <2>1, <2>2 DEF StartUp
<1>3. CASE GiveWork
  <2>1. m_size \in Nat /\ \A i \in 0..(m_size - 1) : i \in Reactors /\ \A r \in Reactors : ~Main(r) =>
          OtherThan(r, i) \in Reactors
    BY Programme DEF OtherThan, Reactors, Main
  <2>2. ASSUME NEW c \in Cors, NEW i \in 0..(m_size - 1), GiveToIOThread(c, i) PROVE Resumed /\ Clashed
    BY <1>1, <2>1, <2>2, GiveSteps DEF GiveToIOThread
  <2>3. ASSUME NEW r \in Reactors, NEW c \in Cors, GiveToMain(r, c) PROVE Resumed /\ Clashed
    BY <1>1, <2>3, GiveSteps DEF GiveToMain
  <2>4. ASSUME NEW r \in Reactors, NEW c \in Cors, NEW i \in 0..(m_size - 1), GiveToRandomThread(r, c, i)
        PROVE  Resumed /\ Clashed
    BY <1>1, <2>1, <2>4, GiveSteps DEF GiveToRandomThread
  <2> QED BY <1>3, <2>2, <2>3, <2>4 DEF GiveWork
<1>4. ASSUME NEW r \in Reactors, HookStep(r) \/ UserStep(r) PROVE Resumed /\ Clashed
  <2>1. ASSUME HookYield(r) PROVE Resumed /\ Clashed
    BY <1>1, <2>1, YieldStep DEF HookYield, Yield
  <2>2. ASSUME HookReturn(r) PROVE Resumed /\ Clashed
    BY <1>1, <2>2, ReturnStep DEF HookReturn
  <2>3. ASSUME HookSleep(r) \/ HookSleepBack(r) \/ Finish(r) PROVE Resumed /\ Clashed
    <3>1. clash' = {} BY <2>3 DEF HookSleep, HookSleepBack, Finish, Yield
    <3>2. Inner' BY <2>3, RunSteps
    <3> QED BY <1>1, <3>1, <3>2
  <2>4. ASSUME NEW f \in Fds, NEW h \in {"read", "write", "connect"}, HookRegister(r, f, h)
        PROVE  Resumed /\ Clashed
    BY <1>1, <2>4, RegisterStep DEF HookRegister
  <2>5. ASSUME NEW f \in Fds, NEW h \in {"read", "write", "connect"}, HookDirect(r, f, h)
        PROVE  Resumed /\ Clashed
    BY <1>1, <2>5, DirectStep DEF HookDirect
  <2> QED BY <1>4, <2>1, <2>2, <2>3, <2>4, <2>5 DEF HookStep, UserStep, GiveBack
<1>5. ASSUME NEW r \in Reactors, HandleEvent(r) PROVE Resumed /\ Clashed
  <2>1. ASSUME NEW f \in Fds, HandleUnknown(r, f) PROVE Resumed /\ Clashed
    BY <1>1, <2>1, UnknownStep DEF HandleUnknown
  <2>2. ASSUME NEW f \in Fds, HandleNoCoroutine(r, f) PROVE Resumed /\ Clashed
    <3>1. clash' = {} BY <2>2 DEF HandleNoCoroutine
    <3>2. Inner' BY <2>2, QuietSteps DEF QuietLoop
    <3> QED BY <1>1, <3>1, <3>2
  <2>3. ASSUME NEW f \in Fds, HandleFirst(r, f) PROVE Resumed /\ Clashed
    BY <1>1, <2>3, FirstStep DEF HandleFirst
  <2>4. ASSUME NEW f \in Fds, HandleMigrate(r, f) PROVE Resumed /\ Clashed
    BY <1>1, <2>4, MigrateStep DEF HandleMigrate
  <2>5. ASSUME NEW f \in Fds, HandleMain(r, f) PROVE Resumed /\ Clashed
    BY <2>5, MainStep
  <2>6. ASSUME NEW c \in Cors, RunCallback(r, c) \/ RunLateCallback(r, c) PROVE Resumed /\ Clashed
    BY <2>6, TimerStep
  <2>7. ASSUME HandleTimer(r) PROVE Resumed /\ Clashed
    <3>1. clash' = {} BY <2>7 DEF HandleTimer
    <3>2. Inner' BY <2>7, QuietSteps DEF QuietLoop
    <3> QED BY <1>1, <3>1, <3>2
  <2> QED BY <1>5, <2>1, <2>2, <2>3, <2>4, <2>5, <2>6, <2>7 DEF HandleEvent
<1>6. ASSUME NEW r \in Reactors, LoopStep(r) PROVE Resumed /\ Clashed
  <2>1. ASSUME ResumeFirst(r) PROVE Resumed /\ Clashed BY <2>1, ResumeFirstStep
  <2>2. ASSUME PopCoroutine(r) PROVE Resumed /\ Clashed BY <2>2, PopStep
  <2>3. ASSUME RunTask(r) PROVE Resumed /\ Clashed BY <2>3, TaskStep
  <2>4. ASSUME PopDone(r) \/ TasksDone(r) PROVE Resumed /\ Clashed
    <3>1. clash' = {} BY <2>4 DEF PopDone, TasksDone
    <3>2. Inner' BY <2>4, QuietSteps DEF QuietLoop
    <3> QED BY <1>1, <3>1, <3>2
  <2>5. ASSUME NEW batch, batch \subseteq Reportable(r) \cup {<<m_timer_fd, "io">>},
               EpollReturn(r, batch)
        PROVE  Resumed /\ Clashed
    BY <1>1, <2>5, EpollStep DEF EpollReturn
  <2>6. ASSUME MergePending(r) PROVE Resumed /\ Clashed
    BY <1>1, <2>6, MergeStep DEF MergePending
  <2>7. /\ Reportable(r) \subseteq Reportable(r) \cup {<<m_timer_fd, "io">>}
        /\ Reportable(r) \cup {<<m_timer_fd, "io">>} \subseteq Reportable(r) \cup {<<m_timer_fd, "io">>}
    OBVIOUS
  <2> QED BY <1>5, <1>6, <2>1, <2>2, <2>3, <2>4, <2>5, <2>6, <2>7 DEF LoopStep
<1>7. ASSUME NEW f \in Fds, PeerClose(f) \/ \E k \in {"READ", "WRITE"} : Arrive(f, k)
      PROVE  Resumed /\ Clashed
  <2>1. clash' = {} BY <1>7 DEF PeerClose, Arrive
  <2>2. Inner' BY <1>7, QuietSteps
  <2> QED BY <1>1, <2>1, <2>2
<1> QED BY <1>2, <1>3, <1>4, <1>6, <1>7 DEF Next

LEMMA IInvStep == TypeOK /\ IInv /\ [Next]_vars => IInv'
<1> SUFFICES ASSUME TypeOK, IInv, [Next]_vars PROVE IInv'
  OBVIOUS
<1>1. Hooks' BY HooksStep DEF IInv
<1>2. CASE Next
  <2>1. clash = {} /\ Inner /\ Hooks BY <1>2 DEF Next, IInv
  <2>2. WokenForCause BY <2>1, InnerGivesWoken
  <2>3. Resumed /\ Clashed BY <1>2, <2>1, <2>2, InnerStep
  <2> QED BY <1>1, <2>3 DEF IInv, Resumed, Clashed
<1>3. CASE UNCHANGED vars
  <2> USE <1>3 DEF vars, pool, loopvars, epoll, fdevent, switch, timer, timers, kernel, history
  <2>1. CASE clash = {}
    <3>1. Inner BY <2>1 DEF IInv
    <3>2. Inner' BY <3>1, TimersStay, InnerQuiet DEF Inner
    <3> QED BY <1>1, <2>1, <3>2 DEF IInv
  <2>2. CASE clash # {}
    <3>1. ResumedOnlyWhenSuspended' /\ WokenForCause'
      BY <2>2 DEF IInv, ResumedOnlyWhenSuspended, WokenForCause, Sleeping, Call, Fd
    <3> QED BY <1>1, <2>2, <3>1 DEF IInv
  <2> QED BY <2>1, <2>2
<1> QED BY <1>2, <1>3

LEMMA IInvHolds == Spec => [](TypeOK /\ IInv)
<1>1. TypeOK /\ IInv /\ [Next]_vars => (TypeOK /\ IInv)' BY TypeStep, IInvStep DEF IInv
<1> QED BY <1>1, InitHolds, PTL DEF Spec

\* Every variable keeps its type: the loops stay in the states the code has,
\* no thread beyond the pool is ever started, and a coroutine never runs past
\* the end of its program.
THEOREM TypeCorrect == Spec => []TypeOK
BY IInvHolds, PTL

\* Reactor::loop and CoroutineTaskQueue resume a coroutine only where it is
\* suspended, except those that told another thread's epoll before they
\* yielded and those that a connect timeout resumed.
THEOREM ResumedOnlyWhenSuspendedHolds == Spec => []ResumedOnlyWhenSuspended
<1>1. IInv => ResumedOnlyWhenSuspended BY DEF IInv, ResumedOnlyWhenSuspended
<1> QED BY <1>1, IInvHolds, PTL

\* read_hook, write_hook and connect_hook go on after Yield only when the call
\* they make next can succeed, however many threads the coroutine came past.
THEOREM WokenForCauseHolds == Spec => []WokenForCause
<1>1. TypeOK /\ IInv => WokenForCause BY InnerGivesWoken DEF IInv
<1> QED BY <1>1, IInvHolds, PTL

\* Between addEvent, the pending lists, the batches of epoll events and the
\* CoroutineTaskQueue, the descriptor of a waiting coroutine is always somewhere.
THEOREM NotForgottenHolds == Spec => []NotForgotten
<1>1. TypeOK /\ IInv => NotForgotten
  <2>1. clash # {} => NotForgotten BY DEF NotForgotten
  <2> QED BY <2>1, InnerGivesNotForgotten DEF IInv
<1> QED BY <1>1, IInvHolds, PTL
=============================================================================
