------------------------------ MODULE TcpServer ------------------------------
(***************************************************************************)
(* The life of the connections of a flconc::TcpServer.                     *)
(*                                                                         *)
(* The main thread accepts clients, keeps them in m_clients, refreshes and *)
(* turns the time wheel, and resets closed connections.  It runs one       *)
(* handler at a time.  The coroutine of each connection runs on an IO      *)
(* thread: input(), execute(), output(), and clearClient() once the peer   *)
(* is gone.  IO threads and the main thread interleave; between two steps  *)
(* of a handler that both sides can observe (closing the descriptor,       *)
(* testing and setting m_state) the other side may run.  The coroutines of *)
(* one IO thread alternate only where one may yield: in read_hook(), in    *)
(* write_hook() and in the service that execute() calls.                   *)
(*                                                                         *)
(* A TcpConnection object exists from its creation until m_clients lets go *)
(* of it: m_clients has the only lasting shared_ptr.  What the code does   *)
(* to an object that is gone is undefined; the model keeps the fields of   *)
(* every connection apart, so such a step harms no other connection, and   *)
(* UsedOnlyWhileAlive says where it happens.                               *)
(***************************************************************************)
EXTENDS Integers, Sequences, FiniteSets, Functions

CONSTANTS
  Protocol,    \* m_protocal_type: that of the server and of its clients
  MaxThreads,  \* bound: threads in the IOThreadPool
  Fds,         \* descriptors the kernel gives to accepted sockets
  MaxConns,    \* bound: connections accepted in one behaviour
  PoolSize,    \* m_pool_size, coroutines of CoroutinePool
  BucketCount, \* m_bucket_count of the time wheel
  MaxUnread,   \* bound: chunks of data waiting in a socket
  MaxFresh     \* bound: fresh() tasks of one connection queued at the main reactor

ASSUME ProtocolAssumption == Protocol \in {"FlconcPb_Protocal", "Http_Protocal"}
ASSUME ThreadsAssumption == MaxThreads \in Nat \ {0}
ASSUME ConnsAssumption == MaxConns \in Nat
ASSUME PoolAssumption == PoolSize \in Nat \ {0}
ASSUME BucketAssumption == BucketCount \in Nat \ {0}
ASSUME UnreadAssumption == MaxUnread \in Nat /\ MaxFresh \in Nat

VARIABLES
  m_size,     \* threads of the IOThreadPool
  accepted,   \* connections created so far; they are numbered
  accepting,  \* the accept coroutine waits in accept_hook()
  m_clients,  \* descriptor -> connection, 0 for none or a reset pointer
  m_state,    \* TcpConnectionState of each connection
  fdOf,       \* m_fd of each connection
  fdOpen,     \* connections whose descriptor is open
  stackOf,    \* the coroutine a connection runs on: its place in the pool, or beyond it
  taken,      \* coroutines and stack blocks marked as given out
  inCoFunc,   \* m_is_in_cofunc of the coroutines of the pool
  pc,         \* where the coroutine of a connection is
  m_wheel,    \* the buckets, front first, each with the connections of its slots
  tasks,      \* fresh() tasks queued at the main reactor
  mpc, dying, cur, \* loopFunc(): place, slots being destroyed, slot at hand
  unread, peerClosed, shut,  \* sockets: data, closed by the peer, shut down here
  reply,      \* connections with data in m_write_buffer
  idle        \* history: turns of the wheel since fresh() ran for a connection

coVars == <<inCoFunc, pc>>
sockVars == <<unread, peerClosed, shut>>
wheelVars == <<m_wheel, mpc, dying, cur, idle>>
serverVars == <<m_size, accepted, accepting, m_clients, fdOf, stackOf, taken>>
vars == <<serverVars, coVars, sockVars, wheelVars, m_state, fdOpen, tasks, reply>>

Conns == 1..MaxConns
NoConn == 0
Stacks == 1..(PoolSize + MaxConns)

\* "queued": its first Resume is a task of an IO reactor; "clear", "closed", "yield":
\* before close(), before setState(Closed), before the last Yield() of input();
\* "spin": in the loop of execute() for good.
Pcs == {"none", "queued", "input", "fresh", "execute", "output", "spin",
        "clear", "closed", "yield", "gone"}

\* getIOThread() hands the threads out in turn.
getIOThread(c) == (c - 1) % m_size

\* The thread is free for the coroutine of c: no other coroutine of it is at a
\* place where it does not yield.
CanRun(c) ==
  \A d \in Conns : getIOThread(d) = getIOThread(c) /\ d # c
                    => pc[d] \notin {"fresh", "clear", "closed", "yield", "spin"}

States == {"NotConnected", "Connected", "HalfClosing", "Closed"}

TypeOK ==
  /\ m_size \in 1..MaxThreads
  /\ accepted \in 0..MaxConns /\ accepting \in BOOLEAN
  /\ m_clients \in [Fds -> Conns \cup {NoConn}]
  /\ m_state \in [Conns -> States] /\ fdOf \in [Conns -> Fds \cup {-1}]
  /\ fdOpen \subseteq Conns /\ stackOf \in [Conns -> Stacks]
  /\ taken \subseteq Stacks /\ inCoFunc \subseteq 1..PoolSize
  /\ pc \in [Conns -> Pcs]
  /\ m_wheel \in [1..BucketCount -> SUBSET Conns] /\ tasks \in Seq(Conns)
  /\ mpc \in {"idle", "slots", "half", "shutdown"}
  /\ dying \subseteq Conns /\ cur \in Conns \cup {NoConn}
  /\ unread \in [Conns -> 0..MaxUnread]
  /\ peerClosed \subseteq Conns /\ shut \subseteq Conns /\ reply \subseteq Conns
  /\ idle \in [Conns -> 0..BucketCount]

(***************************************************************************)
(* start(): the accept coroutine has the first coroutine of the pool and   *)
(* has run into accept_hook(); m_wheel has its empty buckets.              *)
(***************************************************************************)
Init ==
  /\ m_size \in 1..MaxThreads
  /\ accepted = 0 /\ accepting = TRUE
  /\ m_clients = [f \in Fds |-> NoConn]
  /\ m_state = [c \in Conns |-> "NotConnected"] /\ fdOf = [c \in Conns |-> -1]
  /\ fdOpen = {} /\ stackOf = [c \in Conns |-> 1]
  /\ taken = {1} /\ inCoFunc = {1}
  /\ pc = [c \in Conns |-> "none"]
  /\ m_wheel = [i \in 1..BucketCount |-> {}] /\ tasks = <<>>
  /\ mpc = "idle" /\ dying = {} /\ cur = NoConn
  /\ unread = [c \in Conns |-> 0]
  /\ peerClosed = {} /\ shut = {} /\ reply = {}
  /\ idle = [c \in Conns |-> 0]

Alive(c) == \E f \in Fds : m_clients[f] = c

\* A slot lives while a bucket or a queued task holds it.
SlotAlive(c) == c \in Range(tasks) \/ \E i \in 1..BucketCount : c \in m_wheel[i]

-----------------------------------------------------------------------------
(***************************************************************************)
(* CoroutinePool.  Coroutines 1..PoolSize are those of m_free_cors; the    *)
(* others stand for the stack blocks of the further Memory objects, which  *)
(* are searched in order and made when all are taken.                      *)
(***************************************************************************)
\* Mutant: a coroutine of the pool is given out although it is in CoFunction().
getCoroutineInstanse_NoCoFunc(k, used) ==
  LET free == 1..PoolSize \ used IN
  LET blocks == (PoolSize + 1)..(PoolSize + MaxConns) \ used IN
  \/ k \in free /\ \A j \in free : k <= j
  \/ free = {} /\ k \in blocks /\ \A j \in blocks : k <= j

\* The coroutine that getCoroutineInstanse() returns when `used` are given out.
getCoroutineInstanse(k, used) ==
  LET free == 1..PoolSize \ (used \cup inCoFunc) IN
  LET blocks == (PoolSize + 1)..(PoolSize + MaxConns) \ used IN
  \/ k \in free /\ \A j \in free : k <= j
  \/ free = {} /\ k \in blocks /\ \A j \in blocks : k <= j

\* ~TcpConnection() of the connections in C: what is still given out.
returnCoroutine(C) == taken \ {stackOf[c] : c \in C}

-----------------------------------------------------------------------------
(***************************************************************************)
(* The main thread.                                                        *)
(***************************************************************************)
\* The constructor of a connection; given out already are the coroutines `used`.
TcpConnection(c, f, used) ==
  /\ \E k \in Stacks :
       /\ getCoroutineInstanse(k, used)
       /\ stackOf' = [stackOf EXCEPT ![c] = k] /\ taken' = used \cup {k}
  /\ m_state' = [m_state EXCEPT ![c] = "Connected"]
  /\ fdOf' = [fdOf EXCEPT ![c] = f]

registerToTimeWheel(c) == tasks' = Append(tasks, c)

\* One turn of MainAcceptCorFunc(): the kernel gives the new socket any
\* descriptor that is not open, addClient() resets what m_clients has under
\* it and makes the connection, initServer() queues the first fresh(), and
\* the coroutine is handed to an IO reactor.
Accept(f) ==
  LET c == accepted + 1 IN
  /\ mpc = "idle" /\ accepting /\ accepted < MaxConns
  /\ ~\E d \in fdOpen : fdOf[d] = f
  /\ accepted' = c /\ fdOpen' = fdOpen \cup {c}
  /\ m_clients' = [m_clients EXCEPT ![f] = c]
  /\ TcpConnection(c, f, returnCoroutine({d \in 1..accepted : m_clients[f] = d}))
  /\ registerToTimeWheel(c)
  /\ pc' = [pc EXCEPT ![c] = "queued"]
  /\ UNCHANGED <<m_size, accepting, inCoFunc, sockVars, wheelVars, reply>>

\* accept() fails after the wait (no descriptors left, client gone): the
\* coroutine yields, and accept_hook() has already taken its descriptor out of
\* epoll and cleared the coroutine of the FdEvent, so nothing resumes it.
\* (After the last of MaxConns connections it would make no difference.)
AcceptFailed ==
  /\ mpc = "idle" /\ accepting /\ accepted < MaxConns /\ accepting' = FALSE
  /\ UNCHANGED <<m_size, accepted, m_clients, fdOf, stackOf, taken, coVars, sockVars, wheelVars,
                 m_state, fdOpen, tasks, reply>>

\* Mutant: the refreshed slot goes into the oldest bucket.
fresh_Front ==
  /\ mpc = "idle" /\ tasks # <<>>
  /\ m_wheel' = [m_wheel EXCEPT ![1] = @ \cup {Head(tasks)}]
  /\ idle' = [idle EXCEPT ![Head(tasks)] = 0]
  /\ tasks' = Tail(tasks)
  /\ UNCHANGED <<serverVars, coVars, sockVars, mpc, dying, cur, m_state, fdOpen, reply>>

\* A task made by freshTcpConnection().
fresh ==
  /\ mpc = "idle" /\ tasks # <<>>
  /\ m_wheel' = [m_wheel EXCEPT ![BucketCount] = @ \cup {Head(tasks)}]
  /\ idle' = [idle EXCEPT ![Head(tasks)] = 0]
  /\ tasks' = Tail(tasks)
  /\ UNCHANGED <<serverVars, coVars, sockVars, mpc, dying, cur, m_state, fdOpen, reply>>

\* Mutant: no new bucket is pushed for the one popped.
loopFunc_NoPush ==
  /\ mpc = "idle"
  /\ m_wheel' = [i \in 1..(BucketCount - 1) |-> m_wheel[i + 1]]
  /\ UNCHANGED <<serverVars, coVars, sockVars, mpc, dying, cur, idle, m_state, fdOpen, tasks, reply>>

\* The timer of the wheel: the front bucket goes, and with it the slots that
\* nothing else holds.
loopFunc ==
  /\ mpc = "idle"
  /\ m_wheel' = [i \in 1..BucketCount |-> IF i = BucketCount THEN {} ELSE m_wheel[i + 1]]
  /\ dying' = {c \in m_wheel[1] : c \notin Range(tasks)
                                  /\ \A i \in 2..BucketCount : c \notin m_wheel[i]}
  /\ mpc' = IF dying' = {} THEN "idle" ELSE "slots"
  /\ idle' = [c \in Conns |-> IF idle[c] < BucketCount THEN idle[c] + 1 ELSE idle[c]]
  /\ UNCHANGED <<serverVars, coVars, sockVars, cur, m_state, fdOpen, tasks, reply>>

\* Mutant: the slot has a shared_ptr to the connection instead of a weak_ptr.
lock_Shared(c) == TRUE

\* m_weak_ptr.lock() in ~AbstractSlot().
lock(c) == Alive(c)

\* ~AbstractSlot() up to the test of the state in shutdownConnection().
SlotDestroyed(c) ==
  /\ mpc = "slots" /\ c \in dying /\ dying' = dying \ {c}
  /\ IF lock(c) /\ m_state[c] \notin {"Closed", "NotConnected"}
       THEN cur' = c /\ mpc' = "half"
       ELSE cur' = NoConn /\ mpc' = IF dying' = {} THEN "idle" ELSE "slots"
  /\ UNCHANGED <<serverVars, coVars, sockVars, m_wheel, idle, m_state, fdOpen, tasks, reply>>

SetHalfClosing ==
  /\ mpc = "half" /\ mpc' = "shutdown"
  /\ m_state' = [m_state EXCEPT ![cur] = "HalfClosing"]
  /\ UNCHANGED <<serverVars, coVars, sockVars, m_wheel, dying, cur, idle, fdOpen, tasks, reply>>

\* shutdown(fd, SHUT_RDWR) reaches whichever socket has the number now.
Shutdown ==
  /\ mpc = "shutdown"
  /\ shut' = shut \cup {d \in fdOpen : fdOf[d] = fdOf[cur]}
  /\ cur' = NoConn /\ mpc' = IF dying = {} THEN "idle" ELSE "slots"
  /\ UNCHANGED <<serverVars, coVars, unread, peerClosed, m_wheel, dying, idle,
                 m_state, fdOpen, tasks, reply>>

\* Mutant: connections that are only shut down are reset too.
ClearClientTimerFunc_HalfClosing ==
  /\ mpc = "idle"
  /\ LET gone == {c \in Conns : Alive(c) /\ m_state[c] # "Connected"} IN
       /\ gone # {}
       /\ m_clients' = [f \in Fds |-> IF m_clients[f] \in gone THEN NoConn ELSE m_clients[f]]
       /\ taken' = returnCoroutine(gone)
  /\ UNCHANGED <<m_size, accepted, accepting, fdOf, stackOf, coVars, sockVars, wheelVars,
                 m_state, fdOpen, tasks, reply>>

\* The 10 s timer: every connection seen Closed is reset, which destroys it.
ClearClientTimerFunc ==
  /\ mpc = "idle"
  /\ LET gone == {c \in Conns : Alive(c) /\ m_state[c] = "Closed"} IN
       /\ gone # {}
       /\ m_clients' = [f \in Fds |-> IF m_clients[f] \in gone THEN NoConn ELSE m_clients[f]]
       /\ taken' = returnCoroutine(gone)
  /\ UNCHANGED <<m_size, accepted, accepting, fdOf, stackOf, coVars, sockVars, wheelVars,
                 m_state, fdOpen, tasks, reply>>

-----------------------------------------------------------------------------
(***************************************************************************)
(* The coroutine of connection c, MainServerLoopCorFunc().                 *)
(***************************************************************************)
Goto(c, place) == pc' = [pc EXCEPT ![c] = place]

\* The IO reactor runs the task of addCoroutine(): CoFunction() begins.
Begin(c) ==
  /\ pc[c] = "queued" /\ CanRun(c) /\ Goto(c, "input")
  /\ inCoFunc' = inCoFunc \cup ({stackOf[c]} \cap 1..PoolSize)
  /\ UNCHANGED <<serverVars, sockVars, wheelVars, m_state, fdOpen, tasks, reply>>

\* read_hook() returns data once the socket is readable.  A read that fills the
\* free part of the buffer makes input() read again, else everything was read.
Read(c, full) ==
  /\ pc[c] = "input" /\ CanRun(c) /\ unread[c] > 0
  /\ IF full
       THEN \E left \in 0..(unread[c] - 1) : unread' = [unread EXCEPT ![c] = left]
            /\ UNCHANGED pc
       ELSE unread' = [unread EXCEPT ![c] = 0] /\ Goto(c, "fresh")
  /\ UNCHANGED <<serverVars, inCoFunc, peerClosed, shut, wheelVars, m_state, fdOpen, tasks, reply>>

\* read_hook() returns 0: the peer closed, or the time wheel shut the socket down.
ReadEnd(c) ==
  /\ pc[c] = "input" /\ CanRun(c) /\ unread[c] = 0 /\ (c \in peerClosed \/ c \in shut)
  /\ Goto(c, "clear")
  /\ UNCHANGED <<serverVars, inCoFunc, sockVars, wheelVars, m_state, fdOpen, tasks, reply>>

\* The end of input(): freshTcpConnection() if m_weak_slot can be locked.
Refresh(c) ==
  /\ pc[c] = "fresh" /\ CanRun(c) /\ Goto(c, "execute")
  /\ IF SlotAlive(c)
       THEN /\ Cardinality({i \in DOMAIN tasks : tasks[i] = c}) < MaxFresh
            /\ tasks' = Append(tasks, c)
       ELSE UNCHANGED tasks
  /\ UNCHANGED <<serverVars, inCoFunc, sockVars, wheelVars, m_state, fdOpen, reply>>

\* execute(): the requests decoded are dispatched and their replies put into the
\* write buffer; with an incomplete or broken request there may be none.
execute(c) ==
  /\ pc[c] = "execute" /\ CanRun(c) /\ Goto(c, "output")
  /\ reply' \in {reply, reply \cup {c}}
  /\ UNCHANGED <<serverVars, inCoFunc, sockVars, wheelVars, m_state, fdOpen, tasks>>

\* HttpCodeC::decode() finds the CRLF of the request line at the end of the
\* buffer: it reports success and consumes nothing.  The loop of execute()
\* dispatches this request, puts a reply into the write buffer, finds the same
\* readable bytes again, and so on for ever, without a Yield().
DecodeNothing(c) ==
  /\ Protocol = "Http_Protocal"
  /\ pc[c] = "execute" /\ CanRun(c) /\ Goto(c, "spin")
  /\ reply' = reply \cup {c}
  /\ UNCHANGED <<serverVars, inCoFunc, sockVars, wheelVars, m_state, fdOpen, tasks>>

\* Mutant: output() does not look at the state.
OutputDone_NoState(c) ==
  /\ pc[c] = "output" /\ CanRun(c) /\ c \notin reply
  /\ Goto(c, "input")
  /\ UNCHANGED <<serverVars, inCoFunc, sockVars, wheelVars, m_state, fdOpen, tasks, reply>>

\* output() ends: not Connected any more, or nothing (left) to write.
OutputDone(c) ==
  /\ pc[c] = "output" /\ CanRun(c) /\ (m_state[c] # "Connected" \/ c \notin reply)
  /\ Goto(c, "input")
  /\ UNCHANGED <<serverVars, inCoFunc, sockVars, wheelVars, m_state, fdOpen, tasks, reply>>

\* write_hook() has written all; one that wrote a part, or failed, is tried again
\* and changes nothing here.
Write(c) ==
  /\ pc[c] = "output" /\ CanRun(c) /\ m_state[c] = "Connected" /\ c \in reply /\ c \notin shut
  /\ reply' = reply \ {c}
  /\ UNCHANGED <<serverVars, coVars, sockVars, wheelVars, m_state, fdOpen, tasks>>

\* clearClient(): unregisterFromReactor(), m_stop, close().
clearClient(c) ==
  /\ pc[c] = "clear" /\ CanRun(c) /\ Goto(c, "closed")
  /\ fdOpen' = fdOpen \ {c}
  /\ UNCHANGED <<serverVars, inCoFunc, sockVars, wheelVars, m_state, tasks, reply>>

\* The last statement of clearClient().
SetClosed(c) ==
  /\ pc[c] = "closed" /\ CanRun(c) /\ Goto(c, "yield")
  /\ m_state' = [m_state EXCEPT ![c] = "Closed"]
  /\ UNCHANGED <<serverVars, inCoFunc, sockVars, wheelVars, fdOpen, tasks, reply>>

\* setCanResume(false) and Yield(): the coroutine never runs again and stays in
\* CoFunction().
YieldForGood(c) ==
  /\ pc[c] = "yield" /\ CanRun(c) /\ Goto(c, "gone")
  /\ UNCHANGED <<serverVars, inCoFunc, sockVars, wheelVars, m_state, fdOpen, tasks, reply>>

-----------------------------------------------------------------------------
(***************************************************************************)
(* Clients.                                                                *)
(***************************************************************************)
Send(c) ==
  /\ c \in fdOpen /\ c \notin peerClosed /\ unread[c] < MaxUnread
  /\ unread' = [unread EXCEPT ![c] = @ + 1]
  /\ UNCHANGED <<serverVars, coVars, peerClosed, shut, wheelVars, m_state, fdOpen, tasks, reply>>

PeerClose(c) ==
  /\ c \in fdOpen /\ c \notin peerClosed /\ peerClosed' = peerClosed \cup {c}
  /\ UNCHANGED <<serverVars, coVars, unread, shut, wheelVars, m_state, fdOpen, tasks, reply>>

\* The rest of loopFunc().
Destroy == SetHalfClosing \/ Shutdown \/ \E c \in Conns : SlotDestroyed(c)

Main ==
  \/ \E f \in Fds : Accept(f)
  \/ AcceptFailed \/ fresh \/ loopFunc \/ Destroy \/ ClearClientTimerFunc

\* What the coroutine does without waiting for more from a client.
Proceed(c) ==
  \/ Begin(c) \/ Read(c, FALSE) \/ ReadEnd(c) \/ Refresh(c) \/ execute(c) \/ OutputDone(c)
  \/ clearClient(c) \/ SetClosed(c) \/ YieldForGood(c)

Client(c) == Send(c) \/ PeerClose(c)

Next ==
  \/ Main
  \/ \E c \in Conns : Proceed(c) \/ Read(c, TRUE) \/ DecodeNothing(c) \/ Write(c) \/ Client(c)

\* IO reactors resume what is ready, also while others of the thread become ready
\* again and again, the wheel turns for ever, loopFunc() ends, and the main reactor
\* drains its tasks in every iteration, whatever the timer does meanwhile.
Fairness ==
  /\ WF_vars(loopFunc) /\ WF_vars(Destroy) /\ SF_vars(fresh)
  /\ \A c \in Conns : SF_vars(Proceed(c))

Spec == Init /\ [][Next]_vars /\ Fairness

-----------------------------------------------------------------------------
\* ~TcpConnection() does not close the descriptor, so a connection that m_clients
\* lets go of must have closed it: no open descriptor is ever without an owner.
NoFdLeak == \A c \in fdOpen : Alive(c) /\ m_clients[fdOf[c]] = c

\* The time wheel of the main thread shuts a descriptor down after it has tested
\* the state, while the IO thread may close it: the number never belongs to
\* another connection by then.
ShutdownOwnSocket ==
  mpc \in {"half", "shutdown"} => \A d \in fdOpen : fdOf[d] = fdOf[cur] => d = cur

\* Two connections never run on the same coroutine of the pool at once, also when
\* the first one's object is destroyed while its coroutine has yet to yield.
PooledStackExclusive ==
  \A c, d \in 1..accepted :
    stackOf[c] = stackOf[d] /\ stackOf[c] <= PoolSize => c = d \/ "gone" \in {pc[c], pc[d]}

\* The wheel shuts a connection down after exactly BucketCount turns without
\* input: not earlier, and not later, unless a fresh() is on its way.
IdleWindow ==
  \A c \in 1..accepted :
    /\ m_state[c] = "HalfClosing" => idle[c] = BucketCount
    /\ m_state[c] = "Connected" /\ idle[c] = BucketCount
         => c \in Range(tasks) \/ c \in dying \/ c = cur \/ ~Alive(c)

\* A coroutine of the connection's thread is in the endless loop of execute().
ThreadSpins(c) == \E d \in Conns : getIOThread(d) = getIOThread(c) /\ pc[d] = "spin"

\* Once the peer has closed, the server closes its side too, also when the
\* coroutine is stuck in output() with a reply nobody takes.  A server of the
\* flconcpb protocol always does; one of HTTP unless the thread of the connection
\* is lost to DecodeNothing, and then the connections of other threads go on.
PeerCloseReleases ==
  \A c \in Conns : c \in peerClosed ~> (c \notin fdOpen \/ ThreadSpins(c))

\* tcp_connection.cc:165: a connection is cleared by the main thread after its
\* coroutine has yielded; until its last use of the object, the object exists.
UsedOnlyWhileAlive ==
  \A c \in 1..accepted : pc[c] \notin {"yield", "gone"} => Alive(c)

-----------------------------------------------------------------------------
(***************************************************************************)
(* The inductive invariant.                                                *)
(***************************************************************************)
\* The descriptor is open until clearClient(), and Closed comes after it.
Places ==
  \A c \in Conns :
    /\ c > accepted => pc[c] = "none" /\ m_state[c] = "NotConnected"
    /\ c <= accepted => pc[c] # "none" /\ fdOf[c] \in Fds
    /\ c \in fdOpen <=> pc[c] \in {"queued", "input", "fresh", "execute", "output", "spin", "clear"}
    /\ m_state[c] = "Closed" => pc[c] \in {"yield", "gone"}

\* m_clients knows a connection under its own descriptor, and every open one.
Clients ==
  /\ \A f \in Fds : m_clients[f] # NoConn => m_clients[f] <= accepted /\ fdOf[m_clients[f]] = f
  /\ \A c \in fdOpen : m_clients[fdOf[c]] = c

\* A coroutine of the pool serves one connection only: it is given out until it
\* runs, and in CoFunction() ever after.
Pool ==
  \A c \in 1..accepted : stackOf[c] <= PoolSize =>
    /\ stackOf[c] \in taken \cup inCoFunc
    /\ pc[c] # "queued" => stackOf[c] \in inCoFunc
    /\ \A d \in 1..accepted : stackOf[d] = stackOf[c] => d = c

\* loopFunc() has a slot at hand only while it destroys slots.
Handler ==
  /\ mpc \in {"idle", "slots"} => cur = NoConn
  /\ mpc = "idle" => dying = {}
  /\ mpc \in {"half", "shutdown"} => cur \in Conns /\ m_state[cur] # "NotConnected"
  /\ mpc = "shutdown" => m_state[cur] # "Connected"

\* A slot refreshed idle[c] turns ago is in the bucket that many places before
\* the last, and in none after it; a slot that is being destroyed is gone for good.
Wheel ==
  \A c \in Conns :
    /\ SlotAlive(c) => c <= accepted
    /\ \A i \in 1..BucketCount : c \in m_wheel[i] => i + idle[c] <= BucketCount
    /\ c <= accepted /\ idle[c] < BucketCount /\ c \notin Range(tasks)
         => c \in m_wheel[BucketCount - idle[c]]
    /\ c \in dying \/ c = cur \/ m_state[c] = "HalfClosing"
         => idle[c] = BucketCount /\ ~SlotAlive(c)

IInv == Places /\ Clients /\ Pool /\ Handler /\ ShutdownOwnSocket /\ Wheel /\ IdleWindow
=============================================================================
