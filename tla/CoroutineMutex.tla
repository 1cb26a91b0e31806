---------------------------- MODULE CoroutineMutex ----------------------------
(***************************************************************************)
(* flconc::CoroutineMutex used by coroutines of several reactor threads.   *)
(* lock() and unlock() hold m_mutex while they look at m_lock and the      *)
(* queue; the Yield() of a coroutine that must sleep, and the addTask()    *)
(* that has a sleeper resumed, come after m_mutex is released and are      *)
(* steps of their own.  The task runs on the reactor of the thread that    *)
(* called unlock(), so a woken coroutine moves to that thread.             *)
(***************************************************************************)
EXTENDS Naturals, Sequences

CONSTANTS
  Cors,     \* coroutines that use the mutex
  Threads,  \* reactor threads
  NoCor,    \* a null Coroutine*
  MaxRounds \* bound: how often each coroutine locks the mutex

ASSUME NoCorAssumption == NoCor \notin Cors
ASSUME ThreadsAssumption == "none" \notin Threads
ASSUME RoundsAssumption == MaxRounds \in Nat

VARIABLES
  m_lock, m_sleep_cors,  \* the mutex
  pc,      \* where each coroutine is
  popped,  \* the sleeper a coroutine inside unlock() has taken off the queue
  home,    \* the thread a coroutine runs on
  woken,   \* resume tasks queued: coroutine -> thread, or "none"
  broken,  \* a running coroutine was resumed a second time: no further state is defined
  rounds

vars == <<m_lock, m_sleep_cors, pc, popped, home, woken, broken, rounds>>

Pcs == {"out", "yielding", "asleep", "in", "waking"}

TypeOK ==
  /\ m_lock \in BOOLEAN /\ m_sleep_cors \in Seq(Cors)
  /\ pc \in [Cors -> Pcs] /\ popped \in [Cors -> Cors \cup {NoCor}]
  /\ home \in [Cors -> Threads] /\ woken \in [Cors -> Threads \cup {"none"}]
  /\ broken \in BOOLEAN /\ rounds \in [Cors -> 0..MaxRounds]

Init ==
  /\ m_lock = FALSE /\ m_sleep_cors = <<>>
  /\ pc = [c \in Cors |-> "out"] /\ popped = [c \in Cors |-> NoCor]
  /\ home \in [Cors -> Threads] /\ woken = [c \in Cors |-> "none"]
  /\ broken = FALSE /\ rounds = [c \in Cors |-> 0]

\* A coroutine inside lock() or unlock() keeps its thread to itself.
Occupied(t) == \E d \in Cors : home[d] = t /\ pc[d] \in {"yielding", "waking"}

\* Mutant: a sleeper is not put into the queue.
lock_NoPush(c) ==
  /\ ~broken /\ pc[c] = "out" /\ ~Occupied(home[c]) /\ rounds[c] < MaxRounds
  /\ rounds' = [rounds EXCEPT ![c] = @ + 1]
  /\ m_lock' = TRUE
  /\ pc' = [pc EXCEPT ![c] = IF m_lock THEN "yielding" ELSE "in"]
  /\ UNCHANGED <<m_sleep_cors, popped, home, woken, broken>>

lock(c) ==
  /\ ~broken /\ pc[c] = "out" /\ ~Occupied(home[c]) /\ rounds[c] < MaxRounds
  /\ rounds' = [rounds EXCEPT ![c] = @ + 1]
  /\ IF ~m_lock
       THEN /\ m_lock' = TRUE
            /\ pc' = [pc EXCEPT ![c] = "in"]
            /\ UNCHANGED m_sleep_cors
       ELSE /\ m_sleep_cors' = Append(m_sleep_cors, c)
            /\ pc' = [pc EXCEPT ![c] = "yielding"]
            /\ UNCHANGED m_lock
  /\ UNCHANGED <<popped, home, woken, broken>>

\* The Coroutine::Yield() at the end of lock().
Yield(c) ==
  /\ ~broken /\ pc[c] = "yielding"
  /\ pc' = [pc EXCEPT ![c] = "asleep"]
  /\ UNCHANGED <<m_lock, m_sleep_cors, popped, home, woken, broken, rounds>>

\* Mutant: the queue is not tested, and front() of an empty queue is a wild pointer.
unlock_NoTest(c) ==
  /\ ~broken /\ pc[c] = "in" /\ ~Occupied(home[c])
  /\ m_lock' = FALSE
  /\ IF m_lock
       THEN /\ popped' = [popped EXCEPT ![c] = IF m_sleep_cors = <<>> THEN "wild"
                                              ELSE Head(m_sleep_cors)]
            /\ m_sleep_cors' = IF m_sleep_cors = <<>> THEN <<>> ELSE Tail(m_sleep_cors)
            /\ pc' = [pc EXCEPT ![c] = "waking"]
       ELSE pc' = [pc EXCEPT ![c] = "out"] /\ UNCHANGED <<popped, m_sleep_cors>>
  /\ UNCHANGED <<home, woken, broken, rounds>>

\* unlock(): nothing happens to the sleepers when m_lock is already clear.
unlock(c) ==
  /\ ~broken /\ pc[c] = "in" /\ ~Occupied(home[c])
  /\ m_lock' = FALSE
  /\ IF m_lock /\ m_sleep_cors # <<>>
       THEN /\ popped' = [popped EXCEPT ![c] = Head(m_sleep_cors)]
            /\ m_sleep_cors' = Tail(m_sleep_cors)
            /\ pc' = [pc EXCEPT ![c] = "waking"]
       ELSE /\ pc' = [pc EXCEPT ![c] = "out"]
            /\ UNCHANGED <<popped, m_sleep_cors>>
  /\ UNCHANGED <<home, woken, broken, rounds>>

\* Mutant: the sleeper is taken off the queue and the resume task is forgotten.
AddResumeTask_Forget(c) ==
  /\ ~broken /\ pc[c] = "waking"
  /\ popped' = [popped EXCEPT ![c] = NoCor]
  /\ pc' = [pc EXCEPT ![c] = "out"]
  /\ UNCHANGED <<m_lock, m_sleep_cors, woken, home, broken, rounds>>

\* GetReactor()->addTask(...): the reactor of the unlocking thread.
AddResumeTask(c) ==
  /\ ~broken /\ pc[c] = "waking"
  /\ woken' = [woken EXCEPT ![popped[c]] = home[c]]
  /\ popped' = [popped EXCEPT ![c] = NoCor]
  /\ pc' = [pc EXCEPT ![c] = "out"]
  /\ UNCHANGED <<m_lock, m_sleep_cors, home, broken, rounds>>

\* The reactor runs the task: Coroutine::Resume.  A coroutine that has yielded
\* returns from lock(); one that is still on its way to Yield() in another
\* thread would run twice.
Resume(c) ==
  /\ ~broken /\ woken[c] # "none" /\ ~Occupied(woken[c])
  /\ IF pc[c] = "asleep"
       THEN /\ pc' = [pc EXCEPT ![c] = "in"]
            /\ home' = [home EXCEPT ![c] = woken[c]]
            /\ woken' = [woken EXCEPT ![c] = "none"]
            /\ UNCHANGED broken
       ELSE broken' = TRUE /\ UNCHANGED <<pc, home, woken>>
  /\ UNCHANGED <<m_lock, m_sleep_cors, popped, rounds>>

Next == \E c \in Cors : lock(c) \/ Yield(c) \/ unlock(c) \/ AddResumeTask(c) \/ Resume(c)

\* A coroutine inside lock() or unlock() goes on, reactors run their tasks, and
\* the user of the mutex leaves its critical section.
Fairness == \A c \in Cors :
  WF_vars(Yield(c)) /\ WF_vars(unlock(c)) /\ WF_vars(AddResumeTask(c)) /\ SF_vars(Resume(c))

Spec == Init /\ [][Next]_vars /\ Fairness

-----------------------------------------------------------------------------
\* A waiting coroutine is in exactly one place: once in the queue, in the hands
\* of one unlock(), or in one resume task; a coroutine that is not waiting is in
\* none of them.  So each lock() that has to wait is resumed at most once, and
\* no coroutine is resumed that does not wait.
Queued(c) == \E i \in DOMAIN m_sleep_cors : m_sleep_cors[i] = c
InHands(c) == \E d \in Cors : popped[d] = c
HasTask(c) == woken[c] # "none"

OnePlace ==
  /\ \A i, j \in DOMAIN m_sleep_cors : m_sleep_cors[i] = m_sleep_cors[j] => i = j
  /\ \A d, e \in Cors : popped[d] = popped[e] /\ popped[d] # NoCor => d = e
  /\ \A c \in Cors :
       /\ pc[c] \in {"yielding", "asleep"} <=> Queued(c) \/ InHands(c) \/ HasTask(c)
       /\ ~(Queued(c) /\ InHands(c)) /\ ~(Queued(c) /\ HasTask(c)) /\ ~(InHands(c) /\ HasTask(c))

\* A sleeper that unlock() took off the queue enters its critical section.
PoppedEnters ==
  \A c \in Cors :
    (\E d \in Cors : popped[d] = c) ~> (pc[c] = "in" \/ broken)

\* What the handlers of the test service take for granted between lock() and
\* unlock(): no two coroutines are inside.
MutualExclusion == \A c, d \in Cors : pc[c] = "in" /\ pc[d] = "in" => c = d

\* Who is inside unlock() with a sleeper in its hands: makes OnePlace inductive.
IInv == OnePlace /\ \A c \in Cors : pc[c] = "waking" <=> popped[c] # NoCor
=============================================================================
