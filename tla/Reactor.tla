------------------------------- MODULE Reactor -------------------------------
(***************************************************************************)
(* One flconc::Reactor: the thread that runs loop(), and the other threads *)
(* that hand it closures (addTask), epoll registrations (addEvent,         *)
(* delEvent) and the order to stop (stop).                                 *)
(*                                                                         *)
(* A step is atomic where the code holds m_mutex or touches only what its  *)
(* own thread can see; every unlocked read of a shared flag is a step of   *)
(* its own.  Code that the loop thread runs on behalf of others (tasks,    *)
(* resumed coroutines, timer callbacks) appears as the InLoop actions,     *)
(* which may call the reactor back.                                        *)
(***************************************************************************)
EXTENDS Naturals, Sequences, FiniteSets, Functions

CONSTANTS
  Threads,      \* threads other than the loop thread
  Tasks,        \* closures; each object is handed over at most once
  TaskVectors,  \* the vectors of closures that addTask is called with
  Fds,          \* descriptors watched through callbacks
  m_wake_fd,    \* the eventfd
  Events,       \* interest masks of an epoll_event: a subset of {"in", "out"}
  MAX_EVENTS,   \* size of the array given to epoll_wait
  MaxArrivals,  \* bound: how often the kernel reports a descriptor
  NoTask        \* no closure

ASSUME EventsAssumption == Events \subseteq SUBSET {"in", "out"}
ASSUME VectorAssumption == TaskVectors \subseteq Seq(Tasks)
ASSUME WakeAssumption == m_wake_fd \notin Fds
ASSUME TaskAssumption ==
  /\ NoTask \notin Tasks \cup (Fds \X {"in", "out"})
  /\ Tasks \cap (Fds \X {"in", "out"}) = {}
ASSUME BoundAssumption == MAX_EVENTS \in Nat \ {0} /\ MaxArrivals \in Nat

VARIABLES
  m_is_looping, m_stop_flag,
  m_pending_tasks,    \* vector of closures, guarded by m_mutex
  m_pending_add_fds,  \* map fd -> epoll_event, guarded by m_mutex
  m_pending_del_fds,  \* fds to remove, guarded by m_mutex
  m_fds,              \* what epoll watches: fd -> mask, private to the loop
  wake_fd,            \* the eventfd is readable
  lpc,                \* where the loop thread is in loop()
  tmp_tasks, cur,     \* the swapped-out batch and the task being run
  re_events,          \* events of this epoll_wait still to be handled
  pc,                 \* where each other thread is in a call to the reactor
  ready, arrivals,    \* kernel: what each fd has to report, and how often it did
  submitted, executed,\* history: closures handed over, closures run
  lastReq,            \* history: the last request of another thread per fd
  early               \* history: a wakeup was skipped as loop() had not begun

shared == <<m_pending_tasks, m_pending_add_fds, m_pending_del_fds>>
loopvars == <<lpc, tmp_tasks, cur, re_events, m_fds>>
kernel == <<ready, arrivals>>
history == <<submitted, executed, lastReq, early>>
vars == <<m_is_looping, m_stop_flag, shared, wake_fd, loopvars, pc, kernel, history>>

NoEvent == {"none"}               \* this fd is not in the map
Wake == <<m_wake_fd, "in">>       \* the entry of the eventfd in re_events
Callbacks == Fds \X {"in", "out"} \* getCallBack(READ), getCallBack(WRITE)
Items == Tasks \cup Callbacks
Kinds == {"in", "out", "hup"}
\* What the kernel can have to say of a descriptor.  EPOLLHUP or EPOLLERR beside
\* EPOLLIN or EPOLLOUT makes no difference to loop().
Masks == (SUBSET {"in", "out"} \ {{}}) \cup {{"hup"}}

TypeOK ==
  /\ m_is_looping \in BOOLEAN /\ m_stop_flag \in BOOLEAN /\ wake_fd \in BOOLEAN
  /\ m_pending_tasks \in Seq(Items) /\ tmp_tasks \in Seq(Items)
  /\ cur \in Items \cup {NoTask}
  /\ m_pending_add_fds \in [Fds -> Events \cup {NoEvent}]
  /\ m_pending_del_fds \in SUBSET Fds
  /\ m_fds \in [Fds -> Events \cup {NoEvent}]
  /\ lpc \in {"init", "reset", "top", "resume", "swap", "run", "wait",
              "events", "exit", "done"}
  /\ re_events \in SUBSET ((Fds \X Kinds) \cup {Wake})
  /\ pc \in [Threads -> {"idle", "wakeup", "write", "stop"}]
  /\ ready \in [Fds -> Masks \cup {{}}] /\ arrivals \in 0..MaxArrivals
  /\ submitted \in SUBSET Tasks /\ executed \in SUBSET Tasks
  /\ lastReq \in [Fds -> {"none", "add", "del"}]
  /\ early \in BOOLEAN

Init ==
  /\ m_is_looping = FALSE /\ m_stop_flag = FALSE /\ wake_fd = FALSE
  /\ m_pending_tasks = <<>> /\ tmp_tasks = <<>> /\ cur = NoTask
  /\ m_pending_add_fds = [f \in Fds |-> NoEvent]
  /\ m_pending_del_fds = {}
  /\ m_fds = [f \in Fds |-> NoEvent]
  /\ lpc = "init" /\ re_events = {}
  /\ pc = [t \in Threads |-> "idle"]
  /\ ready = [f \in Fds |-> {}] /\ arrivals = 0
  /\ submitted = {} /\ executed = {}
  /\ lastReq = [f \in Fds |-> "none"] /\ early = FALSE

-----------------------------------------------------------------------------
(* Calls from other threads.  Each locks m_mutex, queues its request and   *)
(* goes on to wakeup(), which reads m_is_looping without the lock.         *)

FreshVector(ts) ==
  /\ ts # <<>>
  /\ Range(ts) \cap submitted = {}
  /\ IsInjective(ts)

\* Mutant: addTask does not wake the loop.
addTask_NoWakeup(t, ts) ==
  /\ pc[t] = "idle" /\ FreshVector(ts)
  /\ m_pending_tasks' = m_pending_tasks \o ts
  /\ submitted' = submitted \cup Range(ts)
  /\ UNCHANGED <<m_is_looping, m_stop_flag, m_pending_add_fds, m_pending_del_fds,
                 wake_fd, loopvars, pc, kernel, executed, lastReq, early>>

addTask(t, ts) ==
  /\ pc[t] = "idle" /\ FreshVector(ts)
  /\ m_pending_tasks' = m_pending_tasks \o ts
  /\ submitted' = submitted \cup Range(ts)
  /\ pc' = [pc EXCEPT ![t] = "wakeup"]
  /\ UNCHANGED <<m_is_looping, m_stop_flag, m_pending_add_fds, m_pending_del_fds,
                 wake_fd, loopvars, kernel, executed, lastReq, early>>

\* std::map::insert keeps the entry that is already there.
InsertPending(fd, ev) ==
  IF m_pending_add_fds[fd] = NoEvent
    THEN [m_pending_add_fds EXCEPT ![fd] = ev]
    ELSE m_pending_add_fds

addEvent(t, fd, ev) ==
  /\ pc[t] = "idle"
  /\ m_pending_add_fds' = InsertPending(fd, ev)
  /\ lastReq' = [lastReq EXCEPT ![fd] = "add"]
  /\ pc' = [pc EXCEPT ![t] = "wakeup"]
  /\ UNCHANGED <<m_is_looping, m_stop_flag, m_pending_tasks, m_pending_del_fds,
                 wake_fd, loopvars, kernel, submitted, executed, early>>

delEvent(t, fd) ==
  /\ pc[t] = "idle"
  /\ m_pending_del_fds' = m_pending_del_fds \cup {fd}
  /\ lastReq' = [lastReq EXCEPT ![fd] = "del"]
  /\ pc' = [pc EXCEPT ![t] = "wakeup"]
  /\ UNCHANGED <<m_is_looping, m_stop_flag, m_pending_tasks, m_pending_add_fds,
                 wake_fd, loopvars, kernel, submitted, executed, early>>

\* stop(): the test of both flags, and the assignment in a later step.
stop(t) ==
  /\ pc[t] = "idle" /\ ~m_stop_flag /\ m_is_looping
  /\ pc' = [pc EXCEPT ![t] = "stop"]
  /\ UNCHANGED <<m_is_looping, m_stop_flag, shared, wake_fd, loopvars, kernel, history>>

\* Mutant: stop() raises the flag and leaves the loop asleep.
SetStopFlag_NoWakeup(t) ==
  /\ pc[t] = "stop"
  /\ m_stop_flag' = TRUE
  /\ pc' = [pc EXCEPT ![t] = "idle"]
  /\ UNCHANGED <<m_is_looping, shared, wake_fd, loopvars, kernel, history>>

SetStopFlag(t) ==
  /\ pc[t] = "stop"
  /\ m_stop_flag' = TRUE
  /\ pc' = [pc EXCEPT ![t] = "wakeup"]
  /\ UNCHANGED <<m_is_looping, shared, wake_fd, loopvars, kernel, history>>

PendingFds == m_pending_del_fds # {} \/ \E f \in Fds : m_pending_add_fds[f] # NoEvent

\* wakeup(): the unlocked read of m_is_looping ...
wakeup(t) ==
  /\ pc[t] = "wakeup"
  /\ pc' = [pc EXCEPT ![t] = IF m_is_looping THEN "write" ELSE "idle"]
  /\ early' = (early \/ (~m_is_looping /\ PendingFds))
  /\ UNCHANGED <<m_is_looping, m_stop_flag, shared, wake_fd, loopvars, kernel,
                 submitted, executed, lastReq>>

\* ... and the write of the eventfd.
WriteWakeFd(t) ==
  /\ pc[t] = "write"
  /\ wake_fd' = TRUE
  /\ pc' = [pc EXCEPT ![t] = "idle"]
  /\ UNCHANGED <<m_is_looping, m_stop_flag, shared, loopvars, kernel, history>>

-----------------------------------------------------------------------------
(* The loop thread.                                                        *)

\* m_is_looping = true, then m_stop_flag = false: two unlocked stores.
EnterLoop ==
  /\ lpc = "init"
  /\ m_is_looping' = TRUE /\ lpc' = "reset"
  /\ UNCHANGED <<m_stop_flag, shared, wake_fd, tmp_tasks, cur, re_events, m_fds,
                 pc, kernel, history>>

ResetStopFlag ==
  /\ lpc = "reset"
  /\ m_stop_flag' = FALSE /\ lpc' = "top"
  /\ UNCHANGED <<m_is_looping, shared, wake_fd, tmp_tasks, cur, re_events, m_fds,
                 pc, kernel, history>>

TestStopFlag ==
  /\ lpc = "top"
  /\ lpc' = IF m_stop_flag THEN "exit" ELSE "resume"
  /\ UNCHANGED <<m_is_looping, m_stop_flag, shared, wake_fd, tmp_tasks, cur,
                 re_events, m_fds, pc, kernel, history>>

\* The coroutines resumed here are InLoop steps; then the loop goes on.
ResumeCoroutines ==
  /\ lpc = "resume" /\ lpc' = "swap"
  /\ UNCHANGED <<m_is_looping, m_stop_flag, shared, wake_fd, tmp_tasks, cur,
                 re_events, m_fds, pc, kernel, history>>

\* Mutant: the pending tasks are copied instead of swapped.
SwapTasks_Copy ==
  /\ lpc = "swap" /\ lpc' = "run"
  /\ tmp_tasks' = m_pending_tasks
  /\ UNCHANGED <<m_is_looping, m_stop_flag, shared, wake_fd, cur, re_events, m_fds,
                 pc, kernel, history>>

SwapTasks ==
  /\ lpc = "swap" /\ lpc' = "run"
  /\ tmp_tasks' = m_pending_tasks /\ m_pending_tasks' = <<>>
  /\ UNCHANGED <<m_is_looping, m_stop_flag, m_pending_add_fds, m_pending_del_fds,
                 wake_fd, cur, re_events, m_fds, pc, kernel, history>>

StartTask ==
  /\ lpc = "run" /\ cur = NoTask /\ tmp_tasks # <<>>
  /\ cur' = Head(tmp_tasks) /\ tmp_tasks' = Tail(tmp_tasks)
  /\ UNCHANGED <<m_is_looping, m_stop_flag, shared, wake_fd, lpc, re_events,
                 m_fds, pc, kernel, history>>

FinishTask ==
  /\ lpc = "run" /\ cur # NoTask
  /\ cur' = NoTask
  /\ executed' = executed \cup ({cur} \cap Tasks)
  /\ UNCHANGED <<m_is_looping, m_stop_flag, shared, wake_fd, lpc, tmp_tasks,
                 re_events, m_fds, pc, kernel, submitted, lastReq, early>>

TasksDone ==
  /\ lpc = "run" /\ cur = NoTask /\ tmp_tasks = <<>>
  /\ lpc' = "wait"
  /\ UNCHANGED <<m_is_looping, m_stop_flag, shared, wake_fd, tmp_tasks, cur,
                 re_events, m_fds, pc, kernel, history>>

\* The kinds of event epoll_wait would report of a descriptor now.
Reported(f) == IF m_fds[f] = NoEvent THEN {} ELSE ready[f] \cap (m_fds[f] \cup {"hup"})

\* The descriptors it can report.  The eventfd is level-triggered.
Reportable == {f \in Fds : Reported(f) # {}} \cup (IF wake_fd THEN {m_wake_fd} ELSE {})

\* One epoll_event may carry both kinds: it is then two entries of re_events.
EpollReturn(batch) ==
  /\ lpc = "wait"
  /\ batch # {} /\ Cardinality(batch) <= MAX_EVENTS
  /\ re_events' = {e \in (Fds \X Kinds) \cup {Wake} :
                     /\ e[1] \in batch
                     /\ e # Wake => e[2] \in Reported(e[1])}
  /\ lpc' = "events"
  /\ ready' = [f \in Fds |-> IF f \in batch THEN {} ELSE ready[f]]
  /\ UNCHANGED <<m_is_looping, m_stop_flag, shared, wake_fd, tmp_tasks, cur,
                 m_fds, pc, arrivals, history>>

\* t_max_epoll_timeout expired: no events, the pending maps are still merged.
EpollTimeout ==
  /\ lpc = "wait" /\ Reportable = {}
  /\ lpc' = "events"
  /\ UNCHANGED <<m_is_looping, m_stop_flag, shared, wake_fd, tmp_tasks, cur,
                 re_events, m_fds, pc, kernel, history>>

\* epoll_wait failed (EINTR): the rest of the iteration is skipped.
EpollError ==
  /\ lpc = "wait" /\ lpc' = "top"
  /\ UNCHANGED <<m_is_looping, m_stop_flag, shared, wake_fd, tmp_tasks, cur,
                 re_events, m_fds, pc, kernel, history>>

DrainWakeFd ==
  /\ lpc = "events" /\ Wake \in re_events
  /\ wake_fd' = FALSE
  /\ re_events' = re_events \ {Wake}
  /\ UNCHANGED <<m_is_looping, m_stop_flag, shared, lpc, tmp_tasks, cur, m_fds,
                 pc, kernel, history>>

\* Neither EPOLLIN nor EPOLLOUT: the descriptor is dropped.
HandleUnknown(fd) ==
  /\ lpc = "events" /\ <<fd, "hup">> \in re_events
  /\ re_events' = re_events \ {<<fd, "hup">>}
  /\ m_fds' = [m_fds EXCEPT ![fd] = NoEvent]
  /\ lastReq' = [lastReq EXCEPT ![fd] = IF @ = "add" THEN "none" ELSE @]
  /\ UNCHANGED <<m_is_looping, m_stop_flag, shared, wake_fd, lpc, tmp_tasks, cur,
                 pc, kernel, submitted, executed, early>>

\* Mutant: the test for events other than EPOLLIN and EPOLLOUT is missing.
HandleReadWrite_Any(fd, k) ==
  /\ lpc = "events" /\ <<fd, k>> \in re_events
  /\ re_events' = re_events \ {<<fd, k>>}
  /\ m_pending_tasks' = Append(m_pending_tasks, <<fd, k>>)
  /\ UNCHANGED <<m_is_looping, m_stop_flag, m_pending_add_fds, m_pending_del_fds,
                 wake_fd, lpc, tmp_tasks, cur, m_fds, pc, kernel, history>>

\* The callback of a descriptor is queued behind the pending tasks, that for
\* EPOLLIN before that for EPOLLOUT, each under a lock of its own.
HandleReadWrite(fd, k) ==
  /\ lpc = "events" /\ <<fd, k>> \in re_events /\ k # "hup"
  /\ k = "out" => <<fd, "in">> \notin re_events
  /\ re_events' = re_events \ {<<fd, k>>}
  /\ m_pending_tasks' = Append(m_pending_tasks, <<fd, k>>)
  /\ UNCHANGED <<m_is_looping, m_stop_flag, m_pending_add_fds, m_pending_del_fds,
                 wake_fd, lpc, tmp_tasks, cur, m_fds, pc, kernel, history>>

\* Mutant: the dels are applied before the adds.
MergedFds_DelFirst ==
  [f \in Fds |-> IF m_pending_add_fds[f] # NoEvent THEN m_pending_add_fds[f]
                 ELSE IF f \in m_pending_del_fds THEN NoEvent
                 ELSE m_fds[f]]

\* All adds are applied, then all dels, whatever the order of the requests.
MergedFds ==
  [f \in Fds |-> IF f \in m_pending_del_fds THEN NoEvent
                 ELSE IF m_pending_add_fds[f] # NoEvent THEN m_pending_add_fds[f]
                 ELSE m_fds[f]]

MergePending ==
  /\ lpc = "events" /\ re_events = {}
  /\ m_fds' = MergedFds
  /\ m_pending_add_fds' = [f \in Fds |-> NoEvent] /\ m_pending_del_fds' = {}
  /\ early' = FALSE
  /\ lpc' = "top"
  /\ UNCHANGED <<m_is_looping, m_stop_flag, m_pending_tasks, wake_fd, tmp_tasks,
                 cur, re_events, pc, kernel, submitted, executed, lastReq>>

LeaveLoop ==
  /\ lpc = "exit"
  /\ m_is_looping' = FALSE /\ lpc' = "done"
  /\ UNCHANGED <<m_stop_flag, shared, wake_fd, tmp_tasks, cur, re_events, m_fds,
                 pc, kernel, history>>

-----------------------------------------------------------------------------
(* Code of others run by the loop thread: a task, a coroutine resumed at   *)
(* the top of an iteration, a callback run while events are handled.  It   *)
(* takes the direct paths of isLoopThread().                               *)

InLoop == lpc \in {"resume", "events"} \/ (lpc = "run" /\ cur # NoTask)

\* Mutant: the loop thread thinks it need not wake itself.
InLoopAddTask_NoWakeup(ts) ==
  /\ InLoop /\ FreshVector(ts)
  /\ m_pending_tasks' = m_pending_tasks \o ts
  /\ submitted' = submitted \cup Range(ts)
  /\ UNCHANGED <<m_is_looping, m_stop_flag, m_pending_add_fds, m_pending_del_fds,
                 wake_fd, loopvars, pc, kernel, executed, lastReq, early>>

InLoopAddTask(ts) ==
  /\ InLoop /\ FreshVector(ts)
  /\ m_pending_tasks' = m_pending_tasks \o ts
  /\ submitted' = submitted \cup Range(ts)
  /\ wake_fd' = TRUE
  /\ UNCHANGED <<m_is_looping, m_stop_flag, m_pending_add_fds, m_pending_del_fds,
                 loopvars, pc, kernel, executed, lastReq, early>>

addEventInLoopThread(fd, ev) ==
  /\ InLoop
  /\ m_fds' = [m_fds EXCEPT ![fd] = ev]
  /\ lastReq' = [lastReq EXCEPT ![fd] = "none"]
  /\ UNCHANGED <<m_is_looping, m_stop_flag, shared, wake_fd, lpc, tmp_tasks, cur,
                 re_events, pc, kernel, submitted, executed, early>>

delEventInLoopThread(fd) ==
  /\ InLoop
  /\ m_fds' = [m_fds EXCEPT ![fd] = NoEvent]
  /\ lastReq' = [lastReq EXCEPT ![fd] = "none"]
  /\ UNCHANGED <<m_is_looping, m_stop_flag, shared, wake_fd, lpc, tmp_tasks, cur,
                 re_events, pc, kernel, submitted, executed, early>>

InLoopStop ==
  /\ InLoop /\ ~m_stop_flag
  /\ m_stop_flag' = TRUE /\ wake_fd' = TRUE
  /\ UNCHANGED <<m_is_looping, shared, loopvars, pc, kernel, history>>

\* The kernel has something to report on a descriptor.
Arrive(fd, mask) ==
  /\ arrivals < MaxArrivals /\ ready[fd] = {}
  /\ ready' = [ready EXCEPT ![fd] = mask] /\ arrivals' = arrivals + 1
  /\ UNCHANGED <<m_is_looping, m_stop_flag, shared, wake_fd, loopvars, pc, history>>

-----------------------------------------------------------------------------
OtherThread(t) ==
  \/ \E ts \in TaskVectors : addTask(t, ts)
  \/ \E fd \in Fds : delEvent(t, fd) \/ \E ev \in Events : addEvent(t, fd, ev)
  \/ stop(t) \/ SetStopFlag(t) \/ wakeup(t) \/ WriteWakeFd(t)

HandleEvent ==
  \/ DrainWakeFd
  \/ \E fd \in Fds : HandleUnknown(fd) \/ \E k \in Kinds : HandleReadWrite(fd, k)

LoopStep ==
  \/ EnterLoop \/ ResetStopFlag \/ TestStopFlag \/ ResumeCoroutines
  \/ SwapTasks \/ StartTask \/ FinishTask \/ TasksDone
  \/ \E batch \in SUBSET Reportable : EpollReturn(batch)
  \/ HandleEvent \/ MergePending \/ LeaveLoop

InLoopStep ==
  \/ \E ts \in TaskVectors : InLoopAddTask(ts)
  \/ \E fd \in Fds : delEventInLoopThread(fd) \/ \E ev \in Events : addEventInLoopThread(fd, ev)
  \/ InLoopStop

Next ==
  \/ \E t \in Threads : OtherThread(t)
  \/ LoopStep \/ InLoopStep \/ EpollTimeout \/ EpollError
  \/ \E fd \in Fds, mask \in Masks : Arrive(fd, mask)

\* A thread inside a call to the reactor finishes it, and the loop thread
\* runs.  Neither the 10 s timeout of epoll_wait nor an error is relied on.
Fairness ==
  /\ WF_vars(LoopStep)
  /\ \A t \in Threads : WF_vars(SetStopFlag(t) \/ wakeup(t) \/ WriteWakeFd(t))

Spec == Init /\ [][Next]_vars /\ Fairness

-----------------------------------------------------------------------------
(* Properties.                                                             *)

\* A wakeup is in the eventfd or on its way there.
Signalled == wake_fd \/ \E t \in Threads : pc[t] \in {"wakeup", "write"}

\* The loop thread is never left asleep in epoll_wait with work to do: while
\* it is blocked, a queued task, a raised stop flag or a queued registration
\* comes with a wakeup that is written or about to be.  The one exception the
\* code has: a registration queued before loop() set m_is_looping skipped its
\* wakeup (early), and waits for the first epoll_wait to end by itself.
NoLostWakeup ==
  lpc = "wait" =>
    /\ m_pending_tasks # <<>> => Signalled
    /\ m_stop_flag => Signalled
    /\ PendingFds => Signalled \/ early

\* A delEvent that is the last request for a descriptor wins once it has been
\* merged, in whatever order requests from several threads were queued: the
\* loop applies the batch of adds before the batch of dels.
LastDelWins ==
  \A f \in Fds :
    lastReq[f] = "del" /\ f \notin m_pending_del_fds => m_fds[f] = NoEvent

\* Tasks and callbacks run one at a time, exactly once and in the order in
\* which addTask accepted them, through the swap of m_pending_tasks and the
\* calls that running tasks make: the reactor implements TaskQueue.
TQ == INSTANCE TaskQueue WITH
        Item <- Items, Once <- Tasks, Idle <- NoTask,
        queue <- tmp_tasks \o m_pending_tasks, accepted <- submitted, running <- cur

ImplementsTaskQueue == TQ!TQSpec

\* Every closure given to addTask is run, although the loop may be asleep when
\* it comes, unless the reactor stops: no timeout of epoll_wait is needed.
TaskEventuallyRuns ==
  \A k \in Tasks : k \in submitted ~> (k \in executed \/ lpc = "done")

\* Once stop() has raised m_stop_flag after loop() cleared it, loop() returns,
\* even from a blocked epoll_wait.
StopEndsLoop == (m_stop_flag /\ lpc \notin {"init", "reset"}) ~> lpc = "done"

\* The inductive strengthening of NoLostWakeup and LastDelWins: how far back
\* from epoll_wait each kind of work must already be signalled, the phases in
\* which a batch of tasks is held, and m_is_looping in terms of the phases.
IInv ==
  /\ m_is_looping <=> lpc \notin {"init", "done"}
  /\ lpc # "run" => tmp_tasks = <<>> /\ cur = NoTask
  /\ lpc \in {"run", "wait"} /\ m_pending_tasks # <<>> => Signalled
  /\ lpc \in {"resume", "swap", "run", "wait"} /\ m_stop_flag => Signalled
  /\ lpc # "events" /\ PendingFds => Signalled \/ early
  /\ LastDelWins
  /\ \A f \in Fds : lastReq[f] = "del" /\ m_pending_add_fds[f] # NoEvent
                      => f \in m_pending_del_fds
=============================================================================
