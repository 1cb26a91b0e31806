--------------------------- MODULE Reactor_proofs ----------------------------
(***************************************************************************)
(* Proofs about Reactor, for any number of threads, tasks and descriptors. *)
(***************************************************************************)
EXTENDS Reactor, SequenceTheorems, TLAPS

\* A vector given to addTask is a sequence of queue items.
LEMMA VectorType == TaskVectors \subseteq Seq(Items)
<1>1. Seq(Tasks) \subseteq Seq(Items)
  BY Tasks \subseteq Items, SeqMonotonic DEF Items
<1> QED BY <1>1, VectorAssumption

\* Type correctness: every step of every thread keeps the vectors, maps and
\* flags of the reactor within their types.
LEMMA TypeStep == TypeOK /\ [Next]_vars => TypeOK'
<1> SUFFICES ASSUME TypeOK, [Next]_vars PROVE TypeOK'
  OBVIOUS
<1> USE DEF TypeOK, shared, loopvars, kernel, history
<1>1. ASSUME NEW t \in Threads, NEW ts \in TaskVectors, addTask(t, ts) PROVE TypeOK'
  <2>1. ts \in Seq(Items) BY VectorType
  <2>2. m_pending_tasks' \in Seq(Items) BY <1>1, <2>1, ConcatProperties DEF addTask
  <2>3. Range(ts) \subseteq Tasks BY VectorAssumption DEF Range
  <2> QED BY <1>1, <2>2, <2>3 DEF addTask
<1>2. ASSUME NEW t \in Threads, NEW fd \in Fds, delEvent(t, fd) PROVE TypeOK'
  BY <1>2 DEF delEvent
<1>3. ASSUME NEW t \in Threads, NEW fd \in Fds, NEW ev \in Events, addEvent(t, fd, ev)
      PROVE TypeOK'
  BY <1>3 DEF addEvent, InsertPending
<1>4. ASSUME NEW t \in Threads, stop(t) \/ SetStopFlag(t) PROVE TypeOK'
  BY <1>4 DEF stop, SetStopFlag
<1>5. ASSUME NEW t \in Threads, wakeup(t) \/ WriteWakeFd(t) PROVE TypeOK'
  <2>1. CASE wakeup(t)
    <3>1. early' \in BOOLEAN BY <2>1 DEF wakeup
    <3> QED BY <2>1, <3>1 DEF wakeup
  <2>2. CASE WriteWakeFd(t) BY <2>2 DEF WriteWakeFd
  <2> QED BY <1>5, <2>1, <2>2
<1>6. ASSUME EnterLoop \/ ResetStopFlag \/ TestStopFlag \/ ResumeCoroutines
             \/ TasksDone \/ LeaveLoop \/ EpollTimeout \/ EpollError
      PROVE TypeOK'
  BY <1>6 DEF EnterLoop, ResetStopFlag, TestStopFlag, ResumeCoroutines, TasksDone,
              LeaveLoop, EpollTimeout, EpollError
<1>7. CASE SwapTasks BY <1>7 DEF SwapTasks
<1>8. CASE StartTask BY <1>8, HeadTailProperties DEF StartTask
<1>9. CASE FinishTask BY <1>9 DEF FinishTask
<1>10. ASSUME NEW batch \in SUBSET Reportable, EpollReturn(batch) PROVE TypeOK'
  <2>1. re_events' \in SUBSET ((Fds \X Kinds) \cup {Wake})
    BY <1>10 DEF EpollReturn
  <2>2. ready' \in [Fds -> Masks \cup {{}}]
    BY <1>10 DEF EpollReturn
  <2> QED BY <1>10, <2>1, <2>2 DEF EpollReturn
<1>11. CASE DrainWakeFd BY <1>11 DEF DrainWakeFd
<1>12. ASSUME NEW fd \in Fds, HandleUnknown(fd) PROVE TypeOK'
  BY <1>12 DEF HandleUnknown
<1>13. ASSUME NEW fd \in Fds, NEW k \in Kinds, HandleReadWrite(fd, k) PROVE TypeOK'
  <2>1. <<fd, k>> \in Items BY <1>13 DEF HandleReadWrite, Kinds, Items, Callbacks
  <2>2. m_pending_tasks' \in Seq(Items) BY <1>13, <2>1, AppendProperties DEF HandleReadWrite
  <2> QED BY <1>13, <2>2 DEF HandleReadWrite
<1>14. CASE MergePending BY <1>14 DEF MergePending, MergedFds
<1>15. ASSUME NEW ts \in TaskVectors, InLoopAddTask(ts) PROVE TypeOK'
  <2>1. ts \in Seq(Items) BY VectorType
  <2>2. m_pending_tasks' \in Seq(Items) BY <1>15, <2>1, ConcatProperties DEF InLoopAddTask
  <2>3. Range(ts) \subseteq Tasks BY VectorAssumption DEF Range
  <2> QED BY <1>15, <2>2, <2>3 DEF InLoopAddTask
<1>16. ASSUME NEW fd \in Fds, delEventInLoopThread(fd) PROVE TypeOK'
  BY <1>16 DEF delEventInLoopThread
<1>17. ASSUME NEW fd \in Fds, NEW ev \in Events, addEventInLoopThread(fd, ev) PROVE TypeOK'
  BY <1>17 DEF addEventInLoopThread
<1>18. CASE InLoopStop BY <1>18 DEF InLoopStop
<1>19. ASSUME NEW fd \in Fds, NEW mask \in Masks, Arrive(fd, mask) PROVE TypeOK'
  BY <1>19, BoundAssumption DEF Arrive
<1>20. CASE UNCHANGED vars BY <1>20 DEF vars
<1> QED
  BY <1>1, <1>2, <1>3, <1>4, <1>5, <1>6, <1>7, <1>8, <1>9, <1>10, <1>11, <1>12,
     <1>13, <1>14, <1>15, <1>16, <1>17, <1>18, <1>19, <1>20
  DEF Next, OtherThread, LoopStep, HandleEvent, InLoopStep

\* The type invariant holds in every reachable state.
THEOREM TypeCorrect == Spec => []TypeOK
<1>1. Init => TypeOK
  <2> SUFFICES ASSUME Init PROVE TypeOK OBVIOUS
  <2>1. arrivals \in 0..MaxArrivals BY BoundAssumption DEF Init
  <2>2. m_pending_tasks \in Seq(Items) /\ tmp_tasks \in Seq(Items) BY EmptySeq DEF Init
  <2> QED BY <2>1, <2>2 DEF Init, TypeOK
<1> QED BY <1>1, TypeStep, PTL DEF Spec

-----------------------------------------------------------------------------
\* The inductive invariant is kept by every step.  An action that queues work
\* leaves its thread in wakeup(); a wakeup that is skipped because m_is_looping
\* is false was for a loop that has not swapped its tasks yet, or has ended; the
\* eventfd is drained only between epoll_wait and the next swap.
LEMMA IInvStep == TypeOK /\ IInv /\ [Next]_vars => IInv'
<1> SUFFICES ASSUME TypeOK, IInv, [Next]_vars PROVE IInv'
  OBVIOUS
<1> USE DEF TypeOK, IInv, LastDelWins, Signalled, PendingFds, shared, loopvars,
            kernel, history
<1>1. ASSUME NEW t \in Threads, NEW ts \in TaskVectors, addTask(t, ts) PROVE IInv'
  BY <1>1 DEF addTask
<1>2. ASSUME NEW t \in Threads, NEW fd \in Fds, delEvent(t, fd) PROVE IInv'
  BY <1>2 DEF delEvent
<1>3. ASSUME NEW t \in Threads, NEW fd \in Fds, NEW ev \in Events, addEvent(t, fd, ev)
      PROVE IInv'
  BY <1>3 DEF addEvent, InsertPending
<1>4. ASSUME NEW t \in Threads, stop(t) PROVE IInv'
  BY <1>4 DEF stop
<1>5. ASSUME NEW t \in Threads, SetStopFlag(t) PROVE IInv'
  BY <1>5 DEF SetStopFlag
<1>6. ASSUME NEW t \in Threads, wakeup(t) PROVE IInv'
  BY <1>6 DEF wakeup
<1>7. ASSUME NEW t \in Threads, WriteWakeFd(t) PROVE IInv'
  BY <1>7 DEF WriteWakeFd
<1>8. CASE EnterLoop BY <1>8 DEF EnterLoop
<1>9. CASE ResetStopFlag BY <1>9 DEF ResetStopFlag
<1>10. CASE TestStopFlag BY <1>10 DEF TestStopFlag
<1>11. CASE ResumeCoroutines BY <1>11 DEF ResumeCoroutines
<1>12. CASE SwapTasks BY <1>12 DEF SwapTasks
<1>13. CASE StartTask BY <1>13 DEF StartTask
<1>14. CASE FinishTask BY <1>14 DEF FinishTask
<1>15. CASE TasksDone BY <1>15 DEF TasksDone
<1>16. ASSUME NEW batch \in SUBSET Reportable, EpollReturn(batch) PROVE IInv'
  BY <1>16 DEF EpollReturn
<1>17. CASE EpollTimeout BY <1>17 DEF EpollTimeout
<1>18. CASE EpollError BY <1>18 DEF EpollError
<1>19. CASE DrainWakeFd BY <1>19 DEF DrainWakeFd
<1>20. ASSUME NEW fd \in Fds, HandleUnknown(fd) PROVE IInv'
  BY <1>20 DEF HandleUnknown
<1>21. ASSUME NEW fd \in Fds, NEW k \in Kinds, HandleReadWrite(fd, k) PROVE IInv'
  BY <1>21 DEF HandleReadWrite
<1>22. CASE MergePending
  <2>1. ~PendingFds' BY <1>22 DEF MergePending
  <2>2. LastDelWins'
    <3> SUFFICES ASSUME NEW f \in Fds, lastReq[f] = "del" PROVE MergedFds[f] = NoEvent
      BY <1>22 DEF MergePending
    <3>1. CASE f \in m_pending_del_fds BY <3>1 DEF MergedFds
    <3>2. CASE f \notin m_pending_del_fds /\ m_pending_add_fds[f] = NoEvent
      BY <3>2 DEF MergedFds
    <3> QED BY <3>1, <3>2
  <2> QED BY <1>22, <2>1, <2>2 DEF MergePending
<1>23. CASE LeaveLoop BY <1>23 DEF LeaveLoop
<1>24. ASSUME NEW ts \in TaskVectors, InLoopAddTask(ts) PROVE IInv'
  BY <1>24 DEF InLoopAddTask, InLoop
<1>25. ASSUME NEW fd \in Fds, delEventInLoopThread(fd) PROVE IInv'
  BY <1>25 DEF delEventInLoopThread
<1>26. ASSUME NEW fd \in Fds, NEW ev \in Events, addEventInLoopThread(fd, ev) PROVE IInv'
  BY <1>26 DEF addEventInLoopThread
<1>27. CASE InLoopStop BY <1>27 DEF InLoopStop
<1>28. ASSUME NEW fd \in Fds, NEW mask \in Masks, Arrive(fd, mask) PROVE IInv'
  BY <1>28 DEF Arrive
<1>29. CASE UNCHANGED vars BY <1>29 DEF vars
<1> QED
  BY <1>1, <1>2, <1>3, <1>4, <1>5, <1>6, <1>7, <1>8, <1>9, <1>10, <1>11, <1>12,
     <1>13, <1>14, <1>15, <1>16, <1>17, <1>18, <1>19, <1>20, <1>21, <1>22, <1>23,
     <1>24, <1>25, <1>26, <1>27, <1>28, <1>29
  DEF Next, OtherThread, LoopStep, HandleEvent, InLoopStep

\* The constructor leaves a reactor with nothing queued, so IInv holds at first.
LEMMA IInvInit == Init => IInv
BY DEF Init, IInv, LastDelWins, Signalled, PendingFds

\* The inductive invariant holds in every reachable state of the reactor.
LEMMA Invariance == Spec => [](TypeOK /\ IInv)
BY TypeCorrect, TypeStep, IInvStep, IInvInit, PTL DEF Spec

\* The loop thread never sleeps in epoll_wait on a queued task, a raised stop
\* flag or a queued registration without a wakeup under way, whatever the
\* number of threads and however their calls interleave with loop().
THEOREM NoLostWakeupHolds == Spec => []NoLostWakeup
<1>1. TypeOK /\ IInv => NoLostWakeup BY DEF IInv, NoLostWakeup
<1> QED BY <1>1, Invariance, PTL

\* A final delEvent of another thread always takes effect: the merge at the end
\* of an iteration applies dels after adds.
THEOREM LastDelWinsHolds == Spec => []LastDelWins
<1>1. IInv => LastDelWins BY DEF IInv
<1> QED BY <1>1, Invariance, PTL

-----------------------------------------------------------------------------
\* Cutting a concatenation at the seam gives back both parts.
LEMMA Seam ==
  ASSUME NEW S, NEW q \in Seq(S), NEW n \in Seq(S)
  PROVE  /\ q \o n \in Seq(S) /\ Len(q \o n) = Len(q) + Len(n)
         /\ SubSeq(q \o n, 1, Len(q)) = q
         /\ SubSeq(q \o n, Len(q) + 1, Len(q \o n)) = n
<1>1. /\ q \o n \in Seq(S) /\ Len(q \o n) = Len(q) + Len(n)
      /\ Len(q) \in Nat /\ Len(n) \in Nat
  BY ConcatProperties, LenProperties
<1>2. SubSeq(q \o n, 1, Len(q)) = q
  <2>1. /\ SubSeq(q \o n, 1, Len(q)) \in Seq(S)
        /\ Len(SubSeq(q \o n, 1, Len(q))) = Len(q)
        /\ \A i \in 1..Len(q) : SubSeq(q \o n, 1, Len(q))[i] = (q \o n)[i]
    BY <1>1
  <2>2. \A i \in 1..Len(q) : (q \o n)[i] = q[i] BY ConcatProperties
  <2> QED BY <2>1, <2>2, SeqEqual
<1>3. SubSeq(q \o n, Len(q) + 1, Len(q \o n)) = n
  <2>1. /\ SubSeq(q \o n, Len(q) + 1, Len(q \o n)) \in Seq(S)
        /\ Len(SubSeq(q \o n, Len(q) + 1, Len(q \o n))) = Len(n)
        /\ \A i \in 1..Len(n) :
             SubSeq(q \o n, Len(q) + 1, Len(q \o n))[i] = (q \o n)[Len(q) + i]
    BY <1>1
  <2>2. \A i \in 1..Len(n) : (q \o n)[Len(q) + i] = n[i] BY <1>1, ConcatProperties
  <2> QED BY <2>1, <2>2, SeqEqual
<1> QED BY <1>1, <1>2, <1>3

\* Appending items none of which was accepted before is the abstract Submit.
LEMMA AppendIsSubmit ==
  ASSUME TypeOK, NEW ts \in Seq(Items), FreshVector(ts),
         m_pending_tasks' = m_pending_tasks \o ts,
         submitted' = submitted \cup (Range(ts) \cap Tasks),
         UNCHANGED <<tmp_tasks, cur>>
  PROVE  TQ!Submit
<1> DEFINE q == tmp_tasks \o m_pending_tasks
<1>1. q \in Seq(Items)
  BY ConcatProperties DEF TypeOK
<1>2. (tmp_tasks \o m_pending_tasks)' = q \o ts
  <2>1. tmp_tasks \in Seq(Items) /\ m_pending_tasks \in Seq(Items) BY DEF TypeOK
  <2>2. (tmp_tasks \o m_pending_tasks)' = tmp_tasks \o (m_pending_tasks \o ts)
    OBVIOUS
  <2>3. (tmp_tasks \o m_pending_tasks) \o ts = tmp_tasks \o (m_pending_tasks \o ts)
    BY <2>1, ConcatAssociative
  <2> QED BY <2>2, <2>3
<1>3. /\ q \o ts \in Seq(Items) /\ Len(q \o ts) = Len(q) + Len(ts)
      /\ SubSeq(q \o ts, 1, Len(q)) = q
      /\ SubSeq(q \o ts, Len(q) + 1, Len(q \o ts)) = ts
  <2> HIDE DEF q
  <2> QED BY <1>1, Seam
<1>4. Len(ts) > 0 /\ Len(q) \in Nat /\ Len(ts) \in Nat
  BY <1>1, EmptySeq, LenProperties DEF FreshVector
<1>5. TQ!Appended = ts BY <1>2, <1>3 DEF TQ!Appended
<1>6. TQ!Elements(ts) = Range(ts) BY DEF TQ!Elements, Range
<1>7. TQ!Elements(TQ!Appended) = Range(ts) BY <1>5, <1>6
<1> QED BY <1>2, <1>3, <1>4, <1>5, <1>7 DEF TQ!Submit, FreshVector, IsInjective

\* A vector given to addTask: all its members are closures.
LEMMA SubmitVector ==
  ASSUME TypeOK, NEW ts \in TaskVectors, FreshVector(ts),
         m_pending_tasks' = m_pending_tasks \o ts,
         submitted' = submitted \cup Range(ts), UNCHANGED <<tmp_tasks, cur>>
  PROVE  TQ!Submit
<1>1. Range(ts) \cap Tasks = Range(ts) BY VectorAssumption DEF Range
<1> QED BY <1>1, VectorType, AppendIsSubmit

\* Every step of the reactor is a step of the abstract queue or leaves it alone.
LEMMA QueueStep == TypeOK /\ IInv /\ [Next]_vars => [TQ!TQNext]_(TQ!tqvars)
<1> SUFFICES ASSUME TypeOK, IInv, [Next]_vars PROVE [TQ!TQNext]_(TQ!tqvars)
  OBVIOUS
<1> USE DEF shared, loopvars, kernel, history
<1>1. ASSUME NEW t \in Threads, NEW ts \in TaskVectors, addTask(t, ts) PROVE TQ!Submit
  BY <1>1, SubmitVector DEF addTask
<1>2. ASSUME NEW ts \in TaskVectors, InLoopAddTask(ts) PROVE TQ!Submit
  BY <1>2, SubmitVector DEF InLoopAddTask
<1>3. ASSUME NEW fd \in Fds, NEW k \in Kinds, HandleReadWrite(fd, k) PROVE TQ!Submit
  <2> DEFINE cb == <<fd, k>>
  <2>1. cb \in Items /\ cb \notin Tasks /\ UNCHANGED <<tmp_tasks, cur, submitted>>
    BY <1>3, TaskAssumption DEF HandleReadWrite, Kinds, Items, Callbacks
  <2>2. m_pending_tasks' = m_pending_tasks \o <<cb>>
    BY <1>3, <2>1, AppendIsConcat DEF HandleReadWrite, TypeOK
  <2>3. Range(<<cb>>) = {cb} BY DEF Range
  <2>4. FreshVector(<<cb>>)
    <3>1. <<cb>> # <<>> /\ DOMAIN <<cb>> = {1} OBVIOUS
    <3>2. Range(<<cb>>) \cap submitted = {} BY <2>1, <2>3 DEF TypeOK
    <3> QED BY <3>1, <3>2 DEF FreshVector, IsInjective
  <2>5. submitted' = submitted \cup (Range(<<cb>>) \cap Tasks) BY <2>1, <2>3
  <2>6. <<cb>> \in Seq(Items) BY <2>1
  <2> HIDE DEF cb
  <2> QED BY <2>1, <2>2, <2>4, <2>5, <2>6, AppendIsSubmit
<1>4. CASE SwapTasks
  <2>1. tmp_tasks = <<>> BY <1>4 DEF SwapTasks, IInv
  <2>2. tmp_tasks \o m_pending_tasks = m_pending_tasks
    BY <2>1, ConcatEmptySeq DEF TypeOK
  <2>3. (tmp_tasks \o m_pending_tasks)' = m_pending_tasks
    BY <1>4, ConcatEmptySeq DEF SwapTasks, TypeOK
  <2> QED BY <1>4, <2>2, <2>3 DEF SwapTasks, TQ!tqvars
<1>5. CASE StartTask
  <2>1. /\ Head(tmp_tasks \o m_pending_tasks) = Head(tmp_tasks)
        /\ Tail(tmp_tasks \o m_pending_tasks) = Tail(tmp_tasks) \o m_pending_tasks
        /\ tmp_tasks \o m_pending_tasks # <<>>
    BY <1>5 DEF StartTask, TypeOK
  <2> QED BY <1>5, <2>1 DEF StartTask, TQ!TQNext, TQ!Start
<1>6. CASE FinishTask BY <1>6 DEF FinishTask, TQ!TQNext, TQ!Finish
<1>7. ASSUME UNCHANGED <<tmp_tasks, m_pending_tasks, submitted, cur>>
      PROVE UNCHANGED TQ!tqvars
  BY <1>7 DEF TQ!tqvars
<1> QED
  BY <1>1, <1>2, <1>3, <1>4, <1>5, <1>6, <1>7
  DEF Next, OtherThread, LoopStep, HandleEvent, InLoopStep, TQ!TQNext, vars,
      delEvent, addEvent, stop, SetStopFlag, wakeup, WriteWakeFd, EnterLoop,
      ResetStopFlag, TestStopFlag, ResumeCoroutines, TasksDone, EpollReturn,
      EpollTimeout, EpollError, DrainWakeFd, HandleUnknown, MergePending, LeaveLoop,
      delEventInLoopThread, addEventInLoopThread, InLoopStop, Arrive

\* The reactor runs every accepted closure at most once, one at a time and in
\* the order of acceptance: loop() and addTask() implement TaskQueue.
THEOREM ReactorImplementsTaskQueue == Spec => ImplementsTaskQueue
<1>1. Init => TQ!TQInit
  BY EmptySeq, ConcatEmptySeq DEF Init, TQ!TQInit
<1> QED BY <1>1, QueueStep, Invariance, PTL DEF Spec, ImplementsTaskQueue, TQ!TQSpec
=============================================================================
