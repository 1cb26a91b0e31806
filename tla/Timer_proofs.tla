----------------------------- MODULE Timer_proofs -----------------------------
(***************************************************************************)
(* Proofs about Timer, for any set of events, any intervals and any clock. *)
(***************************************************************************)
EXTENDS Timer, TLAPS

\* resetArriveTime() keeps the timerfd disarmed or set for the future.
LEMMA ResetType ==
  ASSUME TypeOK, NEW p \in SUBSET Ev, NEW a \in [Ev -> Nat], resetArriveTime(p, a)
  PROVE  expiry' \in Nat /\ (expiry' # 0 => expiry' > now) /\ readable' \in BOOLEAN
<1>0. now \in Nat BY TimeAssumption DEF TypeOK
<1>1. CASE UNCHANGED timerfd
  BY <1>0, <1>1 DEF TypeOK, timerfd
<1>2. ASSUME NEW last \in p, ~(a[last] < now), Arm(a[last])
      PROVE  expiry' \in Nat /\ (expiry' # 0 => expiry' > now) /\ readable' \in BOOLEAN
  <2>1. a[last] \in Nat OBVIOUS
  <2>2. readable' = FALSE /\ expiry' = IF a[last] = now THEN 0 ELSE a[last] BY <1>2 DEF Arm
  <2>3. expiry' \in Nat /\ (expiry' # 0 => expiry' > now) BY <1>0, <1>2, <2>1, <2>2
  <2> QED BY <2>2, <2>3
<1>3. UNCHANGED timerfd \/ \E last \in p : ~(a[last] < now) /\ Arm(a[last])
  BY DEF resetArriveTime
<1> QED BY <1>1, <1>2, <1>3

\* Every step keeps the multimap, the timerfd and the handler within their types.
LEMMA TypeStep == TypeOK /\ [Next]_vars => TypeOK'
<1> SUFFICES ASSUME TypeOK, [Next]_vars PROVE TypeOK'
  OBVIOUS
<1>0. now \in Nat /\ m_arrive_time \in [Ev -> Nat]
  BY TimeAssumption DEF TypeOK
<1>1. ASSUME NEW e \in Ev, addTimerEvent(e) PROVE TypeOK'
  <2> DEFINE arrive == now + Interval[e]
             at == [m_arrive_time EXCEPT ![e] = arrive]
  <2>1. arrive \in Nat /\ at \in [Ev -> Nat] /\ m_pending_events \cup {e} \in SUBSET Ev
    BY <1>0, IntervalAssumption DEF TypeOK
  <2>2. /\ m_arrive_time' = at /\ m_pending_events' = m_pending_events \cup {e}
        /\ resetArriveTime(m_pending_events \cup {e}, at) \/ UNCHANGED timerfd
        /\ added' = added \cup {e}
        /\ UNCHANGED <<now, m_is_cancled, handler, deleting, punctual, ran, deleted, asked, stray, cut>>
    BY <1>1 DEF addTimerEvent
  <2>3. expiry' \in Nat /\ (expiry' # 0 => expiry' > now) /\ readable' \in BOOLEAN
    <3> HIDE DEF at
    <3>1. CASE resetArriveTime(m_pending_events \cup {e}, at) BY <2>1, <3>1, ResetType
    <3>2. CASE UNCHANGED timerfd BY <1>0, <3>2 DEF TypeOK, timerfd
    <3> QED BY <2>2, <3>1, <3>2
  <2> HIDE DEF at
  <2> QED BY <2>1, <2>2, <2>3 DEF TypeOK, handler
<1>2. ASSUME NEW e \in Ev, delTimerEvent(e) PROVE TypeOK'
  BY <1>2 DEF delTimerEvent, TypeOK, timerfd, handler
<1>3. ASSUME NEW e \in Ev, MarkCancelled(e) PROVE TypeOK'
  BY <1>3 DEF MarkCancelled, TypeOK, timerfd, handler
<1>4. ASSUME NEW e \in Ev, EraseEvent(e) PROVE TypeOK'
  BY <1>4 DEF EraseEvent, TypeOK, timerfd, handler
<1>5. ASSUME NEW e \in Ev, ReAdd(e) PROVE TypeOK'
  <2>1. now + Interval[e] \in Nat BY <1>0, IntervalAssumption
  <2> QED BY <1>5, <2>1 DEF ReAdd, TypeOK, timerfd, history, events
<1>6. CASE onTimer
  <2>1. PICK picked \in SUBSET m_pending_events :
          /\ tmps' = picked /\ tasks' = {<<m_arrive_time[e], e>> : e \in picked}
          /\ m_pending_events' = m_pending_events \ picked
    BY <1>6 DEF onTimer
  <2>2. {<<m_arrive_time[e], e>> : e \in picked} \in SUBSET (Nat \X Ev)
    BY <1>0, <2>1 DEF TypeOK
  <2>3. cut' \in BOOLEAN BY <1>6 DEF onTimer
  <2> QED BY <1>6, <2>1, <2>2, <2>3 DEF onTimer, TypeOK
<1>7. CASE ReAddDone \/ onTimerDone
  BY <1>7 DEF ReAddDone, onTimerDone, TypeOK, events, timerfd, history
<1>8. CASE Rearm
  <2>1. expiry' \in Nat /\ (expiry' # 0 => expiry' > now) /\ readable' \in BOOLEAN
    <3>1. resetArriveTime(m_pending_events, m_arrive_time) BY <1>8 DEF Rearm
    <3>2. m_pending_events \in SUBSET Ev BY DEF TypeOK
    <3> QED BY <1>0, <3>1, <3>2, ResetType
  <2> QED BY <1>8, <2>1 DEF Rearm, TypeOK, events, history
<1>9. CASE Tick
  <2>1. now' \in 1..(MaxTime + 1) BY <1>9, TimeAssumption DEF Tick, TypeOK
  <2>2. expiry' \in Nat /\ (expiry' # 0 => expiry' > now')
    BY <1>0, <1>9 DEF Tick, TypeOK, timerfd
  <2>3. readable' \in BOOLEAN BY <1>9 DEF Tick, TypeOK, timerfd
  <2> QED BY <1>9, <2>1, <2>2, <2>3 DEF Tick, TypeOK, events, handler, history
<1>10. ASSUME NEW k \in tasks, RunTask(k) PROVE TypeOK'
  <2>1. k[2] \in Ev BY DEF TypeOK
  <2> QED BY <1>10, <2>1 DEF RunTask, TypeOK, events, timerfd
<1>11. CASE UNCHANGED vars
  BY <1>11 DEF vars, TypeOK, events, timerfd, handler, history
<1> QED BY <1>1, <1>2, <1>3, <1>4, <1>5, <1>6, <1>7, <1>8, <1>9, <1>10, <1>11 DEF Next

\* The type invariant holds in every reachable state.
THEOREM TypeCorrect == Spec => []TypeOK
<1>1. Init => TypeOK
  <2> SUFFICES ASSUME Init PROVE TypeOK OBVIOUS
  <2>1. now \in 1..(MaxTime + 1) BY TimeAssumption DEF Init
  <2> QED BY <2>1 DEF Init, TypeOK
<1> QED BY <1>1, TypeStep, PTL DEF Spec

-----------------------------------------------------------------------------
\* resetArriveTime() arms the timerfd if some event is still to come.
LEMMA ResetArms ==
  ASSUME now \in Nat, NEW p \in SUBSET Ev, NEW a \in [Ev -> Nat], resetArriveTime(p, a),
         NEW e \in p, a[e] > now
  PROVE  expiry' # 0
<1>1. PICK last \in p : /\ a[e] <= a[last]
                        /\ IF a[last] < now THEN UNCHANGED timerfd ELSE Arm(a[last])
  BY DEF resetArriveTime
<1>2. a[last] \in Nat /\ a[e] \in Nat /\ a[last] > now
  BY <1>1
<1> QED BY <1>1, <1>2 DEF Arm

\* What an erasure leaves: the event is gone, and if it was there nothing else is.
LEMMA ErasedRest ==
  ASSUME NEW e \in Ev, NEW rest \in SUBSET m_pending_events, Erased(e, rest)
  PROVE  e \notin rest /\ (e \in m_pending_events => rest = m_pending_events \ {e})
  BY DEF Erased

\* The inductive invariant is kept by every step of the reactor, of other
\* threads and of the clock.
LEMMA IInvStep == TypeOK /\ IInv /\ [Next]_vars => IInv'
<1> SUFFICES ASSUME TypeOK, IInv, [Next]_vars PROVE IInv'
  OBVIOUS
<1>0. /\ now \in Nat /\ m_arrive_time \in [Ev -> Nat] /\ m_pending_events \subseteq Ev
      /\ m_is_cancled \in [Ev -> BOOLEAN] /\ tmps \subseteq Ev
  BY TimeAssumption DEF TypeOK
<1>p. /\ NeverEarly /\ OneShotOnce /\ DeletedStaysQuiet /\ NoEventLost /\ ArmedWhilePending
      /\ Phases /\ Cancelled /\ LaterOnly
  BY DEF IInv
<1>1. ASSUME NEW e \in Ev, addTimerEvent(e) PROVE IInv'
  <2> DEFINE arrive == now + Interval[e]
             at == [m_arrive_time EXCEPT ![e] = arrive]
             pending == m_pending_events \cup {e}
  <2>1. /\ m_arrive_time' = at /\ m_pending_events' = pending /\ added' = added \cup {e}
        /\ IF NeedsReset(arrive) THEN resetArriveTime(pending, at) ELSE UNCHANGED timerfd
        /\ UNCHANGED <<now, m_is_cancled, tpc, tmps, tasks, deleting, punctual, ran, deleted, asked, stray, cut>>
        /\ tpc \in {"idle", "run"} /\ e \notin added
    BY <1>1 DEF addTimerEvent, handler
  <2>2. Waiting' = Waiting BY <2>1 DEF Waiting
  <2>3. e \notin m_pending_events \cup Waiting \cup ran \cup asked /\ tmps = {}
    BY <1>p, <2>1 DEF Phases
  <2>4. e \notin deleted /\ ~m_is_cancled[e]
    BY <1>p, <2>3 DEF Cancelled
  <2>5. NeverEarly' BY <1>p, <2>1 DEF NeverEarly
  <2>6. OneShotOnce' BY <1>p, <2>1, <2>2, <2>3 DEF OneShotOnce
  <2>7. DeletedStaysQuiet' BY <1>p, <2>1, <2>2, <2>4 DEF DeletedStaysQuiet
  <2>8. NoEventLost' BY <1>p, <2>1, <2>2 DEF NoEventLost
  <2>9. Phases' BY <1>p, <2>1, <2>2, <2>3 DEF Phases
  <2>10. Cancelled' BY <1>p, <2>1, <2>3, <2>4 DEF Cancelled
  <2>11. LaterOnly' BY <2>1 DEF LaterOnly
  <2>12. ArmedWhilePending'
    <3>1. CASE NeedsReset(arrive)
      <4>1. at \in [Ev -> Nat] /\ at[e] > now /\ pending \in SUBSET Ev /\ e \in pending
        BY <1>0, IntervalAssumption
      <4>2. resetArriveTime(pending, at) BY <2>1, <3>1
      <4> HIDE DEF at, pending
      <4>3. expiry' # 0 BY <1>0, <4>1, <4>2, ResetArms
      <4> QED BY <4>3 DEF ArmedWhilePending
    <3>2. CASE ~NeedsReset(arrive)
      <4>1. m_pending_events # {} BY <3>2 DEF NeedsReset
      <4> QED BY <1>p, <2>1, <3>2, <4>1 DEF ArmedWhilePending, timerfd
    <3> QED BY <3>1, <3>2
  <2> QED BY <2>5, <2>6, <2>7, <2>8, <2>9, <2>10, <2>11, <2>12 DEF IInv
<1>2. ASSUME NEW e \in Ev, NEW rest \in SUBSET m_pending_events, Erased(e, rest),
             m_pending_events' = rest,
             deleted' = IF e \in m_pending_events THEN deleted \cup {e} ELSE deleted,
             stray' = (stray \/ e \notin m_pending_events),
             \/ asked' = asked \cup {e} /\ deleting' = deleting /\ e \notin asked
                /\ m_is_cancled' = [m_is_cancled EXCEPT ![e] = TRUE] /\ e \in added
             \/ asked' = asked /\ deleting' = deleting \ {e} /\ e \in asked /\ e \in deleting
                /\ m_is_cancled' = m_is_cancled,
             UNCHANGED <<now, m_arrive_time, timerfd, handler, punctual, added, ran, cut>>
      PROVE  IInv'
  <2>1. /\ e \notin rest /\ (e \in m_pending_events => rest = m_pending_events \ {e})
        /\ rest \subseteq m_pending_events
    BY <1>2, ErasedRest
  <2>2. Waiting' = Waiting /\ tasks' = tasks /\ tmps' = tmps /\ tpc' = tpc
    BY <1>2 DEF Waiting, handler
  <2>3. NeverEarly' BY <1>p, <1>2, <2>2 DEF NeverEarly
  <2>4. OneShotOnce' BY <1>p, <1>2, <2>1, <2>2 DEF OneShotOnce
  <2>5. DeletedStaysQuiet'
    <3>1. ASSUME NEW d \in deleted'
          PROVE d \notin rest /\ (d \notin Repeated => d \notin Waiting \cup ran)
      BY <1>p, <1>2, <2>1, <3>1 DEF DeletedStaysQuiet, OneShotOnce
    <3> QED BY <1>2, <2>2, <3>1 DEF DeletedStaysQuiet
  <2>6. NoEventLost'
    <3>1. ASSUME NEW d \in added' \ asked', ~stray'
          PROVE  \/ d \in rest \cup tmps
                 \/ d \notin Repeated /\ d \in Waiting \cup ran
      <4>1. e \in m_pending_events /\ ~stray BY <1>2, <3>1
      <4>2. d # e /\ d \in added \ asked BY <1>2, <3>1
      <4> QED BY <1>p, <2>1, <4>1, <4>2 DEF NoEventLost
    <3> QED BY <1>2, <2>2, <3>1 DEF NoEventLost
  <2>7. ArmedWhilePending' BY <1>p, <1>2, <2>1, <2>2 DEF ArmedWhilePending, timerfd
  <2>8. Phases' BY <1>p, <1>2, <2>1, <2>2 DEF Phases
  <2>9. Cancelled'
    <3>1. deleting' \subseteq asked' \ Repeated /\ deleted' \subseteq asked'
      <4>1. deleted' \subseteq deleted \cup {e} /\ e \in asked' BY <1>2
      <4> QED BY <1>p, <1>2, <4>1 DEF Cancelled
    <3>2. ASSUME NEW d \in Ev, m_is_cancled'[d] PROVE d \in asked' /\ (d \in rest => d \in deleting')
      BY <1>0, <1>p, <1>2, <2>1, <3>2 DEF Cancelled
    <3> QED BY <1>0, <1>2, <3>1, <3>2 DEF Cancelled
  <2>10. LaterOnly' BY <1>p, <1>2, <2>1, <2>2 DEF LaterOnly
  <2> QED BY <2>3, <2>4, <2>5, <2>6, <2>7, <2>8, <2>9, <2>10 DEF IInv
<1>3. ASSUME NEW e \in Ev, delTimerEvent(e) PROVE IInv'
  <2>1. PICK rest \in SUBSET m_pending_events : Erased(e, rest) /\ m_pending_events' = rest
    BY <1>3 DEF delTimerEvent
  <2> QED BY <1>2, <1>3, <2>1 DEF delTimerEvent
<1>4. ASSUME NEW e \in Ev, EraseEvent(e) PROVE IInv'
  <2>1. PICK rest \in SUBSET m_pending_events : Erased(e, rest) /\ m_pending_events' = rest
    BY <1>4 DEF EraseEvent
  <2>2. e \in asked BY <1>p, <1>4 DEF EraseEvent, Cancelled
  <2> QED BY <1>2, <1>4, <2>1, <2>2 DEF EraseEvent
<1>5. ASSUME NEW e \in Ev, MarkCancelled(e) PROVE IInv'
  BY <1>5, <1>p DEF MarkCancelled, TypeOK, timerfd, handler, IInv, NeverEarly, OneShotOnce,
     DeletedStaysQuiet, NoEventLost, ArmedWhilePending, Phases, Cancelled, LaterOnly, Waiting
<1>6. ASSUME NEW e \in Ev, ReAdd(e) PROVE IInv'
  <2>1. /\ tpc = "readd" /\ e \in tmps /\ tmps' = tmps \ {e}
        /\ UNCHANGED <<now, expiry, readable, tpc, tasks, deleting, punctual, added, ran, deleted, asked, stray, cut>>
    BY <1>6 DEF ReAdd, timerfd, history
  <2>2. Waiting' = Waiting BY <2>1 DEF Waiting
  <2>3. e \in Waiting /\ e \notin deleted /\ e \notin m_pending_events /\ e \in added
    BY <1>p, <2>1 DEF Phases
  <2>4. NeverEarly' BY <1>p, <2>1 DEF NeverEarly
  <2>5. ArmedWhilePending' BY <2>1 DEF ArmedWhilePending
  <2>6. CASE e \in Repeated
    <3>1. /\ m_arrive_time' = [m_arrive_time EXCEPT ![e] = now + Interval[e]]
          /\ m_is_cancled' = [m_is_cancled EXCEPT ![e] = FALSE]
          /\ m_pending_events' = m_pending_events \cup {e}
      BY <1>6, <2>6 DEF ReAdd
    <3>2. OneShotOnce' BY <1>p, <2>1, <2>2, <2>6, <3>1 DEF OneShotOnce
    <3>3. DeletedStaysQuiet' BY <1>p, <2>1, <2>2, <2>3, <3>1 DEF DeletedStaysQuiet
    <3>4. NoEventLost' BY <1>p, <2>1, <2>2, <3>1 DEF NoEventLost
    <3>5. Phases' BY <1>p, <2>1, <2>2, <2>3, <3>1 DEF Phases
    <3>6. Cancelled' BY <1>0, <1>p, <2>1, <3>1 DEF Cancelled
    <3>7. LaterOnly'
      <4>1. now + Interval[e] > now BY <1>0, IntervalAssumption
      <4> QED BY <1>0, <1>p, <2>1, <3>1, <4>1 DEF LaterOnly
    <3> QED BY <2>4, <2>5, <3>2, <3>3, <3>4, <3>5, <3>6, <3>7 DEF IInv
  <2>7. CASE e \notin Repeated
    <3>1. UNCHANGED <<m_arrive_time, m_is_cancled, m_pending_events>>
      BY <1>6, <2>7 DEF ReAdd, events
    <3>2. OneShotOnce' BY <1>p, <2>1, <2>2, <3>1 DEF OneShotOnce
    <3>3. DeletedStaysQuiet' BY <1>p, <2>1, <2>2, <3>1 DEF DeletedStaysQuiet
    <3>4. NoEventLost' BY <1>p, <2>1, <2>2, <2>3, <2>7, <3>1 DEF NoEventLost
    <3>5. Phases' BY <1>p, <2>1, <2>2, <3>1 DEF Phases
    <3>6. Cancelled' BY <1>p, <2>1, <3>1 DEF Cancelled
    <3>7. LaterOnly' BY <1>p, <2>1, <3>1 DEF LaterOnly
    <3> QED BY <2>4, <2>5, <3>2, <3>3, <3>4, <3>5, <3>6, <3>7 DEF IInv
  <2> QED BY <2>6, <2>7
<1>7. CASE onTimer
  <2>0. PICK picked \in SUBSET m_pending_events :
          /\ Due(picked) /\ tmps' = picked /\ tasks' = {<<m_arrive_time[e], e>> : e \in picked}
          /\ m_pending_events' = m_pending_events \ picked
    BY <1>7 DEF onTimer
  <2>1. /\ tpc = "idle" /\ tpc' = "readd" /\ tmps' = picked
        /\ tasks' = {<<m_arrive_time[e], e>> : e \in picked}
        /\ m_pending_events' = m_pending_events \ picked /\ cut' = (cut \/ Blocked)
        /\ UNCHANGED <<now, m_arrive_time, m_is_cancled, deleting, punctual, added, ran, deleted, asked, stray>>
    BY <1>7, <2>0 DEF onTimer
  <2>2. picked \subseteq m_pending_events /\ (\A e \in picked : m_arrive_time[e] <= now)
    BY <2>0 DEF Due
  <2>3. Waiting = {} /\ Waiting' = picked /\ tmps = {}
    <3>1. tasks = {} /\ tmps = {} BY <1>p, <2>1 DEF Phases
    <3>2. \A e \in picked : <<m_arrive_time[e], e>>[2] = e OBVIOUS
    <3>3. Waiting' = {<<m_arrive_time[e], e>>[2] : e \in picked} BY <2>1 DEF Waiting
    <3> QED BY <3>1, <3>2, <3>3 DEF Waiting
  <2>4. NeverEarly' BY <2>1, <2>2 DEF NeverEarly
  <2>5. OneShotOnce' BY <1>0, <1>p, <2>1, <2>2, <2>3 DEF OneShotOnce
  <2>6. DeletedStaysQuiet'
    BY <1>p, <2>1, <2>2, <2>3 DEF DeletedStaysQuiet
  <2>7. NoEventLost' BY <1>p, <2>1, <2>2, <2>3 DEF NoEventLost
  <2>8. ArmedWhilePending' BY <2>1 DEF ArmedWhilePending
  <2>9. Phases'
    <3>1. tmps' \cap deleted' = {} BY <1>p, <2>1, <2>2 DEF DeletedStaysQuiet
    <3>2. \A k, o \in tasks' : k[2] = o[2] => k = o BY <2>1
    <3> QED BY <1>p, <2>1, <2>2, <2>3, <3>1, <3>2 DEF Phases
  <2>10. Cancelled' BY <1>p, <2>1 DEF Cancelled
  <2>11. LaterOnly'
    <3>1. ASSUME ~Blocked, NEW e \in m_pending_events \ picked PROVE m_arrive_time[e] > now
      <4>1. now \in Nat /\ \A f \in m_pending_events : m_arrive_time[f] \in Nat BY <1>0
      <4>2. \A f \in m_pending_events : m_is_cancled[f] => m_arrive_time[f] > now
        BY <3>1, <4>1 DEF Blocked
      <4>3. \/ m_arrive_time[e] > now
            \/ \E f \in m_pending_events : m_is_cancled[f] /\ m_arrive_time[f] <= m_arrive_time[e]
        BY <2>0, <3>1 DEF Due
      <4> QED BY <3>1, <4>1, <4>2, <4>3
    <3> QED BY <2>1, <3>1 DEF LaterOnly
  <2> QED BY <2>4, <2>5, <2>6, <2>7, <2>8, <2>9, <2>10, <2>11 DEF IInv
<1>8. CASE ReAddDone \/ onTimerDone
  BY <1>8, <1>p DEF ReAddDone, onTimerDone, TypeOK, events, timerfd, history, IInv, NeverEarly,
     OneShotOnce, DeletedStaysQuiet, NoEventLost, ArmedWhilePending, Phases, Cancelled, LaterOnly, Waiting
<1>9. CASE Rearm
  <2>1. /\ tpc = "reset" /\ tpc' = "run" /\ resetArriveTime(m_pending_events, m_arrive_time)
        /\ UNCHANGED <<now, m_pending_events, m_arrive_time, m_is_cancled, tmps, tasks, deleting,
                       punctual, added, ran, deleted, asked, stray, cut>>
    BY <1>9 DEF Rearm, events, history
  <2>2. Waiting' = Waiting BY <2>1 DEF Waiting
  <2>3. ArmedWhilePending'
    <3>1. ASSUME punctual, ~cut, m_pending_events # {} PROVE expiry' # 0
      <4>1. PICK e \in m_pending_events : m_arrive_time[e] > now
        BY <1>p, <2>1, <3>1 DEF LaterOnly
      <4> QED BY <1>0, <2>1, <4>1, ResetArms
    <3> QED BY <2>1, <3>1 DEF ArmedWhilePending
  <2>4. NeverEarly' /\ OneShotOnce' BY <1>p, <2>1, <2>2 DEF NeverEarly, OneShotOnce
  <2>5. DeletedStaysQuiet' /\ NoEventLost' BY <1>p, <2>1, <2>2 DEF DeletedStaysQuiet, NoEventLost
  <2>6. Phases' /\ Cancelled' /\ LaterOnly'
    BY <1>p, <2>1, <2>2 DEF Phases, Cancelled, LaterOnly
  <2> QED BY <2>3, <2>4, <2>5, <2>6 DEF IInv
<1>10. CASE Tick
  <2>1. /\ (punctual => tpc = "idle" /\ ~readable) /\ now' = now + 1
        /\ UNCHANGED <<m_pending_events, m_arrive_time, m_is_cancled, tpc, tmps, tasks, deleting,
                       punctual, added, ran, deleted, asked, stray, cut>>
    BY <1>10 DEF Tick, events, handler, history
  <2>2. Waiting' = Waiting BY <2>1 DEF Waiting
  <2>3. ArmedWhilePending'
    <3>1. CASE expiry # 0 /\ expiry <= now + 1
      BY <1>10, <3>1 DEF Tick, ArmedWhilePending
    <3>2. CASE ~(expiry # 0 /\ expiry <= now + 1)
      <4>1. UNCHANGED <<expiry, readable>> BY <1>10, <3>2 DEF Tick, timerfd
      <4> QED BY <1>p, <2>1, <4>1 DEF ArmedWhilePending
    <3> QED BY <3>1, <3>2
  <2>4. NeverEarly'
    <3>1. \A k \in tasks : k[1] \in Nat BY DEF TypeOK
    <3> QED BY <1>0, <1>p, <2>1, <3>1 DEF NeverEarly
  <2>5. OneShotOnce' /\ DeletedStaysQuiet' /\ NoEventLost'
    BY <1>p, <2>1, <2>2 DEF OneShotOnce, DeletedStaysQuiet, NoEventLost
  <2>6. Phases' /\ Cancelled' BY <1>p, <2>1, <2>2 DEF Phases, Cancelled
  <2>7. LaterOnly' BY <2>1 DEF LaterOnly
  <2> QED BY <2>3, <2>4, <2>5, <2>6, <2>7 DEF IInv
<1>11. ASSUME NEW k \in tasks, RunTask(k) PROVE IInv'
  BY <1>11, <1>p DEF RunTask, TypeOK, events, timerfd, IInv, NeverEarly, OneShotOnce,
     DeletedStaysQuiet, NoEventLost, ArmedWhilePending, Phases, Cancelled, LaterOnly, Waiting
<1>12. CASE UNCHANGED vars
  BY <1>12, <1>p DEF vars, events, timerfd, handler, history, IInv, NeverEarly, OneShotOnce,
     DeletedStaysQuiet, NoEventLost, ArmedWhilePending, Phases, Cancelled, LaterOnly, Waiting
<1> QED BY <1>1, <1>3, <1>4, <1>5, <1>6, <1>7, <1>8, <1>9, <1>10, <1>11, <1>12 DEF Next

\* The inductive invariant holds in every reachable state.
LEMMA Invariance == Spec => []IInv
<1>1. Init => IInv
  BY DEF Init, IInv, NeverEarly, OneShotOnce, DeletedStaysQuiet, NoEventLost, ArmedWhilePending,
         Phases, Cancelled, LaterOnly, Waiting
<1> QED BY <1>1, IInvStep, TypeCorrect, PTL DEF Spec

\* No callback of a timer event is picked before its time.
THEOREM NeverEarlyHolds == Spec => []NeverEarly
<1>1. IInv => NeverEarly BY DEF IInv
<1> QED BY <1>1, Invariance, PTL

\* A one-shot timer event is run at most once.
THEOREM OneShotOnceHolds == Spec => []OneShotOnce
<1>1. IInv => OneShotOnce BY DEF IInv
<1> QED BY <1>1, Invariance, PTL

\* A timer event deleted while it was pending neither comes back nor, when it
\* is a one-shot event, runs.
THEOREM DeletedStaysQuietHolds == Spec => []DeletedStaysQuiet
<1>1. IInv => DeletedStaysQuiet BY DEF IInv
<1> QED BY <1>1, Invariance, PTL

\* No timer event is lost, unless an absent event was deleted.
THEOREM NoEventLostHolds == Spec => []NoEventLost
<1>1. IInv => NoEventLost BY DEF IInv
<1> QED BY <1>1, Invariance, PTL

\* A punctual timer is armed whenever events are pending, unless its scan met
\* an event that another thread was deleting.
THEOREM ArmedWhilePendingHolds == Spec => []ArmedWhilePending
<1>1. IInv => ArmedWhilePending BY DEF IInv
<1> QED BY <1>1, Invariance, PTL

-----------------------------------------------------------------------------
\* What the scan of onTimer() takes has come, and is everything that is earlier.
LEMMA DueIs ==
  ASSUME TypeOK, NEW picked \in SUBSET m_pending_events, Due(picked)
  PROVE  /\ \A e \in picked : m_arrive_time[e] <= now
         /\ \A e \in picked, f \in m_pending_events :
              m_arrive_time[f] < m_arrive_time[e] => f \in picked
<1>1. \A e \in picked : m_arrive_time[e] <= now BY DEF Due
<1>2. now \in Nat /\ \A e \in m_pending_events : m_arrive_time[e] \in Nat
  BY TimeAssumption DEF TypeOK
<1>3. ASSUME NEW e \in picked, NEW f \in m_pending_events, m_arrive_time[f] < m_arrive_time[e],
             f \notin picked
      PROVE  FALSE
  <2>1. m_arrive_time[f] <= now BY <1>1, <1>2, <1>3
  <2>2. \A g \in m_pending_events : m_is_cancled[g] => m_arrive_time[e] <= m_arrive_time[g]
    BY DEF Due
  <2>3. PICK g \in m_pending_events : m_is_cancled[g] /\ m_arrive_time[g] <= m_arrive_time[f]
    BY <1>2, <1>3, <2>1 DEF Due
  <2> QED BY <1>2, <1>3, <2>2, <2>3
<1> QED BY <1>1, <1>3

\* An erasure takes the event or, when that is absent, one later event or none.
LEMMA ErasedIs ==
  ASSUME NEW e \in Ev, NEW rest, Erased(e, rest)
  PROVE  \/ rest = m_pending_events \ {e}
         \/ /\ e \notin m_pending_events
            /\ \E f \in m_pending_events :
                 m_arrive_time[f] > m_arrive_time[e] /\ rest = m_pending_events \ {f}
BY DEF Erased, NextLater

\* Every step of the timer is one of Alarms or leaves its state alone: the flag
\* that delTimerEvent() sets, one-shot events that are looked at for repetition,
\* and whatever is done to the timerfd.
LEMMA AlarmsStep == TypeOK /\ IInv /\ [Next]_vars => [AL!ALNext]_(AL!alvars)
<1> SUFFICES ASSUME TypeOK, IInv, [Next]_vars PROVE [AL!ALNext]_(AL!alvars)
  OBVIOUS
<1>0. now \in Nat /\ m_arrive_time \in [Ev -> Nat] BY TimeAssumption DEF TypeOK
<1>p. Phases BY DEF IInv
<1>f. ASSUME NEW e \in Ev, m_arrive_time' = [m_arrive_time EXCEPT ![e] = now + Interval[e]],
             m_pending_events' = m_pending_events \cup {e}
      PROVE  AL!SetFor(e)
  <2>1. Interval[e] \in Nat /\ Interval[e] > 0 BY IntervalAssumption
  <2>2. m_arrive_time'[e] = now + Interval[e] BY <1>0, <1>f
  <2>3. m_arrive_time'[e] > now BY <1>0, <2>1, <2>2
  <2> QED BY <1>f, <2>2, <2>3 DEF AL!SetFor
<1>u. ASSUME UNCHANGED <<now, added, m_arrive_time, m_pending_events, tmps, tasks>>
      PROVE  UNCHANGED AL!alvars
  BY <1>u DEF AL!alvars
<1>1. ASSUME NEW e \in Ev, addTimerEvent(e) PROVE AL!ALNext
  <2>1. AL!SetFor(e) BY <1>1, <1>f DEF addTimerEvent
  <2>2. AL!Set(e) BY <1>1, <2>1 DEF addTimerEvent, handler, AL!Set
  <2> QED BY <2>2 DEF AL!ALNext
<1>2. ASSUME NEW e \in Ev, delTimerEvent(e) \/ EraseEvent(e) PROVE AL!ALNext
  <2>1. PICK rest : Erased(e, rest) /\ m_pending_events' = rest
    BY <1>2 DEF delTimerEvent, EraseEvent
  <2>2. e \in added
    <3>1. EraseEvent(e) => e \in asked BY DEF EraseEvent, IInv, Cancelled
    <3> QED BY <1>2, <1>p, <3>1 DEF delTimerEvent, Phases
  <2>3. UNCHANGED <<now, added, m_arrive_time, tmps, tasks>>
    BY <1>2 DEF delTimerEvent, EraseEvent, handler
  <2>4. AL!Cancel(e) BY <2>1, <2>2, <2>3, ErasedIs DEF AL!Cancel
  <2> QED BY <2>4 DEF AL!ALNext
<1>3. ASSUME NEW e \in Ev, MarkCancelled(e) PROVE UNCHANGED AL!alvars
  BY <1>3, <1>u DEF MarkCancelled, handler
<1>4. ASSUME NEW e \in Ev, ReAdd(e) PROVE [AL!ALNext]_(AL!alvars)
  <2>1. /\ e \in tmps /\ tmps' = tmps \ {e} /\ UNCHANGED <<now, added, tasks>>
    BY <1>4 DEF ReAdd, history
  <2>2. CASE e \in Repeated
    <3>1. AL!SetFor(e) BY <1>4, <1>f, <2>2 DEF ReAdd
    <3>2. e \in tmps \cap Repeated /\ (tmps \cap Repeated)' = (tmps \cap Repeated) \ {e}
      BY <2>1, <2>2
    <3>3. AL!SetAgain(e) BY <2>1, <3>1, <3>2 DEF AL!SetAgain
    <3> QED BY <3>3 DEF AL!ALNext
  <2>3. CASE e \notin Repeated
    <3>1. UNCHANGED <<m_arrive_time, m_pending_events>> BY <1>4, <2>3 DEF ReAdd, events
    <3>2. (tmps \cap Repeated)' = tmps \cap Repeated BY <2>1, <2>3
    <3> QED BY <2>1, <3>1, <3>2 DEF AL!alvars
  <2> QED BY <2>2, <2>3
<1>5. CASE onTimer
  <2>0. PICK picked \in SUBSET m_pending_events :
          /\ Due(picked) /\ tmps' = picked /\ tasks' = {<<m_arrive_time[e], e>> : e \in picked}
          /\ m_pending_events' = m_pending_events \ picked
    BY <1>5 DEF onTimer
  <2>1. tpc = "idle" /\ UNCHANGED <<now, m_arrive_time, added>>
    BY <1>5 DEF onTimer
  <2>2. tasks = {} /\ tmps = {} BY <1>p, <2>1 DEF Phases
  <2>3. AL!GoOff BY <2>0, <2>1, <2>2, DueIs DEF AL!GoOff
  <2> QED BY <2>3 DEF AL!ALNext
<1>6. CASE ReAddDone \/ onTimerDone
  BY <1>6, <1>u DEF ReAddDone, onTimerDone, events, history
<1>7. CASE Rearm
  BY <1>7, <1>u DEF Rearm, events, history
<1>8. ASSUME NEW k \in tasks, RunTask(k) PROVE AL!ALNext
  <2>1. tmps = {} BY <1>p, <1>8 DEF RunTask, Phases
  <2>2. AL!Hear(k) BY <1>8, <2>1 DEF RunTask, events, AL!Hear
  <2> QED BY <2>2 DEF AL!ALNext
<1>9. CASE Tick
  BY <1>9 DEF Tick, events, handler, history, AL!Tick, AL!ALNext
<1>10. CASE UNCHANGED vars
  BY <1>10, <1>u DEF vars, events, handler, history
<1> QED BY <1>1, <1>2, <1>3, <1>4, <1>5, <1>6, <1>7, <1>8, <1>9, <1>10 DEF Next

\* The timer implements Alarms: once each time an event was added or put back, not
\* before its time, in order, and never after a deletion that found it waiting.
THEOREM TimerImplementsAlarms == Spec => ImplementsAlarms
<1>1. Init => AL!ALInit
  <2> SUFFICES ASSUME Init PROVE AL!ALInit OBVIOUS
  <2>1. now \in Nat /\ m_arrive_time \in [Ev -> Nat] BY DEF Init
  <2> QED BY <2>1 DEF Init, AL!ALInit
<1> QED BY <1>1, AlarmsStep, TypeCorrect, Invariance, PTL DEF Spec, ImplementsAlarms, AL!ALSpec
=============================================================================
