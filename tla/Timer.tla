-------------------------------- MODULE Timer --------------------------------
(***************************************************************************)
(* flconc::Timer: the multimap of timer events of one reactor, the timerfd *)
(* that wakes the reactor, and onTimer().                                  *)
(*                                                                         *)
(* The multimap is a set ordered by m_arrive_time; among events of equal   *)
(* time any order may be taken.  addTimerEvent() runs in the thread of the *)
(* reactor; delTimerEvent() also in another, when the coroutine that owns  *)
(* the event has moved to another reactor.  The clock may tick between any *)
(* two steps (punctual = FALSE) or only while the timer is at rest         *)
(* (punctual = TRUE: no handler outlasts a tick).                          *)
(***************************************************************************)
EXTENDS Naturals, FiniteSets

CONSTANTS
  Ev,       \* TimerEvent objects, each added at most once by its creator
  Interval, \* m_interval of each
  Repeated, \* those with m_is_repeated
  MaxTime   \* bound on the clock

ASSUME IntervalAssumption == Interval \in [Ev -> Nat \ {0}]
ASSUME RepeatedAssumption == Repeated \subseteq Ev
ASSUME TimeAssumption == MaxTime \in Nat

VARIABLES
  now,               \* getNowMs()
  m_pending_events,
  m_arrive_time, m_is_cancled,  \* fields of the events
  expiry,            \* when the timerfd goes off; 0: disarmed
  readable,          \* the timerfd has an expiration to be read
  tpc,               \* where the reactor is in onTimer()
  tmps,              \* picked events, still to be looked at for repetition
  tasks,             \* picked <<arrive time, event>>, still to be run
  deleting,          \* events that another thread is inside delTimerEvent() for
  punctual,          \* the environment: see above
  added, ran,        \* history: events added; one-shot events run
  deleted,           \* history: events deleted while they were pending
  asked,             \* history: events delTimerEvent was called for
  stray,             \* history: delTimerEvent was called for an absent event
  cut                \* history: onTimer() stopped at an event being deleted

events == <<m_pending_events, m_arrive_time, m_is_cancled>>
timerfd == <<expiry, readable>>
handler == <<tpc, tmps, tasks>>
history == <<added, ran, deleted, asked, stray, cut>>
vars == <<now, events, timerfd, handler, deleting, punctual, history>>

TypeOK ==
  /\ now \in 1..(MaxTime + 1)
  /\ m_pending_events \in SUBSET Ev
  /\ m_arrive_time \in [Ev -> Nat] /\ m_is_cancled \in [Ev -> BOOLEAN]
  /\ expiry \in Nat /\ (expiry # 0 => expiry > now) /\ readable \in BOOLEAN
  /\ tpc \in {"idle", "readd", "reset", "run"}
  /\ tmps \in SUBSET Ev /\ tasks \in SUBSET (Nat \X Ev)
  /\ punctual \in BOOLEAN
  /\ added \in SUBSET Ev /\ ran \in SUBSET Ev /\ deleted \in SUBSET Ev
  /\ asked \in SUBSET Ev /\ deleting \in SUBSET Ev
  /\ stray \in BOOLEAN /\ cut \in BOOLEAN

Init ==
  /\ now = 1
  /\ m_pending_events = {}
  /\ m_arrive_time = [e \in Ev |-> 0] /\ m_is_cancled = [e \in Ev |-> FALSE]
  /\ expiry = 0 /\ readable = FALSE
  /\ tpc = "idle" /\ tmps = {} /\ tasks = {}
  /\ punctual \in BOOLEAN
  /\ added = {} /\ ran = {} /\ deleted = {} /\ asked = {} /\ deleting = {}
  /\ stray = FALSE /\ cut = FALSE

-----------------------------------------------------------------------------
\* timerfd_settime with what is left of the time: an interval of 0 disarms.
Arm(at) ==
  /\ expiry' = IF at = now THEN 0 ELSE at
  /\ readable' = FALSE

\* Mutant: the test that the last event is still to come is missing.
resetArriveTime_NoTest(pending, arrive) ==
  \/ pending = {} /\ UNCHANGED timerfd
  \/ \E last \in pending :
       /\ \A f \in pending : arrive[f] <= arrive[last]
       /\ Arm(arrive[last])

\* resetArriveTime() looks at the LAST event (rbegin) and leaves the timerfd
\* alone when there is none, or when the last one is already past.
resetArriveTime(pending, arrive) ==
  \/ pending = {} /\ UNCHANGED timerfd
  \/ \E last \in pending :
       /\ \A f \in pending : arrive[f] <= arrive[last]
       /\ IF arrive[last] < now THEN UNCHANGED timerfd ELSE Arm(arrive[last])

\* Mutant: the timerfd is set only when the multimap was empty and the new
\* event is the earlier one, a condition that never holds.
NeedsReset_Never(arrive) ==
  /\ m_pending_events = {}
  /\ \E f \in m_pending_events : arrive < m_arrive_time[f]

NeedsReset(arrive) ==
  \/ m_pending_events = {}
  \/ \A f \in m_pending_events : arrive < m_arrive_time[f]

\* The creator computes the arrive time and adds the event, from a coroutine
\* or a task run by the thread of the reactor.  A deletion by another thread
\* between emplace() and resetArriveTime() has the effect of one before or
\* after the whole call, so the two are one step.
addTimerEvent(e) ==
  /\ tpc \in {"idle", "run"} /\ e \notin added
  /\ LET arrive == now + Interval[e]
         at == [m_arrive_time EXCEPT ![e] = arrive]
     IN  /\ m_arrive_time' = at
         /\ m_pending_events' = m_pending_events \cup {e}
         /\ IF NeedsReset(arrive)
              THEN resetArriveTime(m_pending_events \cup {e}, at)
              ELSE UNCHANGED timerfd
  /\ added' = added \cup {e}
  /\ UNCHANGED <<now, m_is_cancled, handler, deleting, punctual, ran, deleted, asked, stray, cut>>

\* The scan of delTimerEvent() stops at the event or, when it is absent, at
\* upper_bound(): the next later event is then the one erased.
NextLater(e) ==
  {f \in m_pending_events :
     /\ m_arrive_time[f] > m_arrive_time[e]
     /\ \A g \in m_pending_events :
          m_arrive_time[g] > m_arrive_time[e] => m_arrive_time[f] <= m_arrive_time[g]}

\* Mutant: the event is marked and left in the multimap.
Erased_Kept(e, rest) == rest = m_pending_events

Erased(e, rest) ==
  IF e \in m_pending_events
    THEN rest = m_pending_events \ {e}
    ELSE \/ NextLater(e) = {} /\ rest = m_pending_events
         \/ \E f \in NextLater(e) : rest = m_pending_events \ {f}

\* delTimerEvent() in the thread of the reactor.
delTimerEvent(e) ==
  /\ tpc \in {"idle", "run"} /\ e \in added \ asked
  /\ m_is_cancled' = [m_is_cancled EXCEPT ![e] = TRUE]
  /\ \E rest \in SUBSET m_pending_events : Erased(e, rest) /\ m_pending_events' = rest
  /\ asked' = asked \cup {e}
  /\ deleted' = IF e \in m_pending_events THEN deleted \cup {e} ELSE deleted
  /\ stray' = (stray \/ e \notin m_pending_events)
  /\ UNCHANGED <<now, m_arrive_time, timerfd, handler, punctual, deleting, added, ran, cut>>

\* delTimerEvent() by a coroutine that has moved to another thread, for its own
\* one-shot timeout, at any moment: the flag is set before the lock is taken ...
MarkCancelled(e) ==
  /\ e \in added \ (asked \cup Repeated)
  /\ m_is_cancled' = [m_is_cancled EXCEPT ![e] = TRUE]
  /\ asked' = asked \cup {e} /\ deleting' = deleting \cup {e}
  /\ UNCHANGED <<now, m_pending_events, m_arrive_time, timerfd, handler, punctual,
                 added, ran, deleted, stray, cut>>

\* ... and the multimap is searched under it.
EraseEvent(e) ==
  /\ e \in deleting
  /\ deleting' = deleting \ {e}
  /\ \E rest \in SUBSET m_pending_events : Erased(e, rest) /\ m_pending_events' = rest
  /\ deleted' = IF e \in m_pending_events THEN deleted \cup {e} ELSE deleted
  /\ stray' = (stray \/ e \notin m_pending_events)
  /\ UNCHANGED <<now, m_arrive_time, m_is_cancled, timerfd, handler, punctual,
                 added, ran, asked, cut>>

-----------------------------------------------------------------------------
(* onTimer(), called by the reactor when the timerfd is readable.          *)

\* Mutant: the events are taken without looking at the clock.
Due_All(picked) == picked = {e \in m_pending_events : ~m_is_cancled[e]}

\* The scan picks events from the first one on and stops at one that is to come
\* or cancelled; those that have the time of a cancelled one may stand before it.
Due(picked) ==
  /\ \A e \in picked :
       /\ m_arrive_time[e] <= now /\ ~m_is_cancled[e]
       /\ \A f \in m_pending_events : m_is_cancled[f] => m_arrive_time[e] <= m_arrive_time[f]
  /\ \A e \in m_pending_events \ picked :
       \/ m_arrive_time[e] > now
       \/ \E f \in m_pending_events : m_is_cancled[f] /\ m_arrive_time[f] <= m_arrive_time[e]

\* The scan met an event that another thread is deleting, and stopped there.
Blocked == \E e \in m_pending_events : m_is_cancled[e] /\ m_arrive_time[e] <= now

\* Mutant: the picked events are not erased from the multimap.
onTimer_NoErase ==
  /\ tpc = "idle" /\ readable
  /\ readable' = FALSE
  /\ \E picked \in SUBSET m_pending_events :
       /\ Due(picked)
       /\ tmps' = picked /\ tasks' = {<<m_arrive_time[e], e>> : e \in picked}
  /\ tpc' = "readd"
  /\ cut' = (cut \/ Blocked)
  /\ UNCHANGED <<now, events, expiry, deleting, punctual, added, ran, deleted, asked, stray>>

onTimer ==
  /\ tpc = "idle" /\ readable
  /\ readable' = FALSE
  /\ \E picked \in SUBSET m_pending_events :
       /\ Due(picked)
       /\ tmps' = picked /\ tasks' = {<<m_arrive_time[e], e>> : e \in picked}
       /\ m_pending_events' = m_pending_events \ picked
  /\ tpc' = "readd"
  /\ cut' = (cut \/ Blocked)
  /\ UNCHANGED <<now, m_arrive_time, m_is_cancled, expiry, deleting, punctual,
                 added, ran, deleted, asked, stray>>

\* Mutant: a repeated event is not put back.
ReAdd_Forget(e) ==
  /\ tpc = "readd" /\ e \in tmps
  /\ tmps' = tmps \ {e}
  /\ UNCHANGED <<now, events, timerfd, tpc, tasks, deleting, punctual, history>>

\* A repeated event starts again (resetTime clears a cancellation too).
ReAdd(e) ==
  /\ tpc = "readd" /\ e \in tmps
  /\ tmps' = tmps \ {e}
  /\ IF e \in Repeated
       THEN /\ m_arrive_time' = [m_arrive_time EXCEPT ![e] = now + Interval[e]]
            /\ m_is_cancled' = [m_is_cancled EXCEPT ![e] = FALSE]
            /\ m_pending_events' = m_pending_events \cup {e}
       ELSE UNCHANGED events
  /\ UNCHANGED <<now, timerfd, tpc, tasks, deleting, punctual, history>>

ReAddDone ==
  /\ tpc = "readd" /\ tmps = {} /\ tpc' = "reset"
  /\ UNCHANGED <<now, events, timerfd, tmps, tasks, deleting, punctual, history>>

\* The clock is read again here.
Rearm ==
  /\ tpc = "reset" /\ tpc' = "run"
  /\ resetArriveTime(m_pending_events, m_arrive_time)
  /\ UNCHANGED <<now, events, tmps, tasks, deleting, punctual, history>>

RunTask(k) ==
  /\ tpc = "run" /\ k \in tasks
  /\ \A o \in tasks : k[1] <= o[1]
  /\ tasks' = tasks \ {k}
  /\ ran' = ran \cup ({k[2]} \ Repeated)
  /\ UNCHANGED <<now, events, timerfd, tpc, tmps, deleting, punctual, added, deleted, asked,
                 stray, cut>>

onTimerDone ==
  /\ tpc = "run" /\ tasks = {} /\ tpc' = "idle"
  /\ UNCHANGED <<now, events, timerfd, tmps, tasks, deleting, punctual, history>>

-----------------------------------------------------------------------------
\* Time passes; the kernel makes the timerfd readable when it goes off.
Tick ==
  /\ now <= MaxTime
  /\ punctual => tpc = "idle" /\ ~readable
  /\ now' = now + 1
  /\ IF expiry # 0 /\ expiry <= now + 1
       THEN readable' = TRUE /\ expiry' = 0
       ELSE UNCHANGED timerfd
  /\ UNCHANGED <<events, handler, deleting, punctual, history>>

Next ==
  \/ \E e \in Ev : addTimerEvent(e) \/ delTimerEvent(e) \/ MarkCancelled(e) \/ EraseEvent(e) \/ ReAdd(e)
  \/ onTimer \/ ReAddDone \/ Rearm \/ onTimerDone \/ Tick
  \/ \E k \in tasks : RunTask(k)

Spec == Init /\ [][Next]_vars

-----------------------------------------------------------------------------
Waiting == {k[2] : k \in tasks}

\* No callback runs before its time, although onTimer() is also called for
\* timers that were deleted, rearmed or set for the last event.
NeverEarly == \A k \in tasks : k[1] <= now

\* A one-shot event runs at most once: once run it is neither pending nor
\* picked again, and while it waits to run it is no longer pending.
OneShotOnce ==
  \A e \in Ev \ Repeated :
    /\ e \in ran => e \notin m_pending_events \cup Waiting
    /\ e \in Waiting => e \notin m_pending_events

\* An event deleted while it was pending never comes back, and the callback of
\* a one-shot event deleted in time is not run.
DeletedStaysQuiet ==
  \A e \in deleted :
    /\ e \notin m_pending_events
    /\ e \notin Repeated => e \notin Waiting \cup ran

\* Whatever deletions by other threads come between the steps of onTimer(), and
\* whatever its timerfd was set for: callbacks run once for each time their event
\* was added or put back, after that time, in order, and not at all if the event
\* was deleted before it was picked.  The Timer implements Alarms.
AL == INSTANCE Alarms WITH
        Alarm <- Ev, Repeating <- Repeated, clock <- now, known <- added, due <- m_arrive_time,
        waiting <- m_pending_events, renewing <- tmps \cap Repeated, ringing <- tasks

ImplementsAlarms == AL!ALSpec

\* Nobody's timeout disappears: an event that was added and not deleted is
\* pending, picked or (one-shot) run.  The exception is in the code: after
\* delTimerEvent() was called for an event that had left the multimap, an
\* unrelated later event may be gone.
NoEventLost ==
  \A e \in added \ asked :
    \/ e \in m_pending_events \cup tmps
    \/ e \notin Repeated /\ e \in Waiting \cup ran
    \/ stray

\* While handlers do not outlast a tick, the timer is never left unarmed with
\* events pending, whatever was added or deleted: it is set, has gone off, or
\* onTimer() is on its way to set it.  The code has one exception: onTimer()
\* stopped at an event that another thread was deleting (cut), and left due
\* events behind it in the multimap.
ArmedWhilePending ==
  punctual /\ ~cut /\ m_pending_events # {} => expiry # 0 \/ readable \/ tpc \in {"readd", "reset"}

\* A timer event happens when its time has come: with the timer at rest and
\* the clock kept, no pending event is overdue.  The configuration files
\* promise it of the event that moves log lines to the async logger.
OnSchedule ==
  punctual /\ tpc = "idle" /\ ~readable => \A e \in m_pending_events : m_arrive_time[e] >= now

\* The inductive strengthening of the invariants.  Where an event can be in
\* each phase of onTimer(), and one task per event:
Phases ==
  /\ tpc = "idle" => tasks = {}
  /\ tpc # "readd" => tmps = {}
  /\ tmps \subseteq Waiting /\ tmps \cap deleted = {} /\ tmps \cap m_pending_events = {}
  /\ \A k, o \in tasks : k[2] = o[2] => k = o
  /\ m_pending_events \cup Waiting \cup ran \cup asked \subseteq added

\* a cancelled event is in the multimap only while another thread deletes it:
Cancelled ==
  /\ \A e \in Ev : m_is_cancled[e] => e \in asked
  /\ deleting \subseteq asked \ Repeated /\ deleted \subseteq asked
  /\ \A e \in m_pending_events : m_is_cancled[e] => e \in deleting

\* and only later events are there while a punctual onTimer() is under way.
LaterOnly ==
  punctual /\ ~cut /\ tpc \in {"readd", "reset"} => \A e \in m_pending_events : m_arrive_time[e] > now

IInv ==
  /\ NeverEarly /\ OneShotOnce /\ DeletedStaysQuiet /\ NoEventLost /\ ArmedWhilePending
  /\ Phases /\ Cancelled /\ LaterOnly
=============================================================================
