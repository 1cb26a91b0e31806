------------------------------ MODULE TaskQueue ------------------------------
(***************************************************************************)
(* What Reactor::addTask promises, with no threads, locks or wakeups: the  *)
(* closures handed to a reactor form one queue, and the reactor runs them  *)
(* one at a time, each exactly once, in the order in which they were       *)
(* handed over.  A reactor that has stopped leaves the rest of the queue   *)
(* unexecuted.                                                             *)
(***************************************************************************)
EXTENDS Naturals, Sequences

CONSTANTS Item,   \* what can be queued
          Once,   \* the closures of addTask: each object is accepted once
          Idle    \* no closure is being executed

VARIABLES queue,    \* accepted and not yet started, oldest first
          accepted, \* history: the members of Once accepted so far
          running   \* the closure being executed, or Idle

tqvars == <<queue, accepted, running>>

Elements(s) == {s[i] : i \in DOMAIN s}

TQInit == queue = <<>> /\ accepted = {} /\ running = Idle

\* What a step appended to the queue.
Appended == SubSeq(queue', Len(queue) + 1, Len(queue'))

\* One caller's closures go to the back of the queue; none is accepted twice.
Submit ==
  /\ queue' \in Seq(Item)
  /\ Len(queue') > Len(queue) /\ SubSeq(queue', 1, Len(queue)) = queue
  /\ Elements(Appended) \cap accepted = {}
  /\ \A i, j \in DOMAIN Appended : Appended[i] = Appended[j] => i = j
  /\ accepted' = accepted \cup (Elements(Appended) \cap Once)
  /\ UNCHANGED running

Start ==
  /\ running = Idle
  /\ queue # <<>>
  /\ running' = Head(queue)
  /\ queue' = Tail(queue)
  /\ UNCHANGED accepted

Finish == running # Idle /\ running' = Idle /\ UNCHANGED <<queue, accepted>>

TQNext == Submit \/ Start \/ Finish

TQSpec == TQInit /\ [][TQNext]_tqvars
=============================================================================
