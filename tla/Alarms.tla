-------------------------------- MODULE Alarms --------------------------------
(***************************************************************************)
(* What a Timer promises those who set timer events, with no timerfd, no   *)
(* flags and no threads: an alarm goes off after its time and once each    *)
(* time it is set, those that go off together in the order of their times, *)
(* and none that was cancelled before; a repeating one is set again before *)
(* any of them is heard.  When an alarm is cancelled that does not wait,   *)
(* one that was set for later may vanish.                                  *)
(***************************************************************************)
EXTENDS Naturals

CONSTANTS Alarm,
          Repeating  \* those that are set again when they go off

VARIABLES clock,
          known,    \* alarms set so far
          due,      \* the time each was last set for
          waiting,  \* set, and neither gone off nor cancelled
          renewing, \* gone off, and about to be set again
          ringing   \* gone off and not yet heard: <<time, alarm>>

alvars == <<clock, known, due, waiting, renewing, ringing>>

ALInit ==
  /\ clock \in Nat /\ due \in [Alarm -> Nat]
  /\ known = {} /\ waiting = {} /\ renewing = {} /\ ringing = {}

\* a is set, for a time to come.
SetFor(a) ==
  /\ due'[a] > clock /\ due' = [due EXCEPT ![a] = due'[a]]
  /\ waiting' = waiting \cup {a}

Set(a) ==
  /\ a \notin known /\ known' = known \cup {a}
  /\ SetFor(a)
  /\ UNCHANGED <<clock, renewing, ringing>>

\* No alarm goes off before an earlier one.
GoOff ==
  /\ ringing = {} /\ renewing = {}
  /\ \E S \in SUBSET waiting :
       /\ \A a \in S : due[a] <= clock
       /\ \A a \in S, b \in waiting : due[b] < due[a] => b \in S
       /\ ringing' = {<<due[a], a>> : a \in S}
       /\ renewing' = S \cap Repeating
       /\ waiting' = waiting \ S
  /\ UNCHANGED <<clock, known, due>>

SetAgain(a) ==
  /\ a \in renewing /\ renewing' = renewing \ {a}
  /\ SetFor(a)
  /\ UNCHANGED <<clock, known, ringing>>

Hear(k) ==
  /\ renewing = {} /\ k \in ringing /\ \A o \in ringing : k[1] <= o[1]
  /\ ringing' = ringing \ {k}
  /\ UNCHANGED <<clock, known, due, waiting, renewing>>

Cancel(a) ==
  /\ a \in known
  /\ \/ waiting' = waiting \ {a}
     \/ a \notin waiting /\ \E b \in waiting : due[b] > due[a] /\ waiting' = waiting \ {b}
  /\ UNCHANGED <<clock, known, due, renewing, ringing>>

Tick == clock' = clock + 1 /\ UNCHANGED <<known, due, waiting, renewing, ringing>>

ALNext ==
  \/ \E a \in Alarm : Set(a) \/ SetAgain(a) \/ Cancel(a)
  \/ \E k \in ringing : Hear(k)
  \/ GoOff \/ Tick

ALSpec == ALInit /\ [][ALNext]_alvars
=============================================================================
