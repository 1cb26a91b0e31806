------------------------ MODULE CoroutineMutex_proofs -------------------------
(***************************************************************************)
(* Proofs about CoroutineMutex, for any number of coroutines and threads   *)
(* and any number of rounds.                                               *)
(***************************************************************************)
EXTENDS CoroutineMutex, SequenceTheorems, TLAPS

\* Every step keeps the mutex, its queue and the coroutines within their types.
LEMMA TypeStep == TypeOK /\ [Next]_vars => TypeOK'
<1> SUFFICES ASSUME TypeOK, [Next]_vars PROVE TypeOK'
  OBVIOUS
<1> USE DEF TypeOK, Pcs
<1>1. ASSUME NEW c \in Cors, lock(c) PROVE TypeOK'
  <2>1. rounds' \in [Cors -> 0..MaxRounds] BY <1>1, RoundsAssumption DEF lock
  <2>2. Append(m_sleep_cors, c) \in Seq(Cors) BY AppendProperties
  <2> QED BY <1>1, <2>1, <2>2 DEF lock
<1>2. ASSUME NEW c \in Cors, Yield(c) PROVE TypeOK'
  BY <1>2 DEF Yield
<1>3. ASSUME NEW c \in Cors, unlock(c) PROVE TypeOK'
  <2>1. m_sleep_cors # <<>> => Head(m_sleep_cors) \in Cors /\ Tail(m_sleep_cors) \in Seq(Cors)
    BY HeadTailProperties
  <2> QED BY <1>3, <2>1 DEF unlock
<1>4. ASSUME NEW c \in Cors, AddResumeTask(c) PROVE TypeOK'
  BY <1>4 DEF AddResumeTask
<1>5. ASSUME NEW c \in Cors, Resume(c) PROVE TypeOK'
  BY <1>5 DEF Resume
<1>6. CASE UNCHANGED vars
  BY <1>6 DEF vars
<1> QED BY <1>1, <1>2, <1>3, <1>4, <1>5, <1>6 DEF Next

\* The type invariant holds in every reachable state.
THEOREM TypeCorrect == Spec => []TypeOK
<1>1. Init => TypeOK
  <2> SUFFICES ASSUME Init PROVE TypeOK OBVIOUS
  <2>1. rounds \in [Cors -> 0..MaxRounds] BY RoundsAssumption DEF Init
  <2>2. m_sleep_cors \in Seq(Cors) BY EmptySeq DEF Init
  <2> QED BY <2>1, <2>2 DEF Init, TypeOK, Pcs
<1> QED BY <1>1, TypeStep, PTL DEF Spec

-----------------------------------------------------------------------------
\* The inductive invariant is kept by every step: lock() puts a coroutine that
\* was in no place into the queue, unlock() moves the head of the queue into
\* its hands, the task takes it from there, and the resumption ends the wait.
LEMMA IInvStep == TypeOK /\ IInv /\ [Next]_vars => IInv'
<1> SUFFICES ASSUME TypeOK, IInv, [Next]_vars PROVE IInv'
  OBVIOUS
<1> DEFINE Waits(d) == pc[d] \in {"yielding", "asleep"}
           Unique == \A i, j \in DOMAIN m_sleep_cors : m_sleep_cors[i] = m_sleep_cors[j] => i = j
           Hands == \A d, e \in Cors : popped[d] = popped[e] /\ popped[d] # NoCor => d = e
           Waking == \A d \in Cors : pc[d] = "waking" <=> popped[d] # NoCor
           Placed(d) ==
             /\ Waits(d) <=> Queued(d) \/ InHands(d) \/ HasTask(d)
             /\ ~(Queued(d) /\ InHands(d)) /\ ~(Queued(d) /\ HasTask(d))
             /\ ~(InHands(d) /\ HasTask(d))
<1>a. Unique /\ Hands /\ Waking /\ \A d \in Cors : Placed(d)
  BY DEF IInv, OnePlace
<1>b. Unique' /\ Hands' /\ Waking' /\ (\A d \in Cors : Placed(d)') => IInv'
  BY DEF IInv, OnePlace
<1>c. /\ m_sleep_cors \in Seq(Cors) /\ pc \in [Cors -> Pcs]
      /\ popped \in [Cors -> Cors \cup {NoCor}] /\ home \in [Cors -> Threads]
      /\ woken \in [Cors -> Threads \cup {"none"}]
  BY DEF TypeOK
<1>1. ASSUME NEW c \in Cors, lock(c) PROVE IInv'
  <2>0. pc[c] = "out" /\ popped' = popped /\ woken' = woken
    BY <1>1 DEF lock
  <2>1. \A d \in Cors : (InHands(d)' <=> InHands(d)) /\ (HasTask(d)' <=> HasTask(d))
    BY <2>0 DEF InHands, HasTask
  <2>2. CASE ~m_lock
    <3>1. m_sleep_cors' = m_sleep_cors /\ pc' = [pc EXCEPT ![c] = "in"]
      BY <1>1, <2>2 DEF lock
    <3>2. \A d \in Cors : Queued(d)' <=> Queued(d)
      BY <3>1 DEF Queued
    <3>3. \A d \in Cors : Waits(d)' <=> Waits(d)
      BY <1>c, <2>0, <3>1
    <3>4. Unique' /\ Hands' BY <1>a, <2>0, <3>1
    <3>5. Waking' BY <1>a, <1>c, <2>0, <3>1
    <3> HIDE DEF Waits, Unique, Hands, Waking
    <3> QED BY <1>a, <1>b, <2>1, <3>2, <3>3, <3>4, <3>5
  <2>3. CASE m_lock
    <3>1. m_sleep_cors' = Append(m_sleep_cors, c) /\ pc' = [pc EXCEPT ![c] = "yielding"]
      BY <1>1, <2>3 DEF lock
    <3>2. PICK n \in Nat : n = Len(m_sleep_cors) /\ DOMAIN m_sleep_cors = 1..n
      BY <1>c, LenProperties
    <3>3. /\ DOMAIN m_sleep_cors' = 1..(n + 1) /\ m_sleep_cors'[n + 1] = c
          /\ \A i \in 1..n : m_sleep_cors'[i] = m_sleep_cors[i]
      BY <1>c, <3>1, <3>2, AppendProperties
    <3>4. \A d \in Cors : Queued(d)' <=> Queued(d) \/ d = c
      BY <3>2, <3>3 DEF Queued
    <3>5. ~Queued(c) /\ ~InHands(c) /\ ~HasTask(c)
      BY <1>a, <2>0
    <3>6. Unique'
      BY <1>a, <3>2, <3>3, <3>5 DEF Queued
    <3>7. \A d \in Cors : Waits(d)' <=> Waits(d) \/ d = c
      BY <1>c, <3>1
    <3>8. Hands' BY <1>a, <2>0
    <3>9. Waking' BY <1>a, <1>c, <2>0, <3>1
    <3> HIDE DEF Waits, Unique, Hands, Waking
    <3> QED BY <1>a, <1>b, <2>1, <3>4, <3>5, <3>6, <3>7, <3>8, <3>9
  <2> QED BY <2>2, <2>3
<1>2. ASSUME NEW c \in Cors, Yield(c) PROVE IInv'
  <2>1. pc[c] = "yielding" /\ pc' = [pc EXCEPT ![c] = "asleep"]
        /\ popped' = popped /\ woken' = woken /\ m_sleep_cors' = m_sleep_cors
    BY <1>2 DEF Yield
  <2>2. \A d \in Cors : /\ (InHands(d)' <=> InHands(d)) /\ (HasTask(d)' <=> HasTask(d))
                        /\ (Queued(d)' <=> Queued(d))
    BY <2>1 DEF InHands, HasTask, Queued
  <2>3. \A d \in Cors : Waits(d)' <=> Waits(d)
    BY <1>c, <2>1
  <2>4. Unique' /\ Hands' BY <1>a, <2>1
  <2>5. Waking' BY <1>a, <1>c, <2>1
  <2> HIDE DEF Waits, Unique, Hands, Waking
  <2> QED BY <1>a, <1>b, <2>2, <2>3, <2>4, <2>5
<1>3. ASSUME NEW c \in Cors, unlock(c) PROVE IInv'
  <2>0. pc[c] = "in" /\ woken' = woken
    BY <1>3 DEF unlock
  <2>1. CASE ~(m_lock /\ m_sleep_cors # <<>>)
    <3>1. pc' = [pc EXCEPT ![c] = "out"] /\ popped' = popped /\ m_sleep_cors' = m_sleep_cors
      BY <1>3, <2>1 DEF unlock
    <3>2. \A d \in Cors : /\ (InHands(d)' <=> InHands(d)) /\ (HasTask(d)' <=> HasTask(d))
                          /\ (Queued(d)' <=> Queued(d))
      BY <2>0, <3>1 DEF InHands, HasTask, Queued
    <3>3. \A d \in Cors : Waits(d)' <=> Waits(d)
      BY <1>c, <2>0, <3>1
    <3>4. Unique' /\ Hands' BY <1>a, <3>1
    <3>5. Waking' BY <1>a, <1>c, <2>0, <3>1
    <3> HIDE DEF Waits, Unique, Hands, Waking
    <3> QED BY <1>a, <1>b, <3>2, <3>3, <3>4, <3>5
  <2>2. CASE m_lock /\ m_sleep_cors # <<>>
    <3>1. PICK h : h = Head(m_sleep_cors)
      OBVIOUS
    <3>2. /\ m_sleep_cors' = Tail(m_sleep_cors)
          /\ pc' = [pc EXCEPT ![c] = "waking"] /\ popped' = [popped EXCEPT ![c] = h]
      BY <1>3, <2>2, <3>1 DEF unlock
    <3>3. PICK n \in Nat : n = Len(m_sleep_cors) /\ DOMAIN m_sleep_cors = 1..n
      BY <1>c, LenProperties
    <3>4. /\ n >= 1 /\ h = m_sleep_cors[1] /\ h \in Cors /\ DOMAIN m_sleep_cors' = 1..(n - 1)
          /\ \A i \in 1..(n - 1) : m_sleep_cors'[i] = m_sleep_cors[i + 1]
      <4>1. n # 0 BY <1>c, <2>2, <3>3, EmptySeq
      <4>2. Len(m_sleep_cors') = n - 1 /\ m_sleep_cors' \in Seq(Cors)
        BY <1>c, <2>2, <3>2, <3>3, HeadTailProperties
      <4>3. \A i \in 1..(n - 1) : m_sleep_cors'[i] = m_sleep_cors[i + 1]
        BY <1>c, <2>2, <3>2, <3>3, <4>2, HeadTailProperties
      <4>4. h = m_sleep_cors[1] /\ h \in Cors
        BY <1>c, <2>2, <3>1, HeadTailProperties
      <4> QED BY <3>3, <4>1, <4>2, <4>3, <4>4, LenProperties
    <3>5. Unique'
      <4>1. ASSUME NEW i \in 1..(n - 1), NEW j \in 1..(n - 1), m_sleep_cors'[i] = m_sleep_cors'[j]
            PROVE i = j
        <5>1. i + 1 \in 1..n /\ j + 1 \in 1..n BY <3>3
        <5>2. m_sleep_cors[i + 1] = m_sleep_cors[j + 1] BY <3>4, <4>1
        <5>3. i + 1 = j + 1 BY <1>a, <3>3, <5>1, <5>2
        <5> QED BY <5>3
      <4> QED BY <3>4, <4>1
    <3>6. \A d \in Cors : Queued(d)' <=> Queued(d) /\ d # h
      <4>1. ASSUME NEW d \in Cors, Queued(d)' PROVE Queued(d) /\ d # h
        <5>1. PICK i \in 1..(n - 1) : m_sleep_cors'[i] = d BY <3>4, <4>1 DEF Queued
        <5>2. m_sleep_cors[i + 1] = d /\ i + 1 \in 1..n /\ i + 1 # 1 BY <3>3, <3>4, <5>1
        <5>3. 1 \in 1..n BY <3>4
        <5> QED BY <1>a, <3>3, <3>4, <5>2, <5>3 DEF Queued
      <4>2. ASSUME NEW d \in Cors, Queued(d), d # h PROVE Queued(d)'
        <5>1. PICK i \in 1..n : m_sleep_cors[i] = d BY <3>3, <4>2 DEF Queued
        <5>2. i - 1 \in 1..(n - 1) BY <3>4, <4>2, <5>1
        <5>3. m_sleep_cors'[i - 1] = m_sleep_cors[(i - 1) + 1] BY <3>4, <5>2
        <5>4. m_sleep_cors'[i - 1] = d BY <5>1, <5>3
        <5> QED BY <3>4, <5>2, <5>4 DEF Queued
      <4> QED BY <4>1, <4>2
    <3>7. Queued(h)
      BY <3>3, <3>4 DEF Queued
    <3>8. ~InHands(h) /\ ~HasTask(h) /\ h # c /\ popped[c] = NoCor
      BY <1>a, <2>0, <3>4, <3>7
    <3>9. \A d \in Cors : InHands(d)' <=> InHands(d) \/ d = h
      <4>1. popped'[c] = h /\ \A x \in Cors : x # c => popped'[x] = popped[x]
        BY <1>c, <3>2
      <4> QED BY <3>8, <4>1, NoCorAssumption DEF InHands
    <3>10. Hands'
      <4>1. ASSUME NEW d \in Cors, NEW e \in Cors, popped'[d] = popped'[e], popped'[d] # NoCor
            PROVE d = e
        <5>1. \A x \in Cors : x # c => popped'[x] = popped[x] /\ popped[x] # h
          BY <1>c, <3>2, <3>8 DEF InHands
        <5>2. popped'[c] = h BY <1>c, <3>2
        <5> QED BY <1>a, <4>1, <5>1, <5>2
      <4> QED BY <4>1
    <3>11. Waking'
      BY <1>a, <1>c, <3>2, <3>4, NoCorAssumption
    <3>12. \A d \in Cors : (HasTask(d)' <=> HasTask(d)) /\ (Waits(d)' <=> Waits(d))
      BY <1>c, <2>0, <3>2 DEF HasTask
    <3> HIDE DEF Waits, Unique, Hands, Waking
    <3> QED BY <1>a, <1>b, <3>4, <3>5, <3>6, <3>7, <3>8, <3>9, <3>10, <3>11, <3>12
  <2> QED BY <2>1, <2>2
<1>4. ASSUME NEW c \in Cors, AddResumeTask(c) PROVE IInv'
  <2>1. pc[c] = "waking"
    BY <1>4 DEF AddResumeTask
  <2>2. PICK p \in Cors : p = popped[c]
    BY <1>a, <1>c, <2>1
  <2>3. /\ woken' = [woken EXCEPT ![p] = home[c]] /\ popped' = [popped EXCEPT ![c] = NoCor]
        /\ pc' = [pc EXCEPT ![c] = "out"] /\ m_sleep_cors' = m_sleep_cors
    BY <1>4, <2>2 DEF AddResumeTask
  <2>4. InHands(p)
    BY <2>2 DEF InHands
  <2>5. ~Queued(p) /\ ~HasTask(p)
    BY <1>a, <2>4
  <2>6. \A d \in Cors : InHands(d)' <=> InHands(d) /\ d # p
    <3>1. \A x \in Cors : x # c => popped'[x] = popped[x] /\ popped[x] # p
      BY <1>a, <1>c, <2>2, <2>3, NoCorAssumption
    <3>2. popped'[c] = NoCor
      BY <1>c, <2>3
    <3> QED BY <2>2, <3>1, <3>2, NoCorAssumption DEF InHands
  <2>7. \A d \in Cors : HasTask(d)' <=> HasTask(d) \/ d = p
    BY <1>c, <2>3, ThreadsAssumption DEF HasTask
  <2>8. \A d \in Cors : (Queued(d)' <=> Queued(d)) /\ (Waits(d)' <=> Waits(d))
    BY <1>c, <2>1, <2>3 DEF Queued
  <2>9. Unique' BY <1>a, <2>3
  <2>10. Hands' BY <1>a, <1>c, <2>3
  <2>11. Waking' BY <1>a, <1>c, <2>3
  <2> HIDE DEF Waits, Unique, Hands, Waking
  <2> QED BY <1>a, <1>b, <2>4, <2>5, <2>6, <2>7, <2>8, <2>9, <2>10, <2>11
<1>5. ASSUME NEW c \in Cors, Resume(c) PROVE IInv'
  <2>0. woken[c] # "none" /\ m_sleep_cors' = m_sleep_cors /\ popped' = popped
    BY <1>5 DEF Resume
  <2>1. \A d \in Cors : (InHands(d)' <=> InHands(d)) /\ (Queued(d)' <=> Queued(d))
    BY <2>0 DEF InHands, Queued
  <2>2. Unique' /\ Hands' BY <1>a, <2>0
  <2>3. CASE pc[c] = "asleep"
    <3>1. pc' = [pc EXCEPT ![c] = "in"] /\ woken' = [woken EXCEPT ![c] = "none"]
      BY <1>5, <2>3 DEF Resume
    <3>2. \A d \in Cors : /\ HasTask(d)' <=> HasTask(d) /\ d # c
                          /\ Waits(d)' <=> Waits(d) /\ d # c
      BY <1>c, <3>1 DEF HasTask
    <3>3. Waking' BY <1>a, <1>c, <2>0, <2>3, <3>1
    <3>4. HasTask(c) BY <2>0 DEF HasTask
    <3> HIDE DEF Waits, Unique, Hands, Waking
    <3> QED BY <1>a, <1>b, <2>1, <2>2, <3>2, <3>3, <3>4
  <2>4. CASE pc[c] # "asleep"
    <3>1. pc' = pc /\ woken' = woken
      BY <1>5, <2>4 DEF Resume
    <3>2. \A d \in Cors : (HasTask(d)' <=> HasTask(d)) /\ (Waits(d)' <=> Waits(d))
      BY <3>1 DEF HasTask
    <3>3. Waking' BY <1>a, <2>0, <3>1
    <3> HIDE DEF Waits, Unique, Hands, Waking
    <3> QED BY <1>a, <1>b, <2>1, <2>2, <3>2, <3>3
  <2> QED BY <2>3, <2>4
<1>6. CASE UNCHANGED vars
  BY <1>6 DEF vars, IInv, OnePlace, Queued, InHands, HasTask
<1> QED BY <1>1, <1>2, <1>3, <1>4, <1>5, <1>6 DEF Next

\* A coroutine that waits for the mutex is in exactly one place, and one that
\* does not wait is in none.
THEOREM OnePlaceHolds == Spec => []OnePlace
<1>1. Init => IInv
  <2> SUFFICES ASSUME Init PROVE IInv OBVIOUS
  <2>1. DOMAIN m_sleep_cors = {} BY DEF Init
  <2>2. \A c \in Cors : popped[c] = NoCor /\ woken[c] = "none" /\ pc[c] = "out" BY DEF Init
  <2> QED BY <2>1, <2>2, NoCorAssumption DEF IInv, OnePlace, Queued, InHands, HasTask
<1>2. IInv => OnePlace
  BY DEF IInv
<1> QED BY <1>1, <1>2, IInvStep, TypeCorrect, PTL DEF Spec
=============================================================================
