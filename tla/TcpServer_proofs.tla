--------------------------- MODULE TcpServer_proofs ---------------------------
(***************************************************************************)
(* Proofs about TcpServer, for any sets of descriptors, any numbers of     *)
(* IO threads, connections, pooled coroutines and buckets, and either      *)
(* protocol.                                                               *)
(***************************************************************************)
EXTENDS TcpServer, SequenceTheorems, TLAPS

\* A queue has the elements it had and the one appended.
LEMMA RangeOfAppend ==
  ASSUME NEW S, NEW s \in Seq(S), NEW x \in S
  PROVE Range(Append(s, x)) = Range(s) \cup {x}
<1>1. /\ DOMAIN s = 1..Len(s) /\ DOMAIN Append(s, x) = 1..(Len(s) + 1)
      /\ \A i \in 1..Len(s) : Append(s, x)[i] = s[i]
      /\ Append(s, x)[Len(s) + 1] = x /\ Len(s) \in Nat
  BY AppendProperties, LenProperties
<1> QED BY <1>1 DEF Range

\* Taking the head off a queue takes nothing else.
LEMMA RangeOfTail ==
  ASSUME NEW S, NEW s \in Seq(S), s # <<>>
  PROVE /\ Head(s) \in S /\ Head(s) \in Range(s) /\ Tail(s) \in Seq(S)
        /\ Range(s) = Range(Tail(s)) \cup {Head(s)}
<1>1. /\ Head(s) \in S /\ Tail(s) \in Seq(S) /\ Len(s) \in Nat /\ Len(s) >= 1
      /\ Len(Tail(s)) = Len(s) - 1 /\ Head(s) = s[1]
      /\ \A i \in 1..Len(Tail(s)) : Tail(s)[i] = s[i + 1]
      /\ DOMAIN s = 1..Len(s) /\ DOMAIN Tail(s) = 1..Len(Tail(s))
  BY HeadTailProperties, LenProperties, EmptySeq
<1>2. \A i \in 2..Len(s) : i - 1 \in 1..Len(Tail(s)) /\ Tail(s)[i - 1] = s[i]
  BY <1>1
<1>3. Range(s) = {s[1]} \cup {s[i] : i \in 2..Len(s)}
  BY <1>1 DEF Range
<1>4. {s[i] : i \in 2..Len(s)} = Range(Tail(s))
  <2>1. ASSUME NEW i \in 2..Len(s) PROVE s[i] \in Range(Tail(s))
    <3>1. i - 1 \in DOMAIN Tail(s) /\ Tail(s)[i - 1] = s[i] BY <1>1, <1>2
    <3> QED BY <3>1 DEF Range
  <2>2. \A i \in 1..Len(Tail(s)) : i + 1 \in 2..Len(s) /\ Tail(s)[i] = s[i + 1]
    BY <1>1
  <2>3. Range(Tail(s)) \subseteq {s[i] : i \in 2..Len(s)}
    BY <1>1, <2>2 DEF Range
  <2> QED BY <2>1, <2>3
<1>5. Range(s) = Range(Tail(s)) \cup {Head(s)}
  BY <1>1, <1>3, <1>4
<1> QED BY <1>1, <1>5

\* Every step of the main thread, of a connection and of a client keeps all
\* variables within their types.
LEMMA TypeStep == TypeOK /\ [Next]_vars => TypeOK'
<1> SUFFICES ASSUME TypeOK, [Next]_vars PROVE TypeOK'
  OBVIOUS
<1> USE ConnsAssumption, PoolAssumption, BucketAssumption, UnreadAssumption, ThreadsAssumption
    DEF TypeOK, Conns, NoConn, Stacks, Pcs, States, coVars, sockVars, wheelVars, serverVars
<1>1. ASSUME NEW f \in Fds, Accept(f) PROVE TypeOK'
  <2>1. accepted + 1 \in Conns BY <1>1 DEF Accept, TcpConnection, registerToTimeWheel
  <2>2. tasks' \in Seq(Conns)
    BY <1>1, <2>1, AppendProperties DEF Accept, TcpConnection, registerToTimeWheel
  <2>3. taken' \subseteq Stacks /\ stackOf' \in [Conns -> Stacks]
    <3> DEFINE returned == returnCoroutine({d \in 1..accepted : m_clients[f] = d})
    <3>1. returned \subseteq Stacks BY DEF returnCoroutine
    <3>2. PICK k \in Stacks : /\ stackOf' = [stackOf EXCEPT ![accepted + 1] = k]
                              /\ taken' = returned \cup {k}
      BY <1>1 DEF Accept, TcpConnection, registerToTimeWheel
    <3> QED BY <2>1, <3>1, <3>2
  <2>4. accepted' \in 0..MaxConns /\ m_clients' \in [Fds -> Conns \cup {NoConn}]
    BY <1>1, <2>1 DEF Accept, TcpConnection, registerToTimeWheel
  <2>5. m_state' \in [Conns -> States] /\ fdOf' \in [Conns -> Fds \cup {-1}]
    BY <1>1, <2>1 DEF Accept, TcpConnection, registerToTimeWheel
  <2>6. fdOpen' \subseteq Conns /\ pc' \in [Conns -> Pcs]
    BY <1>1, <2>1 DEF Accept, TcpConnection, registerToTimeWheel
  <2> QED BY <1>1, <2>2, <2>3, <2>4, <2>5, <2>6 DEF Accept, TcpConnection, registerToTimeWheel
<1>2. CASE AcceptFailed BY <1>2 DEF AcceptFailed
<1>3. CASE fresh
  <2>1. Head(tasks) \in Conns /\ Tail(tasks) \in Seq(Conns)
    BY <1>3, RangeOfTail DEF fresh
  <2>2. m_wheel' \in [1..BucketCount -> SUBSET Conns] BY <1>3, <2>1 DEF fresh
  <2>3. idle' \in [Conns -> 0..BucketCount]
    <3>1. 0 \in 0..BucketCount OBVIOUS
    <3> QED BY <1>3, <2>1, <3>1 DEF fresh
  <2> QED BY <1>3, <2>1, <2>2, <2>3 DEF fresh
<1>4. CASE loopFunc
  <2>1. m_wheel' \in [1..BucketCount -> SUBSET Conns]
    <3>1. \A i \in 1..BucketCount : i # BucketCount => i + 1 \in 1..BucketCount OBVIOUS
    <3> QED BY <1>4, <3>1 DEF loopFunc
  <2>2. dying' \subseteq Conns BY <1>4 DEF loopFunc
  <2>3. idle' \in [Conns -> 0..BucketCount] BY <1>4 DEF loopFunc
  <2> QED BY <1>4, <2>1, <2>2, <2>3 DEF loopFunc
<1>5. ASSUME NEW c \in Conns, SlotDestroyed(c) PROVE TypeOK'
  BY <1>5 DEF SlotDestroyed
<1>6. CASE SetHalfClosing BY <1>6 DEF SetHalfClosing
<1>7. CASE Shutdown BY <1>7 DEF Shutdown
<1>8. CASE ClearClientTimerFunc BY <1>8 DEF ClearClientTimerFunc, returnCoroutine
<1>9. ASSUME NEW c \in Conns, Begin(c) PROVE TypeOK' BY <1>9 DEF Begin, Goto
<1>10. ASSUME NEW c \in Conns, NEW full \in BOOLEAN, Read(c, full) PROVE TypeOK'
  <2>1. unread' \in [Conns -> 0..MaxUnread]
    <3>1. \A left \in 0..(unread[c] - 1) : left \in 0..MaxUnread OBVIOUS
    <3>2. CASE full
      <4>1. PICK left \in 0..(unread[c] - 1) : unread' = [unread EXCEPT ![c] = left]
        BY <1>10, <3>2 DEF Read
      <4> QED BY <3>1, <4>1
    <3>3. CASE ~full
      <4>1. unread' = [unread EXCEPT ![c] = 0] BY <1>10, <3>3 DEF Read
      <4>2. 0 \in 0..MaxUnread OBVIOUS
      <4> QED BY <4>1, <4>2
    <3> QED BY <3>2, <3>3
  <2>2. pc' \in [Conns -> Pcs] BY <1>10 DEF Read, Goto
  <2> QED BY <1>10, <2>1, <2>2 DEF Read
<1>11. ASSUME NEW c \in Conns, Refresh(c) PROVE TypeOK'
  <2>1. Append(tasks, c) \in Seq(Conns) BY AppendProperties
  <2> QED BY <1>11, <2>1 DEF Refresh, Goto
<1>12. ASSUME NEW c \in Conns, ReadEnd(c) \/ execute(c)
                               \/ DecodeNothing(c) \/ OutputDone(c) \/ clearClient(c)
                               \/ SetClosed(c) \/ YieldForGood(c) \/ Write(c)
       PROVE TypeOK'
  BY <1>12 DEF ReadEnd, execute,
               DecodeNothing, OutputDone, clearClient, SetClosed, YieldForGood, Write, Goto
<1>13. ASSUME NEW c \in Conns, Client(c) PROVE TypeOK'
  <2>1. CASE Send(c)
    <3>1. unread[c] + 1 \in 0..MaxUnread BY <2>1 DEF Send
    <3>2. unread' \in [Conns -> 0..MaxUnread] BY <2>1, <3>1 DEF Send
    <3> QED BY <2>1, <3>2 DEF Send
  <2>2. CASE PeerClose(c) BY <2>2 DEF PeerClose
  <2> QED BY <1>13, <2>1, <2>2 DEF Client
<1>14. CASE UNCHANGED vars BY <1>14 DEF vars
<1> QED BY <1>1, <1>2, <1>3, <1>4, <1>5, <1>6, <1>7, <1>8, <1>9, <1>10, <1>11, <1>12,
           <1>13, <1>14 DEF Next, Main, Destroy, Proceed

\* The type invariant holds in every reachable state.
THEOREM TypeCorrect == Spec => []TypeOK
<1>1. Init => TypeOK
  <2> SUFFICES ASSUME Init PROVE TypeOK OBVIOUS
  <2>1. tasks \in Seq(Conns) BY EmptySeq DEF Init
  <2> QED BY <2>1, ConnsAssumption, PoolAssumption, BucketAssumption, UnreadAssumption
          DEF Init, TypeOK, Conns, NoConn, Stacks, Pcs, States
<1> QED BY <1>1, TypeStep, PTL DEF Spec

-----------------------------------------------------------------------------
\* Where each connection is: only its own coroutine moves it, one place further,
\* and only the main thread makes it HalfClosing, which no place forbids.
LEMMA PlacesStep == TypeOK /\ Places /\ Handler /\ [Next]_vars => Places'
<1> SUFFICES ASSUME TypeOK, Places, Handler, [Next]_vars PROVE Places'
  OBVIOUS
<1> USE ConnsAssumption DEF TypeOK, Places, Conns, coVars, sockVars, wheelVars, serverVars
<1>1. ASSUME NEW f \in Fds, Accept(f) PROVE Places'
  <2>1. /\ accepted' = accepted + 1 /\ accepted + 1 \in Conns
        /\ pc' = [pc EXCEPT ![accepted + 1] = "queued"]
        /\ m_state' = [m_state EXCEPT ![accepted + 1] = "Connected"]
        /\ fdOf' = [fdOf EXCEPT ![accepted + 1] = f] /\ fdOpen' = fdOpen \cup {accepted + 1}
    BY <1>1 DEF Accept, TcpConnection, registerToTimeWheel
  <2> QED BY <2>1
<1>2. CASE AcceptFailed \/ fresh \/ loopFunc \/ Shutdown \/ ClearClientTimerFunc
  BY <1>2 DEF AcceptFailed, fresh, loopFunc, Shutdown, ClearClientTimerFunc
<1>3. ASSUME NEW c \in Conns, SlotDestroyed(c) PROVE Places'
  BY <1>3 DEF SlotDestroyed
<1>4. CASE SetHalfClosing
  <2>1. /\ cur \in Conns /\ m_state[cur] # "NotConnected"
        /\ m_state' = [m_state EXCEPT ![cur] = "HalfClosing"]
        /\ UNCHANGED <<accepted, pc, fdOf, fdOpen>>
    BY <1>4 DEF SetHalfClosing, Handler
  <2> QED BY <2>1
<1>5. ASSUME NEW c \in Conns, Begin(c) \/ ReadEnd(c) \/ Refresh(c) \/ execute(c)
                              \/ DecodeNothing(c) \/ OutputDone(c)
      PROVE Places'
  <2>1. /\ pc[c] \in {"queued", "input", "fresh", "execute", "output"}
        /\ \E p \in {"input", "clear", "execute", "output", "spin"} : pc' = [pc EXCEPT ![c] = p]
        /\ UNCHANGED <<accepted, m_state, fdOf, fdOpen>>
    BY <1>5 DEF Begin, ReadEnd, Refresh, execute, DecodeNothing, OutputDone, Goto
  <2> QED BY <2>1
<1>6. ASSUME NEW c \in Conns, NEW full \in BOOLEAN, Read(c, full) PROVE Places'
  <2>1. /\ pc[c] = "input" /\ (pc' = pc \/ pc' = [pc EXCEPT ![c] = "fresh"])
        /\ UNCHANGED <<accepted, m_state, fdOf, fdOpen>>
    BY <1>6 DEF Read, Goto
  <2> QED BY <2>1
<1>7. ASSUME NEW c \in Conns, clearClient(c) \/ SetClosed(c) \/ YieldForGood(c) PROVE Places'
  <2>1. CASE clearClient(c)
    <3>1. /\ pc[c] = "clear" /\ pc' = [pc EXCEPT ![c] = "closed"] /\ fdOpen' = fdOpen \ {c}
          /\ UNCHANGED <<accepted, m_state, fdOf>>
      BY <2>1 DEF clearClient, Goto
    <3> QED BY <3>1
  <2>2. CASE SetClosed(c)
    <3>1. /\ pc[c] = "closed" /\ pc' = [pc EXCEPT ![c] = "yield"]
          /\ m_state' = [m_state EXCEPT ![c] = "Closed"] /\ UNCHANGED <<accepted, fdOf, fdOpen>>
      BY <2>2 DEF SetClosed, Goto
    <3> QED BY <3>1
  <2>3. CASE YieldForGood(c)
    <3>1. /\ pc[c] = "yield" /\ pc' = [pc EXCEPT ![c] = "gone"]
          /\ UNCHANGED <<accepted, m_state, fdOf, fdOpen>>
      BY <2>3 DEF YieldForGood, Goto
    <3> QED BY <3>1
  <2> QED BY <1>7, <2>1, <2>2, <2>3
<1>8. ASSUME NEW c \in Conns, Write(c) \/ Client(c) PROVE Places'
  BY <1>8 DEF Write, Client, Send, PeerClose
<1>9. CASE UNCHANGED vars BY <1>9 DEF vars
<1> QED BY <1>1, <1>2, <1>3, <1>4, <1>5, <1>6, <1>7, <1>8, <1>9 DEF Next, Main, Destroy, Proceed

\* A connection whose descriptor is open has been accepted and is not Closed.
LEMMA OpenFacts ==
  TypeOK /\ Places =>
    \A c \in fdOpen : c \in 1..accepted /\ c \in Conns /\ fdOf[c] \in Fds /\ m_state[c] # "Closed"
<1> SUFFICES ASSUME TypeOK, Places, NEW c \in fdOpen
             PROVE c \in 1..accepted /\ c \in Conns /\ fdOf[c] \in Fds /\ m_state[c] # "Closed"
  OBVIOUS
<1>1. c \in Conns /\ c \in Nat /\ c >= 1 /\ accepted \in Nat
  BY ConnsAssumption DEF TypeOK, Conns
<1>2. pc[c] \in {"queued", "input", "fresh", "execute", "output", "spin", "clear"}
  BY <1>1 DEF Places
<1>3. pc[c] # "none" /\ m_state[c] # "Closed" BY <1>1, <1>2 DEF Places
<1>4. c <= accepted BY <1>1, <1>3 DEF Places
<1> QED BY <1>1, <1>3, <1>4 DEF Places

\* m_clients knows every open connection: the descriptor given to a new one is not
\* open, and only Closed connections, whose descriptors are not either, are reset.
LEMMA ClientsStep == TypeOK /\ Places /\ Clients /\ [Next]_vars => Clients'
<1> SUFFICES ASSUME TypeOK, Places, Clients, [Next]_vars PROVE Clients'
  OBVIOUS
<1>o. \A c \in fdOpen : c \in 1..accepted /\ fdOf[c] \in Fds /\ m_state[c] # "Closed"
  BY OpenFacts
<1> USE ConnsAssumption DEF TypeOK, Clients, Conns, NoConn, coVars, sockVars, wheelVars, serverVars
<1>1. ASSUME NEW f \in Fds, Accept(f) PROVE Clients'
  <2>1. /\ accepted' = accepted + 1 /\ accepted + 1 \in Conns
        /\ m_clients' = [m_clients EXCEPT ![f] = accepted + 1]
        /\ fdOf' = [fdOf EXCEPT ![accepted + 1] = f] /\ fdOpen' = fdOpen \cup {accepted + 1}
        /\ \A d \in fdOpen : fdOf[d] # f
    BY <1>1 DEF Accept, TcpConnection, registerToTimeWheel
  <2>2. \A d \in fdOpen : d <= accepted /\ fdOf[d] \in Fds BY <1>o
  <2>3. ASSUME NEW g \in Fds, m_clients'[g] # NoConn
        PROVE m_clients'[g] <= accepted' /\ fdOf'[m_clients'[g]] = g
    <3>1. CASE g = f BY <2>1, <3>1
    <3>2. CASE g # f
      <4>1. m_clients'[g] = m_clients[g] BY <2>1, <3>2
      <4>2. m_clients[g] \in Conns /\ m_clients[g] <= accepted /\ fdOf[m_clients[g]] = g
        BY <2>3, <4>1
      <4> QED BY <2>1, <4>1, <4>2
    <3> QED BY <3>1, <3>2
  <2>4. ASSUME NEW d \in fdOpen' PROVE m_clients'[fdOf'[d]] = d
    <3>1. CASE d = accepted + 1 BY <2>1, <3>1
    <3>2. CASE d # accepted + 1
      <4>1. d \in fdOpen /\ fdOf'[d] = fdOf[d] /\ fdOf[d] # f BY <2>1, <2>4, <3>2
      <4>2. fdOf[d] \in Fds BY <2>2, <4>1
      <4> QED BY <2>1, <4>1, <4>2
    <3> QED BY <3>1, <3>2
  <2> QED BY <2>3, <2>4
<1>2. CASE ClearClientTimerFunc
  <2> DEFINE gone == {c \in Conns : Alive(c) /\ m_state[c] = "Closed"}
  <2>1. /\ m_clients' = [f \in Fds |-> IF m_clients[f] \in gone THEN NoConn ELSE m_clients[f]]
        /\ UNCHANGED <<accepted, fdOf, fdOpen>>
    BY <1>2 DEF ClearClientTimerFunc
  <2>2. \A c \in fdOpen : c \notin gone /\ fdOf[c] \in Fds BY <1>o
  <2> HIDE DEF gone
  <2> QED BY <2>1, <2>2
<1>3. ASSUME NEW c \in Conns, clearClient(c) PROVE Clients'
  BY <1>3 DEF clearClient
<1>4. CASE UNCHANGED <<accepted, m_clients, fdOf, fdOpen>>
  BY <1>4
<1>5. CASE AcceptFailed \/ fresh \/ loopFunc \/ SetHalfClosing \/ Shutdown
  BY <1>4, <1>5 DEF AcceptFailed, fresh, loopFunc, SetHalfClosing, Shutdown
<1>6. ASSUME NEW c \in Conns, NEW full \in BOOLEAN,
             SlotDestroyed(c) \/ Begin(c) \/ Read(c, full) \/ ReadEnd(c) \/ Refresh(c) \/ execute(c)
             \/ DecodeNothing(c)
             \/ OutputDone(c) \/ SetClosed(c) \/ YieldForGood(c) \/ Write(c) \/ Client(c)
      PROVE Clients'
  BY <1>4, <1>6 DEF SlotDestroyed, Begin, Read, ReadEnd, Refresh, execute,
                    DecodeNothing, OutputDone,
                    SetClosed, YieldForGood, Write, Client, Send, PeerClose
<1>7. CASE UNCHANGED vars BY <1>4, <1>7 DEF vars
<1> QED BY <1>1, <1>2, <1>3, <1>5, <1>6, <1>7 DEF Next, Main, Destroy, Proceed

\* A coroutine of the pool that a connection got stays its own: before it runs
\* because it is given out, later because it is in CoFunction().
LEMMA PoolStep == TypeOK /\ Places /\ Clients /\ Pool /\ [Next]_vars => Pool'
<1> SUFFICES ASSUME TypeOK, Places, Clients, Pool, [Next]_vars PROVE Pool'
  OBVIOUS
<1>o. \A c \in fdOpen : m_state[c] # "Closed"
  BY OpenFacts
<1> USE ConnsAssumption, PoolAssumption DEF TypeOK, Conns, NoConn, Stacks,
        coVars, sockVars, wheelVars, serverVars
<1>a. ASSUME NEW C \in SUBSET (1..accepted), \A c \in C : c \notin fdOpen
      PROVE \A c \in 1..accepted : stackOf[c] <= PoolSize =>
              stackOf[c] \in returnCoroutine(C) \cup inCoFunc
  <2> SUFFICES ASSUME NEW c \in 1..accepted, stackOf[c] <= PoolSize, stackOf[c] \notin inCoFunc
               PROVE stackOf[c] \in returnCoroutine(C)
    OBVIOUS
  <2>1. c \in Conns /\ pc[c] = "queued" /\ stackOf[c] \in taken BY DEF Pool
  <2>2. c \notin C BY <1>a, <2>1 DEF Places
  <2>3. \A d \in C : stackOf[d] # stackOf[c] BY <1>a, <2>2 DEF Pool
  <2> QED BY <2>1, <2>3 DEF returnCoroutine
<1>1. ASSUME NEW f \in Fds, Accept(f) PROVE Pool'
  <2> DEFINE n == accepted + 1
             C == {d \in 1..accepted : m_clients[f] = d}
             returned == returnCoroutine(C)
  <2>1. PICK k \in Stacks : /\ getCoroutineInstanse(k, returned)
                            /\ stackOf' = [stackOf EXCEPT ![n] = k]
                            /\ taken' = returned \cup {k}
    BY <1>1 DEF Accept, TcpConnection, registerToTimeWheel
  <2>2. /\ accepted' = n /\ n \in Conns /\ pc' = [pc EXCEPT ![n] = "queued"] /\ inCoFunc' = inCoFunc
        /\ \A d \in fdOpen : fdOf[d] # f
    BY <1>1 DEF Accept, TcpConnection, registerToTimeWheel
  <2>3. ASSUME NEW d \in C PROVE d \notin fdOpen
    <3>1. m_clients[f] = d /\ d # NoConn OBVIOUS
    <3>2. fdOf[d] = f BY <3>1 DEF Clients
    <3> QED BY <2>2, <3>2
  <2>4. \A c \in 1..accepted : stackOf[c] <= PoolSize => stackOf[c] \in returned \cup inCoFunc
    BY <1>a, <2>3
  <2>5. k <= PoolSize => k \notin returned \cup inCoFunc
    <3> HIDE DEF returned
    <3> QED BY <2>1 DEF getCoroutineInstanse
  <2>6. \A c \in 1..accepted : stackOf[c] <= PoolSize => stackOf[c] # k
    BY <2>4, <2>5
  <2>7. \A c \in 1..accepted : c \in Conns /\ c # n /\ stackOf'[c] = stackOf[c] /\ pc'[c] = pc[c]
    BY <2>1, <2>2
  <2>8. /\ stackOf'[n] = k /\ pc'[n] = "queued"
        /\ \A d \in 1..n : d \in 1..accepted \/ d = n
    BY <2>1, <2>2
  <2> HIDE DEF n, C, returned
  <2>9. ASSUME NEW c \in 1..accepted, stackOf'[c] <= PoolSize
        PROVE /\ stackOf'[c] \in taken' \cup inCoFunc'
              /\ pc'[c] # "queued" => stackOf'[c] \in inCoFunc'
              /\ \A d \in 1..n : stackOf'[d] = stackOf'[c] => d = c
    <3>1. stackOf[c] <= PoolSize BY <2>7, <2>9
    <3>2. stackOf'[c] \in taken' \cup inCoFunc' BY <2>1, <2>2, <2>4, <2>7, <3>1
    <3>3. pc'[c] # "queued" => stackOf'[c] \in inCoFunc' BY <2>2, <2>7, <3>1 DEF Pool
    <3>4. ASSUME NEW d \in 1..n, stackOf'[d] = stackOf'[c] PROVE d = c
      <4>1. d # n BY <2>6, <2>7, <2>8, <3>1, <3>4
      <4> QED BY <2>7, <2>8, <3>1, <3>4, <4>1 DEF Pool
    <3> QED BY <3>2, <3>3, <3>4
  <2>10. k <= PoolSize => \A d \in 1..n : stackOf'[d] = k => d = n
    BY <2>6, <2>7, <2>8
  <2>11. stackOf'[n] <= PoolSize =>
           /\ stackOf'[n] \in taken' \cup inCoFunc'
           /\ pc'[n] # "queued" => stackOf'[n] \in inCoFunc'
           /\ \A d \in 1..n : stackOf'[d] = stackOf'[n] => d = n
    BY <2>1, <2>8, <2>10
  <2> QED BY <2>2, <2>8, <2>9, <2>11 DEF Pool
<1>2. CASE ClearClientTimerFunc
  <2> DEFINE gone == {c \in Conns : Alive(c) /\ m_state[c] = "Closed"}
  <2>1. taken' = returnCoroutine(gone) /\ UNCHANGED <<accepted, stackOf, inCoFunc, pc>>
    BY <1>2 DEF ClearClientTimerFunc
  <2>2. \A c \in gone : c \in 1..accepted
    <3>1. \A c \in Conns : m_state[c] = "Closed" => c <= accepted BY DEF Places
    <3> QED BY <3>1
  <2>3. \A c \in gone : c \notin fdOpen BY <1>o
  <2>4. \A c \in 1..accepted : stackOf[c] <= PoolSize =>
          stackOf[c] \in returnCoroutine(gone) \cup inCoFunc
    BY <1>a, <2>2, <2>3
  <2> HIDE DEF gone
  <2> QED BY <2>1, <2>4 DEF Pool
<1>3. ASSUME NEW c \in Conns, Begin(c) PROVE Pool'
  <2>1. /\ pc' = [pc EXCEPT ![c] = "input"] /\ inCoFunc \subseteq inCoFunc'
        /\ stackOf[c] <= PoolSize => stackOf[c] \in inCoFunc'
        /\ UNCHANGED <<accepted, stackOf, taken>>
    BY <1>3 DEF Begin, Goto
  <2>2. 1..accepted \subseteq Conns OBVIOUS
  <2> QED BY <2>1, <2>2 DEF Pool
<1>4. ASSUME NEW c \in Conns, UNCHANGED <<accepted, stackOf, taken, inCoFunc>>, pc[c] # "queued",
             \E p \in Pcs : pc' = [pc EXCEPT ![c] = p]
      PROVE Pool'
  <2>1. 1..accepted \subseteq Conns OBVIOUS
  <2>2. \A d \in 1..accepted : pc'[d] # "queued" /\ pc[d] = "queued" => FALSE
    BY <1>4, <2>1
  <2> QED BY <1>4, <2>1, <2>2 DEF Pool
<1>5. ASSUME NEW c \in Conns, ReadEnd(c) \/ Refresh(c) \/ execute(c)
                              \/ DecodeNothing(c) \/ OutputDone(c)
                              \/ clearClient(c) \/ SetClosed(c) \/ YieldForGood(c)
      PROVE Pool'
  BY <1>4, <1>5 DEF ReadEnd, Refresh, execute,
                    DecodeNothing, OutputDone, clearClient, SetClosed, YieldForGood,
                    Goto, Pcs
<1>6. CASE UNCHANGED <<accepted, stackOf, taken, inCoFunc, pc>>
  BY <1>6 DEF Pool
<1>7. ASSUME NEW c \in Conns, NEW full \in BOOLEAN, Read(c, full) PROVE Pool'
  <2>1. CASE full BY <1>6, <1>7, <2>1 DEF Read
  <2>2. CASE ~full BY <1>4, <1>7, <2>2 DEF Read, Goto, Pcs
  <2> QED BY <2>1, <2>2
<1>8. CASE AcceptFailed \/ fresh \/ loopFunc \/ SetHalfClosing \/ Shutdown
  BY <1>6, <1>8 DEF AcceptFailed, fresh, loopFunc, SetHalfClosing, Shutdown
<1>9. ASSUME NEW c \in Conns, SlotDestroyed(c) \/ Write(c) \/ Client(c) PROVE Pool'
  BY <1>6, <1>9 DEF SlotDestroyed, Write, Client, Send, PeerClose
<1>10. CASE UNCHANGED vars BY <1>6, <1>10 DEF vars
<1> QED BY <1>1, <1>2, <1>3, <1>5, <1>7, <1>8, <1>9, <1>10 DEF Next, Main, Destroy, Proceed

-----------------------------------------------------------------------------
\* What loopFunc() has at hand: the lock of the weak pointer finds the connection in
\* m_clients, under its own descriptor, which only one open connection can have.
LEMMA HandlerStep ==
  TypeOK /\ Places /\ Clients /\ Handler /\ ShutdownOwnSocket /\ [Next]_vars
    => Handler' /\ ShutdownOwnSocket'
<1> SUFFICES ASSUME TypeOK, Places, Clients, Handler, ShutdownOwnSocket, [Next]_vars
             PROVE Handler' /\ ShutdownOwnSocket'
  OBVIOUS
<1>o. \A c \in fdOpen : fdOf[c] \in Fds /\ c \in Conns /\ c # NoConn
  BY OpenFacts DEF Conns, NoConn
<1>p. NoConn \notin Conns BY DEF Conns, NoConn
<1> USE DEF TypeOK, Handler, ShutdownOwnSocket, coVars, sockVars, wheelVars, serverVars
<1>1. ASSUME NEW f \in Fds, Accept(f) PROVE Handler' /\ ShutdownOwnSocket'
  BY <1>1 DEF Accept, TcpConnection, registerToTimeWheel
<1>2. ASSUME NEW c \in Conns, SlotDestroyed(c) PROVE Handler' /\ ShutdownOwnSocket'
  <2>1. mpc = "slots" /\ UNCHANGED <<m_state, fdOf, fdOpen>> BY <1>2 DEF SlotDestroyed
  <2>2. CASE lock(c) /\ m_state[c] \notin {"Closed", "NotConnected"}
    <3>1. cur' = c /\ mpc' = "half" BY <1>2, <2>2 DEF SlotDestroyed
    <3>2. PICK f \in Fds : m_clients[f] = c BY <2>2 DEF lock, Alive
    <3>3. fdOf[c] = f BY <1>p, <3>2 DEF Clients
    <3>4. \A d \in fdOpen : fdOf[d] = f => d = c BY <3>2 DEF Clients
    <3> QED BY <2>1, <2>2, <3>1, <3>3, <3>4
  <2>3. CASE ~(lock(c) /\ m_state[c] \notin {"Closed", "NotConnected"})
    <3>1. cur' = NoConn /\ mpc' = IF dying' = {} THEN "idle" ELSE "slots"
      BY <1>2, <2>3 DEF SlotDestroyed
    <3> QED BY <2>1, <3>1
  <2> QED BY <2>2, <2>3
<1>3. CASE SetHalfClosing
  <2>1. /\ mpc = "half" /\ mpc' = "shutdown" /\ cur \in Conns
        /\ m_state' = [m_state EXCEPT ![cur] = "HalfClosing"]
        /\ UNCHANGED <<cur, dying, fdOf, fdOpen>>
    BY <1>3 DEF SetHalfClosing
  <2> QED BY <2>1
<1>4. CASE Shutdown BY <1>4 DEF Shutdown
<1>5. CASE loopFunc BY <1>5 DEF loopFunc
<1>6. CASE AcceptFailed \/ fresh \/ ClearClientTimerFunc
  BY <1>6 DEF AcceptFailed, fresh, ClearClientTimerFunc
<1>7. ASSUME NEW c \in Conns, clearClient(c) PROVE Handler' /\ ShutdownOwnSocket'
  BY <1>7 DEF clearClient
<1>8. ASSUME NEW c \in Conns, SetClosed(c) PROVE Handler' /\ ShutdownOwnSocket'
  BY <1>8 DEF SetClosed
<1>9. CASE UNCHANGED <<mpc, dying, cur, m_state, fdOf, fdOpen>>
  BY <1>9
<1>10. ASSUME NEW c \in Conns, NEW full \in BOOLEAN,
              Begin(c) \/ Read(c, full) \/ ReadEnd(c) \/ Refresh(c) \/ execute(c)
             \/ DecodeNothing(c)
              \/ OutputDone(c) \/ YieldForGood(c) \/ Write(c) \/ Client(c)
       PROVE Handler' /\ ShutdownOwnSocket'
  BY <1>9, <1>10 DEF Begin, Read, ReadEnd, Refresh, execute,
                     DecodeNothing, OutputDone, YieldForGood, Write,
                     Client, Send, PeerClose
<1>11. CASE UNCHANGED vars BY <1>9, <1>11 DEF vars
<1> QED BY <1>1, <1>2, <1>3, <1>4, <1>5, <1>6, <1>7, <1>8, <1>10, <1>11
        DEF Next, Main, Destroy, Proceed

\* A connection with no slot, or one whose state is HalfClosing, never gets a slot
\* again; the others are where idle says, whatever the queue of tasks holds.
LEMMA WheelStep ==
  TypeOK /\ Places /\ Handler /\ Wheel /\ IdleWindow /\ [Next]_vars => Wheel' /\ IdleWindow'
<1> SUFFICES ASSUME TypeOK, Places, Handler, Wheel, IdleWindow, [Next]_vars
             PROVE Wheel' /\ IdleWindow'
  OBVIOUS
<1> DEFINE At(c, i) == c \in m_wheel[i]
           Due(c) == \/ c \in Range(tasks) \/ c \in dying \/ c = cur \/ ~Alive(c)
           W(c) ==
             /\ SlotAlive(c) => c <= accepted
             /\ \A i \in 1..BucketCount : At(c, i) => i + idle[c] <= BucketCount
             /\ c <= accepted /\ idle[c] < BucketCount /\ c \notin Range(tasks)
                  => At(c, BucketCount - idle[c])
             /\ c \in dying \/ c = cur \/ m_state[c] = "HalfClosing"
                  => idle[c] = BucketCount /\ ~SlotAlive(c)
             /\ c <= accepted /\ m_state[c] = "Connected" /\ idle[c] = BucketCount => Due(c)
<1>a. \A c \in Conns : W(c)
  BY ConnsAssumption DEF Wheel, IdleWindow, TypeOK, Conns
<1>b. (\A c \in Conns : W(c)') => Wheel' /\ IdleWindow'
  <2> SUFFICES ASSUME \A c \in Conns : W(c)' PROVE Wheel' /\ IdleWindow'
    OBVIOUS
  <2>1. accepted' \in 0..MaxConns BY TypeStep DEF TypeOK
  <2>2. \A c \in 1..accepted' : c \in Conns /\ c <= accepted' BY <2>1, ConnsAssumption DEF Conns
  <2>3. Wheel' BY DEF Wheel
  <2>4. IdleWindow' BY <2>2 DEF IdleWindow
  <2> QED BY <2>3, <2>4
<1>c. \A c \in Conns : SlotAlive(c) <=> c \in Range(tasks) \/ \E i \in 1..BucketCount : At(c, i)
  BY DEF SlotAlive
<1>d. (\A c \in Conns : SlotAlive(c) <=> c \in Range(tasks) \/ \E i \in 1..BucketCount : At(c, i))'
  BY DEF SlotAlive
<1>e. NoConn \notin Conns BY DEF Conns, NoConn
<1>f. /\ tasks \in Seq(Conns) /\ idle \in [Conns -> 0..BucketCount]
      /\ m_wheel \in [1..BucketCount -> SUBSET Conns] /\ m_state \in [Conns -> States]
      /\ accepted \in 0..MaxConns /\ m_clients \in [Fds -> Conns \cup {NoConn}]
      /\ BucketCount \in Nat /\ BucketCount >= 1 /\ dying \subseteq Conns
  BY BucketAssumption DEF TypeOK
<1> DEFINE Quiet == UNCHANGED <<accepted, m_clients, m_wheel, tasks, dying, cur, idle>>
<1>1. ASSUME Quiet, UNCHANGED m_state PROVE Wheel' /\ IdleWindow'
  BY <1>1 DEF Wheel, IdleWindow, SlotAlive, Alive
<1>2. ASSUME NEW c \in Conns, SetClosed(c) PROVE Wheel' /\ IdleWindow'
  <2>1. Quiet /\ m_state' = [m_state EXCEPT ![c] = "Closed"]
    BY <1>2 DEF SetClosed, serverVars, wheelVars
  <2> SUFFICES ASSUME NEW d \in Conns PROVE W(d)' BY <1>b
  <2>2. (SlotAlive(d)' <=> SlotAlive(d)) /\ (Due(d)' <=> Due(d)) /\ \A i : At(d, i)' <=> At(d, i)
    BY <2>1 DEF SlotAlive, Alive
  <2>3. m_state'[d] = m_state[d] \/ m_state'[d] = "Closed" BY <1>f, <2>1
  <2>4. W(d) BY <1>a
  <2> QED BY <2>1, <2>2, <2>3, <2>4
<1>3. ASSUME NEW f \in Fds, Accept(f) PROVE Wheel' /\ IdleWindow'
  <2> DEFINE n == accepted + 1
  <2>1. /\ accepted' = n /\ n \in Conns /\ tasks' = Append(tasks, n)
        /\ m_state' = [m_state EXCEPT ![n] = "Connected"]
        /\ m_clients' = [m_clients EXCEPT ![f] = n]
        /\ UNCHANGED <<m_wheel, dying, cur, idle>> /\ mpc = "idle"
    BY <1>3, <1>f, ConnsAssumption DEF Accept, TcpConnection, registerToTimeWheel, wheelVars, Conns
  <2>2. dying = {} /\ cur = NoConn BY <2>1 DEF Handler
  <2>3. Range(tasks') = Range(tasks) \cup {n} BY <1>f, <2>1, RangeOfAppend
  <2> SUFFICES ASSUME NEW d \in Conns PROVE W(d)' BY <1>b
  <2>4. \A i : At(d, i)' <=> At(d, i) BY <2>1
  <2>5. W(d) BY <1>a
  <2>6. d \in Nat /\ n \in Nat /\ accepted < n BY <1>f, ConnsAssumption DEF Conns
  <2>7. CASE d = n
    <3>1. d \in Range(tasks') /\ m_state'[d] = "Connected" BY <1>f, <2>1, <2>3, <2>7
    <3>2. d \notin dying' /\ d # cur' BY <1>e, <2>1, <2>2
    <3>3. d <= accepted' BY <2>1, <2>6, <2>7
    <3> QED BY <2>1, <2>4, <2>5, <3>1, <3>2, <3>3
  <2>8. CASE d # n
    <3>1. (d \in Range(tasks') <=> d \in Range(tasks)) /\ m_state'[d] = m_state[d]
      BY <1>f, <2>1, <2>3, <2>8
    <3>2. SlotAlive(d)' <=> SlotAlive(d) BY <1>c, <1>d, <2>4, <3>1
    <3>3. Alive(d)' => Alive(d) BY <1>f, <2>1, <2>8 DEF Alive
    <3>4. d <= accepted' <=> d <= accepted
      <4>1. accepted \in Nat /\ accepted' = accepted + 1 /\ d # accepted + 1 /\ d \in Nat
        BY <1>f, <2>1, <2>6, <2>8
      <4> HIDE DEF n
      <4> QED BY <4>1
    <3> HIDE DEF n
    <3> QED BY <2>1, <2>4, <2>5, <2>6, <3>1, <3>2, <3>3, <3>4
  <2> QED BY <2>7, <2>8
<1>4. CASE fresh
  <2> DEFINE h == Head(tasks)
  <2>1. /\ tasks # <<>> /\ tasks' = Tail(tasks) /\ mpc = "idle"
        /\ m_wheel' = [m_wheel EXCEPT ![BucketCount] = @ \cup {h}]
        /\ idle' = [idle EXCEPT ![h] = 0]
        /\ UNCHANGED <<accepted, m_clients, dying, cur, m_state>>
    BY <1>4 DEF fresh, serverVars
  <2>2. dying = {} /\ cur = NoConn BY <2>1 DEF Handler
  <2>3. h \in Conns /\ h \in Range(tasks) /\ Range(tasks) = Range(tasks') \cup {h}
    BY <1>f, <2>1, RangeOfTail
  <2> SUFFICES ASSUME NEW d \in Conns PROVE W(d)' BY <1>b
  <2>4. W(d) BY <1>a
  <2>5. Alive(d)' <=> Alive(d) BY <2>1 DEF Alive
  <2>6. \A i \in 1..BucketCount : At(d, i)' <=> At(d, i) \/ (i = BucketCount /\ d = h)
    BY <1>f, <2>1
  <2>7. CASE d = h
    <3>1. idle'[d] = 0 /\ BucketCount \in 1..BucketCount BY <1>f, <2>1, <2>7
    <3>2. SlotAlive(d) BY <1>c, <2>3, <2>7
    <3>3. m_state'[d] # "HalfClosing" /\ d \notin dying' /\ d # cur' BY <1>e, <2>1, <2>2, <2>4, <3>2
    <3>4. At(d, BucketCount)' BY <2>6, <2>7, <3>1
    <3>5. d <= accepted' BY <2>1, <2>4, <3>2
    <3>6. BucketCount - 0 = BucketCount /\ 0 # BucketCount BY <1>f
    <3>7. \A i \in 1..BucketCount : i + 0 <= BucketCount BY <1>f
    <3> HIDE DEF At, Due, h
    <3> QED BY <3>1, <3>3, <3>4, <3>5, <3>6, <3>7
  <2>8. CASE d # h
    <3>1. idle'[d] = idle[d] /\ (d \in Range(tasks') <=> d \in Range(tasks))
      BY <1>f, <2>1, <2>3, <2>8
    <3>2. \A i \in 1..BucketCount : At(d, i)' <=> At(d, i) BY <2>6, <2>8
    <3>3. SlotAlive(d)' <=> SlotAlive(d) BY <1>c, <1>d, <3>1, <3>2
    <3>4. Due(d)' <=> Due(d) BY <2>1, <2>5, <3>1
    <3>5. idle[d] < BucketCount => BucketCount - idle[d] \in 1..BucketCount BY <1>f
    <3> HIDE DEF At, Due, h
    <3> QED BY <2>1, <2>4, <3>1, <3>2, <3>3, <3>4, <3>5
  <2> QED BY <2>7, <2>8
<1>5. CASE loopFunc
  <2>1. /\ m_wheel' = [i \in 1..BucketCount |-> IF i = BucketCount THEN {} ELSE m_wheel[i + 1]]
        /\ dying' = {c \in m_wheel[1] : c \notin Range(tasks)
                                        /\ \A i \in 2..BucketCount : c \notin m_wheel[i]}
        /\ idle' = [c \in Conns |-> IF idle[c] < BucketCount THEN idle[c] + 1 ELSE idle[c]]
        /\ UNCHANGED <<accepted, m_clients, tasks, cur, m_state>> /\ mpc = "idle"
    BY <1>5 DEF loopFunc, serverVars
  <2>2. dying = {} /\ cur = NoConn BY <2>1 DEF Handler
  <2> SUFFICES ASSUME NEW d \in Conns PROVE W(d)' BY <1>b
  <2>3. W(d) BY <1>a
  <2>4. Alive(d)' <=> Alive(d) BY <2>1 DEF Alive
  <2>5. \A i \in 1..BucketCount :
          At(d, i)' <=> i # BucketCount /\ i + 1 \in 1..BucketCount /\ At(d, i + 1)
    BY <1>f, <2>1
  <2>6. d \in dying' <=> /\ At(d, 1) /\ d \notin Range(tasks)
                         /\ \A i \in 2..BucketCount : ~At(d, i)
    BY <1>f, <2>1
  <2>7. idle[d] \in 0..BucketCount /\ d # cur' BY <1>e, <1>f, <2>1, <2>2
  <2>8. idle'[d] = IF idle[d] < BucketCount THEN idle[d] + 1 ELSE idle[d]
    BY <2>1
  <2> HIDE DEF At
  \* A slot that is still alive is found one bucket further.
  <2>9. SlotAlive(d)' => d <= accepted'
    <3>1. SlotAlive(d)' => SlotAlive(d)
      BY <1>c, <1>d, <2>1, <2>5
    <3> QED BY <2>1, <2>3, <3>1
  <2>10. ASSUME NEW i \in 1..BucketCount, At(d, i)' PROVE i + idle'[d] <= BucketCount
    <3>1. i + 1 \in 1..BucketCount /\ At(d, i + 1) BY <2>5, <2>10
    <3>2. i + 1 + idle[d] <= BucketCount BY <2>3, <3>1
    <3> QED BY <1>f, <2>7, <2>8, <3>1, <3>2
  <2>11. ASSUME d <= accepted', idle'[d] < BucketCount, d \notin Range(tasks'),
                NEW i, i = BucketCount - idle'[d]
         PROVE At(d, i)'
    <3>1. idle'[d] = idle[d] + 1 /\ idle[d] < BucketCount
      <4>1. idle[d] < BucketCount BY <1>f, <2>7, <2>8, <2>11
      <4> QED BY <2>8, <4>1
    <3>2. At(d, BucketCount - idle[d]) BY <2>1, <2>3, <2>11, <3>1
    <3>3. idle[d] \in Nat /\ BucketCount \in Nat /\ i = BucketCount - (idle[d] + 1)
          /\ idle[d] + 1 < BucketCount
      BY <1>f, <2>7, <2>11, <3>1
    <3>4. /\ i \in 1..BucketCount /\ i # BucketCount /\ i + 1 = BucketCount - idle[d]
          /\ i + 1 \in 1..BucketCount
      BY <3>3
    <3>5. At(d, i + 1) BY <3>2, <3>4
    <3> QED BY <2>5, <3>4, <3>5
  \* A slot dies when it is in the first bucket only, that is BucketCount turns old.
  <2>12. ASSUME d \in dying' PROVE idle'[d] = BucketCount /\ ~SlotAlive(d)'
    <3>1. At(d, 1) /\ d \notin Range(tasks) /\ \A i \in 2..BucketCount : ~At(d, i)
      BY <2>6, <2>12
    <3>2. d <= accepted BY <1>c, <1>f, <2>3, <3>1
    <3>3. 1 + idle[d] <= BucketCount BY <1>f, <2>3, <3>1
    <3>4. At(d, BucketCount - idle[d]) BY <1>f, <2>3, <2>7, <3>1, <3>2, <3>3
    <3>5. BucketCount - idle[d] \notin 2..BucketCount BY <3>1, <3>4
    <3>6. idle'[d] = BucketCount BY <1>f, <2>7, <2>8, <3>3, <3>5
    <3>7. \A i \in 1..BucketCount : ~At(d, i)'
      BY <1>f, <2>5, <3>1
    <3>8. d \notin Range(tasks') BY <2>1, <3>1
    <3> QED BY <1>d, <3>6, <3>7, <3>8
  <2>13. ASSUME m_state'[d] = "HalfClosing" PROVE idle'[d] = BucketCount /\ ~SlotAlive(d)'
    <3>1. idle[d] = BucketCount /\ ~SlotAlive(d) BY <2>1, <2>3, <2>13
    <3>2. idle'[d] = BucketCount BY <1>f, <2>8, <3>1
    <3>3. ~SlotAlive(d)' BY <1>c, <1>d, <2>1, <2>5, <3>1
    <3> QED BY <3>2, <3>3
  <2>14. ASSUME d <= accepted', m_state'[d] = "Connected", idle'[d] = BucketCount PROVE Due(d)'
    <3>1. CASE idle[d] = BucketCount
      <4>1. Due(d) BY <2>1, <2>3, <2>14, <3>1
      <4>2. d \in Range(tasks) \/ ~Alive(d) BY <1>e, <2>2, <4>1
      <4> QED BY <2>1, <2>4, <4>2
    <3>2. CASE idle[d] # BucketCount
      <4>1. idle[d] < BucketCount /\ BucketCount - idle[d] = 1
        BY <1>f, <2>7, <2>8, <2>14, <3>2
      <4>2. CASE d \in Range(tasks) BY <2>1, <4>2
      <4>3. CASE d \notin Range(tasks)
        <5>1. At(d, 1) BY <2>1, <2>3, <2>14, <4>1, <4>3
        <5>2. \A i \in 2..BucketCount : ~At(d, i)
          <6> SUFFICES ASSUME NEW i \in 2..BucketCount, At(d, i) PROVE FALSE OBVIOUS
          <6>1. i + idle[d] <= BucketCount BY <1>f, <2>3
          <6> QED BY <1>f, <2>7, <4>1, <6>1
        <5> QED BY <2>6, <4>3, <5>1, <5>2
      <4> QED BY <4>2, <4>3
    <3> QED BY <3>1, <3>2
  <2>15. \A i \in 1..BucketCount : d \in m_wheel'[i] => i + idle'[d] <= BucketCount
    BY <2>10 DEF At
  <2>16. d <= accepted' /\ idle'[d] < BucketCount /\ d \notin Range(tasks')
           => d \in m_wheel'[BucketCount - idle'[d]]
    BY <2>11 DEF At
  <2> USE DEF At
  <2> HIDE DEF Due
  <2> QED BY <2>7, <2>9, <2>12, <2>13, <2>14, <2>15, <2>16
<1>6. ASSUME NEW c \in Conns, SlotDestroyed(c) PROVE Wheel' /\ IdleWindow'
  <2>1. /\ mpc = "slots" /\ c \in dying /\ dying' = dying \ {c}
        /\ IF lock(c) /\ m_state[c] \notin {"Closed", "NotConnected"}
             THEN cur' = c ELSE cur' = NoConn
        /\ UNCHANGED <<accepted, m_clients, m_state, m_wheel, tasks, idle>>
    BY <1>6 DEF SlotDestroyed, serverVars
  <2>2. cur = NoConn BY <2>1 DEF Handler
  <2> SUFFICES ASSUME NEW d \in Conns PROVE W(d)' BY <1>b
  <2>3. W(d) BY <1>a
  <2>4. (SlotAlive(d)' <=> SlotAlive(d)) /\ (Alive(d)' <=> Alive(d))
        /\ \A i : At(d, i)' <=> At(d, i)
    BY <2>1 DEF SlotAlive, Alive
  <2>5. d \in dying' \/ d = cur' => d \in dying BY <1>e, <2>1
  <2>6. m_state[d] = "Connected" /\ Due(d) => Due(d)'
    BY <1>e, <2>1, <2>2, <2>4 DEF lock
  <2> QED BY <2>1, <2>3, <2>4, <2>5, <2>6
<1>7. CASE SetHalfClosing
  <2>1. cur \in Conns /\ Quiet /\ m_state' = [m_state EXCEPT ![cur] = "HalfClosing"]
    BY <1>7 DEF SetHalfClosing, Handler, serverVars
  <2> SUFFICES ASSUME NEW d \in Conns PROVE W(d)' BY <1>b
  <2>2. W(d) BY <1>a
  <2>3. (SlotAlive(d)' <=> SlotAlive(d)) /\ (Due(d)' <=> Due(d)) /\ \A i : At(d, i)' <=> At(d, i)
    BY <2>1 DEF SlotAlive, Alive
  <2>4. m_state'[d] = m_state[d] \/ (d = cur /\ m_state'[d] = "HalfClosing") BY <1>f, <2>1
  <2> QED BY <2>1, <2>2, <2>3, <2>4
<1>8. CASE Shutdown
  <2>1. /\ mpc = "shutdown" /\ cur' = NoConn
        /\ UNCHANGED <<accepted, m_clients, m_state, m_wheel, tasks, dying, idle>>
    BY <1>8 DEF Shutdown, serverVars
  <2>2. m_state[cur] # "Connected" BY <2>1 DEF Handler
  <2> SUFFICES ASSUME NEW d \in Conns PROVE W(d)' BY <1>b
  <2>3. W(d) BY <1>a
  <2>4. (SlotAlive(d)' <=> SlotAlive(d)) /\ (Alive(d)' <=> Alive(d))
        /\ \A i : At(d, i)' <=> At(d, i)
    BY <2>1 DEF SlotAlive, Alive
  <2>5. m_state[d] = "Connected" /\ Due(d) => Due(d)' BY <2>1, <2>2, <2>4
  <2>6. d # cur' BY <1>e, <2>1
  <2> QED BY <2>1, <2>3, <2>4, <2>5, <2>6
<1>9. CASE ClearClientTimerFunc
  <2>1. UNCHANGED <<accepted, m_state, m_wheel, tasks, dying, cur, idle>>
    BY <1>9 DEF ClearClientTimerFunc, wheelVars
  <2>2. \A f \in Fds : m_clients'[f] = m_clients[f] \/ m_clients'[f] = NoConn
    BY <1>9 DEF ClearClientTimerFunc
  <2> SUFFICES ASSUME NEW d \in Conns PROVE W(d)' BY <1>b
  <2>3. W(d) BY <1>a
  <2>4. (SlotAlive(d)' <=> SlotAlive(d)) /\ \A i : At(d, i)' <=> At(d, i)
    BY <2>1 DEF SlotAlive
  <2>5. Alive(d)' => Alive(d) BY <1>e, <2>2 DEF Alive
  <2>6. Due(d) => Due(d)' BY <2>1, <2>5
  <2> QED BY <2>1, <2>3, <2>4, <2>6
<1>10. ASSUME NEW c \in Conns, Refresh(c) PROVE Wheel' /\ IdleWindow'
  <2>1. /\ IF SlotAlive(c) THEN tasks' = Append(tasks, c) ELSE tasks' = tasks
        /\ UNCHANGED <<accepted, m_clients, m_state, m_wheel, dying, cur, idle>>
    BY <1>10 DEF Refresh, serverVars, wheelVars
  <2>2. CASE ~SlotAlive(c) BY <1>1, <2>1, <2>2
  <2>3. CASE SlotAlive(c)
    <3>a. tasks' = Append(tasks, c) BY <2>1, <2>3
    <3>1. Range(tasks') = Range(tasks) \cup {c} BY <1>f, <3>a, RangeOfAppend
    <3> SUFFICES ASSUME NEW d \in Conns PROVE W(d)' BY <1>b
    <3>2. W(d) BY <1>a
    <3>3. \A i : At(d, i)' <=> At(d, i) BY <2>1
    <3>4. SlotAlive(d)' <=> SlotAlive(d) BY <1>c, <1>d, <2>3, <3>1, <3>3
    <3>5. Alive(d)' <=> Alive(d) BY <2>1 DEF Alive
    <3>6. Due(d) => Due(d)' BY <2>1, <3>1, <3>5
    <3>7. d \in Range(tasks) => d \in Range(tasks') BY <3>1
    <3> HIDE DEF At, Due
    <3> QED BY <2>1, <3>2, <3>3, <3>4, <3>6, <3>7
  <2> QED BY <2>2, <2>3
<1>11. ASSUME NEW c \in Conns, NEW full \in BOOLEAN,
              Begin(c) \/ Read(c, full) \/ ReadEnd(c) \/ execute(c)
             \/ DecodeNothing(c) \/ OutputDone(c)
              \/ clearClient(c) \/ YieldForGood(c) \/ Write(c) \/ Client(c)
       PROVE Wheel' /\ IdleWindow'
  BY <1>1, <1>11 DEF Begin, Read, ReadEnd, execute,
                     DecodeNothing, OutputDone, clearClient, YieldForGood, Write,
                     Client, Send, PeerClose, serverVars, wheelVars
<1>12. CASE AcceptFailed \/ UNCHANGED vars
  BY <1>1, <1>12 DEF AcceptFailed, vars, serverVars, wheelVars
<1> QED BY <1>2, <1>3, <1>4, <1>5, <1>6, <1>7, <1>8, <1>9, <1>10, <1>11, <1>12
        DEF Next, Main, Destroy, Proceed

-----------------------------------------------------------------------------
\* Every step preserves the inductive invariant.
LEMMA IInvStep == TypeOK /\ IInv /\ [Next]_vars => IInv'
BY PlacesStep, ClientsStep, PoolStep, HandlerStep, WheelStep DEF IInv

\* The inductive invariant holds in every reachable state.
LEMMA Invariance == Spec => []IInv
<1>1. Init => IInv
  <2> SUFFICES ASSUME Init PROVE IInv OBVIOUS
  <2> USE DEF Init
  <2>1. Places BY ConnsAssumption DEF Places, Conns
  <2>2. Clients BY DEF Clients, NoConn
  <2>3. Pool BY DEF Pool
  <2>4. Handler /\ ShutdownOwnSocket BY DEF Handler, ShutdownOwnSocket
  <2>5. Wheel
    <3>1. Range(tasks) = {} /\ NoConn \notin Conns BY DEF Range, Conns, NoConn
    <3>2. \A c \in Conns : c \in Nat /\ ~(c <= accepted) BY ConnsAssumption DEF Conns
    <3>3. \A c \in Conns : ~SlotAlive(c) /\ c # cur /\ c \notin dying /\ m_state[c] # "HalfClosing"
      BY <3>1 DEF SlotAlive
    <3>4. \A c \in Conns : \A i \in 1..BucketCount : c \notin m_wheel[i] OBVIOUS
    <3> QED BY <3>2, <3>3, <3>4 DEF Wheel
  <2>6. IdleWindow BY DEF IdleWindow
  <2> QED BY <2>1, <2>2, <2>3, <2>4, <2>5, <2>6 DEF IInv
<1> QED BY <1>1, IInvStep, TypeCorrect, PTL DEF Spec

\* Resetting closed connections never leaves an open descriptor without its owner.
THEOREM NoFdLeakHolds == Spec => []NoFdLeak
<1>1. TypeOK /\ IInv => NoFdLeak
  BY OpenFacts DEF IInv, Clients, NoFdLeak, Alive
<1> QED BY <1>1, TypeCorrect, Invariance, PTL

\* The time wheel shuts down no socket but the one of the connection it found idle.
THEOREM ShutdownOwnSocketHolds == Spec => []ShutdownOwnSocket
<1>1. IInv => ShutdownOwnSocket BY DEF IInv
<1> QED BY <1>1, Invariance, PTL

\* Two connections never run on the same coroutine of the pool at once.
THEOREM PooledStackExclusiveHolds == Spec => []PooledStackExclusive
<1>1. IInv => PooledStackExclusive BY DEF IInv, Pool, PooledStackExclusive
<1> QED BY <1>1, Invariance, PTL

\* A connection is shut down after BucketCount turns without input, no sooner or later.
THEOREM IdleWindowHolds == Spec => []IdleWindow
<1>1. IInv => IdleWindow BY DEF IInv
<1> QED BY <1>1, Invariance, PTL
=============================================================================
