----------------------------- MODULE Logger_proofs -----------------------------
(***************************************************************************)
(* Proofs about Logger, for any lines of either type.                      *)
(***************************************************************************)
EXTENDS Logger, FiniteSetTheorems, TLAPS

LEMMA ProgramConstants ==
  /\ "rpc" \in Types /\ "app" \in Types /\ "timer" \in Flushers /\ "crash" \in Flushers
  /\ \A m \in Lines : TypeOf[m] \in Types /\ m # Blank
  /\ \A t \in Types : PushPc[t] \in Fpcs /\ SignalPc[t] \in Fpcs /\ StopPc[t] \in Fpcs
                      /\ SignalStopPc[t] \in Fpcs
  /\ \A f \in Flushers, t \in Types : AfterPush(f, t) \in Fpcs
BY LinesAssumption DEF Types, Flushers, PushPc, SignalPc, StopPc, SignalStopPc, AfterPush, Fpcs

\* Every step keeps the variables within their types.
LEMMA TypeStep == TypeOK /\ [Next]_vars => TypeOK'
<1> SUFFICES ASSUME TypeOK, [Next]_vars PROVE TypeOK'
  OBVIOUS
<1> USE ProgramConstants
<1>1. ASSUME NEW m \in Lines, pushLog(m) PROVE TypeOK'
  <2>1. m \in Content /\ TypeOf[m] \in Types BY DEF Content
  <2> DEFINE t == TypeOf[m]
  <2>3. Append(buffer[t], m) \in Seq(Content) /\ Append(accepted[t], m) \in Seq(Lines)
    <3>1. buffer[t] \in Seq(Content) /\ accepted[t] \in Seq(Lines) BY <2>1 DEF TypeOK
    <3> HIDE DEF t
    <3> QED BY <2>1, <3>1
  <2>4. /\ buffer' = [buffer EXCEPT ![t] = Append(buffer[t], m)]
        /\ accepted' = [accepted EXCEPT ![t] = Append(accepted[t], m)]
    BY <1>1 DEF pushLog
  <2>2. buffer' \in [Types -> Seq(Content)] /\ accepted' \in [Types -> Seq(Lines)]
    <3> HIDE DEF t
    <3> QED BY <2>3, <2>4 DEF TypeOK
  <2> QED BY <1>1, <2>2 DEF pushLog, TypeOK, writer
<1>2. ASSUME NEW f \in Flushers, loopFunc(f, "idle")
      PROVE  /\ buffer' \in [Types -> Seq(Content)]
             /\ ftmp' \in [Flushers -> [Types -> Seq(Content)]]
             /\ fpc' \in [Flushers -> Fpcs]
  <2>1. "swapRpc" \in Fpcs BY DEF Fpcs
  <2>2. <<>> \in Seq(Content) OBVIOUS
  <2> QED BY <1>2, <2>1, <2>2 DEF loopFunc, TypeOK
<1>3. CASE TimerLoopFunc
  BY <1>2, <1>3 DEF TimerLoopFunc, TypeOK, writer, history
<1>4. CASE FatalSignal
  <2>1. before' \in SUBSET Lines BY <1>4 DEF FatalSignal, TypeOK, Range
  <2> QED BY <1>2, <1>4, <2>1 DEF FatalSignal, TypeOK, writer
<1>5. ASSUME NEW f \in Flushers, SwapRpc(f) PROVE TypeOK'
  <2>1. "pushRpc" \in Fpcs BY DEF Fpcs
  <2>2. <<>> \in Seq(Content) OBVIOUS
  <2>3. /\ buffer' \in [Types -> Seq(Content)]
        /\ ftmp' \in [Flushers -> [Types -> Seq(Content)]]
        /\ fpc' \in [Flushers -> Fpcs]
    BY <1>5, <2>1, <2>2 DEF SwapRpc, TypeOK
  <2> QED BY <1>5, <2>3 DEF SwapRpc, TypeOK, writer, history
<1>6. ASSUME NEW f \in Flushers, NEW t \in Types, push(f, t) PROVE TypeOK'
  <2>0. /\ \/ fpc' = [fpc EXCEPT ![f] = AfterPush(f, t)] /\ UNCHANGED <<m_tasks, ftmp>>
           \/ /\ fpc' = [fpc EXCEPT ![f] = SignalPc[t]]
              /\ m_tasks' = [m_tasks EXCEPT ![t] = Append(m_tasks[t], ftmp[f][t])]
              /\ ftmp' = [ftmp EXCEPT ![f][t] = <<>>]
    BY <1>6 DEF push
  <2>1. fpc' \in [Flushers -> Fpcs]
    <3>1. AfterPush(f, t) \in Fpcs /\ SignalPc[t] \in Fpcs OBVIOUS
    <3>2. fpc \in [Flushers -> Fpcs] BY DEF TypeOK
    <3>3. fpc' = [fpc EXCEPT ![f] = AfterPush(f, t)] \/ fpc' = [fpc EXCEPT ![f] = SignalPc[t]]
      BY <2>0
    <3> QED BY <3>1, <3>2, <3>3
  <2>2. <<>> \in Seq(Content) /\ ftmp[f][t] \in Seq(Content) BY DEF TypeOK
  <2>3. ftmp' \in [Flushers -> [Types -> Seq(Content)]]
    <3>1. ftmp \in [Flushers -> [Types -> Seq(Content)]] BY DEF TypeOK
    <3>2. [ftmp[f] EXCEPT ![t] = <<>>] \in [Types -> Seq(Content)] BY <2>2, <3>1
    <3>3. ftmp' = ftmp \/ ftmp' = [ftmp EXCEPT ![f] = [ftmp[f] EXCEPT ![t] = <<>>]]
      BY <2>0
    <3> QED BY <3>1, <3>2, <3>3
  <2>4. m_tasks' \in [Types -> Seq(Seq(Content))]
    <3>1. m_tasks \in [Types -> Seq(Seq(Content))] BY DEF TypeOK
    <3>2. Append(m_tasks[t], ftmp[f][t]) \in Seq(Seq(Content)) BY <2>2, <3>1
    <3> QED BY <2>0, <3>1, <3>2
  <2> QED BY <1>6, <2>1, <2>3, <2>4 DEF push, TypeOK, writer, history
<1>7. ASSUME NEW t \in Types, Signal(t)
      PROVE  wpc' \in [Types -> {"lock", "towait", "waiting", "write", "done"}]
  BY <1>7 DEF Signal, TypeOK
<1>8. ASSUME NEW f \in Flushers, NEW t \in Types, PushSignal(f, t) PROVE TypeOK'
  <2>1. fpc' \in [Flushers -> Fpcs] BY <1>8 DEF PushSignal, TypeOK
  <2> QED BY <1>7, <1>8, <2>1 DEF PushSignal, TypeOK, history
<1>9. ASSUME NEW t \in Types, WriterTest(t) PROVE TypeOK'
  <2>1. CASE m_tasks[t] = <<>> /\ ~m_stop[t]
    BY <1>9, <2>1 DEF WriterTest, TypeOK, history
  <2>2. CASE ~(m_tasks[t] = <<>> /\ ~m_stop[t])
    <3>1. TakeBatch(t) BY <1>9, <2>2 DEF WriterTest
    <3>2. m_tasks[t] \in Seq(Seq(Content)) BY DEF TypeOK
    <3>3. /\ wtmp' \in [Types -> Seq(Content)] /\ dead' \in BOOLEAN
          /\ m_tasks' \in [Types -> Seq(Seq(Content))]
      <4>1. CASE m_tasks[t] # <<>>
        <5>1. Head(m_tasks[t]) \in Seq(Content) /\ Tail(m_tasks[t]) \in Seq(Seq(Content))
          BY <3>2, <4>1
        <5>2. /\ wtmp' = [wtmp EXCEPT ![t] = Head(m_tasks[t])]
              /\ m_tasks' = [m_tasks EXCEPT ![t] = Tail(m_tasks[t])] /\ dead' = dead
          BY <3>1, <4>1 DEF TakeBatch
        <5> QED BY <5>1, <5>2 DEF TypeOK
      <4>2. CASE m_tasks[t] = <<>>
        <5>1. <<>> \in Seq(Content) OBVIOUS
        <5> QED BY <3>1, <4>2, <5>1 DEF TakeBatch, TypeOK
      <4> QED BY <4>1, <4>2
    <3>4. wpc' = [wpc EXCEPT ![t] = "write"] /\ wstop' = [wstop EXCEPT ![t] = m_stop[t]]
      BY <1>9, <2>2 DEF WriterTest
    <3> QED BY <1>9, <3>3, <3>4 DEF WriterTest, TypeOK, history
  <2> QED BY <2>1, <2>2
<1>10. ASSUME NEW t \in Types, WriterWait(t) PROVE TypeOK'
  BY <1>10 DEF WriterWait, TypeOK, history
<1>11. ASSUME NEW t \in Types, WriterWrite(t) PROVE TypeOK'
  <2>1. wtmp[t] \in Seq(Content) /\ wtmp[t] # <<>> BY <1>11 DEF WriterWrite, TypeOK
  <2>2. Head(wtmp[t]) \in Content /\ Tail(wtmp[t]) \in Seq(Content) BY <2>1
  <2>3. wtmp' \in [Types -> Seq(Content)] BY <1>11, <2>2 DEF WriterWrite, TypeOK
  <2>4. file' \in [Types -> Seq(Lines)]
    <3>1. CASE Head(wtmp[t]) = Blank BY <1>11, <3>1 DEF WriterWrite, TypeOK
    <3>2. CASE Head(wtmp[t]) # Blank
      <4>1. Head(wtmp[t]) \in Lines BY <2>2, <3>2 DEF Content
      <4>2. file \in [Types -> Seq(Lines)] BY DEF TypeOK
      <4>3. file' = [file EXCEPT ![t] = Append(file[t], Head(wtmp[t]))] BY <1>11, <3>2 DEF WriterWrite
      <4>4. Append(file[t], Head(wtmp[t])) \in Seq(Lines) BY <4>1, <4>2
      <4> QED BY <4>2, <4>3, <4>4
    <3> QED BY <3>1, <3>2
  <2> QED BY <1>11, <2>3, <2>4 DEF WriterWrite, TypeOK, history
<1>12. ASSUME NEW t \in Types, WriterFlush(t) PROVE TypeOK'
  BY <1>12 DEF WriterFlush, TypeOK, history
<1>13. ASSUME NEW t \in Types, stop(t) PROVE TypeOK'
  BY <1>13 DEF stop, TypeOK, writer, history
<1>14. ASSUME NEW t \in Types, StopSignal(t) PROVE TypeOK'
  <2>1. fpc' \in [Flushers -> Fpcs] BY <1>14 DEF StopSignal, TypeOK, Fpcs
  <2> QED BY <1>7, <1>14, <2>1 DEF StopSignal, TypeOK, history
<1>15. CASE JoinRpc
  <2>1. "joinApp" \in Fpcs BY DEF Fpcs
  <2> QED BY <1>15, <2>1 DEF JoinRpc, TypeOK, writer, history
<1>16. CASE JoinAppAndDie
  BY <1>16 DEF JoinAppAndDie, TypeOK, writer, history
<1>17. CASE UNCHANGED vars
  BY <1>17 DEF vars, TypeOK
<1> QED
  BY <1>1, <1>3, <1>4, <1>5, <1>6, <1>8, <1>9, <1>10, <1>11, <1>12, <1>13, <1>14, <1>15, <1>16,
     <1>17 DEF Next, CrashStep, FlusherStep, WriterStep

\* The variables of Logger keep their types.
THEOREM TypeCorrect == Spec => []TypeOK
<1>1. Init => TypeOK
  <2> SUFFICES ASSUME Init PROVE TypeOK OBVIOUS
  <2>1. <<Blank>> \in Seq(Content) /\ <<>> \in Seq(Content) /\ <<>> \in Seq(Seq(Content))
        /\ <<>> \in Seq(Lines) /\ "idle" \in Fpcs
    BY DEF Content, Fpcs
  <2> QED BY <2>1 DEF Init, TypeOK
<1> QED BY <1>1, TypeStep, PTL DEF Spec

-----------------------------------------------------------------------------
\* What a log type has been given, from the empty string on, at index 0.
Logged(acc, i) == IF i = 0 THEN Blank ELSE acc[i]

\* Sequence s holds what was given from index a up to and not including b.
Stretch(acc, s, a, b) ==
  /\ a <= b /\ b <= Len(acc) + 1 /\ Len(s) = b - a
  /\ \A i \in 1..Len(s) : s[i] = Logged(acc, a + i - 1)

\* The cuts p between the stretches that the file, the rest of the writer's
\* batch, the queued batches, the swapped-out buffer and the buffer hold.
Cuts(acc, buf, tmp, tasks, batch, fl, p) ==
  /\ p \in Seq(Nat) /\ Len(p) = Len(tasks) + 3
  /\ Stretch(acc, batch, p[1], p[2])
  /\ \A i \in 1..Len(tasks) : Stretch(acc, tasks[i], p[i + 1], p[i + 2])
  /\ Stretch(acc, tmp, p[Len(p) - 1], p[Len(p)])
  /\ Stretch(acc, buf, p[Len(p)], Len(acc) + 1)
  /\ Len(fl) = (IF p[1] = 0 THEN 0 ELSE p[1] - 1)
  /\ \A i \in 1..Len(fl) : fl[i] = acc[i]

\* Nothing changes for a stretch that ends before a new line.
LEMMA StretchStays ==
  ASSUME NEW acc \in Seq(Lines), NEW s \in Seq(Content), NEW a \in Nat, NEW b \in Nat, NEW m \in Lines,
         Stretch(acc, s, a, b)
  PROVE  Stretch(Append(acc, m), s, a, b)
<1> DEFINE new == Append(acc, m)
<1>1. Len(new) = Len(acc) + 1 /\ \A i \in 1..Len(acc) : new[i] = acc[i] OBVIOUS
<1> HIDE DEF new
<1>2. \A i \in 0..Len(acc) : Logged(new, i) = Logged(acc, i) BY <1>1 DEF Logged
<1>3. \A i \in 1..Len(s) : a + i - 1 \in 0..Len(acc) BY DEF Stretch
<1>4. Len(acc) \in Nat OBVIOUS
<1>5. Stretch(new, s, a, b) BY <1>1, <1>2, <1>3, <1>4 DEF Stretch
<1> QED BY <1>5 DEF new

\* The cuts are naturals.
LEMMA CutsType ==
  ASSUME NEW p \in Seq(Nat), NEW n \in Nat, Len(p) = n + 3
  PROVE  /\ Len(p) \in Nat /\ \A j \in 1..Len(p) : p[j] \in Nat
         /\ 1 \in 1..Len(p) /\ 2 \in 1..Len(p) /\ Len(p) - 1 \in 1..Len(p) /\ Len(p) \in 1..Len(p)
         /\ p[1] \in Nat /\ p[2] \in Nat /\ p[Len(p)] \in Nat /\ p[Len(p) - 1] \in Nat
         /\ \A i \in 1..n : /\ i + 1 \in 1..Len(p) /\ i + 2 \in 1..Len(p) /\ i + 2 \in 2..Len(p) /\ i + 1 \in 2..Len(p)
                            /\ i + 1 \in 1..(Len(p) - 1) /\ i + 2 \in 1..(Len(p) - 1)
                            /\ p[i + 1] \in Nat /\ p[i + 2] \in Nat
<1>1. \A j \in 1..Len(p) : p[j] \in Nat OBVIOUS
<1>2. 1 \in 1..Len(p) /\ 2 \in 1..Len(p) /\ Len(p) \in 1..Len(p) /\ Len(p) - 1 \in 1..Len(p)
  OBVIOUS
<1>3. \A i \in 1..n : /\ i + 1 \in 1..Len(p) /\ i + 2 \in 1..Len(p) /\ i + 2 \in 2..Len(p) /\ i + 1 \in 2..Len(p)
                      /\ i + 1 \in 1..(Len(p) - 1) /\ i + 2 \in 1..(Len(p) - 1)
  OBVIOUS
<1> QED BY <1>1, <1>2, <1>3

LEMMA FlowLog ==
  ASSUME NEW acc \in Seq(Lines), NEW buf \in Seq(Content), NEW tmp \in Seq(Content),
         NEW tasks \in Seq(Seq(Content)), NEW batch \in Seq(Content), NEW fl \in Seq(Lines),
         NEW p, Cuts(acc, buf, tmp, tasks, batch, fl, p), NEW m \in Lines
  PROVE  Cuts(Append(acc, m), Append(buf, m), tmp, tasks, batch, fl, p)
<1> DEFINE new == Append(acc, m)
<1>1. Len(new) = Len(acc) + 1 /\ (\A i \in 1..Len(acc) : new[i] = acc[i]) /\ new[Len(acc) + 1] = m
  OBVIOUS
<1>0. p \in Seq(Nat) /\ Len(p) = Len(tasks) + 3 /\ Len(tasks) \in Nat BY DEF Cuts
<1>2. Len(acc) \in Nat OBVIOUS
<1>3. /\ p[1] \in Nat /\ p[2] \in Nat /\ p[Len(p)] \in Nat /\ p[Len(p) - 1] \in Nat
      /\ \A i \in 1..Len(tasks) : p[i + 1] \in Nat /\ p[i + 2] \in Nat
  BY <1>0, CutsType
<1>4. Stretch(new, batch, p[1], p[2]) BY <1>3, StretchStays DEF Cuts
<1>5. ASSUME NEW i \in 1..Len(tasks) PROVE Stretch(new, tasks[i], p[i + 1], p[i + 2])
  <2>1. tasks[i] \in Seq(Content) OBVIOUS
  <2> QED BY <1>3, <2>1, StretchStays DEF Cuts
<1>6. Stretch(new, tmp, p[Len(p) - 1], p[Len(p)])
  <2>1. Stretch(acc, tmp, p[Len(p) - 1], p[Len(p)]) BY DEF Cuts
  <2> QED BY <1>3, <2>1, StretchStays
<1>7. Stretch(new, Append(buf, m), p[Len(p)], Len(new) + 1)
  <2> DEFINE b == p[Len(p)]
             nb == Append(buf, m)
  <2>1. Stretch(acc, buf, b, Len(acc) + 1) BY DEF Cuts
  <2>2. Len(nb) = Len(buf) + 1 /\ (\A i \in 1..Len(buf) : nb[i] = buf[i]) /\ nb[Len(buf) + 1] = m
    OBVIOUS
  <2>3. b \in Nat /\ Len(buf) \in Nat BY <1>3
  <2> HIDE DEF new, b, nb
  <2>4. Len(buf) = Len(acc) + 1 - b BY <1>2, <2>1, <2>3 DEF Stretch
  <2>5. ASSUME NEW i \in 1..Len(nb) PROVE nb[i] = Logged(new, b + i - 1)
    <3>1. CASE i = Len(buf) + 1
      <4>1. b + i - 1 = Len(acc) + 1 BY <1>2, <2>3, <2>4, <3>1
      <4> QED BY <1>1, <1>2, <2>2, <3>1, <4>1 DEF Logged
    <3>2. CASE i \in 1..Len(buf)
      <4>1. nb[i] = Logged(acc, b + i - 1) BY <2>1, <2>2, <3>2 DEF Stretch
      <4>2. b + i - 1 \in 0..Len(acc) BY <1>2, <2>3, <2>4, <3>2
      <4> QED BY <1>1, <4>1, <4>2 DEF Logged
    <3> QED BY <2>2, <2>3, <3>1, <3>2
  <2>6. b <= Len(acc) + 1 BY <2>1 DEF Stretch
  <2>7. b <= Len(new) + 1 /\ Len(nb) = Len(new) + 1 - b
    BY <1>1, <1>2, <2>2, <2>3, <2>4, <2>6
  <2>8. Len(new) + 1 <= Len(new) + 1 /\ Len(nb) \in Nat BY <1>1, <1>2, <2>2, <2>3
  <2>9. Stretch(new, nb, b, Len(new) + 1)
    <3>1. \A i \in 1..Len(nb) : nb[i] = Logged(new, b + i - 1) BY <2>5
    <3> QED BY <1>1, <1>2, <2>2, <2>3, <2>7, <2>8, <3>1, SMT DEF Stretch
  <2> QED BY <2>9 DEF b, nb
<1>8. \A i \in 1..Len(fl) : fl[i] = new[i]
  <2>1. p[1] <= Len(acc) + 1
    <3>1. Stretch(acc, batch, p[1], p[2]) BY DEF Cuts
    <3> QED BY <1>2, <1>3, <3>1 DEF Stretch
  <2>2. Len(fl) = (IF p[1] = 0 THEN 0 ELSE p[1] - 1) /\ \A i \in 1..Len(fl) : fl[i] = acc[i]
    BY DEF Cuts
  <2>3. Len(fl) \in Nat /\ Len(fl) <= Len(acc) BY <1>2, <1>3, <2>1, <2>2
  <2> HIDE DEF new
  <2>4. 1..Len(fl) \subseteq 1..Len(acc) BY <1>2, <2>3
  <2> QED BY <1>1, <2>2, <2>4
<1> HIDE DEF new
<1>9. Cuts(new, Append(buf, m), tmp, tasks, batch, fl, p)
  BY <1>4, <1>5, <1>6, <1>7, <1>8 DEF Cuts
<1> QED BY <1>9 DEF new

\* The swap: the buffer, emptied, has become the swapped-out one, which was empty.
LEMMA FlowSwap ==
  ASSUME NEW acc \in Seq(Lines), NEW buf \in Seq(Content), NEW tasks \in Seq(Seq(Content)),
         NEW batch \in Seq(Content), NEW fl \in Seq(Lines),
         NEW p, Cuts(acc, buf, <<>>, tasks, batch, fl, p)
  PROVE  Cuts(acc, <<>>, buf, tasks, batch, fl, [p EXCEPT ![Len(p)] = Len(acc) + 1])
<1> DEFINE q == [p EXCEPT ![Len(p)] = Len(acc) + 1]
<1>0. p \in Seq(Nat) /\ Len(p) = Len(tasks) + 3 /\ Len(tasks) \in Nat BY DEF Cuts
<1>1. /\ p \in Seq(Nat) /\ Len(p) = Len(tasks) + 3 /\ Len(tasks) \in Nat /\ Len(p) \in Nat
      /\ p[Len(p)] \in Nat /\ p[Len(p) - 1] \in Nat
  BY <1>0, CutsType
<1>a. \A i \in 1..Len(tasks) :
        /\ i + 1 \in 1..Len(p) /\ i + 2 \in 1..Len(p) /\ i + 1 \in 2..Len(p) /\ i + 2 \in 2..Len(p)
        /\ i + 1 \in 1..(Len(p) - 1) /\ i + 2 \in 1..(Len(p) - 1)
  BY <1>0, CutsType
<1>2. Len(acc) \in Nat OBVIOUS
<1>3. /\ q \in Seq(Nat) /\ Len(q) = Len(p) /\ q[Len(p)] = Len(acc) + 1
      /\ \A i \in 1..(Len(p) - 1) : q[i] = p[i]
  BY <1>1, <1>2
<1> HIDE DEF q
<1>4. Stretch(acc, <<>>, p[Len(p) - 1], p[Len(p)]) /\ Stretch(acc, buf, p[Len(p)], Len(acc) + 1)
  BY DEF Cuts
<1>5. p[Len(p) - 1] = p[Len(p)]
  <2>1. Len(<<>>) = p[Len(p)] - p[Len(p) - 1] BY <1>4, Zenon DEF Stretch
  <2>2. Len(<<>>) = 0 OBVIOUS
  <2> QED BY <1>1, <2>1, <2>2
<1>6. Stretch(acc, buf, q[Len(q) - 1], q[Len(q)])
  <2>1. Len(p) - 1 \in 1..(Len(p) - 1) /\ Len(q) = Len(p) BY <1>1, <1>3
  <2>2. q[Len(q) - 1] = p[Len(p)] /\ q[Len(q)] = Len(acc) + 1 BY <1>3, <1>5, <2>1
  <2> QED BY <1>4, <2>2
<1>7. Stretch(acc, <<>>, q[Len(q)], Len(acc) + 1) BY <1>1, <1>2, <1>3 DEF Stretch
<1>8. q[1] = p[1] /\ q[2] = p[2] BY <1>1, <1>3
<1>9. \A i \in 1..Len(tasks) : q[i + 1] = p[i + 1] /\ q[i + 2] = p[i + 2] BY <1>a, <1>3
<1>10. Cuts(acc, <<>>, buf, tasks, batch, fl, q)
  BY <1>1, <1>3, <1>6, <1>7, <1>8, <1>9 DEF Cuts
<1> QED BY <1>10 DEF q

\* push(): the swapped-out buffer is queued.
LEMMA FlowPush ==
  ASSUME NEW acc \in Seq(Lines), NEW buf \in Seq(Content), NEW tmp \in Seq(Content),
         NEW tasks \in Seq(Seq(Content)), NEW batch \in Seq(Content), NEW fl \in Seq(Lines),
         NEW p, Cuts(acc, buf, tmp, tasks, batch, fl, p)
  PROVE  Cuts(acc, buf, <<>>, Append(tasks, tmp), batch, fl, Append(p, p[Len(p)]))
<1> DEFINE q == Append(p, p[Len(p)])
           new == Append(tasks, tmp)
<1>0. p \in Seq(Nat) /\ Len(p) = Len(tasks) + 3 /\ Len(tasks) \in Nat BY DEF Cuts
<1>1. /\ p \in Seq(Nat) /\ Len(p) = Len(tasks) + 3 /\ Len(tasks) \in Nat /\ Len(p) \in Nat
      /\ p[Len(p)] \in Nat
  BY <1>0, CutsType
<1>a. \A i \in 1..Len(tasks) :
        /\ i + 1 \in 1..Len(p) /\ i + 2 \in 1..Len(p) /\ i + 1 \in 2..Len(p) /\ i + 2 \in 2..Len(p)
        /\ i + 1 \in 1..(Len(p) - 1) /\ i + 2 \in 1..(Len(p) - 1)
  BY <1>0, CutsType
<1>2. Len(acc) \in Nat OBVIOUS
<1>3. /\ q \in Seq(Nat) /\ Len(q) = Len(p) + 1 /\ q[Len(p) + 1] = p[Len(p)]
      /\ \A i \in 1..Len(p) : q[i] = p[i]
  BY <1>1
<1>4. /\ Len(new) = Len(tasks) + 1 /\ new[Len(tasks) + 1] = tmp
      /\ \A i \in 1..Len(tasks) : new[i] = tasks[i]
  OBVIOUS
<1> HIDE DEF q, new
<1>5. /\ Stretch(acc, tmp, p[Len(p) - 1], p[Len(p)]) /\ Stretch(acc, buf, p[Len(p)], Len(acc) + 1)
      /\ \A i \in 1..Len(tasks) : Stretch(acc, tasks[i], p[i + 1], p[i + 2])
  BY DEF Cuts
<1>6. ASSUME NEW i \in 1..Len(new) PROVE Stretch(acc, new[i], q[i + 1], q[i + 2])
  <2>1. CASE i \in 1..Len(tasks)
    <3>1. q[i + 1] = p[i + 1] /\ q[i + 2] = p[i + 2] BY <1>a, <1>3, <2>1
    <3> QED BY <1>4, <1>5, <2>1, <3>1
  <2>2. CASE i = Len(tasks) + 1
    <3>1. i + 1 = Len(p) - 1 /\ i + 2 = Len(p) BY <1>1, <2>2
    <3>2. Len(p) - 1 \in 1..Len(p) /\ Len(p) \in 1..Len(p) BY <1>1
    <3>3. q[i + 1] = p[Len(p) - 1] /\ q[i + 2] = p[Len(p)] BY <1>3, <3>1, <3>2
    <3> QED BY <1>4, <1>5, <2>2, <3>3
  <2> QED BY <1>1, <1>4, <2>1, <2>2
<1>7. Stretch(acc, <<>>, q[Len(q) - 1], q[Len(q)])
  <2>0. Len(q) - 1 = Len(p) /\ Len(p) \in 1..Len(p) BY <1>1, <1>3
  <2>1. q[Len(q) - 1] = p[Len(p)] /\ q[Len(q)] = p[Len(p)] BY <1>3, <2>0
  <2>2. p[Len(p)] <= Len(acc) + 1 BY <1>5 DEF Stretch
  <2> QED BY <1>1, <1>2, <2>1, <2>2 DEF Stretch
<1>8. Stretch(acc, buf, q[Len(q)], Len(acc) + 1) BY <1>1, <1>3, <1>5
<1>9. q[1] = p[1] /\ q[2] = p[2] BY <1>1, <1>3
<1>10. Len(q) = Len(new) + 3 BY <1>1, <1>3, <1>4
<1>11. Cuts(acc, buf, <<>>, new, batch, fl, q)
  BY <1>3, <1>6, <1>7, <1>8, <1>9, <1>10 DEF Cuts
<1> QED BY <1>11 DEF q, new

\* The writer, done with its batch, takes the first of the queue.
LEMMA FlowTake ==
  ASSUME NEW acc \in Seq(Lines), NEW buf \in Seq(Content), NEW tmp \in Seq(Content),
         NEW tasks \in Seq(Seq(Content)), NEW fl \in Seq(Lines), tasks # <<>>,
         NEW p, Cuts(acc, buf, tmp, tasks, <<>>, fl, p)
  PROVE  Cuts(acc, buf, tmp, Tail(tasks), Head(tasks), fl, Tail(p))
<1> DEFINE q == Tail(p)
           new == Tail(tasks)
           batch == Head(tasks)
<1>0. p \in Seq(Nat) /\ Len(p) = Len(tasks) + 3 /\ Len(tasks) \in Nat BY DEF Cuts
<1>1. /\ p \in Seq(Nat) /\ Len(p) = Len(tasks) + 3 /\ Len(tasks) \in Nat /\ Len(p) \in Nat
      /\ p[1] \in Nat /\ p[2] \in Nat
  BY <1>0, CutsType
<1>a. \A i \in 1..Len(tasks) :
        /\ i + 1 \in 1..Len(p) /\ i + 2 \in 1..Len(p) /\ i + 1 \in 2..Len(p) /\ i + 2 \in 2..Len(p)
        /\ i + 1 \in 1..(Len(p) - 1) /\ i + 2 \in 1..(Len(p) - 1)
  BY <1>0, CutsType
<1>2. Len(tasks) > 0 OBVIOUS
<1>3. q \in Seq(Nat) /\ Len(q) = Len(p) - 1 /\ \A i \in 1..(Len(p) - 1) : q[i] = p[i + 1]
  BY <1>1, <1>2
<1>4. Len(new) = Len(tasks) - 1 /\ batch = tasks[1] /\ \A i \in 1..(Len(tasks) - 1) : new[i] = tasks[i + 1]
  BY <1>2
<1> HIDE DEF q, new, batch
<1>5. /\ Stretch(acc, <<>>, p[1], p[2])
      /\ Stretch(acc, tmp, p[Len(p) - 1], p[Len(p)]) /\ Stretch(acc, buf, p[Len(p)], Len(acc) + 1)
      /\ \A i \in 1..Len(tasks) : Stretch(acc, tasks[i], p[i + 1], p[i + 2])
      /\ Len(fl) = (IF p[1] = 0 THEN 0 ELSE p[1] - 1)
      /\ \A i \in 1..Len(fl) : fl[i] = acc[i]
  BY DEF Cuts
<1>6. p[1] = p[2]
  <2>1. Len(<<>>) = p[2] - p[1] BY <1>5, Zenon DEF Stretch
  <2>2. Len(<<>>) = 0 OBVIOUS
  <2> QED BY <1>1, <2>1, <2>2
<1>7. q[1] = p[1] /\ q[2] = p[3]
  <2>1. 1 \in 1..(Len(p) - 1) /\ 2 \in 1..(Len(p) - 1) BY <1>1
  <2>2. q[1] = p[1 + 1] /\ q[2] = p[2 + 1] BY <1>3, <2>1
  <2> QED BY <1>6, <2>2
<1>8. Stretch(acc, batch, q[1], q[2])
  <2>1. Stretch(acc, tasks[1], p[1 + 1], p[1 + 2]) BY <1>1, <1>2, <1>5
  <2> QED BY <1>4, <1>6, <1>7, <2>1
<1>9. ASSUME NEW i \in 1..Len(new) PROVE Stretch(acc, new[i], q[i + 1], q[i + 2])
  <2>1. i \in 1..(Len(tasks) - 1) /\ i + 1 \in 1..Len(tasks) BY <1>1, <1>4
  <2>a. i + 1 \in 1..(Len(p) - 1) /\ i + 2 \in 1..(Len(p) - 1) BY <1>a, <2>1
  <2>2. q[i + 1] = p[(i + 1) + 1] /\ q[i + 2] = p[(i + 2) + 1] BY <1>3, <2>a
  <2>3. Stretch(acc, tasks[i + 1], p[(i + 1) + 1], p[(i + 1) + 2]) BY <1>5, <2>1
  <2>4. (i + 1) + 2 = (i + 2) + 1 BY <2>1
  <2>5. new[i] = tasks[i + 1] BY <1>4, <2>1
  <2> QED BY <2>2, <2>3, <2>4, <2>5
<1>10. q[Len(q) - 1] = p[Len(p) - 1] /\ q[Len(q)] = p[Len(p)]
  <2>0. Len(p) \in Nat /\ Len(p) > 3 /\ Len(q) = Len(p) - 1 BY <1>1, <1>2, <1>3
  <2>1. /\ Len(q) \in 1..(Len(p) - 1) /\ Len(q) - 1 \in 1..(Len(p) - 1)
        /\ Len(q) + 1 = Len(p) /\ (Len(q) - 1) + 1 = Len(p) - 1
    BY <2>0
  <2> QED BY <1>3, <2>1
<1>11. Len(q) = Len(new) + 3 BY <1>1, <1>3, <1>4
<1>12. Stretch(acc, tmp, q[Len(q) - 1], q[Len(q)]) /\ Stretch(acc, buf, q[Len(q)], Len(acc) + 1)
  BY <1>5, <1>10
<1>13. Len(fl) = (IF q[1] = 0 THEN 0 ELSE q[1] - 1) BY <1>5, <1>7
<1>14. Cuts(acc, buf, tmp, new, batch, fl, q)
  BY <1>3, <1>5, <1>8, <1>9, <1>11, <1>12, <1>13 DEF Cuts
<1> QED BY <1>14 DEF q, new, batch

\* The writer writes the next line of its batch, or drops the empty string.
LEMMA FlowWrite ==
  ASSUME NEW acc \in Seq(Lines), NEW buf \in Seq(Content), NEW tmp \in Seq(Content),
         NEW tasks \in Seq(Seq(Content)), NEW batch \in Seq(Content), NEW fl \in Seq(Lines),
         batch # <<>>, NEW p, Cuts(acc, buf, tmp, tasks, batch, fl, p)
  PROVE  Cuts(acc, buf, tmp, tasks, Tail(batch),
              IF Head(batch) = Blank THEN fl ELSE Append(fl, Head(batch)), [p EXCEPT ![1] = p[1] + 1])
<1> DEFINE q == [p EXCEPT ![1] = p[1] + 1]
           rest == Tail(batch)
           next == Head(batch)
           nfl == IF next = Blank THEN fl ELSE Append(fl, next)
<1>0. p \in Seq(Nat) /\ Len(p) = Len(tasks) + 3 /\ Len(tasks) \in Nat BY DEF Cuts
<1>1. /\ p \in Seq(Nat) /\ Len(p) = Len(tasks) + 3 /\ Len(tasks) \in Nat /\ Len(p) \in Nat
      /\ p[1] \in Nat /\ p[2] \in Nat
  BY <1>0, CutsType
<1>a. \A i \in 1..Len(tasks) :
        /\ i + 1 \in 1..Len(p) /\ i + 2 \in 1..Len(p) /\ i + 1 \in 2..Len(p) /\ i + 2 \in 2..Len(p)
        /\ i + 1 \in 1..(Len(p) - 1) /\ i + 2 \in 1..(Len(p) - 1)
  BY <1>0, CutsType
<1>2. Len(acc) \in Nat /\ Len(batch) \in Nat /\ Len(batch) > 0 /\ Len(fl) \in Nat
      /\ \A i \in 1..Len(acc) : acc[i] # Blank
  BY LinesAssumption
<1>3. /\ q \in Seq(Nat) /\ Len(q) = Len(p) /\ q[1] = p[1] + 1 /\ \A i \in 2..Len(p) : q[i] = p[i]
  BY <1>1
<1>4. Len(rest) = Len(batch) - 1 /\ next = batch[1]
      /\ \A i \in 1..(Len(batch) - 1) : rest[i] = batch[i + 1]
  BY <1>2
<1>5. /\ Stretch(acc, batch, p[1], p[2])
      /\ Stretch(acc, tmp, p[Len(p) - 1], p[Len(p)]) /\ Stretch(acc, buf, p[Len(p)], Len(acc) + 1)
      /\ \A i \in 1..Len(tasks) : Stretch(acc, tasks[i], p[i + 1], p[i + 2])
      /\ Len(fl) = (IF p[1] = 0 THEN 0 ELSE p[1] - 1)
      /\ \A i \in 1..Len(fl) : fl[i] = acc[i]
  BY DEF Cuts
<1>6. /\ Len(batch) = p[2] - p[1] /\ p[2] <= Len(acc) + 1
      /\ \A i \in 1..Len(batch) : batch[i] = Logged(acc, p[1] + i - 1)
  BY <1>5 DEF Stretch
<1>7. p[1] <= Len(acc) /\ next = Logged(acc, p[1])
  <2>1. p[1] + 1 - 1 = p[1] /\ 1 \in 1..Len(batch) BY <1>1, <1>2
  <2>2. next = Logged(acc, p[1]) BY <1>4, <1>6, <2>1
  <2>3. p[1] <= Len(acc)
    <3>1. Len(batch) = p[2] - p[1] /\ p[2] <= Len(acc) + 1 BY <1>6
    <3>2. Len(batch) > 0 /\ Len(batch) \in Nat /\ Len(acc) \in Nat BY <1>2
    <3> QED BY <1>1, <3>1, <3>2
  <2> QED BY <2>2, <2>3
<1>8. Len(nfl) = p[1] /\ \A i \in 1..Len(nfl) : nfl[i] = acc[i]
  <2>1. CASE p[1] = 0
    <3>1. nfl = fl BY <1>7, <2>1 DEF Logged
    <3> QED BY <1>5, <2>1, <3>1
  <2>2. CASE p[1] # 0
    <3>1. next = acc[p[1]] /\ next # Blank BY <1>1, <1>2, <1>7, <2>2 DEF Logged
    <3>2. nfl = Append(fl, next) BY <3>1
    <3>3. Len(nfl) = Len(fl) + 1 /\ nfl[Len(fl) + 1] = next /\ \A i \in 1..Len(fl) : nfl[i] = fl[i]
      <4> HIDE DEF nfl, next
      <4> QED BY <3>2
    <3> HIDE DEF nfl, next
    <3>4. Len(fl) = p[1] - 1 BY <1>5, <2>2
    <3>5. ASSUME NEW i \in 1..Len(nfl) PROVE nfl[i] = acc[i]
      <4>1. i \in 1..Len(fl) \/ i = Len(fl) + 1 BY <1>2, <3>3
      <4>2. Len(fl) + 1 = p[1] BY <1>1, <3>4
      <4> QED BY <1>5, <3>1, <3>3, <4>1, <4>2
    <3> QED BY <1>1, <3>3, <3>4, <3>5
  <2> QED BY <2>1, <2>2
<1> HIDE DEF q, rest, next, nfl
<1>9. q[2] = p[2] BY <1>1, <1>3
<1>10. Stretch(acc, rest, q[1], q[2])
  <2>1. \A i \in 1..Len(rest) : rest[i] = Logged(acc, q[1] + i - 1)
    <3> TAKE i \in 1..Len(rest)
    <3>1. i \in 1..(Len(batch) - 1) /\ i + 1 \in 1..Len(batch) BY <1>2, <1>4
    <3>2. rest[i] = Logged(acc, p[1] + (i + 1) - 1) BY <1>4, <1>6, <3>1
    <3>3. p[1] + (i + 1) - 1 = q[1] + i - 1 BY <1>1, <1>3, <3>1
    <3> QED BY <3>2, <3>3
  <2>2. q[1] <= q[2] /\ q[2] <= Len(acc) + 1 /\ Len(rest) = q[2] - q[1]
    <3>1. Len(batch) = p[2] - p[1] /\ p[2] <= Len(acc) + 1 BY <1>6
    <3>2. Len(batch) > 0 /\ Len(batch) \in Nat /\ Len(acc) \in Nat BY <1>2
    <3>3. q[1] = p[1] + 1 /\ q[2] = p[2] /\ Len(rest) = Len(batch) - 1 BY <1>3, <1>4, <1>9
    <3>4. p[1] \in Nat /\ p[2] \in Nat BY <1>1
    <3>5. \A a, b, n, k \in Nat : n = b - a /\ n > 0 /\ b <= k + 1 =>
            a + 1 <= b /\ n - 1 = b - (a + 1)
      OBVIOUS
    <3>6. p[1] + 1 <= p[2] /\ Len(batch) - 1 = p[2] - (p[1] + 1) BY <3>1, <3>2, <3>4, <3>5
    <3> QED BY <3>1, <3>3, <3>6
  <2> QED BY <2>1, <2>2 DEF Stretch
<1>11. \A i \in 1..Len(tasks) : Stretch(acc, tasks[i], q[i + 1], q[i + 2])
  <2> TAKE i \in 1..Len(tasks)
  <2>1. q[i + 1] = p[i + 1] /\ q[i + 2] = p[i + 2] BY <1>a, <1>3
  <2> QED BY <1>5, <2>1
<1>12. q[Len(q) - 1] = p[Len(p) - 1] /\ q[Len(q)] = p[Len(p)] BY <1>1, <1>3
<1>13. Stretch(acc, tmp, q[Len(q) - 1], q[Len(q)]) /\ Stretch(acc, buf, q[Len(q)], Len(acc) + 1)
  BY <1>5, <1>12
<1>14. Len(nfl) = (IF q[1] = 0 THEN 0 ELSE q[1] - 1) BY <1>1, <1>3, <1>8
<1>15. Cuts(acc, buf, tmp, tasks, rest, nfl, q)
  BY <1>1, <1>3, <1>8, <1>10, <1>11, <1>13, <1>14 DEF Cuts
<1> QED BY <1>15 DEF q, rest, next, nfl

-----------------------------------------------------------------------------
(* While no fatal signal is handled, the lines of each type flow from its  *)
(* buffer to its file, cut into stretches that follow one another.         *)

CutsOf(t, p) == Cuts(accepted[t], buffer[t], ftmp["timer"][t], m_tasks[t], wtmp[t], file[t], p)

TimerPcs == {"idle", "swapRpc", "pushRpc", "signalRpc", "pushApp", "signalApp"}

\* What the timer's call of loopFunc() has not swapped out yet, or has queued
\* already, is empty; so is the batch of a writer that is not writing.
Drained ==
  /\ fpc["timer"] \in TimerPcs
  /\ fpc["timer"] \in {"idle", "signalApp"} => ftmp["timer"]["app"] = <<>>
  /\ fpc["timer"] # "pushRpc" => ftmp["timer"]["rpc"] = <<>>
  /\ \A t \in Types : ~m_stop[t] /\ (wpc[t] # "write" => wtmp[t] = <<>>)

IInv == ~Crashing => Drained /\ \A t \in Types : \E p : CutsOf(t, p)

LEMMA FlowInit == Init => IInv
<1> SUFFICES ASSUME Init PROVE IInv OBVIOUS
<1>1. Drained BY DEF Init, Drained, TimerPcs, Flushers, Types
<1>2. ASSUME NEW t \in Types PROVE CutsOf(t, <<0, 0, 0>>)
  <2> DEFINE p == <<0, 0, 0>>
  <2>1. p \in Seq(Nat) /\ Len(p) = 3 /\ p[1] = 0 /\ p[2] = 0 /\ p[3] = 0 OBVIOUS
  <2>2. Len(<<>>) = 0 /\ Len(<<Blank>>) = 1 /\ <<Blank>>[1] = Blank OBVIOUS
  <2> HIDE DEF p
  <2>3. Stretch(<<>>, <<>>, 0, 0) BY <2>2 DEF Stretch
  <2>4. Stretch(<<>>, <<Blank>>, 0, 1)
    <3>1. \A i \in 1..1 : <<Blank>>[i] = Logged(<<>>, 0 + i - 1) BY <2>2 DEF Logged
    <3> QED BY <2>2, <3>1 DEF Stretch
  <2>5. Cuts(<<>>, <<Blank>>, <<>>, <<>>, <<>>, <<>>, p)
    BY <2>1, <2>2, <2>3, <2>4 DEF Cuts
  <2>6. /\ accepted[t] = <<>> /\ buffer[t] = <<Blank>> /\ ftmp["timer"][t] = <<>>
        /\ m_tasks[t] = <<>> /\ wtmp[t] = <<>> /\ file[t] = <<>>
    BY DEF Init, Flushers
  <2> QED BY <2>5, <2>6 DEF CutsOf, p
<1> QED BY <1>1, <1>2 DEF IInv

\* A step that touches nothing of log type t leaves its cuts.
Untouched(t) ==
  /\ accepted'[t] = accepted[t] /\ buffer'[t] = buffer[t] /\ ftmp'["timer"][t] = ftmp["timer"][t]
  /\ m_tasks'[t] = m_tasks[t] /\ wtmp'[t] = wtmp[t] /\ file'[t] = file[t]

LEMMA CutsStay ==
  ASSUME NEW t \in Types, \E p : CutsOf(t, p), Untouched(t)
  PROVE  (\E p : CutsOf(t, p))'
<1>1. PICK p : CutsOf(t, p) OBVIOUS
<1>2. CutsOf(t, p)' BY <1>1 DEF CutsOf, Untouched
<1> QED BY <1>2

LEMMA CutsArePresent ==
  ASSUME TypeOK, NEW t \in Types
  PROVE  /\ accepted[t] \in Seq(Lines) /\ buffer[t] \in Seq(Content)
         /\ ftmp["timer"][t] \in Seq(Content) /\ m_tasks[t] \in Seq(Seq(Content))
         /\ wtmp[t] \in Seq(Content) /\ file[t] \in Seq(Lines)
BY DEF TypeOK, Flushers

LEMMA FlowStep == TypeOK /\ IInv /\ [Next]_vars => IInv'
<1> SUFFICES ASSUME TypeOK, IInv, [Next]_vars, ~Crashing' PROVE (Drained /\ \A t \in Types : \E p : CutsOf(t, p))'
  BY DEF IInv
<1> USE ProgramConstants
<1>0. ASSUME ~Crashing PROVE Drained /\ \A t \in Types : \E p : CutsOf(t, p)
  BY <1>0 DEF IInv
<1>1. ASSUME NEW m \in Lines, pushLog(m) PROVE (Drained /\ \A t \in Types : \E p : CutsOf(t, p))'
  <2>1. ~Crashing BY <1>1 DEF pushLog, Crashing
  <2>2. Drained' BY <1>0, <1>1, <2>1 DEF pushLog, Drained, writer
  <2>3. ASSUME NEW t \in Types PROVE (\E p : CutsOf(t, p))'
    <3>1. CASE t = TypeOf[m]
      <4>1. PICK p : CutsOf(t, p) BY <1>0, <2>1
      <4>2. accepted'[t] = Append(accepted[t], m) /\ buffer'[t] = Append(buffer[t], m)
        BY <1>1, <3>1 DEF pushLog, TypeOK
      <4>3. ftmp' = ftmp /\ m_tasks' = m_tasks /\ wtmp' = wtmp /\ file' = file
        BY <1>1 DEF pushLog, writer
      <4>4. Cuts(Append(accepted[t], m), Append(buffer[t], m), ftmp["timer"][t], m_tasks[t],
                 wtmp[t], file[t], p)
        BY <4>1, CutsArePresent, FlowLog DEF CutsOf
      <4>5. CutsOf(t, p)' BY <4>2, <4>3, <4>4 DEF CutsOf
      <4> QED BY <4>5
    <3>2. CASE t # TypeOf[m]
      <4>1. Untouched(t) BY <1>1, <3>2 DEF pushLog, TypeOK, Untouched, writer
      <4> QED BY <1>0, <2>1, <4>1, CutsStay
    <3> QED BY <3>1, <3>2
  <2> QED BY <2>2, <2>3
<1>2. ASSUME NEW t \in Types, \E p : CutsOf(t, p), ftmp["timer"][t] = <<>>,
             buffer'[t] = <<>>, ftmp'["timer"][t] = buffer[t],
             accepted' = accepted, m_tasks' = m_tasks, wtmp' = wtmp, file' = file
      PROVE  (\E p : CutsOf(t, p))'
  <2>1. PICK p : CutsOf(t, p) BY <1>2
  <2>q. PICK q : q = [p EXCEPT ![Len(p)] = Len(accepted[t]) + 1] OBVIOUS
  <2>2. Cuts(accepted[t], <<>>, buffer[t], m_tasks[t], wtmp[t], file[t], q)
    BY <1>2, <2>1, <2>q, CutsArePresent, FlowSwap DEF CutsOf
  <2>3. CutsOf(t, q)' BY <1>2, <2>2 DEF CutsOf
  <2> QED BY <2>3
<1>3. CASE TimerLoopFunc
  <2>1. ~Crashing BY <1>3 DEF TimerLoopFunc, loopFunc, Crashing, TypeOK, Flushers
  <2>2. /\ fpc["timer"] = "idle" /\ fpc'["timer"] = "swapRpc"
        /\ ftmp'["timer"] = [ftmp["timer"] EXCEPT !["app"] = buffer["app"]]
        /\ buffer' = [buffer EXCEPT !["app"] = <<>>]
        /\ UNCHANGED <<m_tasks, m_stop, wpc, wtmp, wstop, file, accepted>>
    BY <1>3 DEF TimerLoopFunc, loopFunc, TypeOK, writer, history
  <2>3. /\ ftmp["timer"]["app"] = <<>> /\ ftmp["timer"]["rpc"] = <<>>
        /\ ftmp'["timer"]["rpc"] = ftmp["timer"]["rpc"] /\ ftmp'["timer"]["app"] = buffer["app"]
        /\ buffer'["rpc"] = buffer["rpc"] /\ buffer'["app"] = <<>>
    BY <1>0, <2>1, <2>2 DEF Drained, TypeOK
  <2>4. Drained' BY <1>0, <2>1, <2>2, <2>3 DEF Drained, TimerPcs
  <2>5. (\E p : CutsOf("app", p))' BY <1>0, <1>2, <2>1, <2>2, <2>3
  <2>6. Untouched("rpc") BY <2>2, <2>3 DEF Untouched
  <2>7. (\E p : CutsOf("rpc", p))' BY <1>0, <2>1, <2>6, CutsStay
  <2> QED BY <2>4, <2>5, <2>7 DEF Types
<1>4. CASE FatalSignal
  BY <1>4 DEF FatalSignal, loopFunc, Crashing, TypeOK
<1>5. CASE SwapRpc("timer")
  <2>1. ~Crashing BY <1>5 DEF SwapRpc, Crashing, TypeOK, Flushers
  <2>2. /\ fpc["timer"] = "swapRpc" /\ fpc'["timer"] = "pushRpc"
        /\ ftmp'["timer"] = [ftmp["timer"] EXCEPT !["rpc"] = buffer["rpc"]]
        /\ buffer' = [buffer EXCEPT !["rpc"] = <<>>]
        /\ UNCHANGED <<m_tasks, m_stop, wpc, wtmp, wstop, file, accepted>>
    BY <1>5 DEF SwapRpc, TypeOK, writer, history
  <2>3. /\ ftmp["timer"]["rpc"] = <<>>
        /\ ftmp'["timer"]["app"] = ftmp["timer"]["app"] /\ ftmp'["timer"]["rpc"] = buffer["rpc"]
        /\ buffer'["app"] = buffer["app"] /\ buffer'["rpc"] = <<>>
    BY <1>0, <2>1, <2>2 DEF Drained, TypeOK
  <2>4. Drained' BY <1>0, <2>1, <2>2, <2>3 DEF Drained, TimerPcs
  <2>5. (\E p : CutsOf("rpc", p))' BY <1>0, <1>2, <2>1, <2>2, <2>3
  <2>6. Untouched("app") BY <2>2, <2>3 DEF Untouched
  <2>7. (\E p : CutsOf("app", p))' BY <1>0, <2>1, <2>6, CutsStay
  <2> QED BY <2>4, <2>5, <2>7 DEF Types
<1>6. CASE SwapRpc("crash")
  BY <1>6 DEF SwapRpc, Crashing, TypeOK
<1>7. ASSUME NEW t \in Types, push("timer", t)
      PROVE  (Drained /\ \A u \in Types : \E p : CutsOf(u, p))'
  <2>1. fpc'["crash"] = fpc["crash"] /\ ~Crashing BY <1>7 DEF push, Crashing, TypeOK, Flushers
  <2>2. CASE ftmp["timer"][t] = <<>>
    <3>1. fpc["timer"] = PushPc[t] /\ fpc'["timer"] = AfterPush("timer", t)
      BY <1>7, <2>2 DEF push, TypeOK
    <3>2. UNCHANGED <<buffer, m_tasks, m_stop, wpc, wtmp, file, ftmp, accepted>>
      BY <1>7, <2>2 DEF push, writer, history
    <3>3. Drained'
      BY <1>0, <2>1, <2>2, <3>1, <3>2 DEF Drained, TimerPcs, AfterPush, PushPc, Types
    <3>4. \A u \in Types : Untouched(u) BY <3>2 DEF Untouched
    <3> QED BY <1>0, <2>1, <3>3, <3>4, CutsStay
  <2>3. CASE ftmp["timer"][t] # <<>>
    <3>1. /\ fpc["timer"] = PushPc[t] /\ fpc'["timer"] = SignalPc[t]
          /\ ftmp'["timer"] = [ftmp["timer"] EXCEPT ![t] = <<>>]
          /\ m_tasks' = [m_tasks EXCEPT ![t] = Append(m_tasks[t], ftmp["timer"][t])]
          /\ UNCHANGED <<buffer, m_stop, wpc, wtmp, file, accepted>>
      BY <1>7, <2>3 DEF push, TypeOK, writer, history
    <3>2. ftmp'["timer"][t] = <<>> /\ m_tasks'[t] = Append(m_tasks[t], ftmp["timer"][t])
      BY <3>1 DEF TypeOK
    <3>3. \A u \in Types \ {t} : ftmp'["timer"][u] = ftmp["timer"][u] /\ m_tasks'[u] = m_tasks[u]
      BY <3>1 DEF TypeOK
    <3>4. Drained'
      BY <1>0, <2>1, <3>1, <3>2, <3>3 DEF Drained, TimerPcs, SignalPc, PushPc, Types
    <3>5. (\E p : CutsOf(t, p))'
      <4>1. PICK p : CutsOf(t, p) BY <1>0, <2>1
      <4>2. Cuts(accepted[t], buffer[t], <<>>, Append(m_tasks[t], ftmp["timer"][t]), wtmp[t],
                 file[t], Append(p, p[Len(p)]))
        BY <4>1, CutsArePresent, FlowPush DEF CutsOf
      <4>3. CutsOf(t, Append(p, p[Len(p)]))' BY <3>1, <3>2, <4>2 DEF CutsOf
      <4> QED BY <4>3
    <3>6. \A u \in Types \ {t} : Untouched(u) BY <3>1, <3>3 DEF Untouched
    <3> QED BY <1>0, <2>1, <3>4, <3>5, <3>6, CutsStay
  <2> QED BY <2>2, <2>3
<1>8. ASSUME NEW t \in Types, push("crash", t) PROVE FALSE
  BY <1>8 DEF push, Crashing, TypeOK, AfterPush, SignalPc, Types
<1>9. ASSUME NEW t \in Types, PushSignal("timer", t)
      PROVE  (Drained /\ \A u \in Types : \E p : CutsOf(u, p))'
  <2>1. fpc["timer"] = SignalPc[t] /\ fpc'["timer"] = AfterPush("timer", t)
    BY <1>9 DEF PushSignal, TypeOK
  <2>2. UNCHANGED <<buffer, m_tasks, m_stop, wtmp, file, ftmp, accepted>>
    BY <1>9 DEF PushSignal, history
  <2>3. ~Crashing BY <1>9 DEF PushSignal, Crashing, TypeOK, Flushers
  <2>4. \A u \in Types : wpc'[u] # "write" => wpc[u] # "write"
    BY <1>9 DEF PushSignal, Signal, TypeOK
  <2>5. Drained'
    BY <1>0, <2>1, <2>2, <2>3, <2>4 DEF Drained, TimerPcs, SignalPc, AfterPush, Types
  <2>6. \A u \in Types : Untouched(u) BY <2>2 DEF Untouched
  <2> QED BY <1>0, <2>3, <2>5, <2>6, CutsStay
<1>10. ASSUME NEW t \in Types, PushSignal("crash", t) PROVE FALSE
  BY <1>10 DEF PushSignal, Crashing, TypeOK, AfterPush, Types
<1>11. ASSUME NEW t \in Types, WriterTest(t)
       PROVE  (Drained /\ \A u \in Types : \E p : CutsOf(u, p))'
  <2>1. ~Crashing BY <1>11 DEF WriterTest, Crashing
  <2>2. UNCHANGED <<buffer, m_stop, file, fpc, ftmp, accepted>> BY <1>11 DEF WriterTest, history
  <2>3. wpc[t] = "lock" /\ ~m_stop[t] /\ wtmp[t] = <<>>
    BY <1>0, <1>11, <2>1 DEF WriterTest, Drained
  <2>4. CASE m_tasks[t] = <<>>
    <3>1. UNCHANGED <<m_tasks, wtmp>> /\ wpc' = [wpc EXCEPT ![t] = "towait"]
      BY <1>11, <2>3, <2>4 DEF WriterTest
    <3>2. Drained' BY <1>0, <2>1, <2>2, <2>3, <3>1 DEF Drained, TypeOK
    <3>3. \A u \in Types : Untouched(u) BY <2>2, <3>1 DEF Untouched
    <3> QED BY <1>0, <2>1, <3>2, <3>3, CutsStay
  <2>5. CASE m_tasks[t] # <<>>
    <3>1. /\ wtmp' = [wtmp EXCEPT ![t] = Head(m_tasks[t])]
          /\ m_tasks' = [m_tasks EXCEPT ![t] = Tail(m_tasks[t])]
          /\ wpc' = [wpc EXCEPT ![t] = "write"]
      BY <1>11, <2>3, <2>5 DEF WriterTest, TakeBatch
    <3>2. wtmp'[t] = Head(m_tasks[t]) /\ m_tasks'[t] = Tail(m_tasks[t]) /\ wpc'[t] = "write"
      BY <3>1 DEF TypeOK
    <3>3. \A u \in Types \ {t} : wtmp'[u] = wtmp[u] /\ m_tasks'[u] = m_tasks[u] /\ wpc'[u] = wpc[u]
      BY <3>1 DEF TypeOK
    <3>4. Drained' BY <1>0, <2>1, <2>2, <3>2, <3>3 DEF Drained
    <3>5. (\E p : CutsOf(t, p))'
      <4>1. PICK p : CutsOf(t, p) BY <1>0, <2>1
      <4>2. Cuts(accepted[t], buffer[t], ftmp["timer"][t], Tail(m_tasks[t]), Head(m_tasks[t]),
                 file[t], Tail(p))
        BY <2>3, <2>5, <4>1, CutsArePresent, FlowTake DEF CutsOf
      <4>3. CutsOf(t, Tail(p))' BY <2>2, <3>2, <4>2 DEF CutsOf
      <4> QED BY <4>3
    <3>6. \A u \in Types \ {t} : Untouched(u) BY <2>2, <3>3 DEF Untouched
    <3> QED BY <1>0, <2>1, <3>4, <3>5, <3>6, CutsStay
  <2> QED BY <2>4, <2>5
<1>12. ASSUME NEW t \in Types, WriterWait(t)
       PROVE  (Drained /\ \A u \in Types : \E p : CutsOf(u, p))'
  <2>1. ~Crashing BY <1>12 DEF WriterWait, Crashing
  <2>2. UNCHANGED <<buffer, m_tasks, m_stop, wtmp, file, fpc, ftmp, accepted>>
    BY <1>12 DEF WriterWait, history
  <2>3. \A u \in Types : wpc'[u] # "write" => wpc[u] # "write" BY <1>12 DEF WriterWait, TypeOK
  <2>4. Drained' BY <1>0, <2>1, <2>2, <2>3 DEF Drained
  <2>5. \A u \in Types : Untouched(u) BY <2>2 DEF Untouched
  <2> QED BY <1>0, <2>1, <2>4, <2>5, CutsStay
<1>13. ASSUME NEW t \in Types, WriterWrite(t)
       PROVE  (Drained /\ \A u \in Types : \E p : CutsOf(u, p))'
  <2>1. ~Crashing BY <1>13 DEF WriterWrite, Crashing
  <2>2. UNCHANGED <<buffer, m_tasks, m_stop, wpc, fpc, ftmp, accepted>>
    BY <1>13 DEF WriterWrite, history
  <2>3. wpc[t] = "write" /\ wtmp[t] # <<>> /\ wtmp' = [wtmp EXCEPT ![t] = Tail(wtmp[t])]
    BY <1>13 DEF WriterWrite
  <2>4. wtmp'[t] = Tail(wtmp[t]) /\ \A u \in Types \ {t} : wtmp'[u] = wtmp[u] BY <2>3 DEF TypeOK
  <2>5. file'[t] = IF Head(wtmp[t]) = Blank THEN file[t] ELSE Append(file[t], Head(wtmp[t]))
    BY <1>13 DEF WriterWrite, TypeOK
  <2>6. \A u \in Types \ {t} : file'[u] = file[u] BY <1>13 DEF WriterWrite, TypeOK
  <2>7. Drained' BY <1>0, <2>1, <2>2, <2>3, <2>4 DEF Drained
  <2>8. (\E p : CutsOf(t, p))'
    <3>1. PICK p : CutsOf(t, p) BY <1>0, <2>1
    <3> DEFINE q == [p EXCEPT ![1] = p[1] + 1]
    <3>2. Cuts(accepted[t], buffer[t], ftmp["timer"][t], m_tasks[t], Tail(wtmp[t]),
               IF Head(wtmp[t]) = Blank THEN file[t] ELSE Append(file[t], Head(wtmp[t])), q)
      BY <2>3, <3>1, CutsArePresent, FlowWrite DEF CutsOf
    <3> HIDE DEF q
    <3>3. CutsOf(t, q)' BY <2>2, <2>4, <2>5, <3>2 DEF CutsOf
    <3> QED BY <3>3
  <2>9. \A u \in Types \ {t} : Untouched(u) BY <2>2, <2>4, <2>6 DEF Untouched
  <2> QED BY <1>0, <2>1, <2>7, <2>8, <2>9, CutsStay
<1>14. ASSUME NEW t \in Types, WriterFlush(t)
       PROVE  (Drained /\ \A u \in Types : \E p : CutsOf(u, p))'
  <2>1. ~Crashing BY <1>14 DEF WriterFlush, Crashing
  <2>2. UNCHANGED <<buffer, m_tasks, m_stop, wtmp, file, fpc, ftmp, accepted>>
    BY <1>14 DEF WriterFlush, history
  <2>3. wtmp[t] = <<>> /\ \A u \in Types \ {t} : wpc'[u] = wpc[u] BY <1>14 DEF WriterFlush, TypeOK
  <2>4. Drained' BY <1>0, <2>1, <2>2, <2>3 DEF Drained
  <2>5. \A u \in Types : Untouched(u) BY <2>2 DEF Untouched
  <2> QED BY <1>0, <2>1, <2>4, <2>5, CutsStay
<1>15. ASSUME CrashStep PROVE FALSE
  <2>1. ASSUME NEW t \in Types, stop(t) PROVE FALSE
    BY <2>1 DEF stop, Crashing, TypeOK, SignalStopPc, Types
  <2>2. ASSUME NEW t \in Types, StopSignal(t) PROVE FALSE
    BY <2>2 DEF StopSignal, Crashing, TypeOK
  <2>3. CASE JoinRpc BY <2>3 DEF JoinRpc, Crashing, TypeOK
  <2>4. CASE JoinAppAndDie BY <2>4 DEF JoinAppAndDie, Crashing
  <2> QED BY <1>15, <2>1, <2>2, <2>3, <2>4 DEF CrashStep
<1>16. CASE UNCHANGED vars
  <2>1. ~Crashing BY <1>16 DEF vars, Crashing
  <2>2. Drained' BY <1>0, <1>16, <2>1 DEF Drained, vars
  <2>3. \A u \in Types : Untouched(u) BY <1>16 DEF Untouched, vars
  <2> QED BY <1>0, <2>1, <2>2, <2>3, CutsStay
<1>17. CASE \E f \in Flushers : FlusherStep(f)
  <2>1. FlusherStep("timer") \/ FlusherStep("crash") BY <1>17 DEF Flushers
  <2> QED BY <1>5, <1>6, <1>7, <1>8, <1>9, <1>10, <2>1 DEF FlusherStep
<1> QED
  BY <1>1, <1>3, <1>4, <1>11, <1>12, <1>13, <1>14, <1>15, <1>16, <1>17 DEF Next, WriterStep

LEMMA PrefixOnDisk == TypeOK /\ IInv => FileInOrder
<1> SUFFICES ASSUME TypeOK, IInv, ~Crashing, NEW t \in Types
             PROVE  /\ file[t] = SubSeq(accepted[t], 1, Len(file[t]))
                    /\ Len(file[t]) <= Len(accepted[t])
  BY DEF FileInOrder
<1> DEFINE acc == accepted[t]
           fl == file[t]
<1>1. acc \in Seq(Lines) /\ fl \in Seq(Lines) /\ m_tasks[t] \in Seq(Seq(Content)) BY CutsArePresent
<1>2. PICK p : CutsOf(t, p) BY DEF IInv
<1>3. /\ p \in Seq(Nat) /\ Len(p) = Len(m_tasks[t]) + 3
      /\ Len(fl) = (IF p[1] = 0 THEN 0 ELSE p[1] - 1)
      /\ \A i \in 1..Len(fl) : fl[i] = acc[i]
      /\ Stretch(acc, wtmp[t], p[1], p[2])
  BY <1>2 DEF CutsOf, Cuts
<1>4. p[1] <= p[2] /\ p[2] <= Len(acc) + 1 BY <1>3 DEF Stretch
<1>5. p[1] \in Nat /\ p[2] \in Nat BY <1>1, <1>3, CutsType
<1> HIDE DEF acc, fl
<1>6. Len(fl) \in Nat /\ Len(acc) \in Nat /\ Len(fl) <= Len(acc) BY <1>1, <1>3, <1>4, <1>5
<1>7. /\ SubSeq(acc, 1, Len(fl)) \in Seq(Lines) /\ Len(SubSeq(acc, 1, Len(fl))) = Len(fl)
      /\ \A i \in 1..Len(fl) : SubSeq(acc, 1, Len(fl))[i] = acc[i]
  BY <1>1, <1>6
<1>8. fl = SubSeq(acc, 1, Len(fl)) BY <1>1, <1>3, <1>7
<1> QED BY <1>6, <1>8 DEF acc, fl

\* While no fatal signal is handled, the file of a log type holds the lines of
\* that type in the order in which they were logged (Logger, AsyncLogger::excute).
THEOREM FileInOrderHolds == Spec => []FileInOrder
<1>1. Init => IInv BY FlowInit
<1>2. TypeOK /\ IInv => FileInOrder BY PrefixOnDisk
<1> QED BY <1>1, <1>2, FlowStep, TypeCorrect, PTL DEF Spec

-----------------------------------------------------------------------------
(* Where the copies of a line are, whoever has moved them: at each place   *)
(* there is none or one, also while a signal is handled.                   *)

\* n copies of m are in sequence s, and in the queue of batches q: 0 or 1.
Occurs(n, s, m) ==
  \/ n = 0 /\ \A i \in 1..Len(s) : s[i] # m
  \/ n = 1 /\ \E i \in 1..Len(s) : s[i] = m /\ \A j \in 1..Len(s) : s[j] = m => j = i
OccursQueued(n, q, m) ==
  \/ n = 0 /\ \A i \in 1..Len(q) : Occurs(0, q[i], m)
  \/ n = 1 /\ \E i \in 1..Len(q) :
                Occurs(1, q[i], m) /\ \A j \in 1..Len(q) : j # i => Occurs(0, q[j], m)

LEMMA OccursNot ==
  ASSUME NEW m
  PROVE  Occurs(0, <<>>, m) /\ OccursQueued(0, <<>>, m)
BY DEF Occurs, OccursQueued

\* The lengths and elements of a sequence with one more, or one less.
LEMMA AppendItems ==
  ASSUME NEW S, NEW s \in Seq(S), NEW x \in S
  PROVE  /\ Len(Append(s, x)) = Len(s) + 1 /\ Append(s, x)[Len(s) + 1] = x
         /\ \A i \in 1..Len(s) : Append(s, x)[i] = s[i]
         /\ 1..Len(Append(s, x)) = 1..Len(s) \cup {Len(s) + 1} /\ Len(s) \in Nat
<1>1. Len(Append(s, x)) = Len(s) + 1 /\ Len(s) \in Nat OBVIOUS
<1>2. Append(s, x)[Len(s) + 1] = x /\ \A i \in 1..Len(s) : Append(s, x)[i] = s[i] OBVIOUS
<1>3. 1..(Len(s) + 1) = 1..Len(s) \cup {Len(s) + 1} BY <1>1
<1> QED BY <1>1, <1>2, <1>3

LEMMA TailItems ==
  ASSUME NEW S, NEW s \in Seq(S), s # <<>>
  PROVE  /\ Len(s) \in Nat /\ Len(s) > 0 /\ Len(Tail(s)) = Len(s) - 1
         /\ Head(s) = s[1] /\ Head(s) \in S /\ Tail(s) \in Seq(S)
         /\ \A i \in 1..(Len(s) - 1) : Tail(s)[i] = s[i + 1] /\ i + 1 \in 1..Len(s)
         /\ \A i \in 1..Len(s) : i # 1 => i - 1 \in 1..(Len(s) - 1) /\ (i - 1) + 1 = i
OBVIOUS

LEMMA OccursAppend ==
  ASSUME NEW S, NEW s \in Seq(S), NEW x \in S, NEW m, NEW n \in {0, 1}, Occurs(n, s, m)
  PROVE  IF x = m THEN n = 0 => Occurs(1, Append(s, x), m) ELSE Occurs(n, Append(s, x), m)
<1> DEFINE t == Append(s, x)
<1>1. /\ t[Len(s) + 1] = x /\ \A i \in 1..Len(s) : t[i] = s[i]
      /\ 1..Len(t) = 1..Len(s) \cup {Len(s) + 1} /\ Len(s) \in Nat
  BY AppendItems
<1> HIDE DEF t
<1>2. CASE n = 0
  <2>1. \A i \in 1..Len(s) : s[i] # m BY <1>2 DEF Occurs
  <2>2. CASE x = m
    <3>1. Len(s) + 1 \in 1..Len(t) /\ \A j \in 1..Len(t) : t[j] = m => j = Len(s) + 1
      BY <1>1, <2>1
    <3>2. Occurs(1, t, m) BY <1>1, <2>2, <3>1 DEF Occurs
    <3> QED BY <2>2, <3>2 DEF t
  <2>3. CASE x # m
    <3>1. \A i \in 1..Len(t) : t[i] # m BY <1>1, <2>1, <2>3
    <3> QED BY <1>2, <2>3, <3>1 DEF Occurs, t
  <2> QED BY <2>2, <2>3
<1>3. CASE n = 1 /\ x # m
  <2>1. PICK i \in 1..Len(s) : s[i] = m /\ \A j \in 1..Len(s) : s[j] = m => j = i
    BY <1>3 DEF Occurs
  <2>2. i \in 1..Len(t) /\ t[i] = m /\ \A j \in 1..Len(t) : t[j] = m => j = i
    BY <1>1, <1>3, <2>1
  <2>3. Occurs(1, t, m) BY <2>2 DEF Occurs
  <2> QED BY <1>3, <2>3 DEF t
<1> QED BY <1>2, <1>3

LEMMA OccursTail ==
  ASSUME NEW S, NEW s \in Seq(S), s # <<>>, NEW m, NEW n \in {0, 1}, Occurs(n, s, m)
  PROVE  IF Head(s) = m THEN n = 1 /\ Occurs(0, Tail(s), m) ELSE Occurs(n, Tail(s), m)
<1> DEFINE t == Tail(s)
<1>1. /\ Len(s) \in Nat /\ Len(s) > 0 /\ Len(t) = Len(s) - 1 /\ Head(s) = s[1]
      /\ \A i \in 1..Len(t) : t[i] = s[i + 1] /\ i + 1 \in 1..Len(s)
      /\ \A i \in 1..Len(s) : i # 1 => i - 1 \in 1..Len(t) /\ (i - 1) + 1 = i
  BY TailItems
<1> HIDE DEF t
<1>2. 1 \in 1..Len(s) BY <1>1
<1>3. CASE n = 0
  <2>1. \A i \in 1..Len(s) : s[i] # m BY <1>3 DEF Occurs
  <2>2. s[1] # m /\ \A i \in 1..Len(t) : t[i] # m BY <1>1, <1>2, <2>1
  <2> QED BY <1>1, <1>3, <2>2 DEF Occurs, t
<1>4. CASE n = 1
  <2>1. PICK i \in 1..Len(s) : s[i] = m /\ \A j \in 1..Len(s) : s[j] = m => j = i
    BY <1>4 DEF Occurs
  <2>2. CASE i = 1
    <3>1. Head(s) = m BY <1>1, <2>1, <2>2
    <3>2. ASSUME NEW j \in 1..Len(t) PROVE t[j] # m
      <4>1. t[j] = s[j + 1] /\ j + 1 \in 1..Len(s) BY <1>1
      <4>2. j + 1 # 1 BY <1>1
      <4> QED BY <2>1, <2>2, <4>1, <4>2
    <3> QED BY <1>4, <3>1, <3>2 DEF Occurs, t
  <2>3. CASE i # 1
    <3>1. Head(s) # m BY <1>1, <1>2, <2>1, <2>3
    <3>2. i - 1 \in 1..Len(t) /\ t[i - 1] = m BY <1>1, <2>1, <2>3
    <3>3. ASSUME NEW j \in 1..Len(t), t[j] = m PROVE j = i - 1
      <4>1. t[j] = s[j + 1] /\ j + 1 \in 1..Len(s) BY <1>1
      <4>2. j + 1 = i BY <2>1, <3>3, <4>1
      <4> QED BY <1>1, <4>2
    <3>4. Occurs(1, t, m) BY <3>2, <3>3 DEF Occurs
    <3> QED BY <1>4, <3>1, <3>4 DEF t
  <2> QED BY <2>2, <2>3
<1> QED BY <1>3, <1>4

LEMMA OccursQueuedAppend ==
  ASSUME NEW S, NEW q \in Seq(S), NEW s \in S, NEW m, NEW n \in {0, 1}, NEW k \in {0, 1},
         OccursQueued(n, q, m), Occurs(k, s, m), n + k <= 1
  PROVE  OccursQueued(n + k, Append(q, s), m)
<1> DEFINE p == Append(q, s)
<1>1. /\ Len(p) = Len(q) + 1 /\ p[Len(q) + 1] = s /\ \A i \in 1..Len(q) : p[i] = q[i]
      /\ 1..Len(p) = 1..Len(q) \cup {Len(q) + 1} /\ Len(q) \in Nat
  BY AppendItems
<1> HIDE DEF p
<1>2. CASE n = 0 /\ k = 0
  <2>1. \A i \in 1..Len(q) : Occurs(0, q[i], m) BY <1>2 DEF OccursQueued
  <2>2. \A i \in 1..Len(p) : Occurs(0, p[i], m) BY <1>1, <1>2, <2>1
  <2>3. n + k = 0 BY <1>2
  <2> QED BY <2>2, <2>3 DEF OccursQueued, p
<1>3. CASE n = 0 /\ k = 1
  <2>1. \A i \in 1..Len(q) : Occurs(0, q[i], m) BY <1>3 DEF OccursQueued
  <2>2. Len(q) + 1 \in 1..Len(p) /\ Occurs(1, p[Len(q) + 1], m) BY <1>1, <1>3
  <2>3. \A j \in 1..Len(p) : j # Len(q) + 1 => Occurs(0, p[j], m) BY <1>1, <2>1
  <2>4. n + k = 1 BY <1>3
  <2> QED BY <2>2, <2>3, <2>4 DEF OccursQueued, p
<1>4. CASE n = 1 /\ k = 0
  <2>1. PICK i \in 1..Len(q) :
          Occurs(1, q[i], m) /\ \A j \in 1..Len(q) : j # i => Occurs(0, q[j], m)
    BY <1>4 DEF OccursQueued
  <2>2. i \in 1..Len(p) /\ Occurs(1, p[i], m) BY <1>1, <2>1
  <2>3. \A j \in 1..Len(p) : j # i => Occurs(0, p[j], m) BY <1>1, <1>4, <2>1
  <2>4. n + k = 1 BY <1>4
  <2> QED BY <2>2, <2>3, <2>4 DEF OccursQueued, p
<1> QED BY <1>2, <1>3, <1>4

\* The copies in a queue are in its first batch and in the rest.
LEMMA OccursQueuedTail ==
  ASSUME NEW S, NEW q \in Seq(S), q # <<>>, NEW m, NEW n \in {0, 1}, OccursQueued(n, q, m)
  PROVE  \E k, r \in {0, 1} : k + r = n /\ Occurs(k, Head(q), m) /\ OccursQueued(r, Tail(q), m)
<1> DEFINE t == Tail(q)
<1>1. /\ Len(q) \in Nat /\ Len(q) > 0 /\ Len(t) = Len(q) - 1 /\ Head(q) = q[1]
      /\ \A i \in 1..Len(t) : t[i] = q[i + 1] /\ i + 1 \in 1..Len(q)
      /\ \A i \in 1..Len(q) : i # 1 => i - 1 \in 1..Len(t) /\ (i - 1) + 1 = i
  BY TailItems
<1> HIDE DEF t
<1>2. 1 \in 1..Len(q) BY <1>1
<1>3. CASE n = 0
  <2>1. \A i \in 1..Len(q) : Occurs(0, q[i], m) BY <1>3 DEF OccursQueued
  <2>2. Occurs(0, Head(q), m) /\ \A i \in 1..Len(t) : Occurs(0, t[i], m) BY <1>1, <1>2, <2>1
  <2>3. OccursQueued(0, t, m) BY <2>2 DEF OccursQueued
  <2>4. 0 + 0 = n BY <1>3
  <2> QED BY <2>2, <2>3, <2>4 DEF t
<1>4. CASE n = 1
  <2>1. PICK i \in 1..Len(q) :
          Occurs(1, q[i], m) /\ \A j \in 1..Len(q) : j # i => Occurs(0, q[j], m)
    BY <1>4 DEF OccursQueued
  <2>2. CASE i = 1
    <3>1. Occurs(1, Head(q), m) BY <1>1, <2>1, <2>2
    <3>2. ASSUME NEW j \in 1..Len(t) PROVE Occurs(0, t[j], m)
      <4>1. t[j] = q[j + 1] /\ j + 1 \in 1..Len(q) BY <1>1
      <4>2. j + 1 # 1 BY <1>1
      <4> QED BY <2>1, <2>2, <4>1, <4>2
    <3>3. OccursQueued(0, t, m) BY <3>2 DEF OccursQueued
    <3>4. 1 + 0 = n BY <1>4
    <3> QED BY <3>1, <3>3, <3>4 DEF t
  <2>3. CASE i # 1
    <3>1. Occurs(0, Head(q), m) BY <1>1, <1>2, <2>1, <2>3
    <3>2. i - 1 \in 1..Len(t) /\ Occurs(1, t[i - 1], m) BY <1>1, <2>1, <2>3
    <3>3. ASSUME NEW j \in 1..Len(t), j # i - 1 PROVE Occurs(0, t[j], m)
      <4>1. t[j] = q[j + 1] /\ j + 1 \in 1..Len(q) BY <1>1
      <4>2. j + 1 # i BY <1>1, <3>3
      <4> QED BY <2>1, <4>1, <4>2
    <3>4. OccursQueued(1, t, m) BY <3>2, <3>3 DEF OccursQueued
    <3>5. 0 + 1 = n BY <1>4
    <3> QED BY <3>1, <3>4, <3>5 DEF t
  <2> QED BY <2>2, <2>3
<1> QED BY <1>3, <1>4

\* How many copies of m are in the buffer, with the timer's call of loopFunc(),
\* with that of the signal, queued, in the writer's batch and in the file.
Copied(t, m, b, x, y, q, w, f) ==
  /\ Occurs(b, buffer[t], m) /\ Occurs(x, ftmp["timer"][t], m) /\ Occurs(y, ftmp["crash"][t], m)
  /\ OccursQueued(q, m_tasks[t], m) /\ Occurs(w, wtmp[t], m) /\ Occurs(f, file[t], m)

SumOf(b, x, y, q, w, f) == b + x + y + q + w + f
Logged1(t, m) == IF m \in Range(accepted[t]) THEN 1 ELSE 0

Traced(t, m) ==
  \E b, x, y, q, w, f \in {0, 1} :
    SumOf(b, x, y, q, w, f) = Logged1(t, m) /\ Copied(t, m, b, x, y, q, w, f)

\* What a call of loopFunc() has not swapped out yet, or has queued already, is
\* empty; so is the batch of a writer that is not writing.
Emptied ==
  /\ \A f \in Flushers :
       /\ fpc[f] \notin {"swapRpc", "pushRpc", "signalRpc", "pushApp"} => ftmp[f]["app"] = <<>>
       /\ fpc[f] # "pushRpc" => ftmp[f]["rpc"] = <<>>
  /\ \A t \in Types : wpc[t] # "write" => wtmp[t] = <<>>

CInv == Emptied /\ \A t \in Types, m \in Lines : Traced(t, m)

LEMMA PlacesPresent ==
  ASSUME TypeOK, NEW t \in Types
  PROVE  /\ accepted[t] \in Seq(Lines) /\ buffer[t] \in Seq(Content)
         /\ ftmp["timer"][t] \in Seq(Content) /\ ftmp["crash"][t] \in Seq(Content)
         /\ m_tasks[t] \in Seq(Seq(Content)) /\ wtmp[t] \in Seq(Content) /\ file[t] \in Seq(Lines)
BY DEF TypeOK, Flushers

LEMMA OccursEmpty == ASSUME NEW m, NEW n, Occurs(n, <<>>, m) PROVE n = 0
BY DEF Occurs

\* A step that touches nothing of the log type of m leaves its copies.
Same(t) ==
  /\ accepted'[t] = accepted[t] /\ buffer'[t] = buffer[t] /\ m_tasks'[t] = m_tasks[t]
  /\ ftmp'["timer"][t] = ftmp["timer"][t] /\ ftmp'["crash"][t] = ftmp["crash"][t]
  /\ wtmp'[t] = wtmp[t] /\ file'[t] = file[t]

LEMMA TracedStays == ASSUME NEW t, NEW m, Traced(t, m), Same(t) PROVE Traced(t, m)'
<1>1. Logged1(t, m)' = Logged1(t, m) BY DEF Same, Logged1
<1> QED BY <1>1 DEF Traced, Copied, Same

LEMMA TracedNext ==
  ASSUME NEW m \in Lines, NEW t,
         NEW b \in {0, 1}, NEW x \in {0, 1}, NEW y \in {0, 1}, NEW q \in {0, 1}, NEW w \in {0, 1},
         NEW e \in {0, 1}, SumOf(b, x, y, q, w, e) = Logged1(t, m)', Copied(t, m, b, x, y, q, w, e)'
  PROVE  Traced(t, m)'
<1>1. \E b1, x1, y1, q1, w1, e1 \in {0, 1} :
        SumOf(b1, x1, y1, q1, w1, e1) = Logged1(t, m)' /\ Copied(t, m, b1, x1, y1, q1, w1, e1)'
  OBVIOUS
<1> QED BY <1>1 DEF Traced

\* loopFunc() swaps a buffer out.
LEMMA TracedSwap ==
  ASSUME NEW m \in Lines, NEW t, Traced(t, m), NEW f \in Flushers, ftmp[f][t] = <<>>,
         ftmp'[f][t] = buffer[t], buffer'[t] = <<>>, \A g \in Flushers \ {f} : ftmp'[g] = ftmp[g],
         accepted'[t] = accepted[t], m_tasks'[t] = m_tasks[t], wtmp'[t] = wtmp[t], file'[t] = file[t]
  PROVE  Traced(t, m)'
<1>1. PICK b, x, y, q, w, e \in {0, 1} :
        SumOf(b, x, y, q, w, e) = Logged1(t, m) /\ Copied(t, m, b, x, y, q, w, e)
  BY DEF Traced
<1>2. Logged1(t, m)' = Logged1(t, m) BY DEF Logged1
<1>3. Occurs(0, buffer'[t], m) BY OccursNot
<1>4. CASE f = "timer"
  <2>1. x = 0 BY <1>1, <1>4, OccursEmpty DEF Copied
  <2>2. Copied(t, m, 0, b, y, q, w, e)' BY <1>1, <1>3, <1>4 DEF Copied, Flushers
  <2>3. SumOf(0, b, y, q, w, e) = Logged1(t, m)' BY <1>1, <1>2, <2>1 DEF SumOf
  <2> QED BY <1>1, <2>2, <2>3, TracedNext
<1>5. CASE f = "crash"
  <2>1. y = 0 BY <1>1, <1>5, OccursEmpty DEF Copied
  <2>2. Copied(t, m, 0, x, b, q, w, e)' BY <1>1, <1>3, <1>5 DEF Copied, Flushers
  <2>3. SumOf(0, x, b, q, w, e) = Logged1(t, m)' BY <1>1, <1>2, <2>1 DEF SumOf
  <2> QED BY <1>1, <2>2, <2>3, TracedNext
<1> QED BY <1>4, <1>5 DEF Flushers

LEMMA TwoOfSum ==
  ASSUME NEW b \in {0, 1}, NEW x \in {0, 1}, NEW y \in {0, 1}, NEW q \in {0, 1}, NEW w \in {0, 1},
         NEW e \in {0, 1}, SumOf(b, x, y, q, w, e) \in {0, 1}
  PROVE  q + x \in {0, 1} /\ q + y \in {0, 1}
<1>1. b \in Nat /\ x \in Nat /\ y \in Nat /\ q \in Nat /\ w \in Nat /\ e \in Nat OBVIOUS
<1>2. b + x + y + q + w + e <= 1 BY DEF SumOf
<1>3. q + x <= 1 /\ q + y <= 1 /\ q + x \in Nat /\ q + y \in Nat BY <1>1, <1>2
<1>4. \A i \in Nat : i <= 1 => i \in {0, 1} OBVIOUS
<1> QED BY <1>3, <1>4

\* push() queues what was swapped out.
LEMMA TracedPush ==
  ASSUME TypeOK, NEW m \in Lines, NEW t \in Types, Traced(t, m), NEW f \in Flushers,
         ftmp'[f][t] = <<>>, m_tasks'[t] = Append(m_tasks[t], ftmp[f][t]),
         \A g \in Flushers \ {f} : ftmp'[g] = ftmp[g],
         accepted'[t] = accepted[t], buffer'[t] = buffer[t], wtmp'[t] = wtmp[t], file'[t] = file[t]
  PROVE  Traced(t, m)'
<1>1. PICK b, x, y, q, w, e \in {0, 1} :
        SumOf(b, x, y, q, w, e) = Logged1(t, m) /\ Copied(t, m, b, x, y, q, w, e)
  BY DEF Traced
<1>2. Logged1(t, m)' = Logged1(t, m) /\ Logged1(t, m) \in {0, 1} BY DEF Logged1
<1>3. Occurs(0, <<>>, m) BY OccursNot
<1>4. m_tasks[t] \in Seq(Seq(Content)) /\ ftmp[f][t] \in Seq(Content) BY DEF TypeOK
<1>5. CASE f = "timer"
  <2>1. q + x \in {0, 1} BY <1>1, <1>2, TwoOfSum
  <2>2. OccursQueued(q + x, m_tasks'[t], m) BY <1>1, <1>4, <1>5, <2>1, OccursQueuedAppend DEF Copied
  <2>3. Copied(t, m, b, 0, y, q + x, w, e)' BY <1>1, <1>3, <1>5, <2>2 DEF Copied, Flushers
  <2>4. SumOf(b, 0, y, q + x, w, e) = Logged1(t, m)' BY <1>1, <1>2 DEF SumOf
  <2> QED BY <1>1, <2>1, <2>3, <2>4, TracedNext
<1>6. CASE f = "crash"
  <2>1. q + y \in {0, 1} BY <1>1, <1>2, TwoOfSum
  <2>2. OccursQueued(q + y, m_tasks'[t], m) BY <1>1, <1>4, <1>6, <2>1, OccursQueuedAppend DEF Copied
  <2>3. Copied(t, m, b, x, 0, q + y, w, e)' BY <1>1, <1>3, <1>6, <2>2 DEF Copied, Flushers
  <2>4. SumOf(b, x, 0, q + y, w, e) = Logged1(t, m)' BY <1>1, <1>2 DEF SumOf
  <2> QED BY <1>1, <2>1, <2>3, <2>4, TracedNext
<1> QED BY <1>5, <1>6 DEF Flushers

\* The writer takes a batch.
LEMMA TracedTake ==
  ASSUME TypeOK, NEW m \in Lines, NEW t \in Types, Traced(t, m), wtmp[t] = <<>>,
         m_tasks[t] # <<>>, wtmp'[t] = Head(m_tasks[t]), m_tasks'[t] = Tail(m_tasks[t]),
         ftmp' = ftmp, accepted'[t] = accepted[t], buffer'[t] = buffer[t], file'[t] = file[t]
  PROVE  Traced(t, m)'
<1>1. PICK b, x, y, q, w, e \in {0, 1} :
        SumOf(b, x, y, q, w, e) = Logged1(t, m) /\ Copied(t, m, b, x, y, q, w, e)
  BY DEF Traced
<1>2. Logged1(t, m)' = Logged1(t, m) BY DEF Logged1
<1>3. w = 0 BY <1>1, OccursEmpty DEF Copied
<1>4. m_tasks[t] \in Seq(Seq(Content)) BY DEF TypeOK
<1>5. PICK k, r \in {0, 1} : k + r = q /\ Occurs(k, Head(m_tasks[t]), m)
                             /\ OccursQueued(r, Tail(m_tasks[t]), m)
  BY <1>1, <1>4, OccursQueuedTail DEF Copied
<1>6. Copied(t, m, b, x, y, r, k, e)' BY <1>1, <1>5 DEF Copied
<1>7. SumOf(b, x, y, r, k, e) = Logged1(t, m)' BY <1>1, <1>2, <1>3, <1>5 DEF SumOf
<1> QED BY <1>1, <1>5, <1>6, <1>7, TracedNext

\* The writer writes a line or drops an empty string.
LEMMA TracedWrite ==
  ASSUME TypeOK, NEW m \in Lines, NEW t \in Types, Traced(t, m), wtmp[t] # <<>>,
         wtmp'[t] = Tail(wtmp[t]),
         file'[t] = IF Head(wtmp[t]) = Blank THEN file[t] ELSE Append(file[t], Head(wtmp[t])),
         ftmp' = ftmp, accepted'[t] = accepted[t], buffer'[t] = buffer[t], m_tasks'[t] = m_tasks[t]
  PROVE  Traced(t, m)'
<1>1. PICK b, x, y, q, w, e \in {0, 1} :
        SumOf(b, x, y, q, w, e) = Logged1(t, m) /\ Copied(t, m, b, x, y, q, w, e)
  BY DEF Traced
<1>2. Logged1(t, m)' = Logged1(t, m) /\ Logged1(t, m) \in {0, 1} BY DEF Logged1
<1>3. wtmp[t] \in Seq(Content) /\ file[t] \in Seq(Lines) BY DEF TypeOK
<1>4. Head(wtmp[t]) \in Content BY <1>3, TailItems
<1>5. m # Blank BY ProgramConstants
<1>6. IF Head(wtmp[t]) = m THEN w = 1 /\ Occurs(0, wtmp'[t], m) ELSE Occurs(w, wtmp'[t], m)
  BY <1>1, <1>3, OccursTail DEF Copied
<1>7. CASE Head(wtmp[t]) = Blank
  <2>1. Copied(t, m, b, x, y, q, w, e)' BY <1>1, <1>5, <1>6, <1>7 DEF Copied
  <2> QED BY <1>1, <1>2, <2>1, TracedNext
<1>8. CASE Head(wtmp[t]) # Blank /\ Head(wtmp[t]) # m
  <2>1. Head(wtmp[t]) \in Lines BY <1>4, <1>8 DEF Content
  <2>2. Occurs(e, file'[t], m) BY <1>1, <1>3, <1>8, <2>1, OccursAppend DEF Copied
  <2>3. Copied(t, m, b, x, y, q, w, e)' BY <1>1, <1>6, <1>8, <2>2 DEF Copied
  <2> QED BY <1>1, <1>2, <2>3, TracedNext
<1>9. CASE Head(wtmp[t]) = m
  <2>1. w = 1 /\ Occurs(0, wtmp'[t], m) BY <1>6, <1>9
  <2>2. e = 0 BY <1>1, <1>2, <2>1 DEF SumOf
  <2>3. Occurs(1, file'[t], m) BY <1>1, <1>3, <1>5, <1>9, <2>2, OccursAppend DEF Copied
  <2>4. Copied(t, m, b, x, y, q, 0, 1)' BY <1>1, <2>1, <2>3 DEF Copied
  <2>5. SumOf(b, x, y, q, 0, 1) = Logged1(t, m)' BY <1>1, <1>2, <2>1, <2>2 DEF SumOf
  <2> QED BY <1>1, <2>4, <2>5, TracedNext
<1> QED BY <1>7, <1>8, <1>9

\* A line is logged.
LEMMA TracedLog ==
  ASSUME TypeOK, NEW m \in Lines, NEW t \in Types, Traced(t, m), NEW l \in Lines,
         l \notin Range(accepted[t]),
         buffer'[t] = Append(buffer[t], l), accepted'[t] = Append(accepted[t], l),
         ftmp' = ftmp, m_tasks'[t] = m_tasks[t], wtmp'[t] = wtmp[t], file'[t] = file[t]
  PROVE  Traced(t, m)'
<1>1. PICK b, x, y, q, w, e \in {0, 1} :
        SumOf(b, x, y, q, w, e) = Logged1(t, m) /\ Copied(t, m, b, x, y, q, w, e)
  BY DEF Traced
<1>2. buffer[t] \in Seq(Content) /\ accepted[t] \in Seq(Lines) /\ l \in Content BY DEF TypeOK, Content
<1>3. Range(accepted'[t]) = Range(accepted[t]) \cup {l}
  <2> DEFINE a == accepted[t]
             c == Append(a, l)
  <2>1. /\ DOMAIN a = 1..Len(a) /\ DOMAIN c = 1..Len(c) /\ Len(a) \in Nat
        /\ c[Len(a) + 1] = l /\ \A i \in 1..Len(a) : c[i] = a[i]
        /\ 1..Len(c) = 1..Len(a) \cup {Len(a) + 1}
    BY <1>2, AppendItems
  <2> HIDE DEF a, c
  <2>2. Range(c) = Range(a) \cup {l} BY <2>1 DEF Range
  <2> QED BY <2>2 DEF a, c
<1>4. CASE l = m
  <2>1. Logged1(t, m) = 0 /\ Logged1(t, m)' = 1 BY <1>3, <1>4 DEF Logged1
  <2>2. b = 0 /\ x = 0 /\ y = 0 /\ q = 0 /\ w = 0 /\ e = 0 BY <1>1, <2>1 DEF SumOf
  <2>3. Occurs(1, buffer'[t], m) BY <1>1, <1>2, <1>4, <2>2, OccursAppend DEF Copied
  <2>4. Copied(t, m, 1, x, y, q, w, e)' BY <1>1, <2>3 DEF Copied
  <2>5. SumOf(1, x, y, q, w, e) = Logged1(t, m)' BY <2>1, <2>2 DEF SumOf
  <2> QED BY <1>1, <2>4, <2>5, TracedNext
<1>5. CASE l # m
  <2>1. Logged1(t, m)' = Logged1(t, m) BY <1>3, <1>5 DEF Logged1
  <2>2. Occurs(b, buffer'[t], m) BY <1>1, <1>2, <1>5, OccursAppend DEF Copied
  <2>3. Copied(t, m, b, x, y, q, w, e)' BY <1>1, <2>2 DEF Copied
  <2> QED BY <1>1, <2>1, <2>3, TracedNext
<1> QED BY <1>4, <1>5

LEMMA EmptiedStep == TypeOK /\ Emptied /\ [Next]_vars => Emptied'
<1> SUFFICES ASSUME TypeOK, Emptied, [Next]_vars PROVE Emptied'
  OBVIOUS
<1> USE DEF Flushers, Types
<1>1. ASSUME NEW m \in Lines, pushLog(m) PROVE Emptied'
  BY <1>1 DEF pushLog, Emptied, writer
<1>2. ASSUME NEW f \in Flushers, loopFunc(f, "idle"), UNCHANGED <<wpc, wtmp>> PROVE Emptied'
  <2>1. /\ fpc[f] = "idle" /\ fpc'[f] = "swapRpc" /\ ftmp'[f]["rpc"] = ftmp[f]["rpc"]
        /\ \A g \in Flushers \ {f} : fpc'[g] = fpc[g] /\ ftmp'[g] = ftmp[g]
    BY <1>2 DEF loopFunc, TypeOK
  <2> QED BY <1>2, <2>1 DEF Emptied
<1>3. CASE TimerLoopFunc BY <1>2, <1>3 DEF TimerLoopFunc, writer
<1>4. CASE FatalSignal BY <1>2, <1>4 DEF FatalSignal, writer
<1>5. ASSUME NEW f \in Flushers, SwapRpc(f) PROVE Emptied'
  <2>1. /\ fpc[f] = "swapRpc" /\ fpc'[f] = "pushRpc"
        /\ \A g \in Flushers \ {f} : fpc'[g] = fpc[g] /\ ftmp'[g] = ftmp[g]
        /\ UNCHANGED <<wpc, wtmp>>
    BY <1>5 DEF SwapRpc, TypeOK, writer
  <2> QED BY <2>1 DEF Emptied
<1>6. ASSUME NEW f \in Flushers, NEW t \in Types, push(f, t) PROVE Emptied'
  <2>1. /\ fpc[f] = PushPc[t] /\ UNCHANGED <<wpc, wtmp>>
        /\ \A g \in Flushers \ {f} : fpc'[g] = fpc[g] /\ ftmp'[g] = ftmp[g]
        /\ fpc'[f] = AfterPush(f, t) \/ fpc'[f] = SignalPc[t]
        /\ ftmp'[f][t] = <<>> /\ \A u \in Types \ {t} : ftmp'[f][u] = ftmp[f][u]
    <3>1. CASE ftmp[f][t] = <<>> BY <1>6, <3>1 DEF push, TypeOK, writer
    <3>2. CASE ftmp[f][t] # <<>> BY <1>6, <3>2 DEF push, TypeOK, writer
    <3> QED BY <3>1, <3>2
  <2>2. CASE t = "rpc"
    <3>1. fpc[f] = "pushRpc" /\ fpc'[f] \in {"pushApp", "signalRpc"}
      BY <2>1, <2>2 DEF PushPc, AfterPush, SignalPc
    <3> QED BY <2>1, <2>2, <3>1 DEF Emptied
  <2>3. CASE t = "app"
    <3>1. fpc[f] = "pushApp" /\ ftmp'[f]["rpc"] = ftmp[f]["rpc"] BY <2>1, <2>3 DEF PushPc
    <3> QED BY <2>1, <2>3, <3>1 DEF Emptied
  <2> QED BY <2>2, <2>3
<1>7. ASSUME NEW t \in Types, Signal(t) PROVE \A u \in Types : wpc'[u] # "write" => wpc[u] # "write"
  BY <1>7 DEF Signal, TypeOK
<1>8. ASSUME NEW f \in Flushers, NEW t \in Types, PushSignal(f, t) PROVE Emptied'
  <2>1. /\ fpc[f] = SignalPc[t] /\ fpc'[f] = AfterPush(f, t) /\ ftmp' = ftmp /\ wtmp' = wtmp
        /\ \A g \in Flushers \ {f} : fpc'[g] = fpc[g]
    BY <1>8 DEF PushSignal, TypeOK
  <2>2. \A u \in Types : wpc'[u] # "write" => wpc[u] # "write" BY <1>7, <1>8 DEF PushSignal
  <2>3. \/ fpc[f] = "signalRpc" /\ fpc'[f] = "pushApp"
        \/ fpc[f] = "signalApp" /\ fpc'[f] # "pushRpc"
    BY <2>1 DEF SignalPc, AfterPush
  <2> QED BY <2>1, <2>2, <2>3 DEF Emptied
<1>9. ASSUME NEW t \in Types, WriterTest(t) PROVE Emptied'
  <2>1. /\ fpc' = fpc /\ ftmp' = ftmp /\ wpc[t] = "lock"
        /\ \A u \in Types \ {t} : wpc'[u] = wpc[u]
        /\ wpc'[t] = "write" \/ wtmp' = wtmp
    BY <1>9 DEF WriterTest, TypeOK
  <2>2. \A u \in Types \ {t} : wtmp'[u] = wtmp[u]
    BY <1>9 DEF WriterTest, TakeBatch, TypeOK
  <2> QED BY <2>1, <2>2 DEF Emptied
<1>10. ASSUME NEW t \in Types, WriterWait(t) PROVE Emptied'
  BY <1>10 DEF WriterWait, Emptied, TypeOK
<1>11. ASSUME NEW t \in Types, WriterWrite(t) PROVE Emptied'
  BY <1>11 DEF WriterWrite, Emptied, TypeOK
<1>12. ASSUME NEW t \in Types, WriterFlush(t) PROVE Emptied'
  BY <1>12 DEF WriterFlush, Emptied, TypeOK
<1>13. ASSUME NEW t \in Types, stop(t) PROVE Emptied'
  <2>1. fpc["crash"] = StopPc[t] /\ fpc'["crash"] = SignalStopPc[t] /\ fpc'["timer"] = fpc["timer"]
        /\ UNCHANGED <<ftmp, wpc, wtmp>>
    BY <1>13 DEF stop, TypeOK, writer
  <2> QED BY <2>1 DEF Emptied, StopPc, SignalStopPc
<1>14. ASSUME NEW t \in Types, StopSignal(t) PROVE Emptied'
  <2>1. fpc["crash"] = SignalStopPc[t] /\ fpc'["crash"] \in {"stopApp", "joinRpc"}
        /\ fpc'["timer"] = fpc["timer"] /\ UNCHANGED <<ftmp, wtmp>>
    BY <1>14 DEF StopSignal, TypeOK
  <2>2. \A u \in Types : wpc'[u] # "write" => wpc[u] # "write" BY <1>7, <1>14 DEF StopSignal
  <2> QED BY <2>1, <2>2 DEF Emptied, SignalStopPc
<1>15. CASE JoinRpc BY <1>15 DEF JoinRpc, Emptied, TypeOK, writer
<1>16. CASE JoinAppAndDie BY <1>16 DEF JoinAppAndDie, Emptied, writer
<1>17. CASE UNCHANGED vars BY <1>17 DEF vars, Emptied
<1> QED
  BY <1>1, <1>3, <1>4, <1>5, <1>6, <1>8, <1>9, <1>10, <1>11, <1>12, <1>13, <1>14, <1>15, <1>16,
     <1>17 DEF Next, CrashStep, FlusherStep, WriterStep

\* However the two calls of loopFunc() and the writer interleave, each step moves
\* a copy of a line as a whole, or makes the only one.
LEMMA TracedStep ==
  ASSUME TypeOK, Emptied, [Next]_vars, NEW u \in Types, NEW m \in Lines, Traced(u, m)
  PROVE  Traced(u, m)'
<1> USE ProgramConstants
<1>0. u \in Types /\ "timer" \in Flushers /\ "crash" \in Flushers OBVIOUS
<1>s. ASSUME Same(u) PROVE Traced(u, m)' BY <1>s, TracedStays
<1>1. ASSUME NEW l \in Lines, pushLog(l) PROVE Traced(u, m)'
  <2>1. UNCHANGED <<ftmp, m_tasks, wtmp, file>> BY <1>1 DEF pushLog, writer
  <2>2. CASE TypeOf[l] = u
    <3>1. /\ l \notin Range(accepted[u]) /\ buffer'[u] = Append(buffer[u], l)
          /\ accepted'[u] = Append(accepted[u], l)
      BY <1>0, <1>1, <2>2 DEF pushLog, TypeOK
    <3> QED BY <1>0, <2>1, <3>1, TracedLog
  <2>3. CASE TypeOf[l] # u
    <3>1. Same(u) BY <1>0, <1>1, <2>1, <2>3 DEF pushLog, TypeOK, Same
    <3> QED BY <1>s, <3>1
  <2> QED BY <2>2, <2>3
<1>2. ASSUME NEW f \in Flushers, NEW t \in Types, ftmp[f][t] = <<>>,
             buffer' = [buffer EXCEPT ![t] = <<>>], ftmp' = [ftmp EXCEPT ![f][t] = buffer[t]],
             UNCHANGED <<accepted, m_tasks, wtmp, file>>
      PROVE  Traced(u, m)'
  <2>1. /\ buffer'[t] = <<>> /\ ftmp'[f][t] = buffer[t] /\ \A g \in Flushers \ {f} : ftmp'[g] = ftmp[g]
        /\ t # u => buffer'[u] = buffer[u] /\ ftmp'[f][u] = ftmp[f][u]
    BY <1>0, <1>2 DEF TypeOK
  <2>2. CASE t = u BY <1>2, <2>1, <2>2, TracedSwap
  <2>3. CASE t # u
    <3>1. ftmp'["timer"][u] = ftmp["timer"][u] /\ ftmp'["crash"][u] = ftmp["crash"][u]
      BY <1>0, <2>1, <2>3
    <3> QED BY <1>2, <1>s, <2>1, <2>3, <3>1 DEF Same
  <2> QED BY <2>2, <2>3
<1>3. ASSUME NEW f \in Flushers, loopFunc(f, "idle"), UNCHANGED <<accepted, m_tasks, wtmp, file>>
      PROVE  Traced(u, m)'
  BY <1>2, <1>3 DEF loopFunc, Emptied, Types
<1>4. CASE TimerLoopFunc BY <1>0, <1>3, <1>4 DEF TimerLoopFunc, writer, history
<1>5. CASE FatalSignal BY <1>0, <1>3, <1>5 DEF FatalSignal, writer
<1>6. ASSUME NEW f \in Flushers, SwapRpc(f) PROVE Traced(u, m)'
  BY <1>2, <1>6 DEF SwapRpc, Emptied, Types, writer, history
<1>7. ASSUME NEW f \in Flushers, NEW t \in Types, push(f, t) PROVE Traced(u, m)'
  <2>1. UNCHANGED <<accepted, buffer, wtmp, file>> BY <1>7 DEF push, writer, history
  <2>2. CASE ftmp[f][t] = <<>>
    <3>1. UNCHANGED <<m_tasks, ftmp>> BY <1>7, <2>2 DEF push
    <3> QED BY <1>s, <2>1, <3>1 DEF Same
  <2>3. CASE ftmp[f][t] # <<>>
    <3>1. /\ m_tasks' = [m_tasks EXCEPT ![t] = Append(m_tasks[t], ftmp[f][t])]
          /\ ftmp' = [ftmp EXCEPT ![f][t] = <<>>]
      BY <1>7, <2>3 DEF push
    <3>2. /\ m_tasks'[t] = Append(m_tasks[t], ftmp[f][t]) /\ ftmp'[f][t] = <<>>
          /\ \A g \in Flushers \ {f} : ftmp'[g] = ftmp[g]
          /\ t # u => m_tasks'[u] = m_tasks[u] /\ ftmp'[f][u] = ftmp[f][u]
      BY <1>0, <3>1 DEF TypeOK
    <3>3. CASE t = u BY <2>1, <3>2, <3>3, TracedPush
    <3>4. CASE t # u
      <4>1. ftmp'["timer"][u] = ftmp["timer"][u] /\ ftmp'["crash"][u] = ftmp["crash"][u]
        BY <1>0, <3>2, <3>4
      <4> QED BY <1>s, <2>1, <3>2, <3>4, <4>1 DEF Same
    <3> QED BY <3>3, <3>4
  <2> QED BY <2>2, <2>3
<1>8. ASSUME NEW f \in Flushers, NEW t \in Types, PushSignal(f, t) PROVE Traced(u, m)'
  BY <1>8, <1>s DEF PushSignal, Same, history
<1>9. ASSUME NEW t \in Types, WriterTest(t) PROVE Traced(u, m)'
  <2>1. wpc[t] = "lock" /\ UNCHANGED <<accepted, buffer, ftmp, file>> BY <1>9 DEF WriterTest, history
  <2>2. wtmp[t] = <<>> BY <2>1 DEF Emptied
  <2>3. CASE m_tasks[t] = <<>>
    <3>1. m_tasks' = m_tasks /\ wtmp'[u] = wtmp[u]
      <4>1. wtmp' = wtmp \/ wtmp' = [wtmp EXCEPT ![t] = <<>>]
        BY <1>9, <2>3 DEF WriterTest, TakeBatch
      <4>2. m_tasks' = m_tasks BY <1>9, <2>3 DEF WriterTest, TakeBatch
      <4> QED BY <1>0, <2>2, <4>1, <4>2 DEF TypeOK
    <3> QED BY <1>s, <2>1, <3>1 DEF Same
  <2>4. CASE m_tasks[t] # <<>>
    <3>1. /\ wtmp' = [wtmp EXCEPT ![t] = Head(m_tasks[t])]
          /\ m_tasks' = [m_tasks EXCEPT ![t] = Tail(m_tasks[t])]
      BY <1>9, <2>4 DEF WriterTest, TakeBatch
    <3>2. /\ wtmp'[t] = Head(m_tasks[t]) /\ m_tasks'[t] = Tail(m_tasks[t])
          /\ t # u => wtmp'[u] = wtmp[u] /\ m_tasks'[u] = m_tasks[u]
      BY <1>0, <3>1 DEF TypeOK
    <3>3. CASE t = u BY <2>1, <2>2, <2>4, <3>2, <3>3, TracedTake
    <3>4. CASE t # u BY <1>s, <2>1, <3>2, <3>4 DEF Same
    <3> QED BY <3>3, <3>4
  <2> QED BY <2>3, <2>4
<1>10. ASSUME NEW t \in Types, WriterWait(t) PROVE Traced(u, m)'
  BY <1>10, <1>s DEF WriterWait, Same, history
<1>11. ASSUME NEW t \in Types, WriterWrite(t) PROVE Traced(u, m)'
  <2>1. wtmp[t] # <<>> /\ UNCHANGED <<accepted, buffer, ftmp, m_tasks>>
    BY <1>11 DEF WriterWrite, history
  <2>2. /\ wtmp'[t] = Tail(wtmp[t])
        /\ file'[t] = IF Head(wtmp[t]) = Blank THEN file[t] ELSE Append(file[t], Head(wtmp[t]))
        /\ t # u => wtmp'[u] = wtmp[u] /\ file'[u] = file[u]
    <3>1. wtmp' = [wtmp EXCEPT ![t] = Tail(wtmp[t])] BY <1>11 DEF WriterWrite
    <3>2. file' = IF Head(wtmp[t]) = Blank THEN file
                  ELSE [file EXCEPT ![t] = Append(file[t], Head(wtmp[t]))]
      BY <1>11 DEF WriterWrite
    <3> QED BY <1>0, <3>1, <3>2 DEF TypeOK
  <2>3. CASE t = u BY <2>1, <2>2, <2>3, TracedWrite
  <2>4. CASE t # u BY <1>s, <2>1, <2>2, <2>4 DEF Same
  <2> QED BY <2>3, <2>4
<1>12. ASSUME NEW t \in Types, WriterFlush(t) PROVE Traced(u, m)'
  BY <1>12, <1>s DEF WriterFlush, Same, history
<1>13. CASE CrashStep
  <2>1. UNCHANGED <<accepted, buffer, ftmp, m_tasks, wtmp, file>>
    BY <1>13 DEF CrashStep, stop, StopSignal, JoinRpc, JoinAppAndDie, writer, history
  <2> QED BY <1>s, <2>1 DEF Same
<1>14. CASE UNCHANGED vars BY <1>14, <1>s DEF vars, Same
<1> QED
  BY <1>1, <1>4, <1>5, <1>6, <1>7, <1>8, <1>9, <1>10, <1>11, <1>12, <1>13, <1>14
     DEF Next, FlusherStep, WriterStep

\* Counting: one or no copy in a sequence, and in a queue, by Cardinality.
LEMMA OccursCount ==
  ASSUME NEW S, NEW s \in Seq(S), NEW m, NEW n \in {0, 1}, Occurs(n, s, m)
  PROVE  Cardinality({i \in DOMAIN s : s[i] = m}) = n
<1>1. DOMAIN s = 1..Len(s) OBVIOUS
<1>2. CASE n = 0
  <2>1. {i \in DOMAIN s : s[i] = m} = {} BY <1>1, <1>2 DEF Occurs
  <2> QED BY <1>2, <2>1, FS_EmptySet
<1>3. CASE n = 1
  <2>1. PICK i \in 1..Len(s) : s[i] = m /\ \A j \in 1..Len(s) : s[j] = m => j = i
    BY <1>3 DEF Occurs
  <2>2. {j \in DOMAIN s : s[j] = m} = {i} BY <1>1, <2>1
  <2> QED BY <1>3, <2>2, FS_Singleton
<1> QED BY <1>2, <1>3

QueuedAt(q, m) ==
  UNION {{<<i, j>> : j \in {k \in DOMAIN q[i] : q[i][k] = m}} : i \in DOMAIN q}

LEMMA OccursQueuedCount ==
  ASSUME NEW S, NEW q \in Seq(Seq(S)), NEW m, NEW n \in {0, 1}, OccursQueued(n, q, m)
  PROVE  Cardinality(QueuedAt(q, m)) = n
<1> DEFINE P(i) == {k \in DOMAIN q[i] : q[i][k] = m}
           U == UNION {{<<i, j>> : j \in P(i)} : i \in DOMAIN q}
<1>1. DOMAIN q = 1..Len(q) /\ \A i \in 1..Len(q) : q[i] \in Seq(S) OBVIOUS
<1>2. \A i \in 1..Len(q) : DOMAIN q[i] = 1..Len(q[i]) BY <1>1
<1>3. \A i \in 1..Len(q) : Occurs(0, q[i], m) => P(i) = {} BY <1>2 DEF Occurs
<1>4. ASSUME NEW i \in 1..Len(q), Occurs(1, q[i], m) PROVE \E k : P(i) = {k}
  <2>1. PICK k \in 1..Len(q[i]) : q[i][k] = m /\ \A j \in 1..Len(q[i]) : q[i][j] = m => j = k
    BY <1>4 DEF Occurs
  <2>2. P(i) = {k} BY <1>2, <2>1
  <2> QED BY <2>2
<1> HIDE DEF P
<1>5. CASE n = 0
  <2>1. \A i \in DOMAIN q : P(i) = {} BY <1>1, <1>3, <1>5 DEF OccursQueued
  <2>2. U = {} BY <2>1
  <2>3. Cardinality(U) = 0 BY <2>2, FS_EmptySet
  <2> QED BY <1>5, <2>3 DEF P, QueuedAt
<1>6. CASE n = 1
  <2>1. PICK i \in 1..Len(q) :
          Occurs(1, q[i], m) /\ \A j \in 1..Len(q) : j # i => Occurs(0, q[j], m)
    BY <1>6 DEF OccursQueued
  <2>2. PICK k : P(i) = {k} BY <1>4, <2>1
  <2>3. \A j \in DOMAIN q : j # i => P(j) = {} BY <1>1, <1>3, <2>1
  <2>4. U = {<<i, k>>} BY <1>1, <2>2, <2>3
  <2>5. Cardinality(U) = 1 BY <2>4, FS_Singleton
  <2> QED BY <1>6, <2>5 DEF P, QueuedAt
<1> QED BY <1>5, <1>6

LEMMA CopiesInit == Init => CInv
<1> SUFFICES ASSUME Init PROVE CInv OBVIOUS
<1>1. Emptied BY DEF Init, Emptied, Flushers, Types
<1>2. ASSUME NEW t \in Types, NEW m \in Lines PROVE Traced(t, m)
  <2>1. m # Blank BY ProgramConstants
  <2>2. /\ buffer[t] = <<Blank>> /\ ftmp["timer"][t] = <<>> /\ ftmp["crash"][t] = <<>>
        /\ m_tasks[t] = <<>> /\ wtmp[t] = <<>> /\ file[t] = <<>> /\ accepted[t] = <<>>
    BY <2>1 DEF Init, Flushers
  <2>3. Occurs(0, <<Blank>>, m) BY <2>1 DEF Occurs
  <2>4. Copied(t, m, 0, 0, 0, 0, 0, 0) BY <2>2, <2>3, OccursNot DEF Copied
  <2>5. Logged1(t, m) = 0 BY <2>2 DEF Logged1, Range
  <2>6. SumOf(0, 0, 0, 0, 0, 0) = Logged1(t, m) BY <2>5 DEF SumOf
  <2> QED BY <2>4, <2>6 DEF Traced
<1> QED BY <1>1, <1>2 DEF CInv

\* Even while the fatal signal is handled by a second loopFunc() beside that of
\* the timer, each logged line is at one place, once, on its way to the disk or
\* there: nothing is written twice, and what is lost is lost by not being
\* written (Logger::loopFunc, AsyncLogger::push and excute, CoredumpHandler).
THEOREM OneCopyHolds == Spec => []OneCopy
<1>1. Init => CInv BY CopiesInit
<1>2. TypeOK /\ CInv /\ [Next]_vars => CInv'
  BY EmptiedStep, TracedStep DEF CInv
<1>3. TypeOK /\ CInv => OneCopy
  <2> SUFFICES ASSUME TypeOK, NEW t \in Types, NEW m \in Lines, Traced(t, m)
               PROVE  Copies(t, m) = Logged1(t, m)
    BY ProgramConstants DEF OneCopy, CInv, Logged1
  <2>2. PICK b, x, y, q, w, f \in {0, 1} :
          SumOf(b, x, y, q, w, f) = Logged1(t, m) /\ Copied(t, m, b, x, y, q, w, f)
    BY DEF Traced
  <2>3. /\ buffer[t] \in Seq(Content) /\ ftmp["timer"][t] \in Seq(Content)
        /\ ftmp["crash"][t] \in Seq(Content) /\ m_tasks[t] \in Seq(Seq(Content))
        /\ wtmp[t] \in Seq(Content) /\ file[t] \in Seq(Lines)
    BY PlacesPresent
  <2>4. /\ Occurs(b, buffer[t], m) /\ Occurs(x, ftmp["timer"][t], m) /\ Occurs(y, ftmp["crash"][t], m)
        /\ OccursQueued(q, m_tasks[t], m) /\ Occurs(w, wtmp[t], m) /\ Occurs(f, file[t], m)
    BY <2>2 DEF Copied
  <2>5. ASSUME NEW s \in Seq(Content), NEW n \in {0, 1}, Occurs(n, s, m)
        PROVE  Cardinality({i \in DOMAIN s : s[i] = m}) = n
    BY <2>5, OccursCount
  <2>6. /\ Cardinality({i \in DOMAIN buffer[t] : buffer[t][i] = m}) = b
        /\ Cardinality({i \in DOMAIN ftmp["timer"][t] : ftmp["timer"][t][i] = m}) = x
        /\ Cardinality({i \in DOMAIN ftmp["crash"][t] : ftmp["crash"][t][i] = m}) = y
        /\ Cardinality({i \in DOMAIN wtmp[t] : wtmp[t][i] = m}) = w
    BY <2>3, <2>4, <2>5
  <2>7. Cardinality({i \in DOMAIN file[t] : file[t][i] = m}) = f
    <3>1. ASSUME NEW s \in Seq(Lines), NEW n \in {0, 1}, Occurs(n, s, m)
          PROVE  Cardinality({i \in DOMAIN s : s[i] = m}) = n
      BY <3>1, OccursCount
    <3> QED BY <2>3, <2>4, <3>1
  <2>8. Cardinality(QueuedAt(m_tasks[t], m)) = q
    BY <2>3, <2>4, OccursQueuedCount
  <2>9. Copies(t, m) = SumOf(b, x, y, q, w, f) BY <2>6, <2>7, <2>8 DEF Copies, QueuedAt, SumOf
  <2> QED BY <2>2, <2>9
<1> QED BY <1>1, <1>2, <1>3, TypeCorrect, PTL DEF Spec

-----------------------------------------------------------------------------
(* The two flows together are the stream that LogStream describes.         *)

\* A line that the writer of t has in its batch was logged for t and is not in
\* the file.
LEMMA BatchIsUnwritten ==
  ASSUME TypeOK, CInv, NEW t \in Types, wtmp[t] # <<>>, Head(wtmp[t]) \in Lines
  PROVE  Head(wtmp[t]) \in Range(accepted[t]) \ Range(file[t])
<1> DEFINE m == Head(wtmp[t])
<1>1. PICK b, x, y, q, w, e \in {0, 1} :
        SumOf(b, x, y, q, w, e) = Logged1(t, m) /\ Copied(t, m, b, x, y, q, w, e)
  BY DEF CInv, Traced
<1>2. wtmp[t] \in Seq(Content) /\ file[t] \in Seq(Lines) BY DEF TypeOK
<1>3. 1 \in 1..Len(wtmp[t]) /\ wtmp[t][1] = m BY <1>2
<1> HIDE DEF m
<1>4. w = 1 BY <1>1, <1>3 DEF Copied, Occurs
<1>5. Logged1(t, m) \in {0, 1} BY DEF Logged1
<1>6. Logged1(t, m) = 1 /\ e = 0
  <2>1. \A i, j, k, l, n, p \in Nat : SumOf(i, j, k, l, n, p) \in {0, 1} /\ n = 1
                                        => SumOf(i, j, k, l, n, p) = 1 /\ p = 0
    BY DEF SumOf
  <2>2. b \in Nat /\ x \in Nat /\ y \in Nat /\ q \in Nat /\ w \in Nat /\ e \in Nat OBVIOUS
  <2> QED BY <1>1, <1>4, <1>5, <2>1, <2>2
<1>7. m \in Range(accepted[t]) BY <1>6 DEF Logged1
<1>8. m \notin Range(file[t]) BY <1>1, <1>2, <1>6 DEF Copied, Occurs, Range
<1> QED BY <1>7, <1>8 DEF m

LEMMA StreamStep ==
  TypeOK /\ TypeOK' /\ IInv /\ CInv /\ FileInOrder' /\ [Next]_vars => [LS!LSNext]_LS!lsvars
<1> SUFFICES ASSUME TypeOK, TypeOK', IInv, CInv, FileInOrder', [Next]_vars
             PROVE  [LS!LSNext]_LS!lsvars
  OBVIOUS
<1> USE ProgramConstants
<1>r. \A s : LS!Range(s) = Range(s) BY DEF LS!Range, Range
<1>s. ASSUME UNCHANGED <<accepted, file, dead>>, Crashing' = Crashing PROVE [LS!LSNext]_LS!lsvars
  BY <1>s DEF LS!lsvars
<1>1. ASSUME NEW l \in Lines, pushLog(l) PROVE [LS!LSNext]_LS!lsvars
  <2> DEFINE t == TypeOf[l]
  <2>1. /\ ~dead /\ l \in Lines \ Range(accepted[t]) /\ UNCHANGED <<file, fpc, dead>>
        /\ accepted' = [accepted EXCEPT ![t] = Append(accepted[t], l)]
    BY <1>1 DEF pushLog, writer
  <2>2. t \in Types OBVIOUS
  <2> HIDE DEF t
  <2>3. LS!Log(t) BY <1>r, <2>1 DEF LS!Log, Crashing
  <2> QED BY <2>2, <2>3 DEF LS!LSNext
<1>2. CASE FatalSignal
  <2>1. Crashing' /\ ~Crashing /\ ~dead BY <1>2 DEF FatalSignal, loopFunc, TypeOK, Crashing
  <2>2. LS!FatalSignal BY <1>2, <2>1 DEF FatalSignal, writer, LS!FatalSignal
  <2> QED BY <2>2 DEF LS!LSNext
<1>3. CASE TimerLoopFunc
  <2>1. fpc'["crash"] = fpc["crash"] BY <1>3 DEF TimerLoopFunc, loopFunc, TypeOK
  <2> QED BY <1>3, <1>s, <2>1 DEF TimerLoopFunc, writer, history, Crashing
<1>4. ASSUME NEW f \in Flushers, SwapRpc(f) PROVE [LS!LSNext]_LS!lsvars
  <2>1. Crashing' = Crashing BY <1>4 DEF SwapRpc, TypeOK, Crashing
  <2> QED BY <1>4, <1>s, <2>1 DEF SwapRpc, writer, history
<1>5. ASSUME NEW f \in Flushers, NEW t \in Types, push(f, t) PROVE [LS!LSNext]_LS!lsvars
  <2>1. /\ fpc[f] = PushPc[t]
        /\ fpc' = [fpc EXCEPT ![f] = AfterPush(f, t)] \/ fpc' = [fpc EXCEPT ![f] = SignalPc[t]]
        /\ UNCHANGED <<accepted, file, dead>>
    BY <1>5 DEF push, writer, history
  <2>2. /\ fpc[f] # "idle" /\ SignalPc[t] # "idle" /\ AfterPush("crash", t) # "idle"
        /\ fpc \in [Flushers -> Fpcs]
    <3>1. CASE t = "rpc" BY <2>1, <3>1 DEF PushPc, SignalPc, AfterPush, TypeOK
    <3>2. CASE t = "app" BY <2>1, <3>2 DEF PushPc, SignalPc, AfterPush, TypeOK
    <3> QED BY <3>1, <3>2 DEF Types
  <2>3. Crashing' = Crashing BY <2>1, <2>2 DEF Crashing
  <2> QED BY <1>s, <2>1, <2>3
<1>6. ASSUME NEW f \in Flushers, NEW t \in Types, PushSignal(f, t) PROVE [LS!LSNext]_LS!lsvars
  <2>1. Crashing' = Crashing
    BY <1>6 DEF PushSignal, Crashing, SignalPc, AfterPush, TypeOK, Types
  <2> QED BY <1>6, <1>s, <2>1 DEF PushSignal, history
<1>7. ASSUME NEW t \in Types, WriterTest(t) PROVE [LS!LSNext]_LS!lsvars
  <2>1. UNCHANGED <<accepted, file>> /\ Crashing' = Crashing /\ ~dead
    BY <1>7 DEF WriterTest, history, Crashing
  <2>2. CASE UNCHANGED dead BY <1>s, <2>1, <2>2
  <2>3. CASE dead' # dead
    <3>1. dead' = TRUE BY <2>1, <2>3 DEF TypeOK
    <3>2. m_stop[t] BY <1>7, <2>3 DEF WriterTest, TakeBatch
    <3>3. Crashing BY <3>2 DEF IInv, Drained
    <3>4. LS!End BY <2>1, <3>1, <3>3 DEF LS!End
    <3> QED BY <3>4 DEF LS!LSNext
  <2> QED BY <2>2, <2>3
<1>8. ASSUME NEW t \in Types, WriterWait(t) PROVE [LS!LSNext]_LS!lsvars
  BY <1>8, <1>s DEF WriterWait, history, Crashing
<1>9. ASSUME NEW t \in Types, WriterWrite(t) PROVE [LS!LSNext]_LS!lsvars
  <2> DEFINE m == Head(wtmp[t])
  <2>1. /\ ~dead /\ UNCHANGED <<accepted, dead>> /\ Crashing' = Crashing /\ wtmp[t] # <<>>
        /\ file' = IF m = Blank THEN file ELSE [file EXCEPT ![t] = Append(file[t], m)]
    BY <1>9 DEF WriterWrite, history, Crashing
  <2>2. m \in Content
    <3>1. wtmp[t] \in Seq(Content) /\ wtmp[t] # <<>> BY <2>1 DEF TypeOK
    <3> QED BY <3>1
  <2> HIDE DEF m
  <2>3. CASE m = Blank BY <1>s, <2>1, <2>3
  <2>4. CASE m # Blank /\ Crashing
    <3>0. m \in Lines BY <2>2, <2>4 DEF Content
    <3>1. m \in Range(accepted[t]) \ Range(file[t]) BY <2>1, <3>0, BatchIsUnwritten DEF m
    <3>2. file' = [file EXCEPT ![t] = Append(file[t], m)] BY <2>1, <2>4
    <3>3. LS!WriteLate(t) BY <1>r, <2>1, <2>4, <3>1, <3>2 DEF LS!WriteLate
    <3> QED BY <3>3 DEF LS!LSNext
  <2>5. CASE m # Blank /\ ~Crashing
    <3>2. /\ file[t] \in Seq(Lines) /\ accepted[t] \in Seq(Lines) /\ m \in Lines
          /\ file'[t] = Append(file[t], m)
      BY <2>1, <2>2, <2>5 DEF TypeOK, Content
    <3>3. /\ file'[t] = SubSeq(accepted[t], 1, Len(file'[t]))
          /\ Len(file'[t]) <= Len(accepted[t])
      BY <2>1, <2>5 DEF FileInOrder
    <3>4. ASSUME NEW a \in Seq(Lines), NEW d \in Seq(Lines), NEW e, e = Append(d, m),
                 e = SubSeq(a, 1, Len(e)), Len(e) <= Len(a)
          PROVE  Len(d) < Len(a) /\ m = a[Len(d) + 1]
      <4>1. Len(e) = Len(d) + 1 /\ e[Len(d) + 1] = m /\ Len(d) \in Nat /\ Len(a) \in Nat
        BY <3>2, <3>4
      <4>2. SubSeq(a, 1, Len(d) + 1)[Len(d) + 1] = a[Len(d) + 1] BY <3>4, <4>1
      <4> QED BY <3>4, <4>1, <4>2
    <3>5. Len(file[t]) < Len(accepted[t]) /\ m = accepted[t][Len(file[t]) + 1]
      BY <3>2, <3>3, <3>4
    <3>6. LS!Write(t) BY <2>1, <2>5, <3>5 DEF LS!Write
    <3> QED BY <3>6 DEF LS!LSNext
  <2> QED BY <2>3, <2>4, <2>5
<1>10. ASSUME NEW t \in Types, WriterFlush(t) PROVE [LS!LSNext]_LS!lsvars
  BY <1>10, <1>s DEF WriterFlush, history, Crashing
<1>11. ASSUME NEW t \in Types, stop(t) PROVE [LS!LSNext]_LS!lsvars
  <2>1. fpc["crash"] # "idle" /\ fpc'["crash"] # "idle"
    <3>1. CASE t = "rpc" BY <1>11, <3>1 DEF stop, StopPc, SignalStopPc, TypeOK
    <3>2. CASE t = "app" BY <1>11, <3>2 DEF stop, StopPc, SignalStopPc, TypeOK
    <3> QED BY <3>1, <3>2 DEF Types
  <2> QED BY <1>11, <1>s, <2>1 DEF stop, writer, history, Crashing
<1>12. ASSUME NEW t \in Types, StopSignal(t) PROVE [LS!LSNext]_LS!lsvars
  <2>1. Crashing' = Crashing BY <1>12 DEF StopSignal, Crashing, SignalStopPc, TypeOK, Types
  <2> QED BY <1>12, <1>s, <2>1 DEF StopSignal, history
<1>13. CASE JoinRpc
  <2>1. Crashing' = Crashing BY <1>13 DEF JoinRpc, Crashing, TypeOK
  <2> QED BY <1>13, <1>s, <2>1 DEF JoinRpc, writer, history
<1>14. CASE JoinAppAndDie
  <2>1. LS!End BY <1>14 DEF JoinAppAndDie, LS!End, writer, history, Crashing
  <2> QED BY <2>1 DEF LS!LSNext
<1>15. CASE UNCHANGED vars BY <1>15, <1>s DEF vars, Crashing, writer, history
<1> QED
  BY <1>1, <1>2, <1>3, <1>4, <1>5, <1>6, <1>7, <1>8, <1>9, <1>10, <1>11, <1>12, <1>13, <1>14, <1>15
     DEF Next, CrashStep, FlusherStep, WriterStep

\* For any lines, two buffers, two queues of batches and the writing threads are
\* one stream per log type, also where a fatal signal is handled beside a
\* running loopFunc() (Logger::loopFunc, AsyncLogger::push and excute,
\* CoredumpHandler).
THEOREM LoggerImplementsLogStream == Spec => ImplementsLogStream
<1>1. Init => LS!LSInit BY DEF Init, LS!LSInit, Crashing, Flushers
<1>2. Init => IInv /\ CInv BY FlowInit, CopiesInit
<1>3. TypeOK /\ CInv /\ [Next]_vars => CInv'
  BY EmptiedStep, TracedStep DEF CInv
<1> QED BY <1>1, <1>2, <1>3, FlowStep, StreamStep, TypeCorrect, FileInOrderHolds, PTL
        DEF Spec, ImplementsLogStream, LS!LSSpec
=============================================================================
