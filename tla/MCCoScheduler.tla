---------------------------- MODULE MCCoScheduler ----------------------------
(***************************************************************************)
(* Instances of CoScheduler: two coroutines on two reactors.  WithMain: an *)
(* IO thread and the main reactor, a coroutine that sleeps between reads   *)
(* and may lose its peer, one that writes for ever.  TwoIOThreads: one     *)
(* that reads, one with a descriptor to read and one to connect.           *)
(* ConnectThenSleep: a connect timeout that comes late, and a neighbour in *)
(* the same timer.                                                         *)
(***************************************************************************)
EXTENDS CoScheduler, TLC

CONSTANTS c1, c2, f1, f2, f3

Read(f) == <<"read", f>>
Write(f) == <<"write", f>>
Connect(f) == <<"connect", f>>
Sleep == <<"sleep", NULL>>

WithMain ==
  [size |-> 1, closable |-> {f1}, loops |-> {c2},
   code |-> (c1 :> <<Read(f1), Sleep, Read(f1)>>) @@ (c2 :> <<Write(f2)>>)]

TwoIOThreads ==
  [size |-> 2, closable |-> {}, loops |-> {},
   code |-> (c1 :> <<Read(f1)>>) @@ (c2 :> <<Read(f3), Connect(f2), Read(f3)>>)]

ConnectThenSleep ==
  [size |-> 1, closable |-> {f1}, loops |-> {},
   code |-> (c1 :> <<Connect(f1), Sleep>>) @@ (c2 :> <<Sleep>>)]

AllPrograms == {WithMain, TwoIOThreads, ConnectThenSleep}
=============================================================================
