----------------------------- MODULE MCRpcClient -----------------------------
(***************************************************************************)
(* Instances of RpcClient on two IO threads.  TwoSync: two callers, whose  *)
(* sockets contend for descriptor numbers, though the second one's request *)
(* cannot be encoded.  SyncThenAsync: a call follows one that may leave    *)
(* something behind.  TwoAsync: two async calls under way at once.         *)
(* AsyncThenHook: the caller waits for something else before it waits for  *)
(* its call, and makes another one without saveCallee().                   *)
(***************************************************************************)
EXTENDS RpcClient, TLC

CONSTANTS k1, k2, ca, cb, t1, t2

Home == (k1 :> t1) @@ (k2 :> t2)

TwoSync ==
  [home |-> Home, script |-> (k1 :> <<<<"call", ca>>>>) @@ (k2 :> <<<<"call", cb>>>>),
   request |-> (ca :> Virtues \ {"body"}) @@ (cb :> Virtues \ {"encode"}), saved |-> {}]

SyncThenAsync ==
  [home |-> Home,
   script |-> (k1 :> <<<<"channel", cb>>, <<"call", ca>>, <<"async", cb>>, <<"wait", cb>>>>)
                @@ (k2 :> <<>>),
   request |-> (ca :> Virtues \ {"service"}) @@ (cb :> Virtues \ {"serialize"}), saved |-> {ca, cb}]

TwoAsync ==
  [home |-> Home,
   script |-> (k1 :> <<<<"channel", ca>>, <<"async", ca>>, <<"channel", cb>>, <<"async", cb>>,
                       <<"wait", ca>>, <<"wait", cb>>>>) @@ (k2 :> <<>>),
   request |-> (ca :> Virtues \ {"parse"}) @@ (cb :> Virtues \ {"serialize"}), saved |-> {ca, cb}]

AsyncThenHook ==
  [home |-> Home,
   script |-> (k1 :> <<<<"channel", ca>>, <<"async", ca>>, <<"hook", ca>>, <<"wait", ca>>,
                       <<"channel", cb>>, <<"async", cb>>, <<"wait", cb>>>>) @@ (k2 :> <<>>),
   request |-> (ca :> Virtues) @@ (cb :> Virtues), saved |-> {ca}]

AllPrograms == {TwoSync, SyncThenAsync, TwoAsync, AsyncThenHook}
=============================================================================
