------------------------------ MODULE MCReactor ------------------------------
(***************************************************************************)
(* Instance of Reactor: two threads hand over two closures as one vector,  *)
(* register, deregister and stop; one descriptor, one event per batch.     *)
(* No symmetry: the run checks liveness.                                   *)
(***************************************************************************)
EXTENDS Reactor, TLC

CONSTANTS a, b, t1, t2, f1

BothTasks == {<<a, b>>}
ReadEvents == {{"in"}}
=============================================================================
