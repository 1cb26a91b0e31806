--------------------------- MODULE MCCoroutineMutex ---------------------------
(* Three coroutines on two threads, each of which locks the mutex twice.   *)
EXTENDS CoroutineMutex
CONSTANTS c1, c2, c3, t1, t2
=============================================================================
