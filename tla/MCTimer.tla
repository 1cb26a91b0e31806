------------------------------- MODULE MCTimer -------------------------------
(***************************************************************************)
(* The timers of a server: a short repeated one (log), a long repeated one *)
(* (time wheel) and one-shot timeouts.                                     *)
(***************************************************************************)
EXTENDS Timer

CONSTANTS log, wheel, s1, s2

MCInterval == [e \in Ev |-> CASE e = log -> 1 [] e = wheel -> 3 [] e = s1 -> 1 [] e = s2 -> 2]
=============================================================================
