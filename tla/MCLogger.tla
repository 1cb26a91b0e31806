------------------------------- MODULE MCLogger -------------------------------
(* Two lines of the rpc log and one of the app log.                        *)
EXTENDS Logger
CONSTANTS r1, r2, a1
MCTypeOf == [m \in Lines |-> IF m = a1 THEN "app" ELSE "rpc"]
=============================================================================
