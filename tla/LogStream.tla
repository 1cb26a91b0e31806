------------------------------ MODULE LogStream ------------------------------
(***************************************************************************)
(* What the asynchronous log promises, with no buffers, batches or         *)
(* threads: for each log type a sequence of logged lines, of which a       *)
(* prefix is in the file.  Lines go to the file one by one, in the order   *)
(* in which they were logged.  From a fatal signal on the order is given   *)
(* up and lines may be lost, but none is written twice and none that was   *)
(* not logged, and the process may end at any point.                       *)
(***************************************************************************)
EXTENDS Naturals, Sequences, Functions

CONSTANTS Type, \* the log types
          Line  \* what can be logged

VARIABLES logged,   \* for each type, the lines logged so far
          disk,     \* the lines in its file
          crashing, \* a fatal signal has come
          ended     \* the process is gone

lsvars == <<logged, disk, crashing, ended>>

LSInit ==
  /\ logged = [t \in Type |-> <<>>] /\ disk = [t \in Type |-> <<>>]
  /\ crashing = FALSE /\ ended = FALSE

Log(t) ==
  /\ ~ended
  /\ \E m \in Line \ Range(logged[t]) : logged' = [logged EXCEPT ![t] = Append(@, m)]
  /\ UNCHANGED <<disk, crashing, ended>>

\* The oldest line that is not in the file yet.
Write(t) ==
  /\ ~ended /\ ~crashing /\ Len(disk[t]) < Len(logged[t])
  /\ disk' = [disk EXCEPT ![t] = Append(@, logged[t][Len(@) + 1])]
  /\ UNCHANGED <<logged, crashing, ended>>

FatalSignal ==
  /\ ~ended /\ ~crashing /\ crashing' = TRUE
  /\ UNCHANGED <<logged, disk, ended>>

\* Any line that is not in the file yet.
WriteLate(t) ==
  /\ ~ended /\ crashing
  /\ \E m \in Range(logged[t]) \ Range(disk[t]) : disk' = [disk EXCEPT ![t] = Append(@, m)]
  /\ UNCHANGED <<logged, crashing, ended>>

End ==
  /\ ~ended /\ crashing /\ ended' = TRUE
  /\ UNCHANGED <<logged, disk, crashing>>

LSNext == \/ \E t \in Type : Log(t) \/ Write(t) \/ WriteLate(t)
          \/ FatalSignal \/ End

LSSpec == LSInit /\ [][LSNext]_lsvars
=============================================================================
