------------------------------ MODULE RemoteCall ------------------------------
(***************************************************************************)
(* What a caller of either RPC channel may rely on, with no sockets,       *)
(* threads or timers: a call has one result; what it asks for is executed  *)
(* at most once, perhaps after the call has failed; it succeeds only if it *)
(* was executed and its answer received, and its caller goes on with the   *)
(* result, never before it.  Whether a request can be sent, and answered   *)
(* with success, is said beforehand; for some that cannot, CallMethod()    *)
(* reports no error.                                                       *)
(***************************************************************************)
CONSTANTS Call, \* each call is made once
          OK, Error, \* the results: success, and the errors
          NoResult   \* a call that is not over has none

VARIABLES unsendable, \* calls whose request cannot be serialized or encoded
          unreported, \* ... and those for which no error is reported then
          faulty,     \* calls that the server, or reading its answer, turns down
          begun, executed, answered, \* calls that have come so far
          result,
          returned    \* calls after which, or after the wait() for which, their
                      \* caller has gone on

rcvars == <<unsendable, unreported, faulty, begun, executed, answered, result, returned>>

RCInit ==
  /\ unsendable \subseteq Call /\ unreported \subseteq unsendable /\ faulty \subseteq Call
  /\ begun = {} /\ executed = {} /\ answered = {} /\ returned = {}
  /\ result = [c \in Call |-> NoResult]

Begin(c) ==
  /\ c \notin begun /\ begun' = begun \cup {c}
  /\ UNCHANGED <<unsendable, unreported, faulty, executed, answered, result, returned>>

\* An error before anything is sent.
Refuse(c) ==
  /\ c \notin begun /\ begun' = begun \cup {c}
  /\ \E e \in Error : result' = [result EXCEPT ![c] = e]
  /\ UNCHANGED <<unsendable, unreported, faulty, executed, answered, returned>>

Execute(c) ==
  /\ c \in begun \ unsendable /\ c \notin executed
  /\ executed' = executed \cup {c}
  /\ UNCHANGED <<unsendable, unreported, faulty, begun, answered, result, returned>>

Answer(c) ==
  /\ c \in begun \ answered /\ result[c] = NoResult /\ c \in executed \cup faulty
  /\ answered' = answered \cup {c}
  /\ UNCHANGED <<unsendable, unreported, faulty, begun, executed, result, returned>>

\* The caller may go on at once.
Finish(c) ==
  /\ c \in begun /\ result[c] = NoResult
  /\ \E r \in Error \cup {OK} :
       /\ r = OK => c \in unreported \cup (answered \ faulty)
       /\ result' = [result EXCEPT ![c] = r]
  /\ returned' \in {returned, returned \cup {c}}
  /\ UNCHANGED <<unsendable, unreported, faulty, begun, executed, answered>>

Return(c) ==
  /\ result[c] # NoResult /\ returned' = returned \cup {c}
  /\ UNCHANGED <<unsendable, unreported, faulty, begun, executed, answered, result>>

RCNext == \E c \in Call : \/ Begin(c) \/ Refuse(c) \/ Execute(c)
                          \/ Answer(c) \/ Finish(c) \/ Return(c)

RCSpec == RCInit /\ [][RCNext]_rcvars
=============================================================================
