-------------------------------- MODULE Logger --------------------------------
(***************************************************************************)
(* The asynchronous log: Logger with its two buffers, and for each type of *)
(* log an AsyncLogger with its queue of batches and its writing thread.    *)
(* Threads append lines to a buffer; the timer of the main reactor calls   *)
(* loopFunc() to move the buffers to the queues; the writers put batches   *)
(* into files.  A fatal signal runs CoredumpHandler() in some thread while *)
(* all the others go on.                                                   *)
(*                                                                         *)
(* Lines are those at or above the configured level.  Rolling of files is  *)
(* left out: a file here is the concatenation of the files of a log type.  *)
(***************************************************************************)
EXTENDS Naturals, Sequences, FiniteSets, Functions

CONSTANTS
  Lines,  \* log lines, each logged at most once
  TypeOf, \* the log type of each: "rpc" or "app"
  Blank   \* the empty strings that init() fills the buffers with

ASSUME LinesAssumption == Blank \notin Lines /\ TypeOf \in [Lines -> {"rpc", "app"}]

Types == {"rpc", "app"}
Flushers == {"timer", "crash"}  \* who may be inside loopFunc()

VARIABLES
  buffer,   \* m_buffer, m_app_buffer
  m_tasks,  \* queue of batches of each AsyncLogger
  m_stop,   \* its stop flag, set without m_mutex
  wpc, wtmp, wstop,  \* its thread: place, what is left of its batch, is_stop
  file,     \* lines written to the file; fflush() follows each batch
  fpc, ftmp,\* each caller of loopFunc(): place and swapped-out buffers
  dead,     \* the process has ended
  accepted, \* history: lines in the order in which their buffer took them
  before    \* history: lines accepted when the fatal signal came

vars == <<buffer, m_tasks, m_stop, wpc, wtmp, wstop, file, fpc, ftmp, dead, accepted, before>>
writer == <<wpc, wtmp, wstop, file>>
history == <<accepted, before>>

Content == Lines \cup {Blank}
Fpcs == {"idle", "swapRpc", "pushRpc", "signalRpc", "pushApp", "signalApp",
         "stopRpc", "signalStopRpc", "stopApp", "signalStopApp", "joinRpc", "joinApp"}

TypeOK ==
  /\ buffer \in [Types -> Seq(Content)] /\ m_tasks \in [Types -> Seq(Seq(Content))]
  /\ m_stop \in [Types -> BOOLEAN]
  /\ wpc \in [Types -> {"lock", "towait", "waiting", "write", "done"}]
  /\ wtmp \in [Types -> Seq(Content)] /\ wstop \in [Types -> BOOLEAN]
  /\ file \in [Types -> Seq(Lines)]
  /\ fpc \in [Flushers -> Fpcs] /\ ftmp \in [Flushers -> [Types -> Seq(Content)]]
  /\ dead \in BOOLEAN /\ accepted \in [Types -> Seq(Lines)] /\ before \in SUBSET Lines

Init ==
  /\ buffer = [t \in Types |-> <<Blank>>]
  /\ m_tasks = [t \in Types |-> <<>>] /\ m_stop = [t \in Types |-> FALSE]
  /\ wpc = [t \in Types |-> "lock"] /\ wtmp = [t \in Types |-> <<>>]
  /\ wstop = [t \in Types |-> FALSE] /\ file = [t \in Types |-> <<>>]
  /\ fpc = [f \in Flushers |-> "idle"]
  /\ ftmp = [f \in Flushers |-> [t \in Types |-> <<>>]]
  /\ dead = FALSE /\ accepted = [t \in Types |-> <<>>] /\ before = {}

-----------------------------------------------------------------------------
\* pushRpcLog() and pushAppLog().
pushLog(m) ==
  /\ ~dead /\ m \notin Range(accepted[TypeOf[m]])
  /\ buffer' = [buffer EXCEPT ![TypeOf[m]] = Append(@, m)]
  /\ accepted' = [accepted EXCEPT ![TypeOf[m]] = Append(@, m)]
  /\ UNCHANGED <<m_tasks, m_stop, writer, fpc, ftmp, dead, before>>

\* loopFunc(): swap the app buffer, swap the rpc buffer, push both.
loopFunc(f, from) ==
  /\ ~dead /\ fpc[f] = from
  /\ ftmp' = [ftmp EXCEPT ![f]["app"] = buffer["app"]]
  /\ buffer' = [buffer EXCEPT !["app"] = <<>>]
  /\ fpc' = [fpc EXCEPT ![f] = "swapRpc"]

TimerLoopFunc ==
  /\ loopFunc("timer", "idle")
  /\ UNCHANGED <<m_tasks, m_stop, writer, dead, history>>

\* Mutant: the rpc buffer is copied and not emptied.
SwapRpc_Copy(f) ==
  /\ ~dead /\ fpc[f] = "swapRpc"
  /\ ftmp' = [ftmp EXCEPT ![f]["rpc"] = buffer["rpc"]]
  /\ fpc' = [fpc EXCEPT ![f] = "pushRpc"]
  /\ UNCHANGED <<buffer, m_tasks, m_stop, writer, dead, history>>

SwapRpc(f) ==
  /\ ~dead /\ fpc[f] = "swapRpc"
  /\ ftmp' = [ftmp EXCEPT ![f]["rpc"] = buffer["rpc"]]
  /\ buffer' = [buffer EXCEPT !["rpc"] = <<>>]
  /\ fpc' = [fpc EXCEPT ![f] = "pushRpc"]
  /\ UNCHANGED <<m_tasks, m_stop, writer, dead, history>>

PushPc == [rpc |-> "pushRpc", app |-> "pushApp"]
SignalPc == [rpc |-> "signalRpc", app |-> "signalApp"]
AfterPush(f, t) ==
  IF t = "rpc" THEN "pushApp" ELSE IF f = "timer" THEN "idle" ELSE "stopRpc"

\* The writer holds m_mutex between its test and pthread_cond_wait().
MutexFree(t) == wpc[t] # "towait"

\* AsyncLogger::push(): an empty buffer is not queued ...
push(f, t) ==
  /\ ~dead /\ fpc[f] = PushPc[t]
  /\ IF ftmp[f][t] = <<>>
       THEN fpc' = [fpc EXCEPT ![f] = AfterPush(f, t)] /\ UNCHANGED <<m_tasks, ftmp>>
       ELSE /\ MutexFree(t)
            /\ m_tasks' = [m_tasks EXCEPT ![t] = Append(@, ftmp[f][t])]
            /\ ftmp' = [ftmp EXCEPT ![f][t] = <<>>]
            /\ fpc' = [fpc EXCEPT ![f] = SignalPc[t]]
  /\ UNCHANGED <<buffer, m_stop, writer, dead, history>>

\* A signal is lost unless the writer is already waiting.
Signal(t) == wpc' = IF wpc[t] = "waiting" THEN [wpc EXCEPT ![t] = "lock"] ELSE wpc

\* Mutant: push() does not signal the writer.
PushSignal_None(f, t) ==
  /\ ~dead /\ fpc[f] = SignalPc[t]
  /\ fpc' = [fpc EXCEPT ![f] = AfterPush(f, t)]
  /\ UNCHANGED <<buffer, m_tasks, m_stop, writer, ftmp, dead, history>>

\* ... and the signal follows after m_mutex is released.
PushSignal(f, t) ==
  /\ ~dead /\ fpc[f] = SignalPc[t]
  /\ Signal(t)
  /\ fpc' = [fpc EXCEPT ![f] = AfterPush(f, t)]
  /\ UNCHANGED <<buffer, m_tasks, m_stop, wtmp, wstop, file, ftmp, dead, history>>

-----------------------------------------------------------------------------
(* AsyncLogger::excute(), the writer of log type t.                        *)

\* Mutant: batches are taken from the back of the queue.
TakeBatch_Back(t) ==
  /\ m_tasks[t] # <<>>
  /\ wtmp' = [wtmp EXCEPT ![t] = m_tasks[t][Len(m_tasks[t])]]
  /\ m_tasks' = [m_tasks EXCEPT ![t] = SubSeq(@, 1, Len(@) - 1)]
  /\ UNCHANGED dead

\* front() and pop(); on an empty queue (woken by stop()) both are undefined:
\* the batch looks empty, or the process dies of it.
TakeBatch(t) ==
  IF m_tasks[t] # <<>>
    THEN /\ wtmp' = [wtmp EXCEPT ![t] = Head(m_tasks[t])]
         /\ m_tasks' = [m_tasks EXCEPT ![t] = Tail(@)]
         /\ UNCHANGED dead
    ELSE /\ dead' \in BOOLEAN
         /\ wtmp' = [wtmp EXCEPT ![t] = <<>>]
         /\ UNCHANGED m_tasks

WriterTest(t) ==
  /\ ~dead /\ wpc[t] = "lock"
  /\ IF m_tasks[t] = <<>> /\ ~m_stop[t]
       THEN wpc' = [wpc EXCEPT ![t] = "towait"] /\ UNCHANGED <<m_tasks, wtmp, wstop, dead>>
       ELSE /\ TakeBatch(t)
            /\ wstop' = [wstop EXCEPT ![t] = m_stop[t]]
            /\ wpc' = [wpc EXCEPT ![t] = "write"]
  /\ UNCHANGED <<buffer, m_stop, file, fpc, ftmp, history>>

\* pthread_cond_wait() releases m_mutex and sleeps.
WriterWait(t) ==
  /\ ~dead /\ wpc[t] = "towait"
  /\ wpc' = [wpc EXCEPT ![t] = "waiting"]
  /\ UNCHANGED <<buffer, m_tasks, m_stop, wtmp, wstop, file, fpc, ftmp, dead, history>>

\* Mutant: the empty strings are written too.
WriterWrite_Blank(t) ==
  /\ ~dead /\ wpc[t] = "write" /\ wtmp[t] # <<>>
  /\ file' = [file EXCEPT ![t] = Append(@, Head(wtmp[t]))]
  /\ wtmp' = [wtmp EXCEPT ![t] = Tail(@)]
  /\ UNCHANGED <<buffer, m_tasks, m_stop, wpc, wstop, fpc, ftmp, dead, history>>

\* fwrite() for the next line of the batch, if it is not empty.
WriterWrite(t) ==
  /\ ~dead /\ wpc[t] = "write" /\ wtmp[t] # <<>>
  /\ file' = IF Head(wtmp[t]) = Blank THEN file ELSE [file EXCEPT ![t] = Append(@, Head(wtmp[t]))]
  /\ wtmp' = [wtmp EXCEPT ![t] = Tail(@)]
  /\ UNCHANGED <<buffer, m_tasks, m_stop, wpc, wstop, fpc, ftmp, dead, history>>

\* fflush(), and leave if is_stop was set.
WriterFlush(t) ==
  /\ ~dead /\ wpc[t] = "write" /\ wtmp[t] = <<>>
  /\ wpc' = [wpc EXCEPT ![t] = IF wstop[t] THEN "done" ELSE "lock"]
  /\ UNCHANGED <<buffer, m_tasks, m_stop, wtmp, wstop, file, fpc, ftmp, dead, history>>

-----------------------------------------------------------------------------
(* CoredumpHandler(): loopFunc(), stop() for both writers, join both, then *)
(* die of the signal.                                                      *)

FatalSignal ==
  /\ loopFunc("crash", "idle")
  /\ before' = Range(accepted["rpc"]) \cup Range(accepted["app"])
  /\ UNCHANGED <<m_tasks, m_stop, writer, dead, accepted>>

StopPc == [rpc |-> "stopRpc", app |-> "stopApp"]
SignalStopPc == [rpc |-> "signalStopRpc", app |-> "signalStopApp"]

stop(t) ==
  /\ ~dead /\ fpc["crash"] = StopPc[t]
  /\ m_stop' = [m_stop EXCEPT ![t] = TRUE]
  /\ fpc' = [fpc EXCEPT !["crash"] = SignalStopPc[t]]
  /\ UNCHANGED <<buffer, m_tasks, writer, ftmp, dead, history>>

StopSignal(t) ==
  /\ ~dead /\ fpc["crash"] = SignalStopPc[t]
  /\ Signal(t)
  /\ fpc' = [fpc EXCEPT !["crash"] = IF t = "rpc" THEN "stopApp" ELSE "joinRpc"]
  /\ UNCHANGED <<buffer, m_tasks, m_stop, wtmp, wstop, file, ftmp, dead, history>>

JoinRpc ==
  /\ ~dead /\ fpc["crash"] = "joinRpc" /\ wpc["rpc"] = "done"
  /\ fpc' = [fpc EXCEPT !["crash"] = "joinApp"]
  /\ UNCHANGED <<buffer, m_tasks, m_stop, writer, ftmp, dead, history>>

JoinAppAndDie ==
  /\ ~dead /\ fpc["crash"] = "joinApp" /\ wpc["app"] = "done"
  /\ dead' = TRUE
  /\ UNCHANGED <<buffer, m_tasks, m_stop, writer, fpc, ftmp, history>>

-----------------------------------------------------------------------------
FlusherStep(f) == SwapRpc(f) \/ \E t \in Types : push(f, t) \/ PushSignal(f, t)
WriterStep(t) == WriterTest(t) \/ WriterWait(t) \/ WriterWrite(t) \/ WriterFlush(t)
CrashStep == \/ \E t \in Types : stop(t) \/ StopSignal(t)
             \/ JoinRpc \/ JoinAppAndDie

Next ==
  \/ \E m \in Lines : pushLog(m)
  \/ TimerLoopFunc \/ FatalSignal \/ CrashStep
  \/ \E f \in Flushers : FlusherStep(f)
  \/ \E t \in Types : WriterStep(t)

\* The timer keeps calling loopFunc(), and threads that can run do.
Fairness ==
  /\ WF_vars(TimerLoopFunc) /\ WF_vars(CrashStep)
  /\ \A f \in Flushers : WF_vars(FlusherStep(f))
  /\ \A t \in Types : WF_vars(WriterStep(t))

Spec == Init /\ [][Next]_vars /\ Fairness

-----------------------------------------------------------------------------
Crashing == fpc["crash"] # "idle"

\* While no fatal signal is being handled, the file of a log type holds the
\* lines of that type in the order in which they were logged, with no gap and
\* no repetition, whichever threads logged them and however the swap, the queue
\* and the writer interleave.
FileInOrder ==
  ~Crashing => \A t \in Types :
    file[t] = SubSeq(accepted[t], 1, Len(file[t])) /\ Len(file[t]) <= Len(accepted[t])

\* Even while the fatal signal is handled, by a second loopFunc() beside that
\* of the timer, no line is on disk twice or on its way there twice.
Copies(t, m) ==
  LET at(s) == Cardinality({i \in DOMAIN s : s[i] = m})
      queued == UNION {{<<i, j>> : j \in {k \in DOMAIN m_tasks[t][i] : m_tasks[t][i][k] = m}} :
                         i \in DOMAIN m_tasks[t]}
  IN  at(buffer[t]) + at(ftmp["timer"][t]) + at(ftmp["crash"][t]) + Cardinality(queued)
        + at(wtmp[t]) + at(file[t])

OneCopy ==
  \A m \in Lines :
    Copies(TypeOf[m], m) = IF m \in Range(accepted[TypeOf[m]]) THEN 1 ELSE 0

\* Through two buffers, two queues of batches and two writing threads, a log
\* type is one stream: each line that is written is the oldest one not yet
\* written, and while a fatal signal is handled it is at least one that was
\* logged and is not on disk; the process ends only of the signal.
LS == INSTANCE LogStream WITH
        Type <- Types, Line <- Lines,
        logged <- accepted, disk <- file, crashing <- Crashing, ended <- dead

ImplementsLogStream == LS!LSSpec

\* A logged line reaches the disk, flushed, unless a fatal signal comes.
LineReachesDisk ==
  \A m \in Lines :
    m \in Range(accepted[TypeOf[m]])
      ~> ((m \in Range(file[TypeOf[m]]) /\ wpc[TypeOf[m]] # "write") \/ Crashing \/ dead)

\* README.md: log information is synchronized to disk before the program
\* crashes and exits.  When CoredumpHandler() has joined both writers and lets
\* the process die, what was logged before the signal is on disk.
CrashLosesNothing ==
  dead /\ (\A t \in Types : wpc[t] = "done") => before \subseteq Range(file["rpc"]) \cup Range(file["app"])
=============================================================================
