SPECIFICATION Spec
CONSTANTS
  t1 = t1
  t2 = t2
  a = a
  b = b
  f1 = f1
  Threads = {t1, t2}
  Tasks = {a, b}
  Fds = {f1}
  TaskVectors <- BothTasks
  Events <- ReadEvents
  MAX_EVENTS = 1
  MaxArrivals = 1
  NoTask = NoTask
  m_wake_fd = m_wake_fd
INVARIANTS TypeOK NoLostWakeup LastDelWins
PROPERTIES ImplementsTaskQueue TaskEventuallyRuns StopEndsLoop
CHECK_DEADLOCK FALSE
