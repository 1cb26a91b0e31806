SPECIFICATION Spec
CONSTANTS
  c1 = c1
  c2 = c2
  f1 = f1
  f2 = f2
  f3 = f3
  Cors = {c1, c2}
  Fds = {f1, f2, f3}
  NReactors = 2
  Programs <- AllPrograms
  m_timer_fd = m_timer_fd
  NULL = NULL
INVARIANTS TypeOK ResumedOnlyWhenSuspended WokenForCause NotForgotten
PROPERTIES HandedOverRuns ReadyEventuallyResumed
CHECK_DEADLOCK FALSE
