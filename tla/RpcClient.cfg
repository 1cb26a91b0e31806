SPECIFICATION Spec
CONSTANTS
  k1 = k1
  k2 = k2
  ca = ca
  cb = cb
  t1 = t1
  t2 = t2
  Callers = {k1, k2}
  Calls = {ca, cb}
  Threads = {t1, t2}
  MaxFd = 2
  Programs <- AllPrograms
  m_timer_fd = 0
  NULL = NULL
INVARIANTS TypeOK OwnSocketOnly OkMeansServed ResumedWhereItWaits
PROPERTIES ImplementsRemoteCall CallReturns
CHECK_DEADLOCK FALSE
