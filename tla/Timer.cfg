SPECIFICATION Spec
CONSTANTS
  log = log
  wheel = wheel
  s1 = s1
  s2 = s2
  Ev = {log, wheel, s1, s2}
  Repeated = {log, wheel}
  Interval <- MCInterval
  MaxTime = 4
INVARIANTS TypeOK NeverEarly DeletedStaysQuiet NoEventLost ArmedWhilePending
PROPERTY ImplementsAlarms
CHECK_DEADLOCK FALSE
