SPECIFICATION Spec
CONSTANTS
  log = log
  wheel = wheel
  s1 = s1
  s2 = s2
  Ev = {log, wheel}
  Repeated = {log, wheel}
  Interval <- MCInterval
  MaxTime = 5
INVARIANT OnSchedule
CHECK_DEADLOCK FALSE
