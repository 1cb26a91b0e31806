SPECIFICATION Spec
CONSTANTS
  c1 = c1
  c2 = c2
  c3 = c3
  t1 = t1
  t2 = t2
  Cors = {c1, c2, c3}
  Threads = {t1, t2}
  NoCor = NoCor
  MaxRounds = 2
INVARIANTS TypeOK OnePlace
PROPERTY PoppedEnters
CHECK_DEADLOCK FALSE
