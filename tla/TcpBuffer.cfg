SPECIFICATION Spec
CONSTANTS
  InitSize = 4
  MaxBytes = 35
  Messages <- ConstMessages
  Requests <- ConstRequests
  IntBytes = 2
  Junk = {0, 2, 3, 200}
INVARIANTS TypeOK Storage DecodersInStep
CHECK_DEADLOCK FALSE
