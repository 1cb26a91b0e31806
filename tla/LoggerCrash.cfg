SPECIFICATION Spec
CONSTANTS
  r1 = r1
  r2 = r2
  a1 = a1
  Lines = {r1, r2, a1}
  TypeOf <- MCTypeOf
  Blank = Blank
INVARIANT CrashLosesNothing
CHECK_DEADLOCK FALSE
