SPECIFICATION Spec
CONSTANTS
  r1 = r1
  r2 = r2
  a1 = a1
  Lines = {r1, r2}
  TypeOf <- MCTypeOf
  Blank = Blank
INVARIANTS TypeOK OneCopy
PROPERTIES ImplementsLogStream LineReachesDisk
CHECK_DEADLOCK FALSE
