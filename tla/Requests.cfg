\* Two calls, which may be under way at the same time, or one before and one after a restart.
SPECIFICATION Spec
CONSTANTS
  Calls = {c1, c2}
  None = None
  MaxMishaps = 2
INVARIANTS TypeOK
PROPERTIES ImplementsCall
CHECK_DEADLOCK FALSE
