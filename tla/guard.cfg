SPECIFICATION Spec
CONSTANTS
  Threads = {t1, t2, t3}
  MaxLinks = 3
SYMMETRY Symmetry
INVARIANTS TypeOK GuardLoweredByOther DeafOnlyAfterFailure OwnHandlerDecides
CHECK_DEADLOCK FALSE
