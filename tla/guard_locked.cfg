SPECIFICATION Spec
CONSTANTS
  Threads = {t1}
  MaxLinks = 1
INVARIANTS NotKilledLocked
CHECK_DEADLOCK FALSE
