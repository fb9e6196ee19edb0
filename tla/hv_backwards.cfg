SPECIFICATION Spec
CONSTANTS
  Writers = {w1, w2}
  Readers = {}
  Words = {lo}
  SHM_BUFFER_CNT = 3
  LOCK_MAX = 3
  MaxTime = 3
  Mortal = {}
  Zero = Zero
  None = None
PROPERTIES TargetAdvances
CHECK_DEADLOCK FALSE
