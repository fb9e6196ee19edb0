SPECIFICATION FairSpec
CONSTANTS
  Writers = {w1}
  Readers = {r1, r2}
  Words = {lo}
  SHM_BUFFER_CNT = 4
  LOCK_MAX = 2
  MaxTime = 2
  Mortal = {w1, r1}
  Zero = Zero
  None = None
INVARIANTS NeverRefused
PROPERTIES TargetAdvances DiscardJustified LockFree
CHECK_DEADLOCK FALSE
