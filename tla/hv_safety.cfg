SPECIFICATION Spec
CONSTANTS
  Writers = {w1, w2}
  Readers = {r1}
  Words = {lo, hi}
  SHM_BUFFER_CNT = 3
  LOCK_MAX = 3
  MaxTime = 2
  Mortal = {}
  Zero = Zero
  None = None
SYMMETRY Symmetry
INVARIANTS TypeOK LockAccounting WholePayloads NeverRefused
PROPERTIES AtomicValue PackedWord
CHECK_DEADLOCK FALSE
