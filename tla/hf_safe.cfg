SPECIFICATION FairSpec
CONSTANTS
  c1 = c1
  c2 = c2
  move = move
  stop = stop
  Callers = {c1}
  Dispatchers = {d1}
  Functions = {move}
  Target <- OneFunction
  Silent = {}
  Mortal = {c1, d1}
  Faulty = {d1}
  Capacity = 1
  MAX_EPOLL_EVENTS = 3
  MaxCalls = 4
  Control = Control
  None = None
INVARIANTS TypeOK ResponseDrift ExecutedInOrder StuckOnlyWhenFull OnlyLastBatch
PROPERTIES AtMostOnce ResponsesInOrder CallReturns ResponseComes DeleteReturns
CHECK_DEADLOCK FALSE
