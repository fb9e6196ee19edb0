SPECIFICATION FairSpec
CONSTANTS
  c1 = c1
  c2 = c2
  move = move
  stop = stop
  Callers = {c1, c2}
  Dispatchers = {d1, d2}
  Functions = {move, stop}
  Target <- OwnFunctions
  Silent = {move, stop}
  Mortal = {}
  Faulty = {}
  Capacity = 1
  MAX_EPOLL_EVENTS = 2
  MaxCalls = 1
  Control = Control
  None = None
INVARIANTS RunOnce OnlyLastBatch
PROPERTIES AtMostOnce RequestsRun DeleteReturns
CHECK_DEADLOCK FALSE
