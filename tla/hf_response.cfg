SPECIFICATION Spec
CONSTANTS
  c1 = c1
  c2 = c2
  move = move
  stop = stop
  Callers = {c1, c2}
  Dispatchers = {d1}
  Functions = {move, stop}
  Target <- SameFunction
  Silent = {stop}
  Mortal = {}
  Faulty = {}
  Capacity = 1
  MAX_EPOLL_EVENTS = 3
  MaxCalls = 1
  Control = Control
  None = None
INVARIANTS ResponseMatches
CHECK_DEADLOCK FALSE
