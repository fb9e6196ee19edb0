SPECIFICATION PyFairSpec
CONSTANTS
  c1 = c1
  c2 = c2
  d1 = d1
  move = move
  stop = stop
  Callers = {c1, c2}
  Dispatchers = {d1}
  Functions = {move, stop}
  Target <- OwnFunctions
  Home <- TwoInterpreters
  Silent = {}
  Mortal = {}
  Faulty = {d1}
  Capacity = 1
  MAX_EPOLL_EVENTS = 3
  MaxCalls = 2
  Control = Control
  None = None
INVARIANTS ResponseDrift
PROPERTIES PyResponseComes DeleteEndsOrDeadlocks
CHECK_DEADLOCK FALSE
