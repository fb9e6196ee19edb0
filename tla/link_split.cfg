SPECIFICATION Spec
CONSTANTS
  Procs = {p1, p2, p3}
  Objects = {o1, o2, o3, o4}
  Faulty = {p1, p2, p3}
  Mortal = {}
  NoObject = NoObject
INVARIANTS OneObject
