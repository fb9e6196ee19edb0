SPECIFICATION FairSpec
CONSTANTS
  Procs = {p1, p2, p3}
  Objects = {o1, o2, o3, o4}
  Faulty = {p1}
  Mortal = {p2}
  NoObject = NoObject
INVARIANTS TypeOK ReadyBeforeUse SplitOnlyByFailure
PROPERTIES InitializedOnce LinkReturns
