CONSTANTS
  NULL = NULL
  MainObj = m
  Objs = {m, o1, o2}
  Natives = {n1, n2, n3}
  MaxThreads = 3
  MaxRegs = 3
  Garbage = {0, 1}
  FaultStatus = NULL
  Code <- JoinCode
SPECIFICATION FairSpec
INVARIANTS NoUndefinedBehaviour JoinedFaultStopsMain
PROPERTIES ProcessEnds VmFaultEndsProcess
