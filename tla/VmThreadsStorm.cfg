CONSTANTS
  NULL = NULL
  MainObj = m
  Objs = {m, o1, o2, o3}
  Natives = {n1, n2, n3, n4}
  MaxThreads = 3
  MaxRegs = 1
  Garbage = {0, 1}
  FaultStatus = 1
  Code <- StormCode
SPECIFICATION Spec
SYMMETRY Symmetry
INVARIANTS OneNativePerObject RunningThreadsRegistered
