CONSTANTS
  NULL = NULL
  MainObj = m
  Objs = {m, o1, o2}
  Natives = {n1, n2, n3}
  MaxThreads = 2
  MaxRegs = 1
  Garbage = {0, 1}
  FaultStatus = 1
  Code <- AnyCode
SPECIFICATION Spec
SYMMETRY Symmetry
INVARIANTS TypeOK SlotsNeverDangle OneInstructionAfterVmFault HaltStatusReported FaultStatusReported
