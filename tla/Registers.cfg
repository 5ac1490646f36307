CONSTANTS
  NULL = NULL
  M = M
  S = S
  t1 = t1
  t2 = t2
  Threads = {t1, t2}
  Regs = {M, S}
  MutexReg = M
  MaxObjs = 6
  Programs <- AllPrograms
SPECIFICATION Spec
INVARIANTS TypeOK OneOwner LockedMeansApart
PROPERTY EveryThreadEnds
CHECK_DEADLOCK FALSE
