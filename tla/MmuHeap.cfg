CONSTANTS
  NULL = NULL
  Root = root
  Segs = {root, s1, s2, s3, s4}
  Threads = {t1, t2}
  Width = 3
  Space = 16
  Programs <- OneSegment
  Sizes <- SmallSizes
  Uses <- OneUse
  Vals = {a, b}
SYMMETRY Alike
SPECIFICATION Spec
INVARIANTS NoUseAfterFree AllFreed
