CONSTANTS
  NULL = NULL
  Root = root
  Segs = {root, s1, s2, s3}
  Threads = {t1, t2}
  Width = 2
  Space = 16
  Programs <- OneSegment
  Sizes <- SmallSizes
  Uses <- TwoUses
  Vals = {a, b}
SYMMETRY Alike
SPECIFICATION Spec
INVARIANTS LoadReturnsLastStore
