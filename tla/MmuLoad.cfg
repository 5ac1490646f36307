CONSTANTS
  NULL = NULL
  Root = root
  Segs = {root, s1, s2, s3, s4, s5}
  Threads = {}
  Width = 2
  Space = 16
  Programs <- ManySegments
  Sizes <- SmallSizes
  Uses <- TwoUses
  Vals = {a}
SPECIFICATION Spec
INVARIANTS TypeOK SpreadProgramLoads BoundsNest
