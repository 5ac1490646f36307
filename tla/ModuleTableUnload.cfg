CONSTANTS
  NULL = NULL
  Dangling = Dangling
  Names <- Two
  CaseOrder <- Order2
  FoldedOrder <- Order2
  Lib <- Libs2
  Mods = {m1, m2, m3}
  Slots = 2
  Threads = {t1}
  MaxHeld = 2
SPECIFICATION Spec
INVARIANTS UnloadIsLocal
