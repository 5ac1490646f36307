CONSTANTS
  NULL = NULL
  Dangling = Dangling
  Names <- Lower
  CaseOrder <- Order
  FoldedOrder <- Order
  Lib <- Libs3
  Mods = {m1, m2, m3}
  Slots = 2
  Threads = {t1, t2}
  MaxHeld = 2
SPECIFICATION Spec
SYMMETRY Symmetry
INVARIANTS TypeOK TablesAgree NoUseAfterFree HeldIsCallable AllClosed
CONSTRAINTS UnloadsApart FewLoads
