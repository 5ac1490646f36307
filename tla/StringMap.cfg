CONSTANTS
  NULL = NULL
  Dangling = Dangling
  Keys <- Mixed
  CaseOrder <- Case
  FoldedOrder <- Fold
  v = v
  w = w
  Vals = {v, w}
  Threads = {t1, t2}
  Owners <- AllOwners
SYMMETRY ThreadsAlike
SPECIFICATION Spec
INVARIANTS TypeOK InsertedIsFound NoFreedNodeRead
PROPERTIES ImplementsDictionary
