CONSTANTS
  Inputs <- AllInputs
  MaxArgs = 7
  CodeSpan = 8192
  Folded <- FoldedTo
  Hex <- HexOf
  Dec <- DecOf
  Typed = {}
  BuiltinOps <- BuiltinTable
  ModOps <- ModTables
  ModSlots = 3
  Capacity = 2
  WordBytes = 2
  Span = 256
  EntryPoint = 16
SPECIFICATION Spec
INVARIANTS TypeOK LayoutExact NamesResolve LoadedWhenCalled LinesAsWritten
PROPERTIES FollowsSource
