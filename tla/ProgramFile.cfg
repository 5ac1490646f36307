CONSTANTS
  NULL = NULL
  Sources <- AllSources
  Scripts <- MadeScripts
  Builds <- AllBuilds
  MaxRegs = 2
  MaxConsts = 2
  Unescape <- Escapes
SPECIFICATION Spec
INVARIANTS TypeOK StoredIfReported MachineAsAssembled
PROPERTY ImplementsStore
