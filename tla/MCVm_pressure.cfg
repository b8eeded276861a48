SPECIFICATION Spec
CONSTANTS
  MAXARG = 3
  FIELDS = 2
  MAXSTACK = 250
  LUAI_MAXCCALLS = 200
  MAXVARS = 16
  MaxLocals = 16
  STACKSIZE = 48
  MAXSTEPS = 250
  Programs <- PressurePrograms
  Stressed <- PressureIds
  Compile <- LoadText
  Means <- Meaning
  ChunkArgs <- MCArgs
INVARIANT MeansWhatItSays
