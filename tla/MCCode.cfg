CONSTANTS
  MAXINDEXRK = 1
  LFIELDS_PER_FLUSH = 2
  StackSize = 40
  Programs <- ProgramsV
  Compiled <- CompiledV
  Meant <- MeantV
  Arguments <- ArgumentsV
SPECIFICATION Spec
INVARIANT CompiledMeansSource
INVARIANT CompilerPassesVerifier
INVARIANT NamesTheCulprit
INVARIANT OpenUpvaluesAreLocals
PROPERTY Terminates
