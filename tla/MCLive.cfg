SPECIFICATION LiveSpec
CONSTANTS
  L = L
  G = G
  u1 = u1
  t = t
  Nil = Nil
  DeadKey = DeadKey
  Main = L
  Registry = G
  Globals = G
  Fixed = {L}
  ConstSlots = {}
  StackSlots = {1}
  NBuckets = 1
  GCSWEEPMAX = 1
  Envs = {G}
  GCFields = {TRUE}
  Modes = {{}}
  Obj <- MCObj
  tt <- MCtt
  Bucket <- MCBucket
  ArraySlots <- MCArraySlots
  NodeSlots <- MCNodeSlots
  Metas <- MCMetas
PROPERTIES GarbageIsFreed FinalizersRun
