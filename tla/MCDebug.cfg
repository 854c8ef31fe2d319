SPECIFICATION DebugSpec
CONSTANTS
  L = L
  G = G
  c1 = c1
  c2 = c2
  u1 = u1
  u2 = u2
  Nil = Nil
  DeadKey = DeadKey
  Main = L
  Registry = G
  Globals = G
  Fixed = {L}
  ConstSlots = {}
  StackSlots = {1, 2}
  NBuckets = 1
  GCSWEEPMAX = 1
  Envs = {}
  GCFields = {FALSE}
  Modes = {{}}
  Obj <- MCObj
  tt <- MCtt
  Bucket <- MCBucket
  ArraySlots <- MCArraySlots
  NodeSlots <- MCNodeSlots
  Metas <- MCMetas
INVARIANTS Tricolor
