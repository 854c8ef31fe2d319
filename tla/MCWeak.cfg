SPECIFICATION Spec
CONSTANTS
  L = L
  w = w
  m = m
  x = x
  s = s
  Nil = Nil
  DeadKey = DeadKey
  Main = L
  Registry = w
  Globals = w
  Fixed = {L}
  ConstSlots = {}
  StackSlots = {1}
  NBuckets = 1
  GCSWEEPMAX = 1
  Envs = {}
  GCFields = {FALSE}
  Modes <- MCModes
  Obj <- MCObj
  tt <- MCtt
  Bucket <- MCBucket
  ArraySlots <- MCArraySlots
  NodeSlots <- MCNodeSlots
  Metas <- MCMetas
INVARIANTS TypeOK NoDangling LinkedOnce
