SPECIFICATION RefusedSpec
CONSTANTS
  L = L
  G = G
  A = A
  B = B
  C = C
  Coroutines = {A, B, C}
  c = c
  u1 = u1
  Nil = Nil
  DeadKey = DeadKey
  Main = L
  Registry = G
  Globals = G
  Fixed = {L}
  ConstSlots = {}
  StackSlots = {1}
  NBuckets = 1
  GCSWEEPMAX = 1
  Envs = {}
  GCFields = {FALSE}
  Modes = {{}}
  Obj <- MCObj
  tt <- MCtt
  Bucket <- MCBucket
  ArraySlots <- MCArraySlots
  NodeSlots <- MCNodeSlots
  Metas <- MCMetas
INVARIANTS NoDangling
