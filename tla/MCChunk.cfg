SPECIFICATION Spec
CONSTANTS
  L = L
  G = G
  p = p
  f = f
  c = c
  s = s
  m = m
  u1 = u1
  Nil = Nil
  DeadKey = DeadKey
  Main = L
  Registry = G
  Globals = G
  Fixed = {L}
  ConstSlots = {1}
  StackSlots = {1, 2}
  NBuckets = 2
  GCSWEEPMAX = 1
  Envs = {G}
  GCFields = {TRUE, FALSE}
  Modes = {{}}
  Obj <- MCObj
  tt <- MCtt
  Bucket <- MCBucket
  ArraySlots <- MCArraySlots
  NodeSlots <- MCNodeSlots
  Metas <- MCMetas
INVARIANTS NoDangling Tricolor OneWhite
PROPERTIES FinalizedBeforeFreed
CONSTRAINT OneKind
