SPECIFICATION Spec
CONSTANTS
  a = a
  b = b
  c = c
  d = d
  t = t
  x = x
  v = v
  w1 = w1
  w2 = w2
  NoJob = NoJob
  NoVideo = NoVideo
  Jobs = {a, b, d}
  Templates = {}
  Execs = {}
  Workers = {w1, w2}
  Videos = {v}
  Timed = {a, d}
  Aborting = {a, d}
  MaxFaults = 0
  Priority <- MCPriority
  CreatedAt <- MCCreatedAt
  DependsOn <- MCDependsOn
  VideoOf <- MCVideoOf
  CloneOf <- MCCloneOf
SYMMETRY Symmetry
INVARIANTS
  Inv
  DependenciesFirst
  RowsTellTruth
PROPERTIES
  EndsOnce
  ImplementsLifecycle
