SPECIFICATION FairSpec
CONSTANTS
  a = a
  b = b
  c = c
  d = d
  t = t
  x = x
  v = v
  w1 = w1
  w2 = w2
  NoJob = NoJob
  NoVideo = NoVideo
  Jobs = {a, t, x}
  Templates = {t}
  Execs = {x}
  Workers = {w1, w2}
  Videos = {v}
  Timed = {}
  Aborting = {a}
  MaxFaults = 1
  Priority <- MCPriority
  CreatedAt <- MCCreatedAt
  DependsOn <- MCDependsOn
  VideoOf <- MCVideoOf
  CloneOf <- MCCloneOf
INVARIANTS
  TemplatesNeverRun
PROPERTIES
  QueuedJobsFinish
