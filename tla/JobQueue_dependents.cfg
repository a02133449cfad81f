SPECIFICATION FairSpec
CONSTANTS
  a = a
  b = b
  c = c
  d = d
  t = t
  x = x
  v = v
  w1 = w1
  w2 = w2
  NoJob = NoJob
  NoVideo = NoVideo
  Jobs = {a, b}
  Templates = {}
  Execs = {}
  Workers = {w1}
  Videos = {v}
  Timed = {}
  Aborting = {}
  MaxFaults = 0
  Priority <- MCPriority
  CreatedAt <- MCCreatedAt
  DependsOn <- MCDependsOn
  VideoOf <- MCVideoOf
  CloneOf <- MCCloneOf
PROPERTIES
  DependentsStopWaiting
