SPECIFICATION FairSpec
CONSTANTS
  j = j
  k = k
  c = c
  NoJob = NoJob
  Jobs = {j, k}
  Connections = {c}
  Order <- MCOrder
  MaxProgress <- MCProgress
CHECK_DEADLOCK FALSE
INVARIANTS
  Inv
  LastProgressSent
  ListedJobsEnd
PROPERTIES
  NothingAfterEnd
  EndIsAnnounced
