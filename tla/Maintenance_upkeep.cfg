SPECIFICATION Spec
CONSTANTS
  NULL = NULL
  rock = rock
  hardrock = hardrock
  onstage = onstage
  star = star
  home = home
  k1 = k1
  k2 = k2
  nightly = nightly
  weekly = weekly
  b1 = b1
  b2 = b2
  r1 = r1
  r2 = r2
  Like <- MCLike
  Match <- MCMatch
  Callers = {r1, r2}
  Videos = {1, 2}
  Contents <- MCContents
  FirstRows <- MCFirstRows
  Requests <- MCRequests
  Batch = 1
  Ttl = 1
  MaxSize = 1
  MaxEdits = 1
  MaxCalls = 2
  MaxSaved = 2
  MaxClock = 2
  Scripts <- MCScripts
  Backups = {b1, b2}
  Workers = 2
  Retentions = {1}
  MaxFaults = 1
  Mixed = FALSE
SYMMETRY Symmetry
CHECK_DEADLOCK FALSE
INVARIANTS
  Inv
  ServedIsRecent
  QuietExportIsFresh
  SchemaIsComplete
PROPERTIES
  GoodArchiveStays
