SPECIFICATION Spec
CONSTANTS
  v1 = v1
  v2 = v2
  Callers = {c1, c2}
  Videos = {v1, v2}
  Tags = {t1, t2}
  Statuses = {"discovered", "archived"}
  Beginnings <- MCBeginnings
  Services = {"videos", "named", "tags", "bulk", "decades"}
  MaxTagId = 3
  MaxCalls = 2
  MaxFaults = 1
SYMMETRY Symmetry
CHECK_DEADLOCK FALSE
INVARIANTS
  Inv
  WholeWhenQuiet
