SPECIFICATION ConfigSpec
CONSTANTS
  f = f
  g = g
  one = one
  two = two
  raw = raw
  bad = bad
  Fields = {f, g}
  Values = {one, two, raw, bad}
  Invalid = {bad}
  Coerce <- MCCoerce
  Default = one
  MaxFailures = 1
  MaxSnapshots = 2
  MaxObjects = 4
SYMMETRY Symmetry
INVARIANTS
  ConfigInv
  UnsavedIsScheduled
