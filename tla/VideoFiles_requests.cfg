SPECIFICATION Spec
CONSTANTS
  v = v
  w = w
  x = x
  y = y
  av = av
  aw = aw
  ax = ax
  ay = ay
  bv = bv
  bw = bw
  bxy = bxy
  c1 = c1
  c2 = c2
  c3 = c3
  NoVideo = NoVideo
  Videos = {v, w, x, y}
  Names = {av, aw, ax, ay, bv, bw, bxy}
  Inbox <- MCInbox
  Target <- MCTarget
  Clients = {c1, c2, c3}
  MaxDepth = 2
  Scenes <- MCScenes
SYMMETRY Symmetry
CHECK_DEADLOCK FALSE
INVARIANTS
  Inv
  RowFindsFile
PROPERTIES
  FilesOutliveMoves
