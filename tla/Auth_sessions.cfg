SPECIFICATION Spec
CONSTANTS
  c1 = c1
  c2 = c2
  ip = ip
  Clients = {c1, c2}
  Addresses = {ip}
  Address <- OneAddress
  Passwords = {p1, p2}
  FirstPassword = p1
  Subjects = {sub1, sub2}
  Menus <- MCMenus
  MaxAttempts = 2
  Window = 2
  NegativeTtl = 1
  Life = 2
  RefreshLife = 2
  StateTtl = 1
  CacheSize = 2
  MaxTokens = 2
  MaxStates = 2
CHECK_DEADLOCK FALSE
INVARIANTS
  Inv
  GuessesBounded
  RevocationTakesHold
PROPERTIES
  BlockedIsLetIn
