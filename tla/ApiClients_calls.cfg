SPECIFICATION ClientSpec
CONSTANTS
  t1 = t1
  t2 = t2
  t3 = t3
  Tasks = {t1, t2, t3}
  Apis = {"discogs", "spotify", "musicbrainz"}
  Burst = 2
  Cost = 2
  Rates = {0, 1, 2}
  FirstRate = 1
  MaxConcurrent <- MCMaxConcurrent
  MaxAttempts = 2
  Backoffs = {1}
  Life = 2
  Margin = 1
  MaxRestarts = 1
INVARIANTS
  ClientInv
PROPERTIES
  GrantsWithinRate
  SlotsInTurn
  TokensFlow
