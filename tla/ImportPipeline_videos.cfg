SPECIFICATION FairSpec
CONSTANTS
  v = v
  v1 = v1
  v2 = v2
  NoPlace = NoPlace
  Videos = {v}
  Names = {v1, v2}
  Titles <- MCTitles
  FirstTitles <- MCFirstTitles
  Offered = {"add", "pipeline"}
  Workers = 2
  MaxRequests = 2
  MaxEvents = 1
CHECK_DEADLOCK FALSE
INVARIANTS
  Inv
  OrganizedRowHasFile
PROPERTIES
  LibraryKeepsVideos
  ImportSettles
