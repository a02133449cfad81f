SPECIFICATION FairSpec
CONSTANTS
  song = song
  songs = songs
  remix = remix
  im1 = im1
  yt1 = yt1
  NoId = NoId
  Items <- MCItems
  Stock <- MCStock
  Titles <- MCTitles
  Longer <- MCLonger
  Versions <- MCVersions
  Offers <- MCOffers
  BatchSize = 1
  Workers = 2
  MaxRequests = 2
  MaxEvents = 1
CHECK_DEADLOCK FALSE
INVARIANTS
  Inv
  TwinsFromRaces
  NoneStranded
PROPERTIES
  JobsEnd
