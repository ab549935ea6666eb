\* Two drives, two discs, one of which may be there at the start.
CONSTANTS
  A = A
  B = B
  None = None
  Drives = {d1, d2}
  Discs = {A, B}
  TracksOf <- TwoTracksOf
  AudioOf <- TwoAudioOf
  MusicBrainz = {TRUE, FALSE}
  EarlyRemovals = FALSE
  MaxArrivals = 1
SPECIFICATION MCSpec
INVARIANTS
  TypeOK
  OpenDiscIsPresent
  
  PendingHasOneOwner
PROPERTIES
  LookupEnds
  DiscIsOpened
\* Discs may stay where they are.
CHECK_DEADLOCK FALSE
