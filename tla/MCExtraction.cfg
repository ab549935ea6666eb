\* Two rips of a disc of two short tracks, its table of contents shifted.
CONSTANTS
  NTracks = 2
  Toc <- ShortDisc
  SampleOffset = 600
  Modes = {0, 3}
  Free = 7
  Chunk = 2
  MaxRips = 2
SPECIFICATION FairSpec
INVARIANTS
  TypeOK
  WaveIsTheTrack
  ProgressAddsUp
PROPERTIES
  EventuallyOver
\* The user stops ripping.
CHECK_DEADLOCK FALSE
