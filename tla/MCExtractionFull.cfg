\* A temporary folder that fills up.
CONSTANTS
  NTracks = 2
  Toc <- ShortDisc
  SampleOffset = 0
  Modes = {3}
  Free = 3
  Chunk = 2
  MaxRips = 1
SPECIFICATION Spec
INVARIANTS
  WaveIsTheTrack
\* The user stops ripping.
CHECK_DEADLOCK FALSE
