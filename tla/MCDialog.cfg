\* Two tracks, every answer of the user at every moment.
CONSTANTS
  NTracks = 2
  AudioTracks = {1, 2}
  Selectable = {1, 2}
  Files = {1, 2}
  TargetOf <- OwnFile
  FreeSpace = {1000}
  Faults = {}
SPECIFICATION DFairSpec
INVARIANTS
  ClosedWhenIdle
  CloseButtonStays
  ButtonComesBack
PROPERTIES
  CancelConcludes
\* A closed dialog is gone.
CHECK_DEADLOCK FALSE
