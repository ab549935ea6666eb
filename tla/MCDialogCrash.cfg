\* An encoder that crashes.
CONSTANTS
  NTracks = 2
  AudioTracks = {1, 2}
  Selectable = {1, 2}
  Files = {1, 2}
  TargetOf <- OwnFile
  FreeSpace = {1000}
  Faults = {"crash"}
SPECIFICATION DSpec
INVARIANTS
  ClosedWhenIdle
\* A closed dialog is gone.
CHECK_DEADLOCK FALSE
