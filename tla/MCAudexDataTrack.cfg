\* A data track that the user interface lets the user select.
CONSTANTS
  NTracks = 3
  AudioTracks = {1, 2}
  Selectable = {1, 2, 3}
  Files = {1, 2, 3}
  TargetOf <- OwnFile
  FreeSpace = {1000}
  Faults = {}
SPECIFICATION Spec
INVARIANTS
  NeverStuck
