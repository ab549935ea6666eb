\* Three audio tracks, every selection, both modes, any set of existing files.
CONSTANTS
  NTracks = 3
  AudioTracks = {1, 2, 3}
  Selectable = {1, 2, 3}
  Files = {1, 2, 3}
  TargetOf <- OwnFile
  FreeSpace = {1000}
  Faults = {}
SPECIFICATION Spec
INVARIANTS
  TypeOK
  ConcludedIdleOnce
  NeverStuck
  StopReachesAll
  SuccessIsTrue
  StoppedLeavesNoPartial
  EncodedIsKept
PROPERTIES
  ExistingFilesKept
  SourceOutlivesItsUsers
  ImplementsRipJob
