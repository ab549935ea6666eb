\* Termination, with every fault of the encoder.
CONSTANTS
  NTracks = 3
  AudioTracks = {1, 2, 3}
  Selectable = {1, 2, 3}
  Files = {1, 2, 3}
  TargetOf <- OwnFile
  FreeSpace = {1000}
  Faults = {"crash", "failed_to_start", "no_command", "late_output"}
SPECIFICATION FairSpec
PROPERTIES
  EventuallyConcluded
