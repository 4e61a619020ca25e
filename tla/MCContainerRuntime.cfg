SPECIFICATION MCSpec
CONSTANTS
  Containers = {c1}
  Objects = {o1, o2}
  Sessions = {s1}
  None = none
  Foreign = foreign
  Threads = 1
  MaxLayers = 3
  MaxWaits = 1
  MaxCrashes = 1
INVARIANTS
  TypeOK
  JailHasKeeper
  NoMountLeftBehind
PROPERTIES
  VolumesOutliveRemoval
  StopLeavesOnlyWatched
  StartIsReported
