SPECIFICATION Spec
CONSTANTS
  Containers = {c1}
  Objects = {o1, o2}
  Sessions = {s1}
  None = none
  Foreign = foreign
  Threads = 1
  MaxLayers = 2
  MaxWaits = 1
  MaxCrashes = 0
INVARIANTS
  RefusedOnlyWhenRunning
