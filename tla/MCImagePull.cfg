SPECIFICATION Spec
CONSTANTS
  i1 = i1
  i2 = i2
  i3 = i3
  l1 = l1
  l2 = l2
  Images = {i1, i2, i3}
  Layers = {l1, l2}
  LayersOf <- MCLayersOf
  SizeOf <- MCSizeOf
  NoImage = noImage
  MaxPulls = 3
INVARIANTS
  SavedIsWhole
  
  OneAtATime
  LookupsSucceed
CHECK_DEADLOCK FALSE
