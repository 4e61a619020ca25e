SPECIFICATION MCSpec
CONSTANTS
  i1 = i1
  i2 = i2
  Repositories = {r1, r2}
  Tags = {latest}
  Identifiers = {i1, i2}
  VolumesOf <- MCVolumesOf
  Archives = {i1}
  Names = {a, b}
  MaxSaves = 3
  MaxCreations = 2
SYMMETRY MCSymmetry
INVARIANTS
  NothingDangles
  CreationIsWhole
