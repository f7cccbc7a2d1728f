SPECIFICATION Spec
CONSTANTS
  Keys = {k1, k2, k3}
  NONE = NONE
  small = small
  big = big
  c512 = c512
  c1024 = c1024
  Values <- MCValues
  Classes <- MCClasses
  SectorClasses <- MCSectorClasses
  ClassOf <- MCClassOf
  SkipBroken <- MCSkipBroken
  MaxSlots = 3
  MaxVersion = 4
SYMMETRY Symmetry
INVARIANTS Inv
PROPERTIES VacuumReclaims ImplementsPartitionStore
