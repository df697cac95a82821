SPECIFICATION Spec
CONSTANTS
  k1 = k1
  k2 = k2
  k3 = k3
  a = a
  c1 = c1
  c2 = c2
  Callers = {c1}
  Service = Service
  Keys = {k1, k2, k3}
  NoKey = NoKey
  Hash <- MCHash
  Sources = {a}
  Values <- MCValues
  StartSize = 2
  Overhead = 1
  MaxCapacity = 8
  UIntMod = 8
  MaxOps = 5
  MaxService = 3
  Clears = TRUE
  MaxBusy = 0
  Serial = TRUE
CHECK_DEADLOCK FALSE
INVARIANTS
  TypeOK
  Placement
  CountCoversOccupied
  NextNamesColision
  FoundAfterAdd
PROPERTY
  KeepsMap
