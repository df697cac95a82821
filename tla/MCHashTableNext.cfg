SPECIFICATION Spec
CONSTANTS
  k1 = k1
  k2 = k2
  k3 = k3
  a = a
  c1 = c1
  c2 = c2
  Callers = {c1, c2}
  Service = Service
  Keys = {k1, k2}
  NoKey = NoKey
  Hash <- MCHash
  Sources = {a}
  Values <- MCOneValue
  StartSize = 2
  Overhead = 1
  MaxCapacity = 16
  UIntMod = 8
  MaxOps = 3
  MaxService = 1
  Clears = FALSE
  MaxBusy = 1
  Serial = FALSE
CHECK_DEADLOCK FALSE
INVARIANT
  NextNamesColision
