\* The writer and reader registers of one program, with saves and loads.
CONSTANTS
  T1 = T1  T2 = T2  F1 = F1  F2 = F2  NilFn = NilFn
  Types <- MCTypes
  Callbacks <- MCCallbacks
  Nil = NilFn
  Program <- MCProgram
  MaxSaves = 2
SPECIFICATION Spec
INVARIANT TypeOK
INVARIANT IdsArePositions
INVARIANT RoundTripPreservesType
