CONSTANTS
  T1 = T1  T2 = T2  F1 = F1  F2 = F2  NilFn = NilFn
  Types <- MCTypes
  Callbacks <- MCCallbacks
  Nil = NilFn
SPECIFICATION Spec
INVARIANT RegisterRejectsMissingCallback
