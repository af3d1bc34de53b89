CONSTANTS
  Funcs <- MCFuncs
  Body <- MCBody
  Entry <- MCExprEntry
  Zero <- MCZero
  SendValues <- MCSendValues

SPECIFICATION Spec

INVARIANT NoPanicUnlessStopped
