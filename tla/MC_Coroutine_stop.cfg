CONSTANTS
  Funcs <- MCFuncs
  Body <- MCBody
  Entry <- MCEntry
  Zero <- MCZero
  SendValues <- MCSendValues

SPECIFICATION Spec

PROPERTY StopTearsDown
