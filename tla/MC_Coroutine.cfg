CONSTANTS
  Funcs <- MCFuncs
  Body <- MCBody
  Entry <- MCEntry
  Zero <- MCZero
  SendValues <- MCSendValues

SPECIFICATION Spec

INVARIANT TypeOK
INVARIANT ExactlyOnce
INVARIANT SuspendedStackResumable

PROPERTY EpilogueBalance
PROPERTY RefinesDurableRun
