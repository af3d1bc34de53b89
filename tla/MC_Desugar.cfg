CONSTANTS
  RangeTypes <- MCRangeTypes
  UserLabels <- MCUserLabels
  Programs <- MCPrograms
SPECIFICATION Spec
INVARIANT TypeOK BranchTargetsPreserved NormalForm
CHECK_DEADLOCK FALSE
