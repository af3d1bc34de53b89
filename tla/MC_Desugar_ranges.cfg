CONSTANTS
  RangeTypes <- MCRangeTypesNamed
  UserLabels <- MCUserLabels
  Programs <- MCPrograms
SPECIFICATION Spec
INVARIANT RangeLowering
CHECK_DEADLOCK FALSE
