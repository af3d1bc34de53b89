\* The serde generator over every pair of underlying types for A and B.
CONSTANTS
  NameB = "B"
  NamedIds <- MCNamedIds
  PkgOf <- MCPkgOf
  UnderChoices <- MCUnderChoices
  Defs <- MCDefs
  Requests <- MCRequests
SPECIFICATION Spec
\* generate runs once and the command exits.
CHECK_DEADLOCK FALSE
INVARIANTS
  TypeOK
  PanicsOnlyOnUnsupported
  EveryReachableSerialized
  CallsMatchArgument
