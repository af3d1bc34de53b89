\* The serde generator over every pair of underlying types for A and a
\* second type named gen1, the name newGenLocation gives its second
\* generated location.
CONSTANTS
  NameB = "gen1"
  NamedIds <- MCNamedIds
  PkgOf <- MCPkgOf
  UnderChoices <- MCUnderChoices
  Defs <- MCDefs
  Requests <- MCRequests
SPECIFICATION Spec
\* generate runs once and the command exits.
CHECK_DEADLOCK FALSE
INVARIANTS
  CallsWellTyped
