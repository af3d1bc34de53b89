\* A compile that rejects a construct or panics on an import conflict part
\* way, with reliable writes.
CONSTANTS
  P1 = P1
  P2 = P2
  Pkgs <- MCPkgs
  FilesOf <- MCFilesOf
  DeclChoices <- MCDeclChoicesLits
  LocChoices <- MCLocChoices
  IOFaults = FALSE
  ImportChoices <- MCImportChoicesBlank
  CoroutinePath <- MCCoroutinePath
SPECIFICATION Spec
\* The compiler stops after done, nothing, error or panic.
CHECK_DEADLOCK FALSE
INVARIANT DurableBuildComplete
