\* The whole compile, with writes that may fail, checked for its
\* results.
CONSTANTS
  P1 = P1
  P2 = P2
  Pkgs <- MCPkgs
  FilesOf <- MCFilesOf
  DeclChoices <- MCDeclChoices
  LocChoices <- MCLocChoices
  IOFaults = TRUE
  ImportChoices <- MCImportChoices
  CoroutinePath <- MCCoroutinePath
SPECIFICATION Spec
\* The compiler stops after done, nothing, error or panic.
CHECK_DEADLOCK FALSE
INVARIANT TypeOK
INVARIANT ImportsResolve
INVARIANT DoneCompilesColored
