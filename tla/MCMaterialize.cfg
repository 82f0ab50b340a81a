\* Two processes in a fresh WorkDir, every fault but a failing last sync of
\* initializeNamespace.
CONSTANTS
  Processes = {p1, p2}
  Bundles = {b1, b2}
  StageNames = {s1, s2, s3, s4}
  namespaceRetries = 2
  MaxFaults = 3
  Fresh = TRUE
  NamespaceSyncFails = FALSE
SYMMETRY Symmetric
SPECIFICATION Spec
INVARIANTS
  PublicationIsComplete
  StageBelongsToItsCall
  RecoveryIsComplete
  NamespaceIsKept
PROPERTIES
  PublicationIsKept
