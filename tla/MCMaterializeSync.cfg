\* The last sync of initializeNamespace may fail.
CONSTANTS
  Processes = {p1, p2}
  Bundles = {b1}
  StageNames = {s1, s2}
  namespaceRetries = 3
  MaxFaults = 1
  Fresh = TRUE
  NamespaceSyncFails = TRUE
SYMMETRY Symmetric
SPECIFICATION Spec
PROPERTIES
  PublicationIsKept
