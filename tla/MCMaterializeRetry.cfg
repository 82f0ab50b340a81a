\* A fresh WorkDir and one fault.
CONSTANTS
  Processes = {p1}
  Bundles = {b1}
  StageNames = {s1, s2}
  namespaceRetries = 3
  MaxFaults = 1
  Fresh = TRUE
  NamespaceSyncFails = FALSE
SPECIFICATION FairSpec
PROPERTIES
  RetryEventuallySucceeds
