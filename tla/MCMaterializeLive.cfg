\* A WorkDir whose namespace exists; two processes and two faults.
CONSTANTS
  Processes = {p1, p2}
  Bundles = {b1}
  StageNames = {s1, s2, s3}
  namespaceRetries = 2
  MaxFaults = 2
  Fresh = FALSE
  NamespaceSyncFails = FALSE
SPECIFICATION FairSpec
PROPERTIES
  LockIsReleased
  RetryEventuallySucceeds
