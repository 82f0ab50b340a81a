\* Safety with contention at a queue of two and with two concurrent Closes.
CONSTANTS
  Callers = {c1, c2, c3, c4}
  Closers = {k1, k2}
  QueueCapacity = 2
  MaxQueueWait = 1
SYMMETRY Symmetric
SPECIFICATION Spec
INVARIANTS
  TypeOK
  AdmissionIsExact
  IdleExactlyWhenDrained
  CleanupIsShared
  OwnedUntilReleased
CHECK_DEADLOCK TRUE
