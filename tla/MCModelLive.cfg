\* Liveness and refinement, without symmetry: no timer, so a queued caller
\* leaves only when it is served or its context ends.
CONSTANTS
  Callers = {c1, c2, c3}
  Closers = {k1, k2}
  QueueCapacity = 2
  MaxQueueWait = 0
SPECIFICATION FairSpec
PROPERTIES
  NoAdmissionAfterClose
  QueuedCallLeaves
  CloseReturns
  ImplementsAdmission
