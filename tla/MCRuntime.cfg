\* Two Runtimes over one environment; two usable libraries and one of the
\* wrong version. No symmetry, for the liveness property.
CONSTANTS
  Keys = {lib1, lib2, old}
  WrongVersion = {old}
  Runtimes = {r1, r2}
  Openers = {g1, g2}
  Closers = {k1, k2}
SPECIFICATION FairSpec
INVARIANTS
  SessionsHaveEnvironment
  LeasesAreCounted
  NoModelInStoppedRuntime
  PendingCleanupHasOwner
  CleanupIsExclusive
PROPERTIES
  CloseReturns
