\* Three names, one blob, two changes.
CONSTANTS
  Names = {"manifest.json", "a", "b"}
  ManifestName = "manifest.json"
  Blobs = {b1}
  Contents = {"m1", "m2", "x"}
  Declares <- TwoManifests
  Readers = {r1}
  MaxChanges = 2
SPECIFICATION Spec
CHECK_DEADLOCK FALSE
INVARIANTS
  VerifiedStateExisted
  RootsHaveOneOwner
