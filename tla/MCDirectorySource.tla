-------------------------- MODULE MCDirectorySource --------------------------
(* Small instances of DirectorySource for TLC: two manifests, which differ *)
(* in what they declare.                                                   *)
EXTENDS DirectorySource, TLC

TwoManifests ==
  "m1" :> [n \in {"a"} |-> "x"] @@ "m2" :> [n \in {"a", "b"} |-> "x"]
=============================================================================
