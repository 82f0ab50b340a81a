---------------------------- MODULE MCMaterialize ----------------------------
(* Small instances of Materialize for TLC.                                 *)
EXTENDS Materialize, TLC

Symmetric == Permutations(Processes) \union Permutations(Bundles)
               \union Permutations(StageNames)
=============================================================================
