------------------------------- MODULE MCModel -------------------------------
(* Small instances of Model for TLC.                                       *)
EXTENDS Model

Symmetric == Permutations(Callers) \union Permutations(Closers)
=============================================================================
