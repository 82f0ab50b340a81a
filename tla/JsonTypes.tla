------------------------------ MODULE JsonTypes ------------------------------
(***************************************************************************)
(* JSON documents, and the Go types they are decoded into. A type is a     *)
(* leaf, a raw value, a slice of elements, a map of elements, or a struct  *)
(* with its fields.                                                        *)
(***************************************************************************)
EXTENDS Integers, Sequences, FiniteSets, SequencesExt, TLC

CONSTANT Folded    \* names and paths with capitals |-> their lower case

Lower(s) == IF s \in DOMAIN Folded THEN Folded[s] ELSE s

Null == [t |-> "null"]
Leaf(v) == [t |-> "leaf", v |-> v]
Array(items) == [t |-> "array", items |-> items]
Object(members) == [t |-> "object", members |-> members]
Member(name, value) == [name |-> name, value |-> value]

LeafType == [t |-> "leaf"]
RawType == [t |-> "raw"]
Slice(element) == [t |-> "slice", element |-> element]
Map(element) == [t |-> "map", element |-> element]
Struct(fields) == [t |-> "struct", fields |-> fields]

NoneTwice(s) == Cardinality(ToSet(s)) = Len(s)
=============================================================================
