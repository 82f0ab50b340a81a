--------------------------------- MODULE Json ---------------------------------
(***************************************************************************)
(* JSON documents and how Go reads them into a struct: the checks for      *)
(* repeated and misspelled fields (internal/bundle/parse.go, calibration.go*)
(* has its own copy of the first) and what encoding/json then decodes.     *)
(* Nothing is proved about this module, whose operators are recursive.     *)
(***************************************************************************)
EXTENDS JsonTypes

Names(object) == [i \in DOMAIN object.members |-> object.members[i].name]

uniqueNames(value) == value.t = "object" => NoneTwice(Names(value))

(* consumeJSONValue: no object, at any depth, has a name twice.            *)
RECURSIVE consumeJSONValue(_)
consumeJSONValue(value) ==
  /\ uniqueNames(value)
  /\ value.t = "object" => \A m \in ToSet(value.members) : consumeJSONValue(m.value)
  /\ value.t = "array" => \A item \in ToSet(value.items) : consumeJSONValue(item)

rejectDuplicateFields_TopLevel(document) == uniqueNames(document)

rejectDuplicateFields(document) == consumeJSONValue(document)

(* A null is let through, wherever it stands; a struct has its fields, all *)
(* and only those, in their exact spelling.                                *)
RECURSIVE validateExactFields(_, _)
validateExactFields(value, type) ==
  \/ value = Null
  \/ type.t \in {"leaf", "raw", "map"}
  \/ /\ type.t = "struct" /\ value.t = "object"
     /\ ToSet(Names(value)) = DOMAIN type.fields
     /\ \A m \in ToSet(value.members) : validateExactFields(m.value, type.fields[m.name])
  \/ /\ type.t = "slice" /\ value.t = "array"
     /\ \A item \in ToSet(value.items) : validateExactFields(item, type.element)
-----------------------------------------------------------------------------
(***************************************************************************)
(* encoding/json, with DisallowUnknownFields: names match whatever their   *)
(* case, null leaves what is there (and empties a slice), a later member   *)
(* replaces an earlier one, and maps and structs are merged.               *)
(***************************************************************************)
Fits(name, type) == {f \in DOMAIN type.fields : Lower(f) = Lower(name)}
FieldOf(name, type) == CHOOSE f \in Fits(name, type) : TRUE

RECURSIVE Decodes(_, _)
Decodes(value, type) ==
  \/ value = Null \/ type.t = "raw"
  \/ type.t = "leaf" /\ value.t = "leaf"
  \/ /\ type.t = "slice" /\ value.t = "array"
     /\ \A item \in ToSet(value.items) : Decodes(item, type.element)
  \/ /\ type.t = "map" /\ value.t = "object"
     /\ \A m \in ToSet(value.members) : Decodes(m.value, type.element)
  \/ /\ type.t = "struct" /\ value.t = "object"
     /\ \A m \in ToSet(value.members) :
          Fits(m.name, type) # {} /\ Decodes(m.value, type.fields[FieldOf(m.name, type)])

RECURSIVE Zero(_)
Zero(type) ==
  CASE type.t = "leaf" -> ""
    [] type.t = "raw" -> Null
    [] type.t \in {"slice", "map"} -> << >>
    [] type.t = "struct" -> [f \in DOMAIN type.fields |-> Zero(type.fields[f])]

RECURSIVE Decode(_, _, _)
Decode(value, type, into) ==
  CASE type.t = "raw" -> value
    [] type.t = "slice" ->
         IF value = Null THEN << >>
         ELSE [i \in DOMAIN value.items |-> Decode(value.items[i], type.element, Zero(type.element))]
    [] value = Null -> into
    [] type.t = "leaf" -> value.v
    [] type.t = "map" ->
         FoldLeft(LAMBDA map, m : (m.name :> Decode(m.value, type.element, Zero(type.element))) @@ map,
                  into, value.members)
    [] type.t = "struct" ->
         FoldLeft(LAMBDA struct, m :
                    LET f == FieldOf(m.name, type)
                    IN [struct EXCEPT ![f] = Decode(m.value, type.fields[f], struct[f])],
                  into, value.members)

(* json.Unmarshal into a variable of the type.                             *)
Unmarshal(value, type) == Decode(value, type, Zero(type))
=============================================================================
