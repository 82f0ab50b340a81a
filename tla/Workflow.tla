------------------------------- MODULE Workflow -------------------------------
(***************************************************************************)
(* From a bundle to the nodes of an ADK workflow: a bundle is verified and *)
(* its calibration read (Bundle), and the model then answers an            *)
(* application or a node (Nodes).                                          *)
(***************************************************************************)
EXTENDS Nodes, Bundle

vars == <<nodesVars, bundleVars>>

Init == NodesInit /\ BundleInit

OpenModel == BundleNext /\ UNCHANGED nodesVars

AskModel ==
  /\ bundle = "open" /\ calibration \in Served
  /\ NodesNext(calibration)
  /\ UNCHANGED bundleVars

Next == OpenModel \/ AskModel

Spec == Init /\ [][Next]_vars
-----------------------------------------------------------------------------
(***************************************************************************)
(* Properties.                                                             *)
(***************************************************************************)
Untokenized(text) == text
Py == INSTANCE Reference WITH encode <- Untokenized, OptionMaxLen <- 48, HeadReserve <- 16

(* A configuration as Python reads it: the members of these very names.    *)
Python(config, name) == MembersAt(config, name)[1].value
PythonTemperatures(config) ==
  [i \in 1..3 |-> Scalar(Python(config, "temperature").items[i])]
PythonByOptions(config) ==
  LET buckets == ToSet(Python(config, "temperature_by_options").members)
  IN [b \in {m.name : m \in buckets} |-> Scalar((CHOOSE m \in buckets : m.name = b).value)]

(* What only one of the languages reads: Go, names in another case, null   *)
(* or nothing for an object, and hexadecimal numerals; Python, blanks      *)
(* around a numeral.                                                       *)
ReadByBoth(config) ==
  /\ \A m \in ToSet(config.members) : Lower(m.name) = m.name
  /\ MembersAt(config, "temperature_by_options") # << >>
  /\ Python(config, "temperature_by_options") # Null
ReadByOne(value) == value.type = "string" /\ value.form \in {"padded", "hexadecimal"}

(* The logits are scaled as in the pinned Python: for every kind of        *)
(* question and number of options, the temperature an opened model takes   *)
(* is that of reference.py for the same file, and within its bounds,       *)
(* whatever the file holds where a number should be (parseCalibrationValue,*)
(* selectValue; docs/upstream-parity-v1.md).                               *)
CalibrationMatchesReference ==
  [][bundle = "configured" /\ bundle' = "open" =>
       \A kind \in {"choice", "score", "noul"}, n \in 2..12 :
         LET effective == selectValue(calibration', kind, n)
             raw == Py!select_temperature(kind, n, PythonTemperatures(document),
                                          PythonByOptions(document))
         IN /\ Len(effective) = 1 /\ effective[1] \in Py!TEMP_MIN..Py!TEMP_MAX
            /\ ReadByBoth(document) /\ ~ReadByOne(raw) =>
                 effective[1] = Py!clamp_temperature(raw)]_bundle
=============================================================================
