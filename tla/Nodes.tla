-------------------------------- MODULE Nodes --------------------------------
(***************************************************************************)
(* What asks an open model: an application (Inference), a data node        *)
(* (DataNodes) or a routing node (Routing) of an ADK workflow. One         *)
(* prediction of the model is followed.                                    *)
(***************************************************************************)
EXTENDS Routing, DataNodes

CONSTANT Served  \* the calibrations of the models whose predictions are followed

(* What parseCalibrationConfig gives: a temperature for each qtype, and    *)
(* for some buckets, all of them clamped.                                  *)
ASSUME ServedAssumption ==
  \A c \in Served :
    /\ c.byQType \in [1..3 -> TemperatureMin..TemperatureMax]
    /\ \A bucket \in DOMAIN c.byOptions : c.byOptions[bucket] \in TemperatureMin..TemperatureMax

nodesVars == <<inferenceVars, routingVars, dataVars>>

NodesInit == InferenceInit /\ RoutingInit /\ DataNodesInit

Unused == node = "none" /\ dataNode = "none"

(* An application that calls Predict itself, or Choice, Score or Noul,     *)
(* which call it with one question.                                        *)
PredictAlone ==
  /\ Unused
  /\ \E n \in 0..MaxQuestions : \E questions \in [1..n -> Questions] : Predict(questions)
  /\ UNCHANGED <<routingVars, dataVars>>

RunEngine(calibration) ==
  /\ node # "failed" /\ dataNode # "failed"
  /\ RunSession \/ FormatPrediction(calibration)
  /\ UNCHANGED <<routingVars, dataVars>>

(* A workflow has a routing node or a data node.                           *)
RunWorkflow ==
  \/ dataNode = "none" /\ RoutingNext /\ UNCHANGED dataVars
  \/ node = "none" /\ DataNodesNext /\ UNCHANGED routingVars

NodesNext(calibration) == PredictAlone \/ RunEngine(calibration) \/ RunWorkflow

(* The behaviours over any model; those of Workflow are among them.        *)
NodesSpec == NodesInit /\ [][\E config \in Served : NodesNext(config)]_nodesVars
=============================================================================
