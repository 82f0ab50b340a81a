------------------------------ MODULE DataNodes ------------------------------
(***************************************************************************)
(* The data nodes of the ADK adapter (adklaya/data.go): a node is made of  *)
(* questions, for one question of its kind or for a slice of them, and     *)
(* each run of it asks them of a projected State and turns the results     *)
(* into its output. The application keeps its slice and may write to it.   *)
(***************************************************************************)
EXTENDS Inference

CONSTANT NodeConfigs  \* [type, name, projector, model, questions]

(* A node of one kind takes one question of that kind.                     *)
ASSUME NodeConfigsAssumption ==
  \A c \in NodeConfigs :
    /\ c.questions \in Seq(AnyQuestion)
    /\ c.type # "prediction" => Len(c.questions) = 1 /\ c.questions[1].kind = c.type

VARIABLES slice,    \* the application's slice of questions
          given,    \* what it held when the node was made
          kept,     \* the questions the node captured
          nodeType, \* choice, score, noul, or prediction
          dataNode, \* none, invalidConfig, ready, running, done, failed
          output    \* what the last run gave

dataVars == <<slice, given, kept, nodeType, dataNode, output>>

validateNodeOptions(c) == c.name \notin {"", "user"}

DataNodesInit ==
  /\ slice = << >> /\ given = << >> /\ kept = << >> /\ nodeType = "none"
  /\ dataNode = "none" /\ output = << >>

(* NewChoiceNode, NewScoreNode, NewNoulNode, NewPredictionNode. The        *)
(* questions themselves are checked by Predict, at each run.               *)
NewDataNode ==
  /\ dataNode = "none" /\ status = "idle"
  /\ \E c \in NodeConfigs :
       /\ slice' = c.questions /\ given' = c.questions
       /\ nodeType' = c.type
       /\ IF c.model /\ c.projector /\ validateNodeOptions(c) /\ c.questions # << >>
          THEN dataNode' = "ready" /\ kept' = c.questions
          ELSE dataNode' = "invalidConfig" /\ kept' = kept
  /\ UNCHANGED <<output, inferenceVars>>

(* The application writes another question into its slice.                 *)
WriteSlice ==
  /\ dataNode \in {"ready", "running"} /\ nodeType = "prediction"
  /\ slice = given
  /\ \E i \in DOMAIN slice, q \in Questions : slice' = [slice EXCEPT ![i] = q]
  /\ UNCHANGED <<given, kept, nodeType, dataNode, output, inferenceVars>>

nodeQuestions_Shared == slice

(* append([]laya.Question(nil), questions...): not the slice.              *)
nodeQuestions == kept

(* A run of the node, to its call of Predict: the context has not ended    *)
(* and the projector gave a State.                                         *)
RunDataNode ==
  /\ dataNode = "ready"
  /\ Predict(nodeQuestions)
  /\ dataNode' = "running"
  /\ UNCHANGED <<slice, given, kept, nodeType, output>>

(* An ended context, before, between or after, a failing projector, an     *)
(* error of Predict: no output.                                            *)
DataNodeFails ==
  /\ dataNode \in {"ready", "running"}
  /\ dataNode' = "failed"
  /\ UNCHANGED <<slice, given, kept, nodeType, output, inferenceVars>>

(* An answer under the pointer of its kind, the other two being nil.       *)
resultOutput(r) ==
  LET pointer(kind) == IF r.kind = kind THEN <<r>> ELSE << >>
  IN [kind |-> r.kind, id |-> r.id, choice |-> pointer("choice"),
      score |-> pointer("score"), noul |-> pointer("noul")]

(* A node of one kind asserts that its result is of that kind.             *)
DataNodeOutputs ==
  /\ dataNode = "running" /\ status = "answered"
  /\ IF nodeType \in {"prediction", results[1].kind}
     THEN /\ dataNode' = "done"
          /\ output' = [i \in DOMAIN results |-> resultOutput(results[i])]
     ELSE dataNode' = "failed" /\ output' = output
  /\ UNCHANGED <<slice, given, kept, nodeType, inferenceVars>>

DataNodesNext == NewDataNode \/ WriteSlice \/ RunDataNode \/ DataNodeFails \/ DataNodeOutputs
-----------------------------------------------------------------------------
(* "Mutable input slices are copied": a run answers the questions the node *)
(* was made of, all of them and in their order, whatever the application   *)
(* has done with its slice since; and each output holds one answer, of the *)
(* question's kind and over its options (newPredictionNode, resultOutput). *)
NodeAnswersItsQuestions ==
  dataNode = "done" =>
    /\ Len(output) = Len(given)
    /\ \A i \in DOMAIN given :
         LET answers == output[i].choice \o output[i].score \o output[i].noul IN
         /\ output[i].id = given[i].id /\ output[i].kind = given[i].kind
         /\ Len(answers) = 1
         /\ answers[1].kind = given[i].kind
         /\ given[i].kind # "noul" => answers[1].options = given[i].options
=============================================================================
