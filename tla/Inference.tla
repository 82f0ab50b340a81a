------------------------------ MODULE Inference ------------------------------
(***************************************************************************)
(* One Model.Predict on the native engine, after its batch is prepared:    *)
(* the checks of the questions, the outputs of the session, the results    *)
(* and the checks of those (model.go, postprocess.go). One prediction is   *)
(* followed; Routing and DataNodes ask for it from a node of a workflow.   *)
(***************************************************************************)
EXTENDS Answers, Calibration

CONSTANTS Questions,    \* questions of a request, invalid ones too
          MaxQuestions, \* bound: questions of a request
          Signals       \* confidences and action probabilities, before rounding

ASSUME SignalsAssumption == Signals \subseteq 0..Whole /\ MaxQuestions \in Nat
ASSUME QuestionsAssumption == Questions \subseteq AnyQuestion

VARIABLES asked,    \* the questions of the request
          rows,     \* the outputs of the session
          results,  \* Prediction.results
          status    \* idle, asked, answered, invalidRequest, invalidOutput

inferenceVars == <<asked, rows, results, status>>

(* A row of the wrong width, or with a value that is not finite.           *)
BadRow == [p |-> << >>, confidence |-> 0, action |-> 0]

RowsFor(q) ==
  [p : Distributions(Len(q.options)), confidence : Signals, action : Signals] \union {BadRow}

InferenceInit ==
  asked = << >> /\ rows = << >> /\ results = << >> /\ status = "idle"

Predict(questions) ==
  /\ status = "idle"
  /\ asked' = questions
  /\ status' = IF validateQuestions(questions) THEN "asked" ELSE "invalidRequest"
  /\ UNCHANGED <<rows, results>>

(* The session: a row for each question.                                   *)
RunSession ==
  /\ status = "asked" /\ Len(rows) < Len(asked)
  /\ \E row \in RowsFor(asked[Len(rows) + 1]) : rows' = Append(rows, row)
  /\ UNCHANGED <<asked, results, status>>

validateRawOutputs == \A i \in DOMAIN rows : rows[i] # BadRow

(* Every row has a temperature, and one that stableSoftmax accepts.        *)
temperaturesSelected(calibration) ==
  \A i \in DOMAIN asked :
    LET value == selectValue(calibration, asked[i].kind, Len(asked[i].options))
    IN value # << >> /\ value[1] > 0

formatted == [i \in DOMAIN rows |-> resultFromDerivation(asked[i], rows[i])]

(* formatInferencePrediction, NewPrediction, and the check of the Model.   *)
FormatPrediction(calibration) ==
  /\ status = "asked" /\ Len(rows) = Len(asked)
  /\ IF /\ validateRawOutputs /\ temperaturesSelected(calibration)
        /\ validatePredictionForQuestions(formatted, asked)
     THEN results' = formatted /\ status' = "answered"
     ELSE results' = results /\ status' = "invalidOutput"
  /\ UNCHANGED <<asked, rows>>
-----------------------------------------------------------------------------
(***************************************************************************)
(* Properties.                                                             *)
(***************************************************************************)

(* Whatever finite outputs the session gives, the results made of them     *)
(* pass the checks they have to pass: no rounding at 0, at 1 or at the     *)
(* highest level of a score turns a good output into an error.             *)
FiniteOutputsAreAnswered ==
  status = "invalidOutput" => \E i \in DOMAIN rows : rows[i] = BadRow

(* The answer to a choice is the most probable criterion, by the exact     *)
(* probabilities and by the rounded ones the caller sees, and the first    *)
(* among equals; a score's expected level agrees with the distribution the *)
(* caller sees, to the error of its roundings.                             *)
AnswerAgreesWithDistribution ==
  status = "answered" =>
    \A i \in DOMAIN results :
      LET r == results[i]
          p == rows[i].p
          at == {j \in DOMAIN p : asked[i].options[j] = r.selected}
          error == MapThenSumSet(LAMBDA j : j - 1, DOMAIN p) + 1
      IN /\ r.kind = "choice" =>
              \E j \in at : \A k \in DOMAIN p :
                /\ p[k] <= p[j] /\ r.probabilities[k] <= r.probabilities[j]
                /\ k < j => p[k] < p[j]
         /\ r.kind = "score" =>
              2 * (r.expected - expectedScore(r.probabilities)) \in -error..error
=============================================================================
