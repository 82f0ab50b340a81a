------------------------------- MODULE Answers -------------------------------
(***************************************************************************)
(* From the probabilities of the rows of a batch to results, and the       *)
(* checks of questions and results around it (postprocess.go, result.go,   *)
(* question.go, and the validate functions of model.go).                   *)
(*                                                                         *)
(* Probabilities are counted: 1 is Whole steps before rounding and One     *)
(* steps after it, One standing for the 10,000 of roundFour. Softmax and   *)
(* entropy are not computed: a row is any distribution, with any           *)
(* confidence. An empty identifier or label is "".                         *)
(***************************************************************************)
EXTENDS Integers, Sequences, FiniteSetsExt, SequencesExt

CONSTANTS One,    \* steps of a rounded probability
          Unit    \* steps before rounding in one step after it

ASSUME StepsAssumption == One \in Nat \ {0} /\ Unit \in Nat \ {0} /\ Unit % 2 = 0

Whole == One * Unit

(* Questions: the kind, the identifier, the options (criteria, levels, or  *)
(* false and true), and whether instructions and descriptions are given.   *)
NoulOptions == <<"false", "true">>

AnyQuestion ==
  {q \in [kind : {"choice", "score", "noul"}, id : STRING, options : Seq(STRING),
          complete : BOOLEAN] : q.kind = "noul" => q.options = NoulOptions}

Distinct(s) == Cardinality(ToSet(s)) = Len(s)

validateQuestion(q) ==
  /\ q.id # "" /\ q.complete
  /\ q.kind # "noul" => Len(q.options) >= 2 /\ "" \notin ToSet(q.options) /\ Distinct(q.options)

validateQuestions(qs) ==
  /\ qs # << >>
  /\ \A i \in DOMAIN qs : validateQuestion(qs[i])
  /\ Distinct([i \in DOMAIN qs |-> qs[i].id])
-----------------------------------------------------------------------------
(***************************************************************************)
(* deriveOutputRow and resultFromDerivation.                               *)
(***************************************************************************)

(* Distributions over n options.                                           *)
Distributions(n) ==
  {p \in [1..n -> 0..Whole] : MapThenSumSet(LAMBDA i : p[i], 1..n) = Whole}

roundFour_Up(v) == v \div Unit + 1

(* math.Round: halves go up.                                               *)
roundFour(v) == (v + Unit \div 2) \div Unit

maximumIndex_Last(p) ==
  CHOOSE i \in DOMAIN p : \A j \in DOMAIN p : p[j] <= p[i] /\ (p[j] = p[i] => j <= i)

(* The first of the greatest.                                              *)
maximumIndex(p) ==
  CHOOSE i \in DOMAIN p : \A j \in DOMAIN p : p[j] <= p[i] /\ (p[j] = p[i] => i <= j)

expectedScore(p) == MapThenSumSet(LAMBDA i : (i - 1) * p[i], DOMAIN p)

(* The three kinds of results in one record, with the fields of the others *)
(* empty; level and label of a score are its place and its option.         *)
resultFromDerivation(q, row) ==
  [kind |-> q.kind,
   id |-> q.id,
   selected |-> IF q.kind = "choice" THEN q.options[maximumIndex(row.p)] ELSE "",
   expected |-> IF q.kind = "score" THEN roundFour(expectedScore(row.p)) ELSE 0,
   options |-> IF q.kind = "noul" THEN << >> ELSE q.options,
   probabilities |-> IF q.kind = "noul" THEN <<roundFour(row.p[2])>>
                     ELSE [i \in DOMAIN q.options |-> roundFour(row.p[i])],
   confidence |-> IF q.kind = "noul" THEN 0 ELSE roundFour(row.confidence),
   action |-> roundFour(row.action)]
-----------------------------------------------------------------------------
(***************************************************************************)
(* The validate methods of the results, Prediction.validate and            *)
(* validatePredictionForQuestions.                                         *)
(***************************************************************************)
validateProbability(v) == v \in 0..One

validateResult(r) ==
  /\ r.id # ""
  /\ \A i \in DOMAIN r.probabilities : validateProbability(r.probabilities[i])
  /\ validateProbability(r.confidence) /\ validateProbability(r.action)
  /\ r.kind # "noul" => r.options # << >> /\ "" \notin ToSet(r.options)
  /\ r.kind = "choice" => Distinct(r.options) /\ r.selected \in ToSet(r.options)
  /\ r.kind = "score" => r.expected \in 0..(One * (Len(r.options) - 1))

validatePrediction(results) ==
  /\ results # << >>
  /\ \A i \in DOMAIN results : validateResult(results[i])
  /\ Distinct([i \in DOMAIN results |-> results[i].id])

validateResultForQuestion(r, q) ==
  r.kind = q.kind /\ (q.kind # "noul" => r.options = q.options)

validatePredictionForQuestions(results, qs) ==
  /\ validatePrediction(results)
  /\ Len(results) = Len(qs)
  /\ \A i \in DOMAIN qs :
       results[i].id = qs[i].id /\ validateResultForQuestion(results[i], qs[i])
=============================================================================
