--------------------------- MODULE WorkflowProofs ---------------------------
(***************************************************************************)
(* What the nodes of a workflow guarantee for any questions, branches,     *)
(* targets, policies, steps of rounding and outputs of the session: a data *)
(* node answers the questions it was made of, a routing node leads to one  *)
(* target, and to a branch only if the prediction is certain enough. And   *)
(* what the manifest of a verified bundle declares, for any documents.     *)
(***************************************************************************)
EXTENDS Workflow, DataLemmas

AnyRow == [p : UNION {[1..n -> 0..Whole] : n \in Nat}, confidence : 0..Whole, action : 0..Whole]

Asked == AnyQuestion \union {question(c) : c \in Configs}

(* The rows so far are those of the first questions, and an answer is      *)
(* exactly what formatting makes of them; formatting refuses bad rows only.*)
InferenceOK ==
  /\ asked \in Seq(Asked)
  /\ status = "idle" => rows = << >>
  /\ rows \in Seq(AnyRow)
  /\ \A i \in DOMAIN rows :
       rows[i] = BadRow \/ rows[i].p \in Distributions(Len(asked[i].options))
  /\ status = "asked" => validateQuestions(asked)
  /\ status = "invalidOutput" => ~validateRawOutputs
  /\ status = "answered" =>
       /\ Len(rows) = Len(asked)
       /\ results = formatted
       /\ validateRawOutputs
       /\ validatePredictionForQuestions(results, asked)

(* A routing node that is usable has passed newChoiceRouting; its run asks *)
(* its one question, and takes its route from the answer to that.          *)
RoutingOK ==
  /\ node \in {"ready", "running", "routed"} =>
       cfg \in Configs /\ validateConfig(cfg) /\ edges = newEdges(cfg)
  /\ node \in {"running", "routed"} => asked = <<question(cfg)>> /\ status # "idle"
  /\ node = "routed" => status = "answered" /\ routes = <<acceptedRoute(results[1], cfg)>>

(* A data node keeps what it was given, and asks that.                     *)
DataOK ==
  /\ dataNode \in {"ready", "running", "done"} =>
       kept = given /\ \E c \in NodeConfigs : given = c.questions
  /\ dataNode \in {"running", "done"} => asked = given /\ status # "idle"
  /\ dataNode = "done" =>
       status = "answered" /\ output = [i \in DOMAIN results |-> resultOutput(results[i])]

IInv == InferenceOK /\ RoutingOK /\ DataOK
-----------------------------------------------------------------------------
(***************************************************************************)
(* Questions.                                                              *)
(***************************************************************************)

(* The criteria of a configuration are those of its branches.              *)
LEMMA CriteriaElements ==
  ASSUME NEW c \in Configs
  PROVE  /\ Criteria(c) \in Seq(STRING)
         /\ \A x : x \in ToSet(Criteria(c)) <=>
                     \E i \in DOMAIN c.branches : x \in ToSet(c.branches[i].criteria)
<1>. DEFINE s == [i \in DOMAIN c.branches |-> c.branches[i].criteria]
<1>. DEFINE Branch == [target : DOMAIN NameOf \union {"nil"}, criteria : Seq(STRING)]
<1>0. c.branches \in Seq(Branch)
  BY RoutingAssumption
<1>1. /\ DOMAIN c.branches = 1..Len(c.branches) /\ Len(c.branches) \in Nat
      /\ \A i \in DOMAIN c.branches : c.branches[i].criteria \in Seq(STRING)
  <2>1. \A b \in Branch : b.criteria \in Seq(STRING)
    OBVIOUS
  <2>. HIDE DEF Branch
  <2>. QED BY <1>0, <2>1
<1>2. s \in Seq(Seq(STRING)) /\ Len(s) = Len(c.branches)
  BY <1>1
<1>3. \A i \in DOMAIN c.branches : s[i] = c.branches[i].criteria
  OBVIOUS
<1>4. Criteria(c) = FlattenSeq(s)
  BY DEF Criteria
<1>. HIDE DEF s
<1>5. /\ FlattenSeq(s) \in Seq(STRING)
      /\ \A x : x \in ToSet(FlattenSeq(s)) <=> \E i \in 1..Len(s) : x \in ToSet(s[i])
  BY <1>2, FlattenElements
<1>. QED BY <1>1, <1>2, <1>3, <1>4, <1>5

(* What is asked is a question, whoever asks it.                           *)
LEMMA AskedFacts ==
  ASSUME NEW q \in Asked
  PROVE  /\ q.kind \in {"choice", "score", "noul"} /\ q.options \in Seq(STRING)
         /\ q.kind = "noul" => q.options = NoulOptions
<1>1. CASE q \in AnyQuestion
  BY <1>1 DEF AnyQuestion
<1>2. CASE \E c \in Configs : q = question(c)
  BY <1>2, CriteriaElements DEF question
<1>. QED BY <1>1, <1>2 DEF Asked
-----------------------------------------------------------------------------
(***************************************************************************)
(* Rounding.                                                               *)
(***************************************************************************)

(* Steps before rounding and after it are in the same order.               *)
LEMMA ScaledOrder ==
  ASSUME NEW a \in Int, NEW b \in Int
  PROVE  /\ Unit * a \in Int
         /\ a <= b => Unit * a <= Unit * b
         /\ a < b => Unit * a + Unit <= Unit * b
<1>1. Unit \in Nat \ {0}
  BY StepsAssumption
<1>2. \A x, y \in Int : x <= y => Unit * x <= Unit * y
  BY <1>1
<1>3. Unit * (a + 1) = Unit * a + Unit
  BY <1>1
<1>. QED BY <1>1, <1>2, <1>3

(* roundFour is off by half a step at most, and halves go up.              *)
LEMMA RoundingError ==
  ASSUME NEW v \in Nat
  PROVE  /\ roundFour(v) \in Nat
         /\ 2 * (Unit * roundFour(v)) <= 2 * v + Unit
         /\ 2 * v + Unit < 2 * (Unit * roundFour(v)) + 2 * Unit
<1>. DEFINE half == Unit \div 2
            q == (v + half) \div Unit
<1>1. Unit \in Nat \ {0} /\ half \in Nat /\ 2 * half = Unit
  BY StepsAssumption
<1>2. q \in Nat /\ Unit * q <= v + half /\ v + half < Unit * q + Unit
  <2>. HIDE DEF half
  <2>1. v + half \in Nat
    BY <1>1
  <2>. QED BY <1>1, <2>1, Quotient
<1>3. roundFour(v) = q
  BY DEF roundFour
<1>4. Unit * q \in Int
  BY <1>2, ScaledOrder
<1>. HIDE DEF q, half
<1>. QED BY <1>1, <1>2, <1>3, <1>4

(* Rounding keeps the order, and keeps two values apart that are a whole   *)
(* step apart.                                                             *)
LEMMA RoundingOrder ==
  ASSUME NEW v \in Nat, NEW w \in Nat
  PROVE  /\ w <= v => roundFour(w) <= roundFour(v)
         /\ w + Unit <= v => roundFour(w) < roundFour(v)
<1>. DEFINE rv == roundFour(v)
            rw == roundFour(w)
<1>1. /\ rv \in Nat /\ rw \in Nat
      /\ 2 * (Unit * rv) <= 2 * v + Unit /\ 2 * v + Unit < 2 * (Unit * rv) + 2 * Unit
      /\ 2 * (Unit * rw) <= 2 * w + Unit /\ 2 * w + Unit < 2 * (Unit * rw) + 2 * Unit
  BY RoundingError
<1>2. /\ Unit * rv \in Int /\ Unit * rw \in Int
      /\ rv < rw => Unit * rv + Unit <= Unit * rw
      /\ rv <= rw => Unit * rv <= Unit * rw
  BY <1>1, ScaledOrder
<1>3. Unit \in Nat \ {0}
  BY StepsAssumption
<1>. HIDE DEF rv, rw
<1>4. w <= v => rw <= rv
  BY <1>1, <1>2, <1>3
<1>5. w + Unit <= v => rw < rv
  <2>1. SUFFICES ASSUME w + Unit <= v, rv = rw
                 PROVE  FALSE
    BY <1>1, <1>3, <1>4
  <2>2. Unit * rv = Unit * rw
    BY <2>1
  <2>. QED BY <1>1, <1>2, <1>3, <2>1, <2>2
<1>. QED BY <1>4, <1>5 DEF rv, rw

(* A threshold that the rounded value meets, the exact one meets within    *)
(* half a step; one that the exact value clears by half a step, the        *)
(* rounded one meets.                                                      *)
LEMMA Thresholds ==
  ASSUME NEW v \in Nat, NEW t \in Nat
  PROVE  /\ roundFour(v) >= t => 2 * v + Unit >= 2 * Unit * t
         /\ 2 * v - Unit >= 2 * Unit * t => roundFour(v) >= t
         /\ roundFour(v) <= t => 2 * v - Unit <= 2 * Unit * t
         /\ 2 * v + Unit <= 2 * Unit * t => roundFour(v) <= t
<1>. DEFINE r == roundFour(v)
<1>1. /\ r \in Nat
      /\ 2 * (Unit * r) <= 2 * v + Unit /\ 2 * v + Unit < 2 * (Unit * r) + 2 * Unit
  BY RoundingError
<1>2. /\ Unit * r \in Int /\ Unit * t \in Int
      /\ r <= t => Unit * r <= Unit * t
      /\ t <= r => Unit * t <= Unit * r
      /\ r < t => Unit * r + Unit <= Unit * t
      /\ t < r => Unit * t + Unit <= Unit * r
  BY <1>1, ScaledOrder
<1>3. Unit \in Nat \ {0} /\ 2 * Unit * t = 2 * (Unit * t)
  BY StepsAssumption
<1>. HIDE DEF r
<1>4. /\ r >= t => 2 * v + Unit >= 2 * Unit * t
      /\ 2 * v - Unit >= 2 * Unit * t => r >= t
      /\ r <= t => 2 * v - Unit <= 2 * Unit * t
      /\ 2 * v + Unit <= 2 * Unit * t => r <= t
  BY <1>1, <1>2, <1>3
<1>. QED BY <1>4 DEF r

(* maximumIndex gives the first of the greatest.                           *)
LEMMA BestIndex ==
  ASSUME NEW n \in Nat \ {0}, NEW p \in [1..n -> 0..Whole]
  PROVE  /\ maximumIndex(p) \in 1..n
         /\ \A j \in 1..n :
              p[j] <= p[maximumIndex(p)] /\ (p[j] = p[maximumIndex(p)] => maximumIndex(p) <= j)
<1>1. Whole \in Nat /\ DOMAIN p = 1..n
  BY StepsAssumption DEF Whole
<1>2. \E i \in 1..n : \A j \in 1..n : p[j] <= p[i] /\ (p[j] = p[i] => i <= j)
  BY <1>1, FirstGreatest
<1>. QED BY <1>1, <1>2 DEF maximumIndex
-----------------------------------------------------------------------------
(***************************************************************************)
(* Results.                                                                *)
(***************************************************************************)

(* parseCalibrationValue gives what ServedAssumption says, for any number. *)
LEMMA ClampedTemperature ==
  ASSUME NEW value, value.n \in Int
  PROVE  parseCalibrationValue(value) \in TemperatureMin..TemperatureMax
<1>1. \A t \in Int : clamp(t) \in TemperatureMin..TemperatureMax
  BY DEF clamp, TemperatureMin, TemperatureMax
<1>2. \/ numericTemperature(value) = << >>
      \/ \E t \in Int : numericTemperature(value) = <<t>>
  BY DEF numericTemperature
<1>3. CASE numericTemperature(value) = << >>
  BY <1>1, <1>3 DEF parseCalibrationValue, InvalidTemperature
<1>4. CASE \E t \in Int : numericTemperature(value) = <<t>>
  <2>1. PICK t \in Int : numericTemperature(value) = <<t>>
    BY <1>4
  <2>2. <<t>> # << >> /\ <<t>>[1] = t
    OBVIOUS
  <2>3. parseCalibrationValue(value) = clamp(t)
    BY <2>1, <2>2 DEF parseCalibrationValue
  <2>. QED BY <1>1, <2>3
<1>. QED BY <1>2, <1>3, <1>4

(* Every question finds a temperature above zero.                          *)
LEMMA TemperatureFound ==
  ASSUME asked \in Seq(Asked), NEW config \in Served
  PROVE  temperaturesSelected(config)
<1>1. ASSUME NEW i \in DOMAIN asked
      PROVE  LET value == selectValue(config, asked[i].kind, Len(asked[i].options))
             IN value # << >> /\ value[1] > 0
  <2>. DEFINE kind == asked[i].kind
              n == Len(asked[i].options)
              bucket == temperatureBucket(kind, n)
              value == selectValue(config, kind, n)
  <2>1. asked[i] \in Asked
    OBVIOUS
  <2>2. kind \in {"choice", "score", "noul"}
    BY <2>1, AskedFacts
  <2>3. QType(kind) \in 0..2
    BY <2>2 DEF QType
  <2>4. Len(config.byQType) = 3
    BY ServedAssumption
  <2>5. /\ config.byQType[QType(kind) + 1] \in TemperatureMin..TemperatureMax
        /\ bucket \in DOMAIN config.byOptions =>
             config.byOptions[bucket] \in TemperatureMin..TemperatureMax
    BY <2>3, ServedAssumption
  <2>. HIDE DEF kind, n, bucket
  <2>6. \/ bucket \in DOMAIN config.byOptions /\ value = <<config.byOptions[bucket]>>
        \/ value = <<config.byQType[QType(kind) + 1]>>
    BY <2>3, <2>4 DEF selectValue, bucket
  <2>7. \A t \in TemperatureMin..TemperatureMax : <<t>> # << >> /\ <<t>>[1] > 0
    BY DEF TemperatureMin, TemperatureMax
  <2>8. value # << >> /\ value[1] > 0
    BY <2>5, <2>6, <2>7
  <2>. QED BY <2>8 DEF kind, n
<1>. QED BY <1>1 DEF temperaturesSelected

(* Rounding does not leave the range.                                      *)
LEMMA RoundedAtMost ==
  ASSUME NEW v \in Nat, NEW t \in Nat, v <= Unit * t
  PROVE  roundFour(v) \in 0..t
<1>. DEFINE r == roundFour(v)
<1>1. r \in Nat /\ 2 * (Unit * r) <= 2 * v + Unit
  BY RoundingError
<1>2. Unit * t \in Int /\ Unit * r \in Int /\ (t < r => Unit * t + Unit <= Unit * r)
  BY <1>1, ScaledOrder
<1>3. Unit \in Nat \ {0}
  BY StepsAssumption
<1>. HIDE DEF r
<1>4. r <= t
  BY <1>1, <1>2, <1>3
<1>. QED BY <1>1, <1>4 DEF r

(* The places of n options, as levels of a score.                          *)
LEMMA Levels ==
  ASSUME NEW n \in Nat
  PROVE  /\ IsFiniteSet(1..n) /\ [i \in 1..n |-> i - 1] \in [1..n -> Nat]
         /\ \A p \in [1..n -> Nat] : [i \in 1..n |-> (i - 1) * p[i]] \in [1..n -> Nat]
<1>1. IsFiniteSet(1..n)
  BY FS_Interval
<1>2. ASSUME NEW p \in [1..n -> Nat], NEW i \in 1..n
      PROVE  (i - 1) * p[i] \in Nat
  <2>1. i - 1 \in Nat /\ p[i] \in Nat
    OBVIOUS
  <2>2. \A x, y \in Nat : x * y \in Nat
    OBVIOUS
  <2>. QED BY <2>1, <2>2
<1>. QED BY <1>1, <1>2

(* The expected level is at most the highest one.                          *)
LEMMA ExpectedLevel ==
  ASSUME NEW n \in Nat \ {0}, NEW p \in Distributions(n)
  PROVE  /\ expectedScore(p) \in Nat
         /\ roundFour(expectedScore(p)) \in 0..(One * (n - 1))
<1>. DEFINE S == 1..n
            f == [i \in S |-> (i - 1) * p[i]]
<1>1. /\ p \in [S -> 0..Whole] /\ ValueSum(p, S) = Whole /\ DOMAIN p = S
      /\ Whole \in Nat /\ Whole = Unit * One /\ n - 1 \in Nat /\ One \in Nat
  BY StepsAssumption DEF Distributions, Whole, ValueSum
<1>2. p \in [S -> Nat] /\ f \in [S -> Nat] /\ IsFiniteSet(S)
  <2>1. p \in [S -> Nat]
    BY <1>1
  <2>. QED BY <2>1, Levels
<1>3. PICK F : Adds(F, f, S) /\ LevelSum(p, S) = F[S]
  BY <1>2, SumOfLevels
<1>4. PICK G : Adds(G, p, S) /\ ValueSum(p, S) = G[S]
  BY <1>2, SumOfValues
<1>5. \A i \in S : 1 * f[i] <= (n - 1) * p[i] + 0 * p[i]
  <2>1. ASSUME NEW i \in S
        PROVE  1 * f[i] <= (n - 1) * p[i] + 0 * p[i]
    <3>1. PICK k \in Nat, m \in Nat, v \in Nat :
            k = i - 1 /\ m = n - 1 /\ k <= m /\ v = p[i]
      <4>1. p[i] \in Nat
        BY <1>2
      <4>2. i - 1 \in Nat /\ n - 1 \in Nat /\ i - 1 <= n - 1
        OBVIOUS
      <4>. QED BY <4>1, <4>2
    <3>2. k * v <= m * v /\ m * v \in Int /\ 0 * v = 0
      BY <3>1
    <3>3. f[i] = k * v
      BY <3>1
    <3>4. 1 * f[i] = f[i]
      BY <1>2
    <3>. HIDE DEF f
    <3>. QED BY <3>1, <3>2, <3>3, <3>4
  <2>. QED BY <2>1
<1>. HIDE DEF S, f
<1>6. F[S] \in Nat /\ G[S] \in Nat /\ 1 * F[S] <= (n - 1) * G[S] + 0 * G[S]
  <2>1. PICK a \in Nat, b \in Nat, c \in Nat : a = 1 /\ b = n - 1 /\ c = 0
    BY <1>1
  <2>2. AtMost(S, a, f, b, p, c, p)
    BY <1>5, <2>1 DEF AtMost
  <2>3. F[S] \in Nat /\ G[S] \in Nat /\ a * F[S] <= b * G[S] + c * G[S]
    BY <1>2, <1>3, <1>4, <2>2, SumsCompare
  <2>. QED BY <2>1, <2>3
<1>7. expectedScore(p) = F[S]
  BY <1>1, <1>3 DEF expectedScore, LevelSum
<1>8. One * (n - 1) \in Nat /\ (n - 1) * Whole = Unit * (One * (n - 1))
  <2>1. \A x, y, z \in Nat : x * y \in Nat /\ x * (z * y) = z * (y * x)
    OBVIOUS
  <2>. QED BY <1>1, <2>1, StepsAssumption
<1>9. F[S] <= Unit * (One * (n - 1))
  <2>1. G[S] = Whole
    BY <1>1, <1>4
  <2>. QED BY <1>1, <1>6, <1>8, <2>1
<1>. QED BY <1>6, <1>7, <1>8, <1>9, RoundedAtMost

(* The fields of a result, by the kind of its question.                    *)
LEMMA ResultFields ==
  ASSUME NEW q, NEW row, NEW n, DOMAIN q.options = 1..n
  PROVE  LET r == resultFromDerivation(q, row)
         IN /\ r.kind = q.kind /\ r.id = q.id
            /\ q.kind = "choice" => r.selected = q.options[maximumIndex(row.p)]
            /\ q.kind = "score" => r.expected = roundFour(expectedScore(row.p))
            /\ q.kind = "noul" => r.probabilities = <<roundFour(row.p[2])>> /\ r.confidence = 0
            /\ q.kind # "noul" => /\ r.options = q.options
                                  /\ r.probabilities = [i \in 1..n |-> roundFour(row.p[i])]
                                  /\ r.confidence = roundFour(row.confidence)
            /\ r.action = roundFour(row.action)
BY DEF resultFromDerivation

(* The result that is made of a finite row passes the checks of results,   *)
(* and those against the question.                                         *)
LEMMA ValidResult ==
  ASSUME NEW q \in Asked, validateQuestion(q),
         NEW row \in AnyRow, row.p \in Distributions(Len(q.options))
  PROVE  LET r == resultFromDerivation(q, row)
         IN validateResult(r) /\ r.id = q.id /\ validateResultForQuestion(r, q)
<1>. DEFINE r == resultFromDerivation(q, row)
            n == Len(q.options)
<1>1. /\ q.kind \in {"choice", "score", "noul"} /\ q.options \in Seq(STRING)
      /\ q.kind = "noul" => q.options = NoulOptions
  BY AskedFacts
<1>1a. n \in Nat \ {0} /\ n >= 2 /\ DOMAIN q.options = 1..n /\ q.options # << >>
  <2>1. n \in Nat /\ DOMAIN q.options = 1..n
    BY <1>1
  <2>2. q.kind = "noul" => n = 2
    <3>1. Len(NoulOptions) = 2
      BY DEF NoulOptions
    <3>. QED BY <1>1, <3>1
  <2>3. q.kind # "noul" => n >= 2
    BY DEF validateQuestion
  <2>4. n >= 2
    BY <2>2, <2>3
  <2>. QED BY <1>1, <2>1, <2>4
<1>2. q.kind # "noul" => "" \notin ToSet(q.options) /\ Distinct(q.options)
  BY DEF validateQuestion
<1>3. row.p \in [1..n -> 0..Whole] /\ row.confidence \in 0..Whole /\ row.action \in 0..Whole
  BY DEF AnyRow, Distributions
<1>4. \A v \in 0..Whole : v \in Nat /\ roundFour(v) \in 0..One
  <2>1. Whole = Unit * One /\ Whole \in Nat /\ One \in Nat
    BY StepsAssumption DEF Whole
  <2>. QED BY <2>1, RoundedAtMost
<1>5. /\ r.kind = q.kind /\ r.id = q.id
      /\ q.kind = "choice" => r.selected = q.options[maximumIndex(row.p)]
      /\ q.kind = "score" => r.expected = roundFour(expectedScore(row.p))
      /\ q.kind = "noul" => r.probabilities = <<roundFour(row.p[2])>> /\ r.confidence = 0
      /\ q.kind # "noul" => /\ r.options = q.options
                            /\ r.probabilities = [i \in 1..n |-> roundFour(row.p[i])]
                            /\ r.confidence = roundFour(row.confidence)
      /\ r.action = roundFour(row.action)
  BY <1>1a, ResultFields
<1>. HIDE DEF r, n
<1>6. \A i \in DOMAIN r.probabilities : validateProbability(r.probabilities[i])
  <2>1. \A i \in 1..n : roundFour(row.p[i]) \in 0..One
    BY <1>1a, <1>3, <1>4
  <2>2. CASE q.kind = "noul"
    <3>1. r.probabilities = <<roundFour(row.p[2])>> /\ roundFour(row.p[2]) \in 0..One
      BY <1>1a, <1>5, <2>1, <2>2
    <3>. QED BY <3>1 DEF validateProbability
  <2>3. CASE q.kind # "noul"
    BY <1>5, <2>1, <2>3 DEF validateProbability
  <2>. QED BY <2>2, <2>3
<1>7. validateProbability(r.confidence) /\ validateProbability(r.action)
  BY <1>3, <1>4, <1>5, StepsAssumption DEF validateProbability
<1>8. r.kind = "choice" => Distinct(r.options) /\ r.selected \in ToSet(r.options)
  <2>1. maximumIndex(row.p) \in 1..n
    BY <1>1a, <1>3, BestIndex
  <2>. QED BY <1>1a, <1>2, <1>5, <2>1 DEF ToSet
<1>9. r.kind = "score" => r.expected \in 0..(One * (Len(r.options) - 1))
  <2>1. row.p \in Distributions(n) /\ n \in Nat \ {0}
    BY <1>1a DEF n
  <2>2. roundFour(expectedScore(row.p)) \in 0..(One * (n - 1))
    BY <2>1, ExpectedLevel
  <2>. QED BY <1>5, <2>2 DEF n
<1>10. r.kind # "noul" => r.options # << >> /\ "" \notin ToSet(r.options)
  BY <1>1a, <1>2, <1>5
<1>11. r.id # ""
  BY <1>5 DEF validateQuestion
<1>12. validateResult(r)
  BY <1>6, <1>7, <1>8, <1>9, <1>10, <1>11 DEF validateResult
<1>13. validateResultForQuestion(r, q)
  BY <1>5 DEF validateResultForQuestion
<1>. QED BY <1>5, <1>12, <1>13 DEF r

(* So do all of a prediction, and they have the questions' identifiers.    *)
LEMMA ValidPrediction ==
  ASSUME asked \in Seq(Asked), rows \in Seq(AnyRow), validateQuestions(asked),
         Len(rows) = Len(asked),
         \A i \in DOMAIN rows : rows[i].p \in Distributions(Len(asked[i].options))
  PROVE  validatePredictionForQuestions(formatted, asked)
<1>. DEFINE n == Len(asked)
<1>1. n \in Nat /\ n # 0 /\ DOMAIN asked = 1..n /\ DOMAIN rows = 1..n
  BY DEF validateQuestions
<1>2. DOMAIN formatted = 1..n /\ Len(formatted) = n
  BY <1>1 DEF formatted
<1>3. ASSUME NEW i \in 1..n
      PROVE  /\ validateResult(formatted[i]) /\ formatted[i].id = asked[i].id
             /\ validateResultForQuestion(formatted[i], asked[i])
  <2>1. formatted[i] = resultFromDerivation(asked[i], rows[i])
    BY <1>1 DEF formatted
  <2>2. /\ asked[i] \in Asked /\ validateQuestion(asked[i])
        /\ rows[i] \in AnyRow /\ rows[i].p \in Distributions(Len(asked[i].options))
    BY <1>1 DEF validateQuestions
  <2>. QED BY <2>1, <2>2, ValidResult
<1>. HIDE DEF n
<1>4. Distinct([i \in DOMAIN formatted |-> formatted[i].id])
  <2>1. [i \in DOMAIN formatted |-> formatted[i].id] = [i \in DOMAIN asked |-> asked[i].id]
    BY <1>1, <1>2, <1>3
  <2>. QED BY <2>1 DEF validateQuestions
<1>5. formatted # << >>
  BY <1>1, <1>2
<1>6. validatePrediction(formatted)
  BY <1>2, <1>3, <1>4, <1>5 DEF validatePrediction
<1>. QED BY <1>1, <1>2, <1>3, <1>6 DEF validatePredictionForQuestions, n
-----------------------------------------------------------------------------
(***************************************************************************)
(* The invariant is inductive.                                             *)
(***************************************************************************)

(* Before anything is asked.                                               *)
LEMMA InitInv == NodesInit => IInv
BY DEF NodesInit, InferenceInit, RoutingInit, DataNodesInit, IInv, InferenceOK, RoutingOK, DataOK

(* A request begins with no rows, whoever makes it.                        *)
LEMMA PredictInv ==
  ASSUME InferenceOK, NEW questions \in Seq(Asked), Predict(questions)
  PROVE  InferenceOK' /\ asked' = questions /\ status' # "idle" /\ status = "idle"
BY DEF InferenceOK, Predict

(* The engine adds rows and makes an answer of them; a request that a node *)
(* has made stays the one it was.                                          *)
LEMMA EngineInv ==
  ASSUME IInv, NEW config \in Served, RunEngine(config)
  PROVE  IInv'
<1>1. /\ UNCHANGED <<routingVars, dataVars, asked>>
      /\ status = "asked" /\ status' # "idle"
  BY DEF RunEngine, RunSession, FormatPrediction
<1>2. InferenceOK'
  <2>1. CASE RunSession
    <3>1. PICK row \in RowsFor(asked[Len(rows) + 1]) : rows' = Append(rows, row)
      BY <2>1 DEF RunSession
    <3>2. status' = "asked"
      BY <2>1 DEF RunSession
    <3>3. /\ row \in AnyRow
          /\ row = BadRow \/ row.p \in Distributions(Len(asked[Len(rows) + 1].options))
      <4>1. CASE row = BadRow
        <5>1. Whole \in Nat
          BY StepsAssumption DEF Whole
        <5>2. << >> \in [1..0 -> 0..Whole]
          OBVIOUS
        <5>. QED BY <4>1, <5>1, <5>2 DEF BadRow, AnyRow
      <4>2. CASE row # BadRow
        <5>. DEFINE n == Len(asked[Len(rows) + 1].options)
        <5>1. /\ row \in [p : Distributions(n), confidence : Signals, action : Signals]
          BY <4>2 DEF RowsFor
        <5>2. Distributions(n) \subseteq [1..n -> 0..Whole]
          BY DEF Distributions
        <5>3. n \in Nat
          <6>1. asked[Len(rows) + 1] \in Asked
            BY <2>1 DEF IInv, InferenceOK, RunSession
          <6>2. asked[Len(rows) + 1].options \in Seq(STRING)
            BY <6>1, AskedFacts
          <6>. QED BY <6>2
        <5>. QED BY <5>1, <5>2, <5>3, SignalsAssumption DEF AnyRow
      <4>. QED BY <4>1, <4>2
    <3>4. /\ rows \in Seq(AnyRow)
          /\ \A i \in DOMAIN rows :
               rows[i] = BadRow \/ rows[i].p \in Distributions(Len(asked[i].options))
      BY DEF IInv, InferenceOK
    <3>5. rows' \in Seq(AnyRow) /\ DOMAIN rows' = DOMAIN rows \union {Len(rows) + 1}
      BY <3>1, <3>3, <3>4
    <3>6. /\ \A i \in DOMAIN rows : rows'[i] = rows[i]
          /\ rows'[Len(rows) + 1] = row
      BY <3>1, <3>3, <3>4
    <3>7. \A i \in DOMAIN rows' :
            rows'[i] = BadRow \/ rows'[i].p \in Distributions(Len(asked[i].options))
      BY <3>3, <3>4, <3>5, <3>6
    <3>8. asked' \in Seq(Asked) /\ validateQuestions(asked')
      BY <1>1 DEF IInv, InferenceOK
    <3>. QED BY <1>1, <3>2, <3>5, <3>7, <3>8 DEF InferenceOK
  <2>2. CASE FormatPrediction(config)
    <3>1. /\ asked \in Seq(Asked) /\ rows \in Seq(AnyRow) /\ Len(rows) = Len(asked)
          /\ validateQuestions(asked)
          /\ \A i \in DOMAIN rows :
               rows[i] = BadRow \/ rows[i].p \in Distributions(Len(asked[i].options))
      BY <1>1, <2>2 DEF FormatPrediction, IInv, InferenceOK
    <3>2. validateRawOutputs => /\ temperaturesSelected(config)
                                /\ validatePredictionForQuestions(formatted, asked)
      BY <3>1, TemperatureFound, ValidPrediction DEF validateRawOutputs
    <3>3. /\ UNCHANGED <<asked, rows>>
          /\ \/ /\ status' = "answered" /\ results' = formatted /\ validateRawOutputs
                /\ validatePredictionForQuestions(formatted, asked)
             \/ status' = "invalidOutput" /\ ~validateRawOutputs
      BY <2>2, <3>2 DEF FormatPrediction
    <3>4. formatted' = formatted /\ (validateRawOutputs' <=> validateRawOutputs)
      BY <3>3 DEF formatted, validateRawOutputs
    <3>. QED BY <3>1, <3>3, <3>4 DEF InferenceOK
  <2>. QED BY <2>1, <2>2 DEF RunEngine
<1>3. RoutingOK' /\ DataOK'
  BY <1>1 DEF IInv, RoutingOK, DataOK, routingVars, dataVars
<1>. QED BY <1>2, <1>3 DEF IInv

(* An application asks; there is no node.                                  *)
LEMMA PredictAloneInv ==
  ASSUME IInv, PredictAlone
  PROVE  IInv'
<1>1. PICK n \in 0..MaxQuestions : \E questions \in [1..n -> Questions] : Predict(questions)
  BY DEF PredictAlone
<1>2. PICK questions \in [1..n -> Questions] : Predict(questions)
  BY <1>1
<1>3. questions \in Seq(Asked)
  <2>1. n \in Nat /\ \A i \in 1..n : questions[i] \in Asked
    BY SignalsAssumption, QuestionsAssumption DEF Asked
  <2>. QED BY <2>1
<1>4. InferenceOK'
  BY <1>2, <1>3, PredictInv DEF IInv
<1>5. UNCHANGED <<routingVars, dataVars>> /\ node = "none" /\ dataNode = "none"
  BY DEF PredictAlone, Unused
<1>6. RoutingOK' /\ DataOK'
  BY <1>5 DEF routingVars, dataVars, RoutingOK, DataOK
<1>. QED BY <1>4, <1>6 DEF IInv

(* NewChoiceRouting, and the function of its node.                         *)
LEMMA RoutingInv ==
  ASSUME IInv, RoutingNext, dataNode = "none", UNCHANGED dataVars
  PROVE  IInv'
<1>1. DataOK'
  BY DEF dataVars, DataOK
<1>2. CASE NewChoiceRouting
  <2>1. InferenceOK'
    BY <1>2 DEF NewChoiceRouting, inferenceVars, IInv, InferenceOK, formatted, validateRawOutputs
  <2>2. RoutingOK'
    BY <1>2 DEF NewChoiceRouting, RoutingOK
  <2>. QED BY <1>1, <2>1, <2>2 DEF IInv
<1>3. CASE RunNode
  <2>1. cfg \in Configs /\ validateConfig(cfg) /\ edges = newEdges(cfg)
    BY <1>3 DEF RunNode, IInv, RoutingOK
  <2>2. <<question(cfg)>> \in Seq(Asked)
    <3>1. question(cfg) \in Asked
      BY <2>1 DEF Asked
    <3>. QED BY <3>1
  <2>3. /\ Predict(<<question(cfg)>>) /\ node' = "running"
        /\ UNCHANGED <<cfg, edges, routes>>
    BY <1>3 DEF RunNode
  <2>4. InferenceOK' /\ asked' = <<question(cfg)>> /\ status' # "idle"
    BY <2>2, <2>3, PredictInv DEF IInv
  <2>5. RoutingOK'
    BY <2>1, <2>3, <2>4 DEF RoutingOK
  <2>. QED BY <1>1, <2>4, <2>5 DEF IInv
<1>4. CASE RunNodeFails
  <2>1. InferenceOK'
    BY <1>4 DEF RunNodeFails, inferenceVars, IInv, InferenceOK, formatted, validateRawOutputs
  <2>2. RoutingOK'
    BY <1>4 DEF RunNodeFails, RoutingOK
  <2>. QED BY <1>1, <2>1, <2>2 DEF IInv
<1>5. CASE NodeRoutes
  <2>1. InferenceOK'
    BY <1>5 DEF NodeRoutes, inferenceVars, IInv, InferenceOK, formatted, validateRawOutputs
  <2>2. RoutingOK'
    BY <1>5 DEF NodeRoutes, inferenceVars, IInv, RoutingOK
  <2>. QED BY <1>1, <2>1, <2>2 DEF IInv
<1>. QED BY <1>2, <1>3, <1>4, <1>5 DEF RoutingNext

(* The constructors of data nodes, their runs, and the application that    *)
(* writes to its slice meanwhile.                                          *)
LEMMA DataInv ==
  ASSUME IInv, DataNodesNext, node = "none", UNCHANGED routingVars
  PROVE  IInv'
<1>1. RoutingOK'
  BY DEF routingVars, RoutingOK
<1>2. CASE RunDataNode
  <2>1. kept = given /\ given \in Seq(Asked) /\ \E c \in NodeConfigs : given = c.questions
    BY <1>2, NodeConfigsAssumption DEF RunDataNode, IInv, DataOK, Asked
  <2>2. /\ Predict(given) /\ dataNode' = "running"
        /\ UNCHANGED <<slice, given, kept, nodeType, output>>
    BY <1>2, <2>1 DEF RunDataNode, nodeQuestions
  <2>3. InferenceOK' /\ asked' = given /\ status' # "idle"
    BY <2>1, <2>2, PredictInv DEF IInv
  <2>4. DataOK'
    BY <2>1, <2>2, <2>3 DEF DataOK
  <2>. QED BY <1>1, <2>3, <2>4 DEF IInv
<1>3. CASE NewDataNode \/ WriteSlice \/ DataNodeFails \/ DataNodeOutputs
  <2>1. InferenceOK'
    <3>1. UNCHANGED inferenceVars
      BY <1>3 DEF NewDataNode, WriteSlice, DataNodeFails, DataNodeOutputs
    <3>. QED BY <3>1 DEF inferenceVars, IInv, InferenceOK, formatted, validateRawOutputs
  <2>2. NewDataNode => DataOK'
    BY DEF NewDataNode, DataOK
  <2>3. WriteSlice => DataOK'
    BY DEF WriteSlice, inferenceVars, IInv, DataOK
  <2>4. DataNodeFails => DataOK'
    BY DEF DataNodeFails, DataOK
  <2>5. DataNodeOutputs => DataOK'
    BY DEF DataNodeOutputs, inferenceVars, IInv, DataOK
  <2>6. DataOK'
    BY <1>3, <2>2, <2>3, <2>4, <2>5
  <2>. QED BY <1>1, <2>1, <2>6 DEF IInv
<1>. QED BY <1>2, <1>3 DEF DataNodesNext

(* IInv is an invariant of any application, data node or routing node that *)
(* asks a model.                                                           *)
THEOREM Invariance == NodesSpec => []IInv
<1>1. IInv /\ [\E config \in Served : NodesNext(config)]_nodesVars => IInv'
  <2>1. ASSUME IInv, NEW config \in Served, NodesNext(config)
        PROVE  IInv'
    BY <2>1, PredictAloneInv, EngineInv, RoutingInv, DataInv DEF NodesNext, RunWorkflow
  <2>2. ASSUME IInv, UNCHANGED nodesVars
        PROVE  IInv'
    BY <2>2 DEF nodesVars, inferenceVars, routingVars, dataVars, IInv, InferenceOK, RoutingOK,
                DataOK, formatted, validateRawOutputs
  <2>. QED BY <2>1, <2>2
<1>. QED BY <1>1, InitInv, PTL DEF NodesSpec
-----------------------------------------------------------------------------
(***************************************************************************)
(* Predictions.                                                            *)
(***************************************************************************)

(* No prediction over finite outputs is refused: what roundFour and        *)
(* maximumIndex make of any distribution passes every check of result.go   *)
(* and model.go, at both ends of the range too.                            *)
THEOREM FiniteAnswered == NodesSpec => []FiniteOutputsAreAnswered
<1>1. IInv => FiniteOutputsAreAnswered
  BY DEF IInv, InferenceOK, FiniteOutputsAreAnswered, validateRawOutputs
<1>. QED BY <1>1, Invariance, PTL

(* The expected level, rounded, and that of the rounded probabilities are  *)
(* apart by half a step for each level of each place, and half a step.     *)
LEMMA ScoreError ==
  ASSUME NEW n \in Nat, NEW p \in [1..n -> 0..Whole]
  PROVE  LET error == PlaceSum(1..n) + 1
         IN 2 * (roundFour(expectedScore(p))
                   - expectedScore([i \in 1..n |-> roundFour(p[i])])) \in -error..error
<1>. DEFINE S == 1..n
            q == [i \in S |-> roundFour(p[i])]
            f == [i \in S |-> (i - 1) * p[i]]
            g == [i \in S |-> (i - 1) * q[i]]
            h == [i \in S |-> i - 1]
<1>1. /\ DOMAIN p = S /\ DOMAIN q = S
      /\ \A i \in S : p[i] \in Nat /\ q[i] = roundFour(p[i]) /\ q[i] \in Nat
  <2>1. Whole \in Nat
    BY StepsAssumption DEF Whole
  <2>2. \A i \in S : p[i] \in Nat
    BY <2>1
  <2>. QED BY <2>2, RoundingError
<1>2. IsFiniteSet(S) /\ f \in [S -> Nat] /\ g \in [S -> Nat] /\ h \in [S -> Nat]
  <2>1. p \in [S -> Nat] /\ q \in [S -> Nat]
    BY <1>1
  <2>. HIDE DEF q
  <2>. QED BY <2>1, Levels
<1>3. \A i \in S : f[i] = (i - 1) * p[i] /\ g[i] = (i - 1) * q[i] /\ h[i] = i - 1
  OBVIOUS
<1>4. PICK F : Adds(F, f, S) /\ LevelSum(p, S) = F[S]
  BY <1>2, SumOfLevels
<1>5. PICK G : Adds(G, g, S) /\ LevelSum(q, S) = G[S]
  <2>. HIDE DEF q
  <2>. QED BY <1>2, SumOfLevels
<1>6. PICK H : Adds(H, h, S) /\ PlaceSum(S) = H[S]
  BY <1>2, SumOfPlaces
<1>. HIDE DEF q, f, g, h
<1>7. expectedScore(p) = F[S] /\ expectedScore(q) = G[S]
  BY <1>1, <1>4, <1>5 DEF expectedScore, LevelSum
<1>8. Unit \in Nat \ {0}
  BY StepsAssumption
<1>9. PICK two \in Nat, twice \in Nat, unit \in Nat :
        two = 2 /\ twice = 2 * Unit /\ unit = Unit
  BY <1>8
<1>10. ASSUME NEW i \in S
       PROVE  /\ twice * g[i] <= two * f[i] + unit * h[i]
              /\ two * f[i] <= twice * g[i] + unit * h[i]
  <2>1. PICK k \in Nat : k = i - 1
    OBVIOUS
  <2>2. /\ 2 * (Unit * q[i]) <= 2 * p[i] + Unit
        /\ 2 * p[i] <= 2 * (Unit * q[i]) + Unit
    <3>1. Unit * q[i] \in Int
      BY <1>1, ScaledOrder
    <3>2. /\ 2 * (Unit * q[i]) <= 2 * p[i] + Unit
          /\ 2 * p[i] + Unit < 2 * (Unit * q[i]) + 2 * Unit
      BY <1>1, RoundingError
    <3>. QED BY <1>1, <1>8, <3>1, <3>2
  <2>3. \A x, y, z \in Int : x <= y => k * x <= k * y
    OBVIOUS
  <2>4. /\ k * (2 * (Unit * q[i])) <= k * (2 * p[i] + Unit)
        /\ k * (2 * p[i]) <= k * (2 * (Unit * q[i]) + Unit)
    BY <1>1, <1>8, <2>2, <2>3
  <2>5. f[i] = k * p[i] /\ g[i] = k * q[i] /\ h[i] = k
    BY <1>3, <2>1
  <2>6. /\ k * (2 * (Unit * q[i])) = twice * g[i]
        /\ k * (2 * p[i] + Unit) = two * f[i] + unit * h[i]
        /\ k * (2 * p[i]) = two * f[i]
        /\ k * (2 * (Unit * q[i]) + Unit) = twice * g[i] + unit * h[i]
    <3>1. \A a, b \in Nat :
            /\ k * (2 * (Unit * a)) = (2 * Unit) * (k * a)
            /\ k * (2 * b + Unit) = 2 * (k * b) + Unit * k
            /\ k * (2 * b) = 2 * (k * b)
            /\ k * (2 * (Unit * a) + Unit) = (2 * Unit) * (k * a) + Unit * k
      BY <1>8
    <3>2. p[i] \in Nat /\ q[i] \in Nat
      BY <1>1
    <3>3. /\ k * (2 * (Unit * q[i])) = (2 * Unit) * (k * q[i])
          /\ k * (2 * p[i] + Unit) = 2 * (k * p[i]) + Unit * k
          /\ k * (2 * p[i]) = 2 * (k * p[i])
          /\ k * (2 * (Unit * q[i]) + Unit) = (2 * Unit) * (k * q[i]) + Unit * k
      BY <3>1, <3>2
    <3>. QED BY <1>9, <2>5, <3>3
  <2>. QED BY <2>4, <2>6
<1>11. /\ F[S] \in Nat /\ G[S] \in Nat /\ H[S] \in Nat
       /\ twice * G[S] <= two * F[S] + unit * H[S]
  <2>1. AtMost(S, twice, g, two, f, unit, h)
    BY <1>10 DEF AtMost
  <2>. HIDE DEF S
  <2>. QED BY <1>2, <1>4, <1>5, <1>6, <2>1, SumsCompare
<1>12. two * F[S] <= twice * G[S] + unit * H[S]
  <2>1. AtMost(S, two, f, twice, g, unit, h)
    BY <1>10 DEF AtMost
  <2>. HIDE DEF S
  <2>. QED BY <1>2, <1>4, <1>5, <1>6, <2>1, SumsCompare
<1>13. PICK E \in Nat, R \in Nat, P \in Nat : E = F[S] /\ R = G[S] /\ P = H[S]
  BY <1>11
<1>14. PICK x \in Nat : x = roundFour(E)
  BY RoundingError
<1>15. /\ 2 * (Unit * R) <= 2 * E + Unit * P /\ 2 * E <= 2 * (Unit * R) + Unit * P
       /\ 2 * (Unit * x) <= 2 * E + Unit /\ 2 * E + Unit < 2 * (Unit * x) + 2 * Unit
  <2>1. 2 * (Unit * R) <= 2 * E + Unit * P /\ 2 * E <= 2 * (Unit * R) + Unit * P
    <3>1. /\ twice * R = 2 * (Unit * R) /\ two * E = 2 * E /\ unit * P = Unit * P
      BY <1>8, <1>9
    <3>. QED BY <1>11, <1>12, <1>13, <3>1
  <2>2. 2 * (Unit * x) <= 2 * E + Unit /\ 2 * E + Unit < 2 * (Unit * x) + 2 * Unit
    BY <1>14, RoundingError
  <2>. QED BY <2>1, <2>2
<1>16. \A a, b \in Int : Unit * a <= Unit * b => a <= b
  BY <1>8, ScaledOrder
<1>17. /\ Unit * (2 * x) <= Unit * (2 * R + P + 1)
       /\ Unit * (2 * R) <= Unit * (2 * x + P + 1)
  <2>1. /\ Unit * R \in Int /\ Unit * x \in Int /\ Unit * P \in Int
    BY ScaledOrder
  <2>2. /\ Unit * (2 * x) = 2 * (Unit * x) /\ Unit * (2 * R) = 2 * (Unit * R)
        /\ Unit * (2 * R + P + 1) = 2 * (Unit * R) + Unit * P + Unit
        /\ Unit * (2 * x + P + 1) = 2 * (Unit * x) + Unit * P + Unit
    BY <1>8
  <2>. QED BY <1>8, <1>15, <2>1, <2>2
<1>18. 2 * x <= 2 * R + P + 1 /\ 2 * R <= 2 * x + P + 1
  <2>1. /\ 2 * x \in Int /\ 2 * R + P + 1 \in Int /\ 2 * R \in Int /\ 2 * x + P + 1 \in Int
    OBVIOUS
  <2>. QED BY <1>16, <1>17, <2>1
<1>19. 2 * (x - R) \in -(P + 1)..(P + 1)
  BY <1>18
<1>. QED BY <1>6, <1>7, <1>13, <1>14, <1>19 DEF q

(* The answer of deriveOutputRow and the distribution that is returned     *)
(* beside it say the same: a choice is the first of the most probable,     *)
(* before and after rounding, and a score's level is that of its           *)
(* distribution, to the error of the roundings.                            *)
THEOREM AnswersAgree == NodesSpec => []AnswerAgreesWithDistribution
<1>1. ASSUME IInv, status = "answered", NEW i \in DOMAIN results
      PROVE  LET r == results[i]
                 p == rows[i].p
                 at == {j \in DOMAIN p : asked[i].options[j] = r.selected}
                 error == MapThenSumSet(LAMBDA j : j - 1, DOMAIN p) + 1
             IN /\ r.kind = "choice" =>
                     \E j \in at : \A k \in DOMAIN p :
                       /\ p[k] <= p[j] /\ r.probabilities[k] <= r.probabilities[j]
                       /\ k < j => p[k] < p[j]
                /\ r.kind = "score" =>
                     2 * (r.expected - expectedScore(r.probabilities)) \in -error..error
  <2>. DEFINE q == asked[i]
              r == results[i]
              p == rows[i].p
              n == Len(q.options)
              at == {j \in DOMAIN p : q.options[j] = r.selected}
  <2>1. /\ asked \in Seq(Asked) /\ rows \in Seq(AnyRow) /\ Len(rows) = Len(asked)
        /\ results = formatted /\ validateRawOutputs
        /\ \A k \in DOMAIN rows :
             rows[k] = BadRow \/ rows[k].p \in Distributions(Len(asked[k].options))
        /\ validatePredictionForQuestions(results, asked)
    BY <1>1 DEF IInv, InferenceOK
  <2>2. /\ i \in DOMAIN rows /\ i \in DOMAIN asked /\ q \in Asked
        /\ r = resultFromDerivation(q, rows[i])
    BY <2>1 DEF formatted
  <2>3. /\ q.options \in Seq(STRING) /\ n \in Nat /\ DOMAIN q.options = 1..n
    BY <2>2, AskedFacts
  <2>4. p \in [1..n -> 0..Whole] /\ DOMAIN p = 1..n
    BY <2>1, <2>2 DEF validateRawOutputs, Distributions
  <2>5. /\ r.kind = q.kind
        /\ q.kind = "choice" => r.selected = q.options[maximumIndex(p)]
        /\ q.kind = "score" => r.expected = roundFour(expectedScore(p))
        /\ q.kind # "noul" => r.probabilities = [k \in 1..n |-> roundFour(p[k])]
    BY <2>2, <2>3, ResultFields
  <2>6. r.kind # "noul" => n # 0
    <3>1. validateResult(r) /\ (q.kind # "noul" => r.options = q.options)
      BY <2>1, <2>2 DEF validatePredictionForQuestions, validatePrediction,
                        validateResultForQuestion
    <3>2. r.kind # "noul" => r.options # << >>
      BY <3>1 DEF validateResult
    <3>. QED BY <2>3, <2>5, <3>1, <3>2
  <2>. HIDE DEF q, r, p, n
  <2>7. ASSUME r.kind = "choice"
        PROVE  \E j \in at : \A k \in DOMAIN p :
                 /\ p[k] <= p[j] /\ r.probabilities[k] <= r.probabilities[j]
                 /\ k < j => p[k] < p[j]
    <3>. DEFINE best == maximumIndex(p)
    <3>1. n \in Nat \ {0}
      BY <2>3, <2>6, <2>7
    <3>2. /\ best \in 1..n
          /\ \A k \in 1..n : p[k] <= p[best] /\ (p[k] = p[best] => best <= k)
      BY <2>4, <3>1, BestIndex
    <3>3. best \in at
      BY <2>4, <2>5, <2>7, <3>2
    <3>. HIDE DEF best, at
    <3>4. \A k \in 1..n : p[k] \in Nat
      <4>1. Whole \in Nat
        BY StepsAssumption DEF Whole
      <4>. QED BY <2>4, <3>1, <4>1
    <3>5. \A k \in 1..n : r.probabilities[k] = roundFour(p[k])
      BY <2>5, <2>7
    <3>6. \A k \in 1..n : r.probabilities[k] <= r.probabilities[best]
      BY <3>2, <3>4, <3>5, RoundingOrder
    <3>7. \A k \in 1..n : k < best => p[k] < p[best]
      <4>1. best \in Nat
        BY <3>1, <3>2
      <4>. QED BY <3>1, <3>2, <3>4, <4>1
    <3>. QED BY <2>4, <3>2, <3>3, <3>6, <3>7
  <2>8. ASSUME r.kind = "score"
        PROVE  LET error == MapThenSumSet(LAMBDA j : j - 1, DOMAIN p) + 1
               IN 2 * (r.expected - expectedScore(r.probabilities)) \in -error..error
    <3>1. LET error == PlaceSum(1..n) + 1
          IN 2 * (roundFour(expectedScore(p))
                    - expectedScore([k \in 1..n |-> roundFour(p[k])])) \in -error..error
      BY <2>3, <2>4, ScoreError
    <3>2. MapThenSumSet(LAMBDA j : j - 1, DOMAIN p) = PlaceSum(1..n)
      BY <2>4 DEF PlaceSum
    <3>3. /\ r.expected = roundFour(expectedScore(p))
          /\ r.probabilities = [k \in 1..n |-> roundFour(p[k])]
      BY <2>5, <2>8
    <3>. QED BY <3>1, <3>2, <3>3
  <2>. QED BY <2>7, <2>8 DEF q, r, p
<1>2. IInv => AnswerAgreesWithDistribution
  BY <1>1 DEF AnswerAgreesWithDistribution
<1>. QED BY <1>2, Invariance, PTL
-----------------------------------------------------------------------------
(***************************************************************************)
(* Data nodes.                                                             *)
(***************************************************************************)

(* newPredictionNode copies the slice it is given, so that no write of the *)
(* application to it changes what a run asks; resultOutput puts each       *)
(* answer under the pointer of its kind.                                   *)
THEOREM OwnQuestions == NodesSpec => []NodeAnswersItsQuestions
<1>1. ASSUME IInv, dataNode = "done"
      PROVE  NodeAnswersItsQuestions
  <2>1. /\ asked = given /\ given \in Seq(AnyQuestion)
        /\ output = [i \in DOMAIN results |-> resultOutput(results[i])]
        /\ Len(rows) = Len(given) /\ results = formatted
        /\ validatePredictionForQuestions(results, given)
    BY <1>1, NodeConfigsAssumption DEF IInv, DataOK, InferenceOK
  <2>2. DOMAIN rows = 1..Len(given) /\ DOMAIN given = 1..Len(given) /\ Len(given) \in Nat
    BY <1>1, <2>1 DEF IInv, InferenceOK
  <2>3. DOMAIN results = 1..Len(given)
    BY <2>1, <2>2 DEF formatted
  <2>4. Len(output) = Len(given)
    BY <2>1, <2>2, <2>3
  <2>5. ASSUME NEW i \in DOMAIN given
        PROVE  LET answers == output[i].choice \o output[i].score \o output[i].noul IN
               /\ output[i].id = given[i].id /\ output[i].kind = given[i].kind
               /\ Len(answers) = 1
               /\ answers[1].kind = given[i].kind
               /\ given[i].kind # "noul" => answers[1].options = given[i].options
    <3>. DEFINE r == results[i]
    <3>1. /\ r.id = given[i].id /\ r.kind = given[i].kind
          /\ given[i].kind # "noul" => r.options = given[i].options
      BY <2>1 DEF validatePredictionForQuestions, validateResultForQuestion
    <3>2. r.kind \in {"choice", "score", "noul"}
      <4>1. given[i] \in AnyQuestion
        BY <2>1, <2>2
      <4>2. given[i].kind \in {"choice", "score", "noul"}
        BY <4>1 DEF AnyQuestion
      <4>. QED BY <3>1, <4>2
    <3>3. output[i] = resultOutput(r)
      BY <2>1, <2>2, <2>3
    <3>. HIDE DEF r
    <3>. DEFINE o == resultOutput(r)
    <3>4. /\ o.id = r.id /\ o.kind = r.kind
          /\ o.choice = IF r.kind = "choice" THEN <<r>> ELSE << >>
          /\ o.score = IF r.kind = "score" THEN <<r>> ELSE << >>
          /\ o.noul = IF r.kind = "noul" THEN <<r>> ELSE << >>
      BY DEF resultOutput
    <3>. HIDE DEF o
    <3>5. o.choice \o o.score \o o.noul = <<r>>
      <4>1. <<r>> \o << >> = <<r>> /\ << >> \o <<r>> = <<r>> /\ << >> \o << >> = << >>
        <5>1. <<r>> \in Seq({r}) /\ << >> \in Seq({r})
          OBVIOUS
        <5>. QED BY <5>1
      <4>2. CASE r.kind = "choice"
        BY <3>4, <4>1, <4>2
      <4>3. CASE r.kind = "score"
        BY <3>4, <4>1, <4>3
      <4>4. CASE r.kind = "noul"
        BY <3>4, <4>1, <4>4
      <4>. QED BY <3>2, <4>2, <4>3, <4>4
    <3>. QED BY <3>1, <3>3, <3>4, <3>5 DEF o
  <2>. QED BY <2>4, <2>5 DEF NodeAnswersItsQuestions
<1>2. IInv => NodeAnswersItsQuestions
  BY <1>1 DEF NodeAnswersItsQuestions
<1>. QED BY <1>2, Invariance, PTL
-----------------------------------------------------------------------------
(***************************************************************************)
(* Routing nodes.                                                          *)
(***************************************************************************)

(* A configuration that newChoiceRouting accepts has two criteria or more, *)
(* all different.                                                          *)
LEMMA ValidCriteria ==
  ASSUME NEW c \in Configs, validateConfig(c)
  PROVE  /\ Criteria(c) \in Seq(STRING)
         /\ Len(Criteria(c)) \in Nat /\ Len(Criteria(c)) >= 2
         /\ DOMAIN Criteria(c) = 1..Len(Criteria(c))
         /\ \A i, j \in DOMAIN Criteria(c) : Criteria(c)[i] = Criteria(c)[j] => i = j
<1>1. Criteria(c) \in Seq(STRING)
  BY CriteriaElements
<1>2. Len(Criteria(c)) >= 2
  BY DEF validateConfig, validateQuestion, question
<1>3. Cardinality(ToSet(Criteria(c))) = Len(Criteria(c))
  BY DEF validateConfig, Distinct
<1>4. \A i, j \in 1..Len(Criteria(c)) : Criteria(c)[i] = Criteria(c)[j] => i = j
  BY <1>1, <1>3, DistinctElements
<1>. QED BY <1>1, <1>2, <1>4

(* What a run of the node knows when it routes.                            *)
LEMMA RoutedFacts ==
  ASSUME IInv, node = "routed"
  PROVE  /\ cfg \in Configs /\ validateConfig(cfg) /\ edges = newEdges(cfg)
         /\ rows[1].p \in [1..Len(Criteria(cfg)) -> 0..Whole]
         /\ rows[1].confidence \in 0..Whole /\ rows[1].action \in 0..Whole
         /\ results[1] = resultFromDerivation(question(cfg), rows[1])
         /\ routes = <<acceptedRoute(results[1], cfg)>>
<1>1. /\ cfg \in Configs /\ validateConfig(cfg) /\ edges = newEdges(cfg)
      /\ asked = <<question(cfg)>> /\ status = "answered"
      /\ routes = <<acceptedRoute(results[1], cfg)>>
  BY DEF IInv, RoutingOK
<1>2. /\ rows \in Seq(AnyRow) /\ Len(rows) = Len(asked) /\ results = formatted
      /\ validateRawOutputs
      /\ \A i \in DOMAIN rows :
           rows[i] = BadRow \/ rows[i].p \in Distributions(Len(asked[i].options))
  BY <1>1 DEF IInv, InferenceOK
<1>3. Len(asked) = 1 /\ asked[1] = question(cfg)
  BY <1>1
<1>4. 1 \in DOMAIN rows /\ rows[1] \in AnyRow
  BY <1>2, <1>3
<1>5. rows[1].p \in [1..Len(question(cfg).options) -> 0..Whole]
  BY <1>2, <1>3, <1>4 DEF validateRawOutputs, Distributions
<1>6. results[1] = resultFromDerivation(question(cfg), rows[1])
  BY <1>2, <1>3, <1>4 DEF formatted
<1>7. rows[1].confidence \in 0..Whole /\ rows[1].action \in 0..Whole
  BY <1>4 DEF AnyRow
<1>. QED BY <1>1, <1>5, <1>6, <1>7 DEF question

(* acceptedRoute in terms of the row: a branch if no other rounded         *)
(* probability equals that of the best, and the thresholds hold.           *)
LEMMA AcceptedRoute ==
  ASSUME NEW c \in Configs, validateConfig(c), NEW row,
         row.p \in [1..Len(Criteria(c)) -> 0..Whole]
  PROVE  LET best == maximumIndex(row.p)
             r == resultFromDerivation(question(c), row)
         IN /\ r.selected = Criteria(c)[best]
            /\ acceptedRoute(r, c) =
                 IF \/ \E j \in DOMAIN row.p \ {best} : roundFour(row.p[j]) = roundFour(row.p[best])
                    \/ roundFour(row.p[best]) < c.policy.minSelected
                    \/ roundFour(row.confidence) < c.policy.minConfidence
                    \/ roundFour(row.action) > c.policy.maxAction
                 THEN fallbackRoute ELSE criterionRoute(c, Criteria(c)[best])
<1>. DEFINE best == maximumIndex(row.p)
            r == resultFromDerivation(question(c), row)
            n == Len(Criteria(c))
            tie == \E j \in DOMAIN row.p \ {best} : roundFour(row.p[j]) = roundFour(row.p[best])
            maxima == {i \in DOMAIN r.probabilities : r.probabilities[i] = r.probabilities[best]}
<1>1. /\ n \in Nat \ {0} /\ DOMAIN Criteria(c) = 1..n
      /\ \A i, j \in 1..n : Criteria(c)[i] = Criteria(c)[j] => i = j
  BY ValidCriteria
<1>2. best \in 1..n /\ \A j \in 1..n : row.p[j] <= row.p[best]
  BY <1>1, BestIndex
<1>3. /\ r.selected = Criteria(c)[best] /\ r.options = Criteria(c)
      /\ r.probabilities = [i \in 1..n |-> roundFour(row.p[i])]
      /\ r.confidence = roundFour(row.confidence) /\ r.action = roundFour(row.action)
  BY <1>1 DEF resultFromDerivation, question
<1>. HIDE DEF r, n, best
<1>4. \A j \in 1..n : row.p[j] \in Nat /\ roundFour(row.p[j]) \in Nat
  <2>1. Whole \in Nat /\ row.p \in [1..n -> 0..Whole]
    BY StepsAssumption DEF Whole, n
  <2>2. \A j \in 1..n : row.p[j] \in Nat
    BY <1>1, <2>1
  <2>. QED BY <2>2, RoundingError
<1>5. \A j \in 1..n : /\ r.probabilities[j] = roundFour(row.p[j])
                      /\ r.probabilities[j] <= r.probabilities[best]
  BY <1>2, <1>3, <1>4, RoundingOrder
<1>6. Max(ToSet(r.probabilities)) = r.probabilities[best]
  <2>1. r.probabilities[best] \in ToSet(r.probabilities)
    BY <1>2, <1>3 DEF ToSet
  <2>2. \A x \in ToSet(r.probabilities) : x \in Nat /\ r.probabilities[best] >= x
    BY <1>2, <1>3, <1>4, <1>5 DEF ToSet
  <2>3. Max(ToSet(r.probabilities)) \in ToSet(r.probabilities)
        /\ \A x \in ToSet(r.probabilities) : Max(ToSet(r.probabilities)) >= x
    BY <2>1, <2>2 DEF Max
  <2>. QED BY <2>1, <2>2, <2>3
<1>7. (CHOOSE i \in DOMAIN r.options : r.options[i] = r.selected) = best
  BY <1>1, <1>2, <1>3
<1>8. Cardinality(maxima) # 1 <=> tie
  <2>1. DOMAIN r.probabilities = 1..n /\ DOMAIN row.p = 1..n
    BY <1>3 DEF n
  <2>2. best \in maxima
    BY <1>2, <2>1
  <2>3. maxima = {best} <=> ~tie
    BY <1>2, <1>5, <2>1, <2>2
  <2>4. IsFiniteSet(maxima)
    <3>1. IsFiniteSet(1..n)
      <4>1. 1 \in Int /\ n \in Int
        BY <1>1
      <4>. QED BY <4>1, FS_Interval
    <3>2. maxima \subseteq 1..n
      BY <2>1
    <3>. HIDE DEF maxima
    <3>. QED BY <3>1, <3>2, FS_Subset
  <2>. HIDE DEF maxima
  <2>5. Cardinality(maxima) = 1 <=> \E x : maxima = {x}
    BY <2>4, FS_Singleton
  <2>. QED BY <2>2, <2>3, <2>5
<1>9. acceptedRoute(r, c) =
        IF \/ tie \/ roundFour(row.p[best]) < c.policy.minSelected
           \/ roundFour(row.confidence) < c.policy.minConfidence
           \/ roundFour(row.action) > c.policy.maxAction
        THEN fallbackRoute ELSE criterionRoute(c, Criteria(c)[best])
  <2>1. r.probabilities[best] = roundFour(row.p[best])
    BY <1>2, <1>5
  <2>2. acceptedRoute(r, c) =
          IF \/ Cardinality(maxima) # 1 \/ r.probabilities[best] < c.policy.minSelected
             \/ r.confidence < c.policy.minConfidence \/ r.action > c.policy.maxAction
          THEN fallbackRoute ELSE criterionRoute(c, r.selected)
    BY <1>6, <1>7 DEF acceptedRoute
  <2>3. /\ r.selected = Criteria(c)[best]
        /\ r.confidence = roundFour(row.confidence) /\ r.action = roundFour(row.action)
    BY <1>3
  <2>. HIDE DEF tie, maxima
  <2>. QED BY <1>8, <2>1, <2>2, <2>3
<1>. QED BY <1>3, <1>9 DEF r, n, best

(* Each criterion is one of a branch's: it has a route, and that route is  *)
(* not the fallback's.                                                     *)
LEMMA CriterionHasRoute ==
  ASSUME NEW c \in Configs, NEW i \in DOMAIN Criteria(c)
  PROVE  LET w == criterionRoute(c, Criteria(c)[i])
         IN /\ w \in DOMAIN c.branches /\ w # fallbackRoute
            /\ Criteria(c)[i] \in ToSet(c.branches[w].criteria)
<1>. DEFINE x == Criteria(c)[i]
<1>1. x \in ToSet(Criteria(c))
  BY DEF ToSet
<1>2. \E k \in DOMAIN c.branches : x \in ToSet(c.branches[k].criteria)
  BY <1>1, CriteriaElements
<1>. HIDE DEF x
<1>3. criterionRoute(c, x) \in DOMAIN c.branches
      /\ x \in ToSet(c.branches[criterionRoute(c, x)].criteria)
  BY <1>2 DEF criterionRoute
<1>4. 0 \notin DOMAIN c.branches
  BY RoutingAssumption
<1>. QED BY <1>3, <1>4 DEF x, fallbackRoute

(* The policy of adklaya: acceptedRoute compares the rounded values that   *)
(* the result shows, yet a branch is reached only if its criterion leads   *)
(* before rounding as well, and the thresholds hold of the exact values to *)
(* half a step of rounding; and a clear lead always reaches the branch.    *)
THEOREM UncertainFallsBack == NodesSpec => []UncertainGoesToFallback
<1>1. ASSUME IInv, node = "routed"
      PROVE  UncertainGoesToFallback
  <2>. DEFINE row == rows[1]
              p == row.p
              n == Len(Criteria(cfg))
              best == maximumIndex(p)
              policy == cfg.policy
              ahead(by) == \A j \in DOMAIN p \ {best} : p[best] >= p[j] + by
              clears(by) == /\ 2 * p[best] + by >= 2 * Unit * policy.minSelected
                            /\ 2 * row.confidence + by >= 2 * Unit * policy.minConfidence
                            /\ 2 * row.action - by <= 2 * Unit * policy.maxAction
              tie == \E j \in DOMAIN p \ {best} : roundFour(p[j]) = roundFour(p[best])
              accepted == /\ roundFour(p[best]) >= policy.minSelected
                          /\ roundFour(row.confidence) >= policy.minConfidence
                          /\ roundFour(row.action) <= policy.maxAction
              branch == routes # <<fallbackRoute>>
  <2>1. /\ cfg \in Configs /\ validateConfig(cfg)
        /\ p \in [1..n -> 0..Whole]
        /\ row.confidence \in Nat /\ row.action \in Nat
        /\ results[1] = resultFromDerivation(question(cfg), row)
        /\ routes = <<acceptedRoute(results[1], cfg)>>
    <3>1. Whole \in Nat
      BY StepsAssumption DEF Whole
    <3>. QED BY <1>1, <3>1, RoutedFacts
  <2>2. n \in Nat \ {0} /\ DOMAIN Criteria(cfg) = 1..n
    BY <2>1, ValidCriteria
  <2>3. /\ DOMAIN p = 1..n /\ best \in 1..n
        /\ \A j \in 1..n : p[j] \in Nat /\ p[j] <= p[best]
    <3>1. best \in 1..n /\ \A j \in 1..n : p[j] <= p[best]
      BY <2>1, <2>2, BestIndex
    <3>2. Whole \in Nat
      BY StepsAssumption DEF Whole
    <3>. QED BY <2>1, <3>1, <3>2
  <2>4. /\ policy.minSelected \in Nat /\ policy.minConfidence \in Nat
        /\ policy.maxAction \in Nat
    BY <2>1, StepsAssumption DEF validateConfig, validatePolicy
  <2>5. branch <=> ~tie /\ accepted
    <3>1. acceptedRoute(results[1], cfg) =
            IF \/ tie \/ roundFour(p[best]) < policy.minSelected
               \/ roundFour(row.confidence) < policy.minConfidence
               \/ roundFour(row.action) > policy.maxAction
            THEN fallbackRoute ELSE criterionRoute(cfg, Criteria(cfg)[best])
      BY <2>1, AcceptedRoute
    <3>2. criterionRoute(cfg, Criteria(cfg)[best]) # fallbackRoute
      BY <2>1, <2>2, <2>3, CriterionHasRoute
    <3>3. branch <=> acceptedRoute(results[1], cfg) # fallbackRoute
      BY <2>1
    <3>4. /\ roundFour(p[best]) \in Nat /\ roundFour(row.confidence) \in Nat
          /\ roundFour(row.action) \in Nat
      BY <2>1, <2>3, RoundingError
    <3>. HIDE DEF tie, branch, row, p, best, policy
    <3>. QED BY <2>4, <3>1, <3>2, <3>3, <3>4
  <2>6. /\ accepted => clears(Unit)
        /\ clears(-Unit) => accepted
    <3>1. p[best] \in Nat
      BY <2>3
    <3>2. /\ roundFour(p[best]) >= policy.minSelected
               => 2 * p[best] + Unit >= 2 * Unit * policy.minSelected
          /\ 2 * p[best] - Unit >= 2 * Unit * policy.minSelected
               => roundFour(p[best]) >= policy.minSelected
      BY <2>4, <3>1, Thresholds
    <3>3. /\ roundFour(row.confidence) >= policy.minConfidence
               => 2 * row.confidence + Unit >= 2 * Unit * policy.minConfidence
          /\ 2 * row.confidence - Unit >= 2 * Unit * policy.minConfidence
               => roundFour(row.confidence) >= policy.minConfidence
      BY <2>1, <2>4, Thresholds
    <3>4. /\ roundFour(row.action) <= policy.maxAction
               => 2 * row.action - Unit <= 2 * Unit * policy.maxAction
          /\ 2 * row.action + Unit <= 2 * Unit * policy.maxAction
               => roundFour(row.action) <= policy.maxAction
      BY <2>1, <2>4, Thresholds
    <3>5. \A a \in Nat : 2 * a + (-Unit) = 2 * a - Unit /\ 2 * a - (-Unit) = 2 * a + Unit
      BY StepsAssumption
    <3>6. accepted => clears(Unit)
      BY <3>2, <3>3, <3>4
    <3>7. clears(-Unit) => accepted
      BY <2>1, <3>1, <3>2, <3>3, <3>4, <3>5
    <3>. QED BY <3>6, <3>7
  <2>7. ~tie => ahead(1)
    <3>1. SUFFICES ASSUME ~tie, NEW j \in DOMAIN p \ {best}
                   PROVE  p[best] >= p[j] + 1
      OBVIOUS
    <3>2. roundFour(p[j]) # roundFour(p[best])
      BY <3>1
    <3>3. p[j] # p[best]
      BY <3>2
    <3>. HIDE DEF p, best
    <3>. QED BY <2>3, <3>3
  <2>8. ahead(Unit) => ~tie
    <3>1. SUFFICES ASSUME ahead(Unit), NEW j \in DOMAIN p \ {best}
                   PROVE  roundFour(p[j]) # roundFour(p[best])
      OBVIOUS
    <3>2. p[best] \in Nat /\ p[j] \in Nat /\ p[best] >= p[j] + Unit
      BY <2>3, <3>1
    <3>3. roundFour(p[j]) < roundFour(p[best])
      BY <3>2, RoundingOrder, StepsAssumption
    <3>4. roundFour(p[j]) \in Nat /\ roundFour(p[best]) \in Nat
      BY <3>2, RoundingError
    <3>. QED BY <3>3, <3>4
  <2>9. /\ branch => ahead(1) /\ clears(Unit)
        /\ ahead(Unit) /\ clears(-Unit) => branch
    <3>. HIDE DEF branch, tie, accepted, ahead, clears
    <3>. QED BY <2>5, <2>6, <2>7, <2>8
  <2>. QED BY <2>9 DEF UncertainGoesToFallback
<1>2. IInv => UncertainGoesToFallback
  BY <1>1 DEF UncertainGoesToFallback
<1>. QED BY <1>2, Invariance, PTL

(* The edges newChoiceRouting makes: one for each target, which carries    *)
(* the routes of its branches, and then the fallback's.                    *)
LEMMA EdgesOfConfig ==
  ASSUME NEW c \in Configs
  PROVE  LET order == targetOrder(c)
             k == Cardinality(ToSet(Targets(c)))
         IN /\ k \in Nat /\ order \in [1..k -> ToSet(Targets(c))]
            /\ \A i, j \in 1..k : order[i] = order[j] => i = j
            /\ \A t \in ToSet(Targets(c)) : \E i \in 1..k : order[i] = t
            /\ DOMAIN newEdges(c) = 1..(k + 1)
            /\ \A i \in 1..k :
                 newEdges(c)[i].to = order[i] /\ newEdges(c)[i].routes = targetRoutes(c, order[i])
            /\ newEdges(c)[k + 1] = [to |-> c.fallback, routes |-> {fallbackRoute}]
<1>. DEFINE order == targetOrder(c)
            S == ToSet(Targets(c))
            k == Cardinality(S)
            e(i) == [to |-> order[i], routes |-> targetRoutes(c, order[i])]
            E == [i \in DOMAIN order |-> e(i)]
            last == [to |-> c.fallback, routes |-> {fallbackRoute}]
            U == {e(i) : i \in 1..k} \union {last}
<1>1. IsFiniteSet(S)
  <2>. DEFINE T == {c.branches[i].target : i \in DOMAIN c.branches}
  <2>1. DOMAIN c.branches = 1..Len(c.branches) /\ Len(c.branches) \in Nat
    BY RoutingAssumption
  <2>2. Targets(c) \in Seq(T)
    BY <2>1 DEF Targets
  <2>. HIDE DEF T
  <2>. QED BY <2>2, SeqOntoElements
<1>2. /\ k \in Nat /\ order \in [1..k -> S]
      /\ \A i, j \in 1..k : order[i] = order[j] => i = j
      /\ \A t \in S : \E i \in 1..k : order[i] = t
  BY <1>1, ListedOnce DEF targetOrder
<1>3. newEdges(c) = E \o <<last>>
  BY DEF newEdges
<1>. HIDE DEF order, S, k, e, last
<1>4. E \in Seq(U) /\ Len(E) = k /\ <<last>> \in Seq(U)
  <2>1. DOMAIN order = 1..k
    BY <1>2
  <2>2. \A i \in 1..k : e(i) \in U
    OBVIOUS
  <2>3. last \in U
    OBVIOUS
  <2>. HIDE DEF U
  <2>. QED BY <1>2, <2>1, <2>2, <2>3
<1>5. \A i \in 1..k : E[i] = e(i)
  BY <1>2
<1>. HIDE DEF E, U
<1>6. /\ DOMAIN (E \o <<last>>) = 1..(k + 1)
      /\ \A i \in 1..k : (E \o <<last>>)[i] = E[i]
      /\ (E \o <<last>>)[k + 1] = last
  BY <1>2, <1>4
<1>7. \A i \in 1..k : e(i).to = order[i] /\ e(i).routes = targetRoutes(c, order[i])
  BY DEF e
<1>8. \A i \in 1..k : newEdges(c)[i] = e(i)
  BY <1>3, <1>5, <1>6
<1>. QED BY <1>2, <1>3, <1>6, <1>7, <1>8 DEF order, S, k, last

(* A workflow engine that follows the edges with the node's route follows  *)
(* one: to the target of the branch with the selected criterion, which may *)
(* have several branches, or to the fallback, which has none.              *)
THEOREM OneTarget == NodesSpec => []OneTargetIsReached
<1>1. ASSUME IInv, node = "routed"
      PROVE  OneTargetIsReached
  <2>. DEFINE order == targetOrder(cfg)
              S == ToSet(Targets(cfg))
              k == Cardinality(S)
              w == acceptedRoute(results[1], cfg)
  <2>1. /\ cfg \in Configs /\ validateConfig(cfg) /\ edges = newEdges(cfg)
        /\ rows[1].p \in [1..Len(Criteria(cfg)) -> 0..Whole]
        /\ results[1] = resultFromDerivation(question(cfg), rows[1])
        /\ routes = <<w>>
    BY <1>1, RoutedFacts
  <2>2. /\ k \in Nat /\ order \in [1..k -> S]
        /\ \A i, j \in 1..k : order[i] = order[j] => i = j
        /\ \A t \in S : \E i \in 1..k : order[i] = t
        /\ DOMAIN edges = 1..(k + 1)
        /\ \A i \in 1..k :
             edges[i].to = order[i] /\ edges[i].routes = targetRoutes(cfg, order[i])
        /\ edges[k + 1] = [to |-> cfg.fallback, routes |-> {fallbackRoute}]
    BY <2>1, EdgesOfConfig
  <2>3. \/ w = fallbackRoute
        \/ /\ w \in DOMAIN cfg.branches /\ w # fallbackRoute
           /\ Selected \in ToSet(cfg.branches[w].criteria)
    <3>. DEFINE best == maximumIndex(rows[1].p)
    <3>1. /\ Selected = Criteria(cfg)[best]
          /\ w = fallbackRoute \/ w = criterionRoute(cfg, Criteria(cfg)[best])
      BY <2>1, AcceptedRoute DEF Selected
    <3>2. best \in DOMAIN Criteria(cfg)
      <4>1. /\ Len(Criteria(cfg)) \in Nat \ {0}
            /\ DOMAIN Criteria(cfg) = 1..Len(Criteria(cfg))
        BY <2>1, ValidCriteria
      <4>2. rows[1].p \in [1..Len(Criteria(cfg)) -> 0..Whole]
        BY <2>1
      <4>. QED BY <4>1, <4>2, BestIndex
    <3>. HIDE DEF best, w
    <3>. QED BY <2>1, <3>1, <3>2, CriterionHasRoute
  <2>4. cfg.fallback \notin S
    BY <2>1 DEF validateConfig
  <2>5. \A i \in DOMAIN cfg.branches : cfg.branches[i].target \in S
                                       /\ cfg.branches[i] \in ToSet(cfg.branches)
    BY DEF Targets, ToSet
  <2>6. 0 \notin DOMAIN cfg.branches
    BY <2>1, RoutingAssumption
  <2>. HIDE DEF w, order, S, k
  <2>7. Taken = {i \in 1..(k + 1) : w \in edges[i].routes}
    <3>1. ToSet(routes) = {w}
      BY <2>1 DEF ToSet
    <3>. QED BY <2>2, <3>1 DEF Taken
  <2>8. \A i \in 1..k : w \in edges[i].routes
                        <=> w \in DOMAIN cfg.branches /\ cfg.branches[w].target = order[i]
    <3>1. \A i \in 1..k : edges[i].routes = targetRoutes(cfg, order[i])
      BY <2>2
    <3>. QED BY <3>1 DEF targetRoutes
  <2>9. w \in edges[k + 1].routes <=> w = fallbackRoute
    BY <2>2
  <2>10. CASE w = fallbackRoute
    <3>1. Taken = {k + 1}
      BY <2>2, <2>6, <2>7, <2>8, <2>9, <2>10 DEF fallbackRoute
    <3>2. Cardinality(Taken) = 1
      BY <3>1, FS_Singleton
    <3>3. edges[k + 1].to = cfg.fallback
      BY <2>2
    <3>. QED BY <2>1, <2>10, <3>1, <3>2, <3>3 DEF OneTargetIsReached
  <2>11. CASE w # fallbackRoute
    <3>1. /\ w \in DOMAIN cfg.branches /\ cfg.branches[w].target \in S
          /\ Selected \in ToSet(cfg.branches[w].criteria)
          /\ cfg.branches[w] \in ToSet(cfg.branches)
      BY <2>3, <2>5, <2>11
    <3>2. PICK i \in 1..k : order[i] = cfg.branches[w].target
      BY <2>2, <3>1
    <3>3. Taken = {i}
      <4>1. \A j \in 1..(k + 1) : w \in edges[j].routes <=> j = i
        <5>1. ASSUME NEW j \in 1..k
              PROVE  w \in edges[j].routes <=> j = i
          BY <2>2, <2>8, <3>1, <3>2
        <5>2. ~(w \in edges[k + 1].routes) /\ k + 1 # i
          BY <2>2, <2>9, <2>11
        <5>. QED BY <2>2, <5>1, <5>2
      <4>2. i \in 1..(k + 1)
        BY <2>2
      <4>. QED BY <2>7, <4>1, <4>2
    <3>4. Cardinality(Taken) = 1
      BY <3>3, FS_Singleton
    <3>5. edges[i].to = cfg.branches[w].target /\ edges[i].to # cfg.fallback
      <4>1. edges[i].to = order[i]
        BY <2>2
      <4>. QED BY <2>4, <3>1, <3>2, <4>1
    <3>. QED BY <3>1, <3>3, <3>4, <3>5 DEF OneTargetIsReached
  <2>. QED BY <2>10, <2>11
<1>2. IInv => OneTargetIsReached
  BY <1>1 DEF OneTargetIsReached
<1>. QED BY <1>2, Invariance, PTL
-----------------------------------------------------------------------------
(***************************************************************************)
(* Bundles. The manifest of a verified bundle has passed all its checks;   *)
(* what they say together of the declared files is a matter of counting.   *)
(***************************************************************************)
Accepted(m) ==
  m \in Manifest /\ validateManifest(m) /\ validateCompatibility(m) /\ validateLayout(m)

BundleOK ==
  /\ bundle = "read" => document \in Documents
  /\ bundle = "verified" => Accepted(manifest)

Places(m, role) == {i \in DOMAIN m.files : m.files[i].role = role}

(* The files are finitely many, and their paths differ, even without case. *)
LEMMA FilesOfManifest ==
  ASSUME NEW m, Accepted(m)
  PROVE  /\ Len(m.files) \in Nat /\ DOMAIN m.files = 1..Len(m.files)
         /\ \A i, j \in DOMAIN m.files :
              Lower(m.files[i].path) = Lower(m.files[j].path) => i = j
         /\ {Lower(m.files[i].path) : i \in DOMAIN m.files} =
              ToSet([i \in DOMAIN m.files |-> Lower(m.files[i].path)])
         /\ Cardinality({Lower(m.files[i].path) : i \in DOMAIN m.files}) = Len(m.files)
         /\ \A role : IsFiniteSet(Places(m, role))
<1>. DEFINE low == [i \in DOMAIN m.files |-> Lower(m.files[i].path)]
            paths == [i \in DOMAIN m.files |-> m.files[i].path]
            All == {Lower(m.files[i].path) : i \in DOMAIN m.files}
<1>1. m.files \in Seq([path : STRING, role : STRING])
  BY DEF Accepted, Manifest
<1>2. Len(m.files) \in Nat /\ DOMAIN m.files = 1..Len(m.files)
  BY <1>1
<1>3. low \in Seq(All) /\ Len(low) = Len(m.files)
      /\ \A i \in DOMAIN m.files : low[i] = Lower(m.files[i].path)
  BY <1>2
<1>4. NoneTwice(low)
  <2>1. NoneTwice([i \in DOMAIN paths |-> Lower(paths[i])])
    BY DEF Accepted, validateManifest, validatePaths
  <2>2. [i \in DOMAIN paths |-> Lower(paths[i])] = low
    OBVIOUS
  <2>. QED BY <2>1, <2>2
<1>5. ToSet(low) = All
  BY DEF ToSet
<1>. HIDE DEF All, low, paths
<1>6. \A i, j \in 1..Len(low) : low[i] = low[j] => i = j
  BY <1>3, <1>4, DistinctElements DEF NoneTwice
<1>7. Cardinality(All) = Len(m.files)
  BY <1>3, <1>4, <1>5 DEF NoneTwice
<1>8. ASSUME NEW role
      PROVE  IsFiniteSet(Places(m, role))
  <2>1. IsFiniteSet(1..Len(m.files))
    BY <1>1, SeqOntoElements
  <2>2. Places(m, role) \in SUBSET (1..Len(m.files))
    BY <1>2 DEF Places
  <2>. QED BY <2>1, <2>2, FS_Subset
<1>9. \A i, j \in DOMAIN m.files :
        Lower(m.files[i].path) = Lower(m.files[j].path) => i = j
  BY <1>2, <1>3, <1>6
<1>. QED BY <1>2, <1>5, <1>7, <1>8, <1>9 DEF All, low

(* A role whose required paths are as many as the files it may have: all   *)
(* its files are required.                                                 *)
LEMMA RoleIsRequired ==
  ASSUME NEW m, Accepted(m), NEW role \in Roles, NEW W,
         \A path \in W : <<path, role>> \in required(m),
         Cardinality(W) = wantRoleCount(m, role)
  PROVE  \A i \in DOMAIN m.files : m.files[i].role = role => m.files[i].path \in W
<1>. DEFINE I == Places(m, role)
            f == [i \in I |-> m.files[i].path]
<1>1. IsFiniteSet(I)
  BY FilesOfManifest
<1>2. Cardinality(I) = Cardinality(W)
  BY DEF Accepted, validateLayout, roleCount, Places
<1>3. \A w \in W : \E i \in I : f[i] = w
  <2>. SUFFICES ASSUME NEW w \in W
                PROVE  \E i \in I : f[i] = w
    OBVIOUS
  <2>1. PICK i \in DOMAIN m.files : <<m.files[i].path, m.files[i].role>> = <<w, role>>
    BY DEF Accepted, validateLayout
  <2>2. i \in I /\ m.files[i].path = w
    BY <2>1 DEF Places
  <2>. QED BY <2>2
<1>4. f = [i \in I |-> f[i]] /\ \A i \in I : f[i] = m.files[i].path
  OBVIOUS
<1>. HIDE DEF f, I
<1>5. \A i \in I : f[i] \in W
  BY <1>1, <1>2, <1>3, <1>4, ImageIsCounted
<1>. QED BY <1>4, <1>5 DEF I, Places

(* The paths each role requires are as many as the role may have files.    *)
LEMMA DeclaredIsRequired ==
  ASSUME NEW m, Accepted(m), NEW i \in DOMAIN m.files, m.files[i].role # "notice"
  PROVE  <<m.files[i].path, m.files[i].role>> \in required(m)
<1>. DEFINE role == m.files[i].role
<1>1. role \in Roles
  BY DEF Accepted, validateManifest
<1>2. \A x : IsFiniteSet({x}) /\ Cardinality({x}) = 1
  BY FS_Singleton
<1>3. CASE role = "model"
  <2>1. m.files[i].path \in {m.model.path}
    BY <1>1, <1>2, <1>3, RoleIsRequired DEF required, wantRoleCount
  <2>. QED BY <1>3, <2>1 DEF required
<1>4. CASE role = "tokenizer"
  <2>1. m.files[i].path \in {m.tokenizer.json_path}
    BY <1>1, <1>2, <1>4, RoleIsRequired DEF required, wantRoleCount
  <2>. QED BY <1>4, <2>1 DEF required
<1>5. CASE role = "tokenizer-config"
  <2>1. m.files[i].path \in {m.tokenizer.config_path}
    BY <1>1, <1>2, <1>5, RoleIsRequired DEF required, wantRoleCount
  <2>. QED BY <1>5, <2>1 DEF required
<1>6. CASE role = "agent-config"
  <2>1. m.files[i].path \in {m.calibration.config_path}
    BY <1>1, <1>2, <1>6, RoleIsRequired DEF required, wantRoleCount
  <2>. QED BY <1>6, <2>1 DEF required
<1>7. CASE role = "model-external-data"
  <2>. DEFINE data == m.model.external_data
              W == ToSet(data)
  <2>1. data \in Seq(STRING)
    BY DEF Accepted, Manifest
  <2>2. \A j, k \in 1..Len(data) : data[j] = data[k] => j = k
    <3>. DEFINE low == [j \in DOMAIN data |-> Lower(data[j])]
                All == {Lower(data[j]) : j \in DOMAIN data}
    <3>1. low \in Seq(All) /\ Len(low) = Len(data) /\ DOMAIN data = 1..Len(data)
          /\ \A j \in 1..Len(data) : low[j] = Lower(data[j])
      BY <2>1
    <3>2. Cardinality(ToSet(low)) = Len(low)
      BY DEF Accepted, validateManifest, validatePaths, NoneTwice
    <3>. HIDE DEF low, All
    <3>3. \A j, k \in 1..Len(low) : low[j] = low[k] => j = k
      BY <3>1, <3>2, DistinctElements
    <3>. QED BY <3>1, <3>3
  <2>. HIDE DEF data
  <2>3. Cardinality(W) = Len(data)
    BY <2>1, <2>2, DistinctCounted
  <2>4. Cardinality(W) = wantRoleCount(m, role)
    BY <1>7, <2>3 DEF wantRoleCount, data
  <2>5. \A path \in W : <<path, role>> \in required(m)
    BY <1>7 DEF required, data
  <2>. HIDE DEF W, role
  <2>6. m.files[i].path \in W
    BY <1>1, <2>4, <2>5, RoleIsRequired DEF role
  <2>. QED BY <2>5, <2>6 DEF role
<1>8. CASE role = "license"
  <2>. DEFINE W == ToSet(m.provenance.licenses)
  <2>1. m.provenance.licenses = <<"LICENSE.model", "LICENSE.sdk">>
    BY DEF Accepted, validateCompatibility
  <2>2. m.provenance.licenses \in Seq(STRING)
    BY DEF Accepted, Manifest
  <2>3. Cardinality(W) = Len(m.provenance.licenses)
    <3>1. \A j, k \in 1..Len(m.provenance.licenses) :
            m.provenance.licenses[j] = m.provenance.licenses[k] => j = k
      BY <2>1
    <3>. QED BY <2>2, <3>1, DistinctCounted
  <2>4. Cardinality(W) = wantRoleCount(m, role)
    BY <1>8, <2>3 DEF wantRoleCount
  <2>5. \A path \in W : <<path, role>> \in required(m)
    BY <1>8 DEF required
  <2>. HIDE DEF W, role
  <2>6. m.files[i].path \in W
    BY <1>1, <2>4, <2>5, RoleIsRequired DEF role
  <2>. QED BY <2>5, <2>6 DEF role
<1>. QED BY <1>1, <1>3, <1>4, <1>5, <1>6, <1>7, <1>8 DEF Roles

(* A bundle is verified only if its manifest has passed all the checks of  *)
(* Parse and validateLayout, and its manifest is not changed afterwards.   *)
LEMMA BundleInvariance == Spec => []BundleOK
<1>1. Init => BundleOK
  BY DEF Init, BundleInit, BundleOK
<1>2. BundleOK /\ [Next]_vars => BundleOK'
  <2>. SUFFICES ASSUME BundleOK, [Next]_vars
                PROVE  BundleOK'
    OBVIOUS
  <2>1. CASE ReadManifest
    BY <2>1 DEF ReadManifest, BundleOK
  <2>2. CASE Verify
    <3>1. bundle = "read" /\ document \in Documents /\ bundle' = verdict(document)
      BY <2>2 DEF Verify, BundleOK
    <3>2. bundle' = "verified" => Accepted(decoded(document))
      BY <3>1, DecodedAssumption DEF verdict, parses, Accepted
    <3>3. bundle' = "verified" => manifest' = decoded(document)
      BY <2>2 DEF Verify
    <3>4. bundle' # "read"
      BY <3>1 DEF verdict
    <3>5. bundle' = "verified" => Accepted(manifest')
      BY <3>2, <3>3
    <3>. QED BY <3>4, <3>5 DEF BundleOK
  <2>3. CASE ReadAgentConfig
    BY <2>3 DEF ReadAgentConfig, BundleOK
  <2>4. CASE ReadCalibration
    <3>1. bundle' \in {"failed", "open"}
      BY <2>4 DEF ReadCalibration
    <3>. QED BY <3>1 DEF BundleOK
  <2>5. CASE UNCHANGED bundleVars
    BY <2>5 DEF bundleVars, BundleOK, Accepted
  <2>6. UNCHANGED vars => UNCHANGED bundleVars
    BY DEF vars
  <2>. QED BY <2>1, <2>2, <2>3, <2>4, <2>5, <2>6 DEF Next, OpenModel, BundleNext, AskModel
<1>. QED BY <1>1, <1>2, PTL DEF Spec

(* The declared files of a verified bundle are exactly its artifacts: the  *)
(* required paths in their roles and a notice for each license, no two of  *)
(* which differ in case only, and never the manifest (parse.go,            *)
(* compatibility.go and validateLayout together).                          *)
THEOREM DeclaredFiles == Spec => []DeclaredFilesAreTheArtifacts
<1>1. ASSUME BundleOK, bundle = "verified"
      PROVE  DeclaredFilesAreTheArtifacts
  <2>. DEFINE m == manifest
              files == m.files
              declared == {<<f.path, f.role>> : f \in ToSet(files)}
              notices == {d \in declared : d[2] = "notice"}
              folded == {Lower(d[1]) : d \in declared}
              I == Places(m, "notice")
              entry == [i \in I |-> <<files[i].path, files[i].role>>]
  <2>1. Accepted(m)
    BY <1>1 DEF BundleOK
  <2>2. /\ \A i \in DOMAIN files : <<files[i].path, files[i].role>> \in declared
        /\ \A d \in declared : \E i \in DOMAIN files : d = <<files[i].path, files[i].role>>
    BY DEF ToSet
  <2>3. declared \ notices = required(m)
    <3>1. ASSUME NEW d \in declared, d \notin notices
          PROVE  d \in required(m)
      <4>1. PICK i \in DOMAIN files : d = <<files[i].path, files[i].role>>
        BY <2>2
      <4>. QED BY <2>1, <3>1, <4>1, DeclaredIsRequired
    <3>2. ASSUME NEW d \in required(m)
          PROVE  d \in declared \ notices
      <4>1. d \in declared
        <5>1. PICK i \in DOMAIN files : <<files[i].path, files[i].role>> = d
          BY <2>1 DEF Accepted, validateLayout
        <5>. QED BY <2>2, <5>1
      <4>2. d[2] # "notice"
        BY DEF required
      <4>. QED BY <4>1, <4>2
    <3>. HIDE DEF declared, notices
    <3>. QED BY <3>1, <3>2 DEF notices
  <2>4. Cardinality(notices) = Len(m.provenance.licenses)
    <3>1. IsFiniteSet(I)
      BY <2>1, FilesOfManifest
    <3>2. \A i, j \in I : entry[i] = entry[j] => i = j
      BY <2>1, FilesOfManifest DEF Places
    <3>3. {entry[i] : i \in I} = notices
      <4>1. ASSUME NEW i \in I
            PROVE  entry[i] \in notices
        <5>1. i \in DOMAIN files /\ files[i].role = "notice"
          BY DEF Places
        <5>2. <<files[i].path, files[i].role>> \in declared
          BY <2>2, <5>1
        <5>. HIDE DEF declared
        <5>. QED BY <5>1, <5>2
      <4>2. ASSUME NEW d \in notices
            PROVE  \E i \in I : d = entry[i]
        <5>1. PICK i \in DOMAIN files : d = <<files[i].path, files[i].role>>
          BY <2>2
        <5>2. i \in I
          BY <5>1 DEF Places
        <5>. QED BY <5>1, <5>2
      <4>. HIDE DEF entry, I, notices
      <4>. QED BY <4>1, <4>2
    <3>4. Cardinality(I) = Len(m.provenance.licenses)
      BY <2>1 DEF Accepted, validateLayout, roleCount, wantRoleCount, Roles, Places
    <3>5. entry = [i \in I |-> entry[i]]
      OBVIOUS
    <3>. HIDE DEF entry, I, notices
    <3>6. Cardinality({entry[i] : i \in I}) = Cardinality(I)
      BY <3>1, <3>2, <3>5, InjectiveImage
    <3>. QED BY <3>3, <3>4, <3>6
  <2>5. Cardinality(folded) = Len(files) /\ "manifest.json" \notin folded
    <3>1. folded = {Lower(files[i].path) : i \in DOMAIN files}
      <4>1. ASSUME NEW i \in DOMAIN files
            PROVE  Lower(files[i].path) \in folded
        <5>1. PICK d \in declared : d = <<files[i].path, files[i].role>>
          BY <2>2
        <5>2. d[1] = files[i].path
          BY <5>1
        <5>. HIDE DEF declared
        <5>. QED BY <5>2
      <4>2. ASSUME NEW x \in folded
            PROVE  \E i \in DOMAIN files : x = Lower(files[i].path)
        <5>1. PICK d \in declared : x = Lower(d[1])
          OBVIOUS
        <5>2. PICK i \in DOMAIN files : d = <<files[i].path, files[i].role>>
          BY <2>2
        <5>3. d[1] = files[i].path
          BY <5>2
        <5>. QED BY <5>1, <5>3
      <4>. HIDE DEF folded
      <4>. QED BY <4>1, <4>2
    <3>2. \A i \in DOMAIN files : Lower(files[i].path) # "manifest.json"
      BY <2>1 DEF Accepted, validateLayout
    <3>3. Cardinality({Lower(files[i].path) : i \in DOMAIN files}) = Len(files)
      BY <2>1, FilesOfManifest
    <3>. HIDE DEF folded
    <3>. QED BY <3>1, <3>2, <3>3
  <2>. QED BY <2>3, <2>4, <2>5 DEF DeclaredFilesAreTheArtifacts
<1>2. BundleOK => DeclaredFilesAreTheArtifacts
  BY <1>1 DEF DeclaredFilesAreTheArtifacts
<1>. QED BY <1>2, BundleInvariance, PTL
-----------------------------------------------------------------------------
(* Whatever a workflow does with the model of a bundle, the nodes make one *)
(* of their behaviours: a step of Bundle is a stutter for them, and a step *)
(* of a node one with the calibration that was read (openVerified and      *)
(* Predict share nothing else).                                            *)
THEOREM WorkflowIsNodes == Spec => NodesSpec
<1>1. Init => NodesInit
  BY DEF Init
<1>2. [Next]_vars => [\E config \in Served : NodesNext(config)]_nodesVars
  BY DEF Next, OpenModel, AskModel, vars
<1>. QED BY <1>1, <1>2, PTL DEF Spec, NodesSpec

(* So that in a workflow, from the bundle on, predictions are answered and *)
(* agree with their distributions, data nodes answer their own questions,  *)
(* and a routing node leads to one target, uncertain ones to the fallback. *)
THEOREM WorkflowKeepsNodes ==
  Spec => [](/\ FiniteOutputsAreAnswered /\ AnswerAgreesWithDistribution
             /\ NodeAnswersItsQuestions
             /\ UncertainGoesToFallback /\ OneTargetIsReached)
BY WorkflowIsNodes, FiniteAnswered, AnswersAgree, OwnQuestions, UncertainFallsBack, OneTarget, PTL
=============================================================================
