------------------------------ MODULE Preprocess ------------------------------
(***************************************************************************)
(* How a State and its questions become one batch of model inputs          *)
(* (preprocess.go, state.go): every question is rendered, cut to the       *)
(* budgets of the bundle and laid out with the State; the rows are padded  *)
(* to one shape. The rows have to be those of the Python reference.        *)
(*                                                                         *)
(* A text is a sequence of words, and a word is one token; some words may  *)
(* spell a special token. A question has its kind, its instructions and    *)
(* its options, each with its identifier and its description.              *)
(***************************************************************************)
EXTENDS Integers, Sequences, FiniteSetsExt, SequencesExt, TLC

CONSTANTS MaxLen, HeadMaxLen, OptionMaxLen, HeadReserve, \* manifest.Preprocessing
          Vocabulary,       \* the words of texts
          Questions,        \* [kind, instructions, options : sequence of [id, description]]
          Inputs,           \* what States are made of: text, and JSON, well-formed or not
          InputTokenLimits, \* values of ModelOptions.InputTokenLimit
          MaxQuestions      \* bound: questions of a batch

(* What parse.go and compatibility.go, which asks for a HeadReserve of 16, *)
(* leave of manifests, and validateQuestion of questions.                  *)
ASSUME ManifestAssumption ==
  /\ {MaxLen, HeadMaxLen, OptionMaxLen, HeadReserve, MaxQuestions} \subseteq Nat \ {0}
  /\ HeadMaxLen <= MaxLen
  /\ HeadReserve >= 8
  /\ InputTokenLimits \subseteq Nat
  /\ \A q \in Questions : Len(q.options) >= 2 /\ (q.kind = "noul" => Len(q.options) = 2)

(* Texts are made of words, those this module spells among them; no word   *)
(* is one of the names the model has for the special tokens.               *)
ASSUME TextAssumption ==
  /\ Vocabulary \intersect {"cls", "sep", "mask", "pad"} = {}
  /\ {"choice", "score", "noul", "question:", ":", "level", " ", "false", "true", "no",
      "the", "statement", "does", "not", "hold", "yes", "holds"} \subseteq Vocabulary
  /\ Inputs \subseteq Seq(Vocabulary)
  /\ Questions \subseteq
       [kind : {"choice", "score", "noul"}, instructions : Seq(Vocabulary),
        options : Seq([id : Vocabulary, description : Seq(Vocabulary)])]
  /\ \A q \in Questions : \A i \in DOMAIN q.options : ToString(i - 1) \in Vocabulary

VARIABLES
  state, limit, policy, \* the request
  asked,                \* the questions prepared so far
  items,                \* their preparedItems
  batch,                \* the preparedBatch
  status                \* new, preparing, rejected or ready

vars == <<state, limit, policy, asked, items, batch, status>>

NoBatch == [inputIDs |-> <<>>, attentionMask |-> <<>>, markerPos |-> <<>>,
            markerMask |-> <<>>, qtype |-> <<>>,
            original |-> 0, effective |-> 0, truncated |-> FALSE]

(* The elements of s that are in S, one after the other.                   *)
Kept(s, S) == FoldLeft(LAMBDA kept, x : IF x \in S THEN Append(kept, x) ELSE kept, <<>>, s)
-----------------------------------------------------------------------------
(***************************************************************************)
(* State: a zero State has no kind; a JSON one is kept without the blanks  *)
(* between its tokens. "{" in a text stands for what JSON does not allow.  *)
(***************************************************************************)
ZeroState == [kind |-> "invalid", text |-> <<>>]

TextState(text) == [kind |-> "text", text |-> text]

JSONState(data) ==
  IF data = <<>> \/ "{" \in ToSet(data) THEN ZeroState
  ELSE [kind |-> "json", text |-> Kept(data, Vocabulary \ {" "})]

validateState(s) == s.kind # "invalid"

modelStateText == state.text
-----------------------------------------------------------------------------
(***************************************************************************)
(* normalizeQuestion: the texts of the options, and the qtype.             *)
(***************************************************************************)
normalizeChoice(q) ==
  [options |-> [i \in DOMAIN q.options |->
     LET criterion == q.options[i] IN
     IF criterion.description = <<>> THEN <<criterion.id>>
     ELSE <<criterion.id, ":">> \o criterion.description],
   qtype |-> 0]

normalizeScore_FromOne(q) ==
  [options |-> [i \in DOMAIN q.options |->
     <<"level", ToString(i), ":">> \o q.options[i].description],
   qtype |-> 1]

normalizeScore(q) ==
  [options |-> [i \in DOMAIN q.options |->
     <<"level", ToString(i - 1), ":">> \o q.options[i].description],
   qtype |-> 1]

normalizeNoul(q) ==
  LET falseText == q.options[1].description
      trueText == q.options[2].description
  IN [options |->
        <<<<"false", ":">> \o IF falseText # <<>> THEN falseText
                               ELSE <<"no", "the", "statement", "does", "not", "hold">>,
          <<"true", ":">> \o IF trueText # <<>> THEN trueText
                              ELSE <<"yes", "the", "statement", "holds">>>>,
      qtype |-> 2]

normalizeQuestion(q) ==
  CASE q.kind = "choice" -> normalizeChoice(q)
    [] q.kind = "score" -> normalizeScore(q)
    [] q.kind = "noul" -> normalizeNoul(q)
-----------------------------------------------------------------------------
(***************************************************************************)
(* prepareItem.                                                            *)
(***************************************************************************)
Fill(n, token) == [i \in 1..n |-> token]
Cut(s, n) == SubSeq(s, 1, IF Len(s) > n THEN n ELSE Len(s))
Larger(a, b) == IF a > b THEN a ELSE b

(* The tokenizer turns a spelled special token into the token itself; of   *)
(* these, sanitize takes only the mask token out of a text.                *)
tokenOf(word) ==
  CASE word = "<mask>" -> "mask"
    [] word = "<sep>" -> "sep"
    [] word = "<cls>" -> "cls"
    [] word = "<pad>" -> "pad"
    [] OTHER -> word

Encode(text) == [i \in DOMAIN text |-> tokenOf(text[i])]

sanitize_Not(text) == text

(* strings.ReplaceAll(text, maskTokenText, " ").                           *)
sanitize(text) == [i \in DOMAIN text |-> IF text[i] = "<mask>" THEN " " ELSE text[i]]

encodeText(text) == Encode(text)

totalLength(seqs) == Len(FlattenSeq(seqs))

(* An option is its mask token and its text, cut to OptionMaxLen ...       *)
encodedOptions(q) ==
  LET texts == normalizeQuestion(q).options
  IN [i \in DOMAIN texts |-> <<"mask">> \o Cut(encodeText(sanitize(texts[i])), OptionMaxLen)]

perOption_NoMinimum(n) == (HeadMaxLen - HeadReserve) \div Larger(1, n)

perOption(n) == Larger(4, (HeadMaxLen - HeadReserve) \div Larger(1, n))

(* ... and cut again when too little would be left for the instructions.   *)
budgetedOptions(q) ==
  LET options == encodedOptions(q) IN
  IF HeadMaxLen - totalLength(options) < HeadReserve
  THEN [i \in DOMAIN options |-> Cut(options[i], perOption(Len(options)))]
  ELSE options

budgetedHead(q) ==
  Cut(encodeText(<<q.kind, "question:">> \o sanitize(q.instructions)),
      Larger(8, HeadMaxLen - totalLength(budgetedOptions(q))))

(* Where each option starts, counted from 0 as the code does.              *)
markersOf(q) ==
  LET options == budgetedOptions(q)
      start == Len(budgetedHead(q)) + 2
  IN [i \in DOMAIN options |-> start + totalLength(SubSeq(options, 1, i - 1))]

fixedPart(q) ==
  <<"cls">> \o budgetedHead(q) \o <<"sep">> \o FlattenSeq(budgetedOptions(q)) \o <<"sep">>

originalTokens(q) == Len(fixedPart(q)) + Len(modelStateText) + 1

rejects_LimitPlusOne(q) ==
  \/ policy = "RejectOverflow" /\ originalTokens(q) > limit
  \/ Len(fixedPart(q)) > limit

(* The returns with InputTooLongError before anything is cut to the limit. *)
rejects(q) ==
  \/ policy = "RejectOverflow" /\ originalTokens(q) > limit
  \/ Len(fixedPart(q)) + 1 > limit

(* The row: the State is cut to the room left, and the row to the limit.   *)
rowOf(q) ==
  LET room == Larger(0, limit - Len(fixedPart(q)) - 1)
  IN Cut(fixedPart(q) \o Cut(encodeText(sanitize(modelStateText)), room) \o <<"sep">>, limit)

retainedMarkers(q) == Kept(markersOf(q), 0..(limit - 1))

prepareItem(q) ==
  [inputIDs |-> rowOf(q),
   markerPositions |-> retainedMarkers(q),
   qtype |-> normalizeQuestion(q).qtype,
   originalTokens |-> originalTokens(q),
   truncated |-> originalTokens(q) > Len(rowOf(q))]
-----------------------------------------------------------------------------
(***************************************************************************)
(* prepareInferenceBatch and collatePrepared.                              *)
(***************************************************************************)
effectiveLimit(inputTokenLimit) ==
  IF inputTokenLimit > 0 /\ inputTokenLimit < MaxLen THEN inputTokenLimit ELSE MaxLen

Init ==
  /\ state \in {ZeroState} \union {TextState(d) : d \in Inputs} \union {JSONState(d) : d \in Inputs}
  /\ \E l \in InputTokenLimits : limit = effectiveLimit(l)
  /\ policy \in {"RejectOverflow", "TruncateOverflow"}
  /\ asked = <<>>
  /\ items = <<>>
  /\ batch = NoBatch
  /\ status = "new"

(* The checks of the request; the questions have passed those of Answers.  *)
Validate ==
  /\ status = "new"
  /\ status' = IF validateState(state) THEN "preparing" ELSE "rejected"
  /\ UNCHANGED <<state, limit, policy, asked, items, batch>>

(* The next question: one that does not fit, or that the tokenizer refuses *)
(* (any, for this model), rejects the whole request.                       *)
PrepareQuestion ==
  /\ status = "preparing"
  /\ Len(asked) < MaxQuestions
  /\ \E q \in Questions :
       /\ asked' = Append(asked, q)
       /\ \/ status' = "rejected" /\ UNCHANGED items
          \/ /\ ~rejects(q) /\ Len(retainedMarkers(q)) = Len(q.options)
             /\ items' = Append(items, prepareItem(q)) /\ UNCHANGED status
  /\ UNCHANGED <<state, limit, policy, batch>>

Pad(s, n, filler) == s \o Fill(n - Len(s), filler)
Sum(s) == FoldSeq(LAMBDA a, b : a + b, 0, s)

(* The widths of the tensors, and the flag of the metadata.                *)
sequenceLength == Max({Len(items[i].inputIDs) : i \in DOMAIN items})
markerLength == Max({Len(items[i].markerPositions) : i \in DOMAIN items})

anyTruncated_Last == items[Len(items)].truncated
anyTruncated == \E i \in DOMAIN items : items[i].truncated

collatePrepared ==
  [inputIDs |-> [i \in DOMAIN items |-> Pad(items[i].inputIDs, sequenceLength, "pad")],
   attentionMask |->
     [i \in DOMAIN items |-> Pad(Fill(Len(items[i].inputIDs), 1), sequenceLength, 0)],
   markerPos |-> [i \in DOMAIN items |-> Pad(items[i].markerPositions, markerLength, 0)],
   markerMask |->
     [i \in DOMAIN items |-> Pad(Fill(Len(items[i].markerPositions), TRUE), markerLength, FALSE)],
   qtype |-> [i \in DOMAIN items |-> items[i].qtype],
   original |-> Sum([i \in DOMAIN items |-> items[i].originalTokens]),
   effective |-> Sum([i \in DOMAIN items |-> Len(items[i].inputIDs)]),
   truncated |-> anyTruncated]

(* The check NewPrediction makes of the metadata (result.go).              *)
validateTruncation(b) ==
  IF b.truncated THEN b.original > b.effective ELSE b.original = b.effective

CollatePrepared ==
  /\ status = "preparing"
  /\ items # <<>>
  /\ batch' = collatePrepared
  /\ status' = "ready"
  /\ UNCHANGED <<state, limit, policy, asked, items>>

Next == Validate \/ PrepareQuestion \/ CollatePrepared

Spec == Init /\ [][Next]_vars
-----------------------------------------------------------------------------
(***************************************************************************)
(* Properties. The row of a question in full, which the code never builds, *)
(* is the reference: nothing of it is cut.                                 *)
(***************************************************************************)
WholeTokens(q) ==
  LET texts == normalizeQuestion(q).options
  IN 6 + Len(q.instructions) + Len(state.text) + Sum([i \in DOMAIN texts |-> 1 + Len(texts[i])])

Py == INSTANCE Reference WITH encode <- Encode

(* Every option of every row is read at its own mask token, and the row    *)
(* holds no other: neither cutting nor a mask token spelled in a text puts *)
(* a marker elsewhere or adds one (preprocess.go: markers, ReplaceAll). In *)
(* the padded tensors of a batch, which are rectangular, the counted       *)
(* markers are the attended mask tokens (collatePrepared).                 *)
MarkersAreTheMasks ==
  /\ \A i \in DOMAIN items :
       LET row == items[i].inputIDs IN
       /\ Len(items[i].markerPositions) = Len(asked[i].options)
       /\ ToSet(items[i].markerPositions) = {p - 1 : p \in {j \in DOMAIN row : row[j] = "mask"}}
  /\ status = "ready" =>
       \A i \in DOMAIN items :
         LET row == batch.inputIDs[i]
             counted == {m \in DOMAIN batch.markerMask[i] : batch.markerMask[i][m]}
         IN /\ Len(row) = Len(batch.inputIDs[1])
            /\ {batch.markerPos[i][m] : m \in counted} =
                 {p - 1 : p \in {j \in DOMAIN row : row[j] = "mask" /\ batch.attentionMask[i][j] = 1}}

(* A row keeps to all its budgets: it never exceeds the limit, keeps the   *)
(* separators of its layout (behind the instructions, the options and the  *)
(* State, whatever special tokens these spell), and says it is truncated   *)
(* exactly when the State was cut; instructions and options together keep  *)
(* to HeadMaxLen, or to the minimum of 8 and 4 tokens each; and every      *)
(* option keeps its mask token and three tokens of its text.               *)
RowsKeepTheirBudgets ==
  \A i \in DOMAIN items :
    LET row == items[i].inputIDs
        options == budgetedOptions(asked[i])
        head == 2 + Len(budgetedHead(asked[i]))   \* where the instructions have ended
        fixed == Len(fixedPart(asked[i]))         \* and where the options have
        kept == Len(row) - fixed - 1              \* tokens of the State
    IN /\ Len(row) <= limit
       /\ head < fixed /\ fixed < Len(row)
       /\ row[head] = "sep" /\ row[fixed] = "sep" /\ row[Len(row)] = "sep"
       /\ items[i].truncated <=> kept < Len(state.text)
       /\ fixed <= 3 + Larger(HeadMaxLen, 8 + 4 * Len(options))
       /\ \A o \in DOMAIN options :
            Len(options[o]) >= 1 + Min({OptionMaxLen, 3, Len(normalizeQuestion(asked[i]).options[o])})

(* Parity with the pinned Python (docs/upstream-parity-v1.md): every row   *)
(* the Go code does not reject, with its markers and its qtype, is the one *)
(* reference.py builds for the same limit, and the batch is its collate,   *)
(* although one cuts silently what the other rejects.                      *)
RowsMatchReference ==
  LET pythonItem(i) == Py!build_sequence(state.text, asked[i], limit, HeadMaxLen)
      goBatch == [input_ids |-> batch.inputIDs, attention_mask |-> batch.attentionMask,
                  marker_pos |-> batch.markerPos, marker_mask |-> batch.markerMask,
                  qtype |-> batch.qtype]
  IN /\ \A i \in DOMAIN items :
          [input_ids |-> items[i].inputIDs, marker_positions |-> items[i].markerPositions,
           qtype |-> items[i].qtype] = pythonItem(i)
     /\ status = "ready" => goBatch = Py!collate([i \in DOMAIN items |-> pythonItem(i)])

(* Nothing of the State is lost unreported: a batch is marked truncated    *)
(* exactly when its rows hold fewer tokens than they had, as the check of  *)
(* the Prediction asks, and under RejectOverflow it never is.              *)
TruncationIsReported ==
  status = "ready" =>
    /\ validateTruncation(batch)
    /\ policy = "RejectOverflow" => ~batch.truncated

(* "Truncation is opt-in through ModelOptions; successful truncation is    *)
(* visible in PredictionMetadata": under RejectOverflow, a batch that is   *)
(* not rejected holds all of the instructions and options.                 *)
TruncationIsOptIn ==
  status = "ready" /\ policy = "RejectOverflow" =>
    \A i \in DOMAIN items : Len(items[i].inputIDs) = WholeTokens(asked[i])
=============================================================================
