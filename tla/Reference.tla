------------------------------ MODULE Reference ------------------------------
(***************************************************************************)
(* The Python the Go code has to agree with: the pinned preprocessing and  *)
(* postprocessing of tools/export/src/laya_export/reference.py, which the  *)
(* parity corpus is made with. Operators only; Preprocess and Workflow     *)
(* compare what the Go code does with them.                                *)
(*                                                                         *)
(* A text is a sequence of words, and encode gives the tokens of a text. A *)
(* question has its kind, its instructions and its options, each with its  *)
(* identifier and its description.                                         *)
(***************************************************************************)
EXTENDS Integers, Sequences, SequencesExt, TLC

CONSTANTS encode(_),                  \* Tokenizer.encode
          OptionMaxLen, HeadReserve   \* the 48 and the 16 of build_sequence

QTYPES == [choice |-> 0, score |-> 1, noul |-> 2]

First(s, n) == SubSeq(s, 1, IF n < Len(s) THEN n ELSE Len(s))
Greater(a, b) == IF a < b THEN b ELSE a
Unmasked(text) == [i \in DOMAIN text |-> IF text[i] = "<mask>" THEN " " ELSE text[i]]

DefaultCriterion == <<<<"no", "the", "statement", "does", "not", "hold">>,
                      <<"yes", "the", "statement", "holds">>>>

render_options(q) ==
  [i \in DOMAIN q.options |->
     LET option == q.options[i] IN
     CASE q.kind = "choice" -> IF option.description = << >> THEN <<option.id>>
                               ELSE <<option.id, ":">> \o option.description
       [] q.kind = "score" -> <<"level", ToString(i - 1), ":">> \o option.description
       [] q.kind = "noul" -> <<IF i = 1 THEN "false" ELSE "true", ":">> \o
                               IF option.description = << >> THEN DefaultCriterion[i]
                               ELSE option.description]

(* Options are cut to their limit, and again if the head is short of room. *)
OptionIds(q) ==
  [i \in DOMAIN q.options |->
     <<"mask">> \o First(encode(Unmasked(render_options(q)[i])), OptionMaxLen)]
OptionBudget(options, head_max_len) == head_max_len - Len(FlattenSeq(options))

FittedOptions(q, head_max_len) ==
  LET share == Greater(4, (head_max_len - HeadReserve) \div Greater(1, Len(q.options)))
  IN IF OptionBudget(OptionIds(q), head_max_len) < HeadReserve
     THEN [i \in DOMAIN q.options |-> First(OptionIds(q)[i], share)]
     ELSE OptionIds(q)

FittedHead(q, head_max_len) ==
  First(encode(<<q.kind, "question:">> \o Unmasked(q.instructions)),
        Greater(8, OptionBudget(FittedOptions(q, head_max_len), head_max_len)))

(* The head and the options, with a marker before each option, and then    *)
(* as much of the State as there is room for; in the end all is cut.       *)
Extended(sequence, option) ==
  [input_ids |-> sequence.input_ids \o option,
   markers |-> Append(sequence.markers, Len(sequence.input_ids))]
Laid(head, options) ==
  FoldLeft(Extended, [input_ids |-> <<"cls">> \o head \o <<"sep">>, markers |-> << >>], options)

Retained(markers, max_len) ==
  FoldLeft(LAMBDA kept, m : IF m < max_len THEN Append(kept, m) ELSE kept, << >>, markers)

build_sequence(state, q, max_len, head_max_len) ==
  LET laid == Laid(FittedHead(q, head_max_len), FittedOptions(q, head_max_len))
      fixed == Append(laid.input_ids, "sep")
      room == Greater(0, max_len - Len(fixed) - 1)
  IN [input_ids |-> First(fixed \o First(encode(Unmasked(state)), room) \o <<"sep">>, max_len),
      marker_positions |-> Retained(laid.markers, max_len),
      qtype |-> QTYPES[q.kind]]

Longest(seqs) == FoldLeft(LAMBDA n, s : Greater(n, Len(s)), 0, seqs)
Padded(s, n, filler) == [i \in 1..n |-> IF i <= Len(s) THEN s[i] ELSE filler]

collate(items) ==
  LET ids == [i \in DOMAIN items |-> items[i].input_ids]
      markers == [i \in DOMAIN items |-> items[i].marker_positions]
      ones(s) == [i \in DOMAIN s |-> 1]
      trues(s) == [i \in DOMAIN s |-> TRUE]
  IN [input_ids |-> [i \in DOMAIN items |-> Padded(ids[i], Longest(ids), "pad")],
      attention_mask |-> [i \in DOMAIN items |-> Padded(ones(ids[i]), Longest(ids), 0)],
      marker_pos |-> [i \in DOMAIN items |-> Padded(markers[i], Longest(markers), 0)],
      marker_mask |-> [i \in DOMAIN items |-> Padded(trues(markers[i]), Longest(markers), FALSE)],
      qtype |-> [i \in DOMAIN items |-> items[i].qtype]]
-----------------------------------------------------------------------------
(***************************************************************************)
(* Temperatures, in tenths, of values as Calibration describes them.       *)
(***************************************************************************)
TEMP_MIN == 5
TEMP_MAX == 50

(* float(value), where it gives a finite number.                           *)
Float(value) ==
  CASE value.type \in {"number", "string"} /\ value.form = "plain" -> {value.n}
    [] value.type = "string" /\ value.form = "padded" -> {value.n}
    [] value.type = "bool" -> {IF value.form = "true" THEN 10 ELSE 0}
    [] OTHER -> {}

clamp_temperature(value) ==
  IF Float(value) = {} THEN 10
  ELSE LET t == CHOOSE f \in Float(value) : TRUE
       IN IF t > TEMP_MAX THEN TEMP_MAX ELSE Greater(TEMP_MIN, t)

Sizes == <<[upTo |-> 2, name |-> "2"], [upTo |-> 5, name |-> "3-5"], [upTo |-> 10, name |-> "6-10"]>>

temperature_bucket(kind, option_count) ==
  LET sizes == SelectSeq(Sizes, LAMBDA s : option_count <= s.upTo)
  IN kind \o ":" \o (IF sizes = << >> THEN "11+" ELSE Head(sizes).name)

select_temperature(kind, option_count, temperatures, temperatures_by_options) ==
  LET bucket == temperature_bucket(kind, option_count)
  IN IF bucket \in DOMAIN temperatures_by_options THEN temperatures_by_options[bucket]
     ELSE temperatures[QTYPES[kind] + 1]
=============================================================================
