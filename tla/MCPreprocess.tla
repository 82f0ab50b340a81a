----------------------------- MODULE MCPreprocess -----------------------------
(* Small instances of Preprocess for TLC: lengths on both sides of every   *)
(* budget, with and without special tokens spelled in the text. The words  *)
(* of a text are numbered, so that it shows which of them a cut has left.  *)
EXTENDS Preprocess

Words(n) == [i \in 1..n |-> ToString(i)]
Masked(n) == <<"<mask>">> \o Words(n - 1)
Special(n) == Words(n - 3) \o <<"<sep>", "<cls>", "<pad>">>

Texts == {Words(1), Special(4), Masked(3)}
IDs == <<"a", "b", "<mask>", "d", "e">>

Options(descriptions) ==
  [i \in DOMAIN descriptions |-> [id |-> IDs[i], description |-> descriptions[i]]]
Alike(sizes) == {Options(Fill(n, t)) : n \in sizes, t \in Texts}
Pairs(texts) == {Options(d) : d \in [1..2 -> texts]}

Instructions == {<<"<sep>">>, Masked(12)}
SmallQuestions ==
  [kind : {"choice"}, instructions : Instructions, options : Pairs(Texts) \union Alike({3, 5})]
    \union [kind : {"score"}, instructions : Instructions, options : Alike({2, 3, 5})]
    \union [kind : {"noul"}, instructions : Instructions, options : Pairs({<<>>, Masked(5)})]

SmallInputs == {<<>>, Special(4), Masked(12), Special(12), <<"1", " ", "2">>, <<"{">>}

SmallVocabulary ==
  {"choice", "score", "noul", "question:", ":", "level", " ", "false", "true", "no", "the",
   "statement", "does", "not", "hold", "yes", "holds", "<mask>", "<sep>", "<cls>", "<pad>",
   "{", "a", "b", "d", "e"}
    \union {ToString(i) : i \in 0..12}
=============================================================================
