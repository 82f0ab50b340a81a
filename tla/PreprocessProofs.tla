--------------------------- MODULE PreprocessProofs ---------------------------
(***************************************************************************)
(* Proofs about Preprocess.                                                *)
(***************************************************************************)
EXTENDS Preprocess, DataLemmas

Tokens == Vocabulary \union {"cls", "sep", "mask", "pad"}

(* The tokens a text may give once the mask token is taken out of it.      *)
TextTokens == Vocabulary \union {"cls", "sep", "pad"}

(* What Kept has kept, place by place.                                     *)
LEMMA KeptSteps ==
  ASSUME NEW V, NEW s \in Seq(V), NEW S
  PROVE  \E g : /\ Kept(s, S) = g[Len(s)]
                /\ g[0] = <<>>
                /\ \A k \in 1..Len(s) :
                     g[k] = IF s[k] \in S THEN Append(g[k - 1], s[k]) ELSE g[k - 1]
<1>. DEFINE n == Len(s)
            A == Seq(V)
            Keeps(g) == g = [t \in SUBSET (1..n) |->
                               IF t = {} THEN <<>>
                               ELSE IF s[Max(t)] \in S
                                    THEN Append(g[t \ {Max(t)}], s[Max(t)])
                                    ELSE g[t \ {Max(t)}]]
            w == CHOOSE g : Keeps(g)
            h == [i \in 1..n |-> [a \in A |-> IF s[i] \in S THEN Append(a, s[i]) ELSE a]]
<1>1. n \in Nat /\ DOMAIN s = 1..n /\ \A i \in 1..n : s[i] \in V
  OBVIOUS
<1>2. h \in [1..n -> [A -> A]] /\ <<>> \in A
  BY <1>1
<1>3. \A i \in 1..n : \A a \in A : h[i][a] = IF s[i] \in S THEN Append(a, s[i]) ELSE a
  OBVIOUS
<1>4. Kept(s, S) = w[1..n]
  BY <1>1 DEF Kept, FoldLeft, MapThenFoldSet
<1>. HIDE DEF h, A, n
<1>5. \A g \in [SUBSET (1..n) -> A] : FoldsLeft(g, h, <<>>, n) <=> Keeps(g)
  <2>. SUFFICES ASSUME NEW g \in [SUBSET (1..n) -> A]
                PROVE  FoldsLeft(g, h, <<>>, n) <=> Keeps(g)
    OBVIOUS
  <2>1. ASSUME NEW t \in SUBSET (1..n)
        PROVE  LastAfterRest(g, h, <<>>, t) =
                 IF t = {} THEN <<>>
                 ELSE IF s[Max(t)] \in S
                      THEN Append(g[t \ {Max(t)}], s[Max(t)])
                      ELSE g[t \ {Max(t)}]
    <3>1. t # {} => Max(t) \in 1..n /\ t \ {Max(t)} \in SUBSET (1..n)
      BY <1>1, LastPlace
    <3>2. t # {} => g[t \ {Max(t)}] \in A
      BY <3>1
    <3>. QED BY <1>3, <3>1, <3>2 DEF LastAfterRest
  <2>. QED BY <2>1 DEF FoldsLeft
<1>6. PICK g \in [SUBSET (1..n) -> A] : FoldsLeft(g, h, <<>>, n)
  BY <1>1, <1>2, LeftFoldExists
<1>7. Keeps(w)
  <2>1. Keeps(g)
    BY <1>5, <1>6
  <2>. HIDE DEF Keeps
  <2>. QED BY <2>1
<1>. HIDE DEF w
<1>8. w[1..0] = <<>>
  <2>1. 1..0 = {} /\ {} \in SUBSET (1..n)
    OBVIOUS
  <2>. QED BY <1>7, <2>1
<1>9. ASSUME NEW k \in 1..n
      PROVE  w[1..k] = IF s[k] \in S THEN Append(w[1..(k - 1)], s[k]) ELSE w[1..(k - 1)]
  <2>1. 1..k \in SUBSET (1..n) /\ 1..k # {} /\ k \in Nat \ {0}
    <3>1. k \in Nat \ {0} /\ k <= n
      BY <1>1
    <3>2. \A j \in 1..k : j \in 1..n
      BY <1>1, <3>1
    <3>3. k \in 1..k
      BY <3>1
    <3>. QED BY <3>1, <3>2, <3>3
  <2>2. Max(1..k) = k /\ (1..k) \ {k} = 1..(k - 1)
    BY <2>1, LastOfFirst
  <2>. QED BY <1>7, <2>1, <2>2
<1>. DEFINE m == [k \in 0..n |-> w[1..k]]
<1>10. /\ m[n] = w[1..n] /\ m[0] = w[1..0]
       /\ \A k \in 1..n : m[k] = w[1..k] /\ m[k - 1] = w[1..(k - 1)]
  BY <1>1
<1>. HIDE DEF m, Keeps
<1>. QED BY <1>4, <1>8, <1>9, <1>10 DEF n

(* It is made of the elements of the sequence.                             *)
LEMMA KeptType ==
  ASSUME NEW V, NEW s \in Seq(V), NEW S
  PROVE  Kept(s, S) \in Seq(V)
<1>1. PICK g : /\ Kept(s, S) = g[Len(s)]
               /\ g[0] = <<>>
               /\ \A k \in 1..Len(s) :
                    g[k] = IF s[k] \in S THEN Append(g[k - 1], s[k]) ELSE g[k - 1]
  BY KeptSteps
<1>2. Len(s) \in Nat /\ \A i \in 1..Len(s) : s[i] \in V
  OBVIOUS
<1>. DEFINE T == {k \in Nat : k <= Len(s) => g[k] \in Seq(V)}
<1>3. 0 \in T
  <2>1. <<>> \in Seq(V)
    OBVIOUS
  <2>. QED BY <1>1, <2>1
<1>4. ASSUME NEW k \in Nat, k \in T
      PROVE  k + 1 \in T
  <2>1. SUFFICES ASSUME k + 1 <= Len(s)
                 PROVE  g[k + 1] \in Seq(V)
    OBVIOUS
  <2>2. PICK m \in 1..Len(s) : m = k + 1 /\ m - 1 = k
    BY <1>2, <2>1
  <2>3. g[k] \in Seq(V) /\ s[m] \in V
    BY <1>2, <1>4, <2>1, <2>2
  <2>4. g[m] = IF s[m] \in S THEN Append(g[k], s[m]) ELSE g[k]
    BY <1>1, <2>2
  <2>. QED BY <2>2, <2>3, <2>4
<1>. HIDE DEF T
<1>5. Len(s) \in T
  BY <1>2, <1>3, <1>4, SetInduction
<1>. QED BY <1>1, <1>2, <1>5 DEF T

(* A sequence of which all elements are kept stays as it is.               *)
LEMMA KeptAll ==
  ASSUME NEW V, NEW s \in Seq(V), NEW S, \A i \in 1..Len(s) : s[i] \in S
  PROVE  Kept(s, S) = s
<1>1. PICK g : /\ Kept(s, S) = g[Len(s)]
               /\ g[0] = <<>>
               /\ \A k \in 1..Len(s) :
                    g[k] = IF s[k] \in S THEN Append(g[k - 1], s[k]) ELSE g[k - 1]
  BY KeptSteps
<1>2. Len(s) \in Nat /\ \A i \in 1..Len(s) : s[i] \in V
  OBVIOUS
<1>. DEFINE T == {k \in Nat : k <= Len(s) => g[k] = SubSeq(s, 1, k)}
<1>3. 0 \in T
  <2>1. SubSeq(s, 1, 0) = <<>>
    OBVIOUS
  <2>. QED BY <1>1, <2>1
<1>4. ASSUME NEW k \in Nat, k \in T
      PROVE  k + 1 \in T
  <2>1. SUFFICES ASSUME k + 1 <= Len(s)
                 PROVE  g[k + 1] = SubSeq(s, 1, k + 1)
    OBVIOUS
  <2>2. PICK m \in 1..Len(s) : m = k + 1 /\ m - 1 = k
    BY <1>2, <2>1
  <2>3. g[k] = SubSeq(s, 1, k)
    BY <1>4, <2>1
  <2>4. g[m] = Append(g[k], s[m])
    BY <1>1, <2>2
  <2>5. Append(SubSeq(s, 1, k), s[m]) = SubSeq(s, 1, m)
    BY <2>2
  <2>. QED BY <2>2, <2>3, <2>4, <2>5
<1>. HIDE DEF T
<1>5. Len(s) \in T
  BY <1>2, <1>3, <1>4, SetInduction
<1>6. SubSeq(s, 1, Len(s)) = s
  OBVIOUS
<1>. QED BY <1>1, <1>2, <1>5, <1>6 DEF T
-----------------------------------------------------------------------------
(* The words that Preprocess spells, and no special token, are words.      *)
LEMMA LiteralWords ==
  /\ "choice" \in Vocabulary /\ "score" \in Vocabulary /\ "noul" \in Vocabulary
  /\ "question:" \in Vocabulary /\ ":" \in Vocabulary /\ "level" \in Vocabulary
  /\ " " \in Vocabulary /\ "false" \in Vocabulary /\ "true" \in Vocabulary
  /\ "no" \in Vocabulary /\ "the" \in Vocabulary /\ "statement" \in Vocabulary
  /\ "does" \in Vocabulary /\ "not" \in Vocabulary /\ "hold" \in Vocabulary
  /\ "yes" \in Vocabulary /\ "holds" \in Vocabulary
  /\ "cls" \notin Vocabulary /\ "sep" \notin Vocabulary
  /\ "mask" \notin Vocabulary /\ "pad" \notin Vocabulary
BY TextAssumption

(* A cut sequence begins as the sequence does.                             *)
LEMMA CutBegins ==
  ASSUME NEW S, NEW s \in Seq(S), NEW n \in Nat
  PROVE  /\ Cut(s, n) \in Seq(S)
         /\ Len(Cut(s, n)) = IF Len(s) > n THEN n ELSE Len(s)
         /\ \A i \in 1..Len(Cut(s, n)) : i \in 1..Len(s) /\ Cut(s, n)[i] = s[i]
         /\ Len(s) <= n => Cut(s, n) = s
BY DEF Cut

(* The tokens of texts are tokens, and none is the mask token.             *)
LEMMA TextTokensAreTokens ==
  /\ "mask" \notin TextTokens /\ TextTokens \subseteq Tokens
  /\ Seq(TextTokens) \subseteq Seq(Tokens)
<1>1. "mask" \notin TextTokens /\ TextTokens \subseteq Tokens
  BY LiteralWords DEF TextTokens, Tokens
<1>2. ASSUME NEW s \in Seq(TextTokens)
      PROVE  s \in Seq(Tokens)
  BY <1>1
<1>. QED BY <1>1, <1>2

(* A text in which the mask token is not spelled does not give it.         *)
LEMMA EncodeClean ==
  ASSUME NEW text \in Seq(Vocabulary), \A i \in 1..Len(text) : text[i] # "<mask>"
  PROVE  encodeText(text) \in Seq(TextTokens) /\ Len(encodeText(text)) = Len(text)
<1>1. DOMAIN text = 1..Len(text) /\ Len(text) \in Nat /\ \A i \in 1..Len(text) : text[i] \in Vocabulary
  OBVIOUS
<1>2. \A i \in 1..Len(text) : tokenOf(text[i]) \in TextTokens
  BY <1>1 DEF tokenOf, TextTokens
<1>3. encodeText(text) \in [1..Len(text) -> TextTokens]
  BY <1>1, <1>2 DEF encodeText, Encode
<1>. QED BY <1>1, <1>3, FunctionIsSequence

(* After sanitize, encodeText gives as many tokens as the text has words,  *)
(* and none of them is the mask token.                                     *)
LEMMA WordsOnly ==
  ASSUME NEW text \in Seq(Vocabulary)
  PROVE  /\ sanitize(text) \in Seq(Vocabulary)
         /\ encodeText(sanitize(text)) \in Seq(TextTokens)
         /\ Len(encodeText(sanitize(text))) = Len(text)
<1>0. " " \in Vocabulary
  BY LiteralWords
<1>1. DOMAIN text = 1..Len(text) /\ Len(text) \in Nat
  OBVIOUS
<1>2. \A i \in 1..Len(text) : text[i] \in Vocabulary
  OBVIOUS
<1>. DEFINE clean == sanitize(text)
<1>3. clean \in [1..Len(text) -> Vocabulary] /\ \A i \in 1..Len(text) : clean[i] # "<mask>"
  BY <1>0, <1>1, <1>2 DEF sanitize
<1>. HIDE DEF clean
<1>4. clean \in Seq(Vocabulary) /\ Len(clean) = Len(text) /\ DOMAIN clean = 1..Len(text)
  BY <1>1, <1>3, FunctionIsSequence
<1>5. encodeText(clean) \in Seq(TextTokens) /\ Len(encodeText(clean)) = Len(text)
  BY <1>3, <1>4, EncodeClean
<1>. QED BY <1>4, <1>5 DEF clean
-----------------------------------------------------------------------------
(* The fields of a question.                                               *)
LEMMA QuestionFields ==
  ASSUME NEW q \in Questions
  PROVE  /\ q.kind \in {"choice", "score", "noul"} /\ q.instructions \in Seq(Vocabulary)
         /\ Len(q.options) \in Nat /\ Len(q.options) >= 2 /\ DOMAIN q.options = 1..Len(q.options)
         /\ q.kind = "noul" => Len(q.options) = 2
         /\ \A i \in 1..Len(q.options) :
              /\ q.options[i].id \in Vocabulary /\ q.options[i].description \in Seq(Vocabulary)
              /\ ToString(i - 1) \in Vocabulary
<1>1. q \in [kind : {"choice", "score", "noul"}, instructions : Seq(Vocabulary),
             options : Seq([id : Vocabulary, description : Seq(Vocabulary)])]
  BY TextAssumption
<1>2. /\ q.kind \in {"choice", "score", "noul"} /\ q.instructions \in Seq(Vocabulary)
      /\ q.options \in Seq([id : Vocabulary, description : Seq(Vocabulary)])
  BY <1>1
<1>3. Len(q.options) \in Nat /\ DOMAIN q.options = 1..Len(q.options)
  BY <1>2
<1>4. ASSUME NEW i \in 1..Len(q.options)
      PROVE  q.options[i].id \in Vocabulary /\ q.options[i].description \in Seq(Vocabulary)
  <2>. DEFINE R == [id : Vocabulary, description : Seq(Vocabulary)]
  <2>1. \A s \in Seq(R) : \A k \in 1..Len(s) : s[k] \in R
    <3>. HIDE DEF R
    <3>. QED OBVIOUS
  <2>2. q.options[i] \in R
    BY <1>2, <2>1
  <2>. QED BY <2>2
<1>5. \A i \in 1..Len(q.options) : ToString(i - 1) \in Vocabulary
  BY <1>3, TextAssumption
<1>6. Len(q.options) >= 2 /\ (q.kind = "noul" => Len(q.options) = 2)
  BY ManifestAssumption
<1>. QED BY <1>2, <1>3, <1>4, <1>5, <1>6

(* The options of a question are rendered one by one, in words.            *)
LEMMA RenderedOptions ==
  ASSUME NEW q \in Questions
  PROVE  /\ normalizeQuestion(q).options \in Seq(Seq(Vocabulary))
         /\ Len(normalizeQuestion(q).options) = Len(q.options)
<1>. DEFINE n == Len(q.options)
            texts == normalizeQuestion(q).options
<1>1. /\ q.kind \in {"choice", "score", "noul"}
      /\ n \in Nat /\ n >= 2 /\ DOMAIN q.options = 1..n
      /\ q.kind = "noul" => n = 2
      /\ \A i \in 1..n :
           /\ q.options[i].id \in Vocabulary /\ q.options[i].description \in Seq(Vocabulary)
           /\ ToString(i - 1) \in Vocabulary
  BY QuestionFields
<1>. HIDE DEF n
<1>2. CASE q.kind = "choice"
  <2>1. texts = [i \in 1..n |->
                   IF q.options[i].description = <<>> THEN <<q.options[i].id>>
                   ELSE <<q.options[i].id, ":">> \o q.options[i].description]
    BY <1>1, <1>2 DEF normalizeQuestion, normalizeChoice
  <2>2. ASSUME NEW i \in 1..n
        PROVE  /\ <<q.options[i].id>> \in Seq(Vocabulary)
               /\ <<q.options[i].id, ":">> \o q.options[i].description \in Seq(Vocabulary)
    <3>1. ":" \in Vocabulary
      BY LiteralWords
    <3>2. PICK w \in Vocabulary, c \in Vocabulary, d \in Seq(Vocabulary) :
            w = q.options[i].id /\ c = ":" /\ d = q.options[i].description
      BY <1>1, <3>1
    <3>3. <<w>> \in Seq(Vocabulary) /\ <<w, c>> \o d \in Seq(Vocabulary)
      OBVIOUS
    <3>. QED BY <3>2, <3>3
  <2>3. texts \in [1..n -> Seq(Vocabulary)]
    BY <2>1, <2>2
  <2>. QED BY <1>1, <2>3, FunctionIsSequence DEF n
<1>3. CASE q.kind = "score"
  <2>1. texts = [i \in 1..n |-> <<"level", ToString(i - 1), ":">> \o q.options[i].description]
    BY <1>1, <1>3 DEF normalizeQuestion, normalizeScore
  <2>2. ASSUME NEW i \in 1..n
        PROVE  <<"level", ToString(i - 1), ":">> \o q.options[i].description \in Seq(Vocabulary)
    <3>1. "level" \in Vocabulary /\ ":" \in Vocabulary
      BY LiteralWords
    <3>2. PICK l \in Vocabulary, w \in Vocabulary, c \in Vocabulary, d \in Seq(Vocabulary) :
            l = "level" /\ w = ToString(i - 1) /\ c = ":" /\ d = q.options[i].description
      BY <1>1, <3>1
    <3>3. <<l, w, c>> \o d \in Seq(Vocabulary)
      OBVIOUS
    <3>. QED BY <3>2, <3>3
  <2>3. texts \in [1..n -> Seq(Vocabulary)]
    BY <2>1, <2>2
  <2>. QED BY <1>1, <2>3, FunctionIsSequence DEF n
<1>4. CASE q.kind = "noul"
  <2>. DEFINE no == IF q.options[1].description # <<>> THEN q.options[1].description
                    ELSE <<"no", "the", "statement", "does", "not", "hold">>
              yes == IF q.options[2].description # <<>> THEN q.options[2].description
                     ELSE <<"yes", "the", "statement", "holds">>
  <2>1. texts = <<<<"false", ":">> \o no, <<"true", ":">> \o yes>>
    BY <1>1, <1>4 DEF normalizeQuestion, normalizeNoul
  <2>2. no \in Seq(Vocabulary) /\ yes \in Seq(Vocabulary)
    <3>0. /\ \A a, b, c, d, e, f \in Vocabulary : <<a, b, c, d, e, f>> \in Seq(Vocabulary)
          /\ \A a, b, c, d \in Vocabulary : <<a, b, c, d>> \in Seq(Vocabulary)
      OBVIOUS
    <3>1. /\ <<"no", "the", "statement", "does", "not", "hold">> \in Seq(Vocabulary)
          /\ <<"yes", "the", "statement", "holds">> \in Seq(Vocabulary)
      BY <3>0, LiteralWords, Zenon
    <3>2. q.options[1].description \in Seq(Vocabulary) /\ q.options[2].description \in Seq(Vocabulary)
      BY <1>1, <1>4
    <3>. QED BY <3>1, <3>2
  <2>. HIDE DEF no, yes
  <2>3. /\ <<"false", ":">> \o no \in Seq(Vocabulary)
        /\ <<"true", ":">> \o yes \in Seq(Vocabulary)
    <3>0. \A a, b \in Vocabulary : <<a, b>> \in Seq(Vocabulary)
      OBVIOUS
    <3>1. <<"false", ":">> \in Seq(Vocabulary) /\ <<"true", ":">> \in Seq(Vocabulary)
      BY <3>0, LiteralWords, Zenon
    <3>. QED BY <2>2, <3>1
  <2>4. texts \in Seq(Seq(Vocabulary)) /\ Len(texts) = 2
    BY <2>1, <2>3
  <2>. QED BY <1>1, <1>4, <2>4 DEF n
<1>. QED BY <1>1, <1>2, <1>3, <1>4
-----------------------------------------------------------------------------
(* The constants of the manifest.                                          *)
LEMMA ManifestNaturals ==
  /\ MaxLen \in Nat \ {0} /\ HeadMaxLen \in Nat \ {0} /\ OptionMaxLen \in Nat \ {0}
  /\ HeadReserve \in Nat /\ HeadReserve >= 8
BY ManifestAssumption

(* The share of an option: four tokens, or no more than all have together. *)
LEMMA ShareOfAnOption ==
  ASSUME NEW n \in Nat \ {0}
  PROVE  /\ perOption(n) \in Nat /\ perOption(n) >= 4
         /\ perOption(n) = 4 \/ n * perOption(n) <= HeadMaxLen - HeadReserve
<1>1. PICK a \in Int : a = HeadMaxLen - HeadReserve
  BY ManifestNaturals
<1>2. PICK d \in Int : d = a \div n /\ n * d <= a
  OBVIOUS
<1>3. perOption(n) = IF 4 > d THEN 4 ELSE d
  BY <1>1, <1>2 DEF perOption, Larger
<1>. QED BY <1>1, <1>2, <1>3

(* An option in tokens: its mask token first, and then only words.         *)
IsOption(o) ==
  /\ o \in Seq(Tokens) /\ Len(o) >= 1 /\ o[1] = "mask"
  /\ \A j \in 2..Len(o) : o[j] \in TextTokens

(* Cutting an option to one token or more leaves an option.                *)
LEMMA CutOption ==
  ASSUME NEW o, IsOption(o), NEW n \in Nat \ {0}
  PROVE  IsOption(Cut(o, n))
<1>1. o \in Seq(Tokens) /\ Len(o) >= 1 /\ Len(o) \in Nat
  BY DEF IsOption
<1>2. /\ Cut(o, n) \in Seq(Tokens)
      /\ Len(Cut(o, n)) = IF Len(o) > n THEN n ELSE Len(o)
      /\ \A i \in 1..Len(Cut(o, n)) : i \in 1..Len(o) /\ Cut(o, n)[i] = o[i]
  BY <1>1, CutBegins
<1>3. Len(Cut(o, n)) \in Nat /\ Len(Cut(o, n)) >= 1
  BY <1>1, <1>2
<1>4. 1 \in 1..Len(Cut(o, n)) /\ 2..Len(Cut(o, n)) \subseteq 1..Len(Cut(o, n))
  BY <1>3
<1>. QED BY <1>1, <1>2, <1>3, <1>4 DEF IsOption

(* The options before their share is known.                                *)
LEMMA EncodedOptions ==
  ASSUME NEW q \in Questions
  PROVE  /\ encodedOptions(q) \in [1..Len(q.options) -> Seq(Tokens)]
         /\ \A i \in 1..Len(q.options) :
              /\ IsOption(encodedOptions(q)[i])
              /\ Len(encodedOptions(q)[i]) =
                   1 + IF Len(normalizeQuestion(q).options[i]) > OptionMaxLen
                       THEN OptionMaxLen ELSE Len(normalizeQuestion(q).options[i])
<1>. DEFINE n == Len(q.options)
            texts == normalizeQuestion(q).options
            cut(i) == Cut(encodeText(sanitize(texts[i])), OptionMaxLen)
<1>1. texts \in Seq(Seq(Vocabulary)) /\ Len(texts) = n /\ DOMAIN texts = 1..n
  BY RenderedOptions
<1>2. encodedOptions(q) = [i \in 1..n |-> <<"mask">> \o cut(i)]
  BY <1>1 DEF encodedOptions
<1>3. ASSUME NEW i \in 1..n
      PROVE  /\ cut(i) \in Seq(TextTokens)
             /\ Len(cut(i)) = IF Len(texts[i]) > OptionMaxLen THEN OptionMaxLen ELSE Len(texts[i])
  <2>1. texts[i] \in Seq(Vocabulary)
    BY <1>1
  <2>. HIDE DEF texts
  <2>2. /\ encodeText(sanitize(texts[i])) \in Seq(TextTokens)
        /\ Len(encodeText(sanitize(texts[i]))) = Len(texts[i])
    BY <2>1, WordsOnly
  <2>3. OptionMaxLen \in Nat
    BY ManifestNaturals
  <2>. QED BY <2>2, <2>3, CutBegins
<1>. HIDE DEF cut
<1>4. ASSUME NEW i \in 1..n
      PROVE  IsOption(<<"mask">> \o cut(i)) /\ Len(<<"mask">> \o cut(i)) = 1 + Len(cut(i))
  <2>1. PICK m \in Tokens, c \in Seq(Tokens) : m = "mask" /\ c = cut(i)
    <3>1. "mask" \in Tokens
      BY DEF Tokens
    <3>2. cut(i) \in Seq(Tokens)
      BY <1>3, TextTokensAreTokens
    <3>. QED BY <3>1, <3>2
  <2>2. /\ <<m>> \o c \in Seq(Tokens) /\ Len(<<m>> \o c) = 1 + Len(c) /\ Len(c) \in Nat
        /\ (<<m>> \o c)[1] = m /\ \A j \in 2..Len(<<m>> \o c) : (<<m>> \o c)[j] = c[j - 1]
    OBVIOUS
  <2>3. \A j \in 2..(1 + Len(c)) : c[j - 1] \in TextTokens
    <3>1. \A j \in 1..Len(c) : c[j] \in TextTokens
      BY <1>3, <2>1
    <3>2. \A j \in 2..(1 + Len(c)) : j - 1 \in 1..Len(c)
      BY <2>2
    <3>. QED BY <3>1, <3>2
  <2>. QED BY <2>1, <2>2, <2>3 DEF IsOption
<1>5. encodedOptions(q) \in [1..n -> Seq(Tokens)]
  BY <1>2, <1>4 DEF IsOption
<1>. QED BY <1>2, <1>3, <1>4, <1>5

(* The options as they are laid out.                                       *)
LEMMA BudgetedOptions ==
  ASSUME NEW q \in Questions
  PROVE  /\ budgetedOptions(q) \in Seq(Seq(Tokens)) /\ Len(budgetedOptions(q)) = Len(q.options)
         /\ \A i \in 1..Len(q.options) :
              /\ IsOption(budgetedOptions(q)[i])
              /\ \/ Len(budgetedOptions(q)[i]) >= 1 + Len(normalizeQuestion(q).options[i])
                 \/ Len(budgetedOptions(q)[i]) >= 1 + OptionMaxLen
                 \/ Len(budgetedOptions(q)[i]) >= 4
         /\ \/ HeadMaxLen - totalLength(budgetedOptions(q)) >= HeadReserve
            \/ \A i \in 1..Len(q.options) :
                 Len(budgetedOptions(q)[i]) <= perOption(Len(q.options))
<1>. DEFINE n == Len(q.options)
            options == encodedOptions(q)
            texts == normalizeQuestion(q).options
<1>1. /\ options \in [1..n -> Seq(Tokens)]
      /\ \A i \in 1..n :
           /\ IsOption(options[i])
           /\ Len(options[i]) = 1 + IF Len(texts[i]) > OptionMaxLen
                                    THEN OptionMaxLen ELSE Len(texts[i])
  BY EncodedOptions
<1>2. n \in Nat \ {0}
  BY QuestionFields
<1>3. /\ options \in Seq(Seq(Tokens)) /\ Len(options) = n /\ DOMAIN options = 1..n
  <2>. HIDE DEF options, n
  <2>. QED BY <1>1, <1>2, FunctionIsSequence
<1>4. perOption(n) \in Nat /\ perOption(n) >= 4
  BY <1>2, ShareOfAnOption
<1>5. totalLength(options) \in Nat /\ HeadMaxLen \in Nat /\ HeadReserve \in Nat
  <2>1. FlattenSeq(options) \in Seq(Tokens)
    <3>. HIDE DEF options
    <3>. QED BY <1>3, FlattenElements
  <2>2. Len(FlattenSeq(options)) \in Nat
    BY <2>1
  <2>. QED BY <2>2, ManifestNaturals DEF totalLength
<1>6. \A i \in 1..n : Len(texts[i]) \in Nat
  <2>1. texts \in Seq(Seq(Vocabulary)) /\ Len(texts) = n
    BY RenderedOptions
  <2>. HIDE DEF texts
  <2>. QED BY <2>1
<1>7. OptionMaxLen \in Nat
  BY ManifestNaturals
<1>. HIDE DEF options, n, texts
<1>8. CASE ~(HeadMaxLen - totalLength(options) < HeadReserve)
  <2>1. budgetedOptions(q) = options
    BY <1>8 DEF budgetedOptions, options
  <2>2. HeadMaxLen - totalLength(options) >= HeadReserve
    BY <1>5, <1>8
  <2>3. ASSUME NEW i \in 1..n
        PROVE  Len(options[i]) >= 1 + Len(texts[i]) \/ Len(options[i]) >= 1 + OptionMaxLen
    BY <1>1, <1>6, <1>7
  <2>. QED BY <1>1, <1>3, <2>1, <2>2, <2>3 DEF n, texts
<1>9. CASE HeadMaxLen - totalLength(options) < HeadReserve
  <2>1. budgetedOptions(q) = [i \in 1..n |-> Cut(options[i], perOption(n))]
    BY <1>3, <1>9 DEF budgetedOptions, options
  <2>2. ASSUME NEW i \in 1..n
        PROVE  /\ IsOption(Cut(options[i], perOption(n)))
               /\ Len(Cut(options[i], perOption(n))) =
                    IF Len(options[i]) > perOption(n) THEN perOption(n) ELSE Len(options[i])
               /\ Len(options[i]) \in Nat
    <3>1. IsOption(options[i]) /\ options[i] \in Seq(Tokens)
      BY <1>1
    <3>2. IsOption(Cut(options[i], perOption(n)))
      BY <1>4, <3>1, CutOption
    <3>. QED BY <1>4, <3>1, <3>2, CutBegins
  <2>3. budgetedOptions(q) \in [1..n -> Seq(Tokens)]
    BY <2>1, <2>2 DEF IsOption
  <2>4. budgetedOptions(q) \in Seq(Seq(Tokens)) /\ Len(budgetedOptions(q)) = n
    BY <1>2, <2>3, FunctionIsSequence
  <2>5. \A i \in 1..n : budgetedOptions(q)[i] = Cut(options[i], perOption(n))
    BY <2>1
  <2>6. ASSUME NEW i \in 1..n
        PROVE  /\ Len(Cut(options[i], perOption(n))) <= perOption(n)
               /\ \/ Len(Cut(options[i], perOption(n))) >= 1 + Len(texts[i])
                  \/ Len(Cut(options[i], perOption(n))) >= 1 + OptionMaxLen
                  \/ Len(Cut(options[i], perOption(n))) >= 4
    BY <1>1, <1>4, <1>6, <1>7, <2>2
  <2>. QED BY <2>2, <2>4, <2>5, <2>6 DEF n, texts
<1>. QED BY <1>8, <1>9
-----------------------------------------------------------------------------
(* The instructions before they are cut.                                   *)
LEMMA HeadWords ==
  ASSUME NEW q \in Questions
  PROVE  LET head == <<q.kind, "question:">> \o sanitize(q.instructions)
         IN  head \in Seq(Vocabulary) /\ encodeText(head) \in Seq(TextTokens)
<1>. DEFINE clean == sanitize(q.instructions)
            head == <<q.kind, "question:">> \o clean
<1>1. q.kind \in Vocabulary /\ q.kind # "<mask>" /\ q.instructions \in Seq(Vocabulary)
  <2>1. q.kind \in {"choice", "score", "noul"} /\ q.instructions \in Seq(Vocabulary)
    BY QuestionFields
  <2>. QED BY <2>1, LiteralWords
<1>2. clean \in Seq(Vocabulary) /\ \A i \in 1..Len(clean) : clean[i] # "<mask>"
  <2>1. clean \in Seq(Vocabulary)
    BY <1>1, WordsOnly
  <2>2. clean = [i \in DOMAIN q.instructions |->
                   IF q.instructions[i] = "<mask>" THEN " " ELSE q.instructions[i]]
    BY DEF sanitize
  <2>3. DOMAIN clean = 1..Len(clean) /\ DOMAIN clean = DOMAIN q.instructions
    <3>1. DOMAIN clean = DOMAIN q.instructions
      BY <2>2
    <3>. HIDE DEF clean
    <3>. QED BY <2>1, <3>1
  <2>4. \A i \in DOMAIN q.instructions : clean[i] # "<mask>"
    BY <2>2
  <2>. QED BY <2>1, <2>3, <2>4
<1>. HIDE DEF clean
<1>3. head \in Seq(Vocabulary) /\ \A i \in 1..Len(head) : head[i] # "<mask>"
  <2>1. PICK k \in Vocabulary, w \in Vocabulary :
          k = q.kind /\ w = "question:" /\ k # "<mask>" /\ w # "<mask>"
    BY <1>1, LiteralWords
  <2>2. head = <<k, w>> \o clean
    BY <2>1
  <2>3. <<k, w>> \o clean \in Seq(Vocabulary)
    BY <1>2
  <2>4. ASSUME NEW i \in 1..Len(<<k, w>> \o clean)
        PROVE  (<<k, w>> \o clean)[i] # "<mask>"
    <3>1. Len(<<k, w>> \o clean) = 2 + Len(clean) /\ Len(clean) \in Nat
      BY <1>2
    <3>2. CASE i = 1
      BY <1>2, <2>1, <3>1, <3>2
    <3>3. CASE i = 2
      BY <1>2, <2>1, <3>1, <3>3
    <3>4. CASE i > 2
      <4>1. i - 2 \in 1..Len(clean) /\ (<<k, w>> \o clean)[i] = clean[i - 2]
        BY <1>2, <3>1, <3>4
      <4>. QED BY <1>2, <4>1
    <3>. QED BY <3>1, <3>2, <3>3, <3>4
  <2>. QED BY <2>2, <2>3, <2>4
<1>. HIDE DEF head
<1>4. encodeText(head) \in Seq(TextTokens)
  BY <1>3, EncodeClean
<1>. QED BY <1>3, <1>4 DEF head, clean

(* The instructions as they are laid out: tokens of a text, within what is *)
(* left.                                                                   *)
LEMMA BudgetedHead ==
  ASSUME NEW q \in Questions
  PROVE  /\ budgetedHead(q) \in Seq(TextTokens)
         /\ Len(budgetedHead(q)) <= Larger(8, HeadMaxLen - totalLength(budgetedOptions(q)))
         /\ totalLength(budgetedOptions(q)) \in Nat
<1>. DEFINE head == encodeText(<<q.kind, "question:">> \o sanitize(q.instructions))
            room == Larger(8, HeadMaxLen - totalLength(budgetedOptions(q)))
<1>1. head \in Seq(TextTokens)
  BY HeadWords
<1>. HIDE DEF head
<1>2. totalLength(budgetedOptions(q)) \in Nat
  <2>1. budgetedOptions(q) \in Seq(Seq(Tokens))
    BY BudgetedOptions
  <2>2. FlattenSeq(budgetedOptions(q)) \in Seq(Tokens)
    BY <2>1, FlattenElements
  <2>3. Len(FlattenSeq(budgetedOptions(q))) \in Nat
    BY <2>2
  <2>. QED BY <2>3 DEF totalLength
<1>3. room \in Nat
  BY <1>2, ManifestNaturals DEF Larger
<1>4. budgetedHead(q) = Cut(head, room)
  BY DEF budgetedHead, head
<1>. HIDE DEF room
<1>5. Cut(head, room) \in Seq(TextTokens) /\ Len(Cut(head, room)) <= room
  <2>1. /\ Cut(head, room) \in Seq(TextTokens)
        /\ Len(Cut(head, room)) = IF Len(head) > room THEN room ELSE Len(head)
    BY <1>1, <1>3, CutBegins
  <2>2. Len(head) \in Nat
    BY <1>1
  <2>. QED BY <1>3, <2>1, <2>2
<1>. QED BY <1>2, <1>4, <1>5 DEF room

(* What a row begins with, place by place.                                 *)
LEMMA FixedLayout ==
  ASSUME NEW S, NEW h \in Seq(S), NEW o \in Seq(S), NEW c \in S, NEW e \in S
  PROVE  LET r == <<c>> \o h \o <<e>> \o o \o <<e>>
         IN  /\ r \in Seq(S) /\ Len(r) = Len(h) + Len(o) + 3
             /\ \A p \in 1..Len(r) :
                  r[p] = IF p = 1 THEN c
                         ELSE IF p <= Len(h) + 1 THEN h[p - 1]
                         ELSE IF p = Len(h) + 2 THEN e
                         ELSE IF p <= Len(h) + 2 + Len(o) THEN o[p - (Len(h) + 2)] ELSE e
<1>. DEFINE a == <<c>> \o h
            b == a \o <<e>>
            d == b \o o
            r == d \o <<e>>
<1>0. Len(h) \in Nat /\ Len(o) \in Nat
  OBVIOUS
<1>1. /\ a \in Seq(S) /\ Len(a) = Len(h) + 1
      /\ \A p \in 1..(Len(h) + 1) : a[p] = IF p = 1 THEN c ELSE h[p - 1]
  OBVIOUS
<1>. HIDE DEF a
<1>2. /\ b \in Seq(S) /\ Len(b) = Len(h) + 2
      /\ \A p \in 1..(Len(h) + 2) : b[p] = IF p <= Len(h) + 1 THEN a[p] ELSE e
  BY <1>0, <1>1
<1>. HIDE DEF b
<1>3. /\ d \in Seq(S) /\ Len(d) = Len(h) + 2 + Len(o)
      /\ \A p \in 1..(Len(h) + 2 + Len(o)) :
           d[p] = IF p <= Len(h) + 2 THEN b[p] ELSE o[p - (Len(h) + 2)]
  BY <1>0, <1>2
<1>. HIDE DEF d
<1>4. /\ r \in Seq(S) /\ Len(r) = Len(h) + Len(o) + 3
      /\ \A p \in 1..(Len(h) + Len(o) + 3) :
           r[p] = IF p <= Len(h) + 2 + Len(o) THEN d[p] ELSE e
  <2>1. /\ r \in Seq(S) /\ Len(r) = Len(d) + 1 /\ Len(d) \in Nat
        /\ \A p \in 1..Len(d) : r[p] = d[p]
        /\ r[Len(d) + 1] = e
    BY <1>3, OneMore
  <2>. HIDE DEF r
  <2>2. PICK k \in Nat : k = Len(h) + 2 + Len(o)
    BY <1>0
  <2>3. Len(d) = k /\ Len(h) + Len(o) + 3 = k + 1
    BY <1>0, <1>3, <2>2
  <2>4. \A p \in 1..(k + 1) : r[p] = IF p <= k THEN d[p] ELSE e
    BY <2>1, <2>3
  <2>. QED BY <2>1, <2>2, <2>3, <2>4
<1>. HIDE DEF r
<1>5. ASSUME NEW p \in 1..Len(r)
      PROVE  r[p] = IF p = 1 THEN c
                    ELSE IF p <= Len(h) + 1 THEN h[p - 1]
                    ELSE IF p = Len(h) + 2 THEN e
                    ELSE IF p <= Len(h) + 2 + Len(o) THEN o[p - (Len(h) + 2)] ELSE e
  <2>1. p \in Nat /\ p >= 1 /\ p <= Len(h) + Len(o) + 3
    BY <1>0, <1>4
  <2>. QED BY <1>0, <1>1, <1>2, <1>3, <1>4, <2>1
<1>. QED BY <1>4, <1>5 DEF r, d, b, a

(* A row, place by place.                                                  *)
LEMMA RowLayout ==
  ASSUME NEW S, NEW f \in Seq(S), NEW t \in Seq(S), NEW e \in S
  PROVE  LET r == f \o t \o <<e>>
         IN  /\ r \in Seq(S) /\ Len(r) = Len(f) + Len(t) + 1
             /\ \A p \in 1..Len(r) :
                  r[p] = IF p <= Len(f) THEN f[p]
                         ELSE IF p <= Len(f) + Len(t) THEN t[p - Len(f)] ELSE e
<1>. DEFINE a == f \o t
            r == a \o <<e>>
<1>0. Len(f) \in Nat /\ Len(t) \in Nat
  OBVIOUS
<1>1. /\ a \in Seq(S) /\ Len(a) = Len(f) + Len(t)
      /\ \A p \in 1..(Len(f) + Len(t)) : a[p] = IF p <= Len(f) THEN f[p] ELSE t[p - Len(f)]
  OBVIOUS
<1>. HIDE DEF a
<1>2. /\ r \in Seq(S) /\ Len(r) = Len(a) + 1 /\ Len(a) \in Nat
      /\ \A p \in 1..Len(a) : r[p] = a[p]
      /\ r[Len(a) + 1] = e
  BY <1>1, OneMore
<1>. HIDE DEF r
<1>3. ASSUME NEW p \in 1..Len(r)
      PROVE  r[p] = IF p <= Len(f) THEN f[p]
                    ELSE IF p <= Len(f) + Len(t) THEN t[p - Len(f)] ELSE e
  <2>1. p \in Nat /\ p >= 1 /\ p <= Len(f) + Len(t) + 1
    BY <1>0, <1>1, <1>2
  <2>2. CASE p <= Len(f) + Len(t)
    <3>1. p \in 1..Len(a) /\ r[p] = a[p]
      BY <1>0, <1>1, <1>2, <2>1, <2>2
    <3>2. a[p] = IF p <= Len(f) THEN f[p] ELSE t[p - Len(f)]
      BY <1>1, <3>1
    <3>. QED BY <1>0, <2>1, <2>2, <3>1, <3>2
  <2>3. CASE p = Len(f) + Len(t) + 1
    <3>1. r[p] = e
      BY <1>1, <1>2, <2>3
    <3>2. ~(p <= Len(f)) /\ ~(p <= Len(f) + Len(t))
      BY <1>0, <2>3
    <3>. QED BY <3>1, <3>2
  <2>. QED BY <1>0, <2>1, <2>2, <2>3
<1>. QED BY <1>0, <1>1, <1>2, <1>3 DEF r, a

(* The markers are places of what a row begins with; the mask token is at  *)
(* these and nowhere else, and sep behind the instructions and at the end. *)
LEMMA FixedPart ==
  ASSUME NEW q \in Questions
  PROVE  LET n == Len(q.options)
             h == Len(budgetedHead(q))
             f == fixedPart(q)
         IN  /\ f \in Seq(Tokens) /\ h \in Nat
             /\ Len(f) = h + totalLength(budgetedOptions(q)) + 3
             /\ totalLength(budgetedOptions(q)) \in Nat
             /\ markersOf(q) \in [1..n -> Nat]
             /\ \A i \in 1..n : markersOf(q)[i] + 1 <= Len(f)
             /\ f[h + 2] = "sep" /\ f[Len(f)] = "sep"
             /\ \A p \in 1..Len(f) : f[p] = "mask" <=> \E i \in 1..n : p = markersOf(q)[i] + 1
<1>. DEFINE n == Len(q.options)
            head == budgetedHead(q)
            options == budgetedOptions(q)
            flat == FlattenSeq(options)
            before(i) == Len(FlattenSeq(SubSeq(options, 1, i - 1)))
            f == fixedPart(q)
<1>1. options \in Seq(Seq(Tokens)) /\ Len(options) = n /\ \A i \in 1..n : IsOption(options[i])
  BY BudgetedOptions
<1>2. head \in Seq(TextTokens) /\ head \in Seq(Tokens) /\ Len(head) \in Nat
  <2>1. head \in Seq(TextTokens)
    BY BudgetedHead
  <2>. HIDE DEF head
  <2>. QED BY <2>1, TextTokensAreTokens
<1>3. n \in Nat \ {0}
  BY QuestionFields
<1>4. "cls" \in Tokens /\ "sep" \in Tokens
  BY DEF Tokens
<1>5. f = <<"cls">> \o head \o <<"sep">> \o flat \o <<"sep">>
  BY DEF fixedPart
<1>. HIDE DEF n, head, options
<1>6. flat \in Seq(Tokens) /\ Len(flat) \in Nat
  <2>1. flat \in Seq(Tokens)
    BY <1>1, FlattenElements
  <2>. HIDE DEF flat
  <2>. QED BY <2>1
<1>7. /\ \A i \in 1..n : before(i) + 1 <= Len(flat)
      /\ \A p \in 1..Len(flat) : flat[p] = "mask" <=> \E i \in 1..n : p = before(i) + 1
  <2>1. ASSUME NEW i \in 1..n
        PROVE  /\ Len(options[i]) >= 1
               /\ \A j \in 1..Len(options[i]) : options[i][j] = "mask" <=> j = 1
    <3>1. IsOption(options[i])
      BY <1>1
    <3>2. options[i] \in Seq(Tokens) /\ Len(options[i]) \in Nat
      BY <3>1 DEF IsOption
    <3>3. \A j \in 2..Len(options[i]) : options[i][j] # "mask"
      BY <3>1, TextTokensAreTokens DEF IsOption
    <3>. QED BY <3>1, <3>2, <3>3 DEF IsOption
  <2>2. \A i \in 1..Len(options) :
          /\ Len(options[i]) >= 1
          /\ \A j \in 1..Len(options[i]) : options[i][j] = "mask" <=> j = 1
    BY <1>1, <2>1
  <2>3. /\ \A i \in 1..Len(options) : before(i) + 1 <= Len(flat)
        /\ \A p \in 1..Len(flat) :
             flat[p] = "mask" <=> \E i \in 1..Len(options) : p = before(i) + 1
    BY <1>1, <2>2, FlattenBeginnings
  <2>. QED BY <1>1, <2>3
<1>8. \A i \in 1..n : before(i) \in Nat
  <2>1. ASSUME NEW i \in 1..n
        PROVE  before(i) \in Nat
    <3>1. i - 1 \in 0..Len(options)
      BY <1>1, <1>3
    <3>2. FlattenSeq(SubSeq(options, 1, i - 1)) \in Seq(Tokens)
      BY <1>1, <3>1, FlattenSteps
    <3>. QED BY <3>2
  <2>. QED BY <2>1
<1>9. \A j \in 1..Len(head) : head[j] # "mask"
  <2>1. \A j \in 1..Len(head) : head[j] \in TextTokens
    BY <1>2
  <2>. QED BY <2>1, TextTokensAreTokens
<1>10. markersOf(q) = [i \in 1..n |-> Len(head) + 2 + before(i)]
  <2>1. DOMAIN options = 1..n
    BY <1>1
  <2>. QED BY <2>1 DEF markersOf, totalLength, options, head
<1>11. /\ f \in Seq(Tokens) /\ Len(f) = Len(head) + Len(flat) + 3
       /\ \A p \in 1..Len(f) :
            f[p] = IF p = 1 THEN "cls"
                   ELSE IF p <= Len(head) + 1 THEN head[p - 1]
                   ELSE IF p = Len(head) + 2 THEN "sep"
                   ELSE IF p <= Len(head) + 2 + Len(flat) THEN flat[p - (Len(head) + 2)] ELSE "sep"
  <2>. HIDE DEF flat, f
  <2>. QED BY <1>2, <1>4, <1>5, <1>6, FixedLayout
<1>. HIDE DEF flat, f, before
<1>12. /\ markersOf(q) \in [1..n -> Nat]
       /\ \A i \in 1..n : markersOf(q)[i] = Len(head) + 2 + before(i)
  BY <1>2, <1>8, <1>10
<1>13. \A i \in 1..n : markersOf(q)[i] + 1 <= Len(f)
  BY <1>2, <1>6, <1>7, <1>8, <1>11, <1>12
<1>14. f[Len(head) + 2] = "sep" /\ f[Len(f)] = "sep"
  <2>1. PICK k \in 1..Len(f) : k = Len(head) + 2
    BY <1>2, <1>6, <1>11
  <2>2. f[k] = "sep"
    BY <1>2, <1>11, <2>1
  <2>3. PICK m \in 1..Len(f) : m = Len(f) /\ m = Len(head) + Len(flat) + 3
    BY <1>2, <1>6, <1>11
  <2>4. ~(m = 1) /\ ~(m <= Len(head) + 1) /\ ~(m = Len(head) + 2) /\ ~(m <= Len(head) + 2 + Len(flat))
    BY <1>2, <1>6, <2>3
  <2>5. f[m] = "sep"
    BY <1>11, <2>4
  <2>. QED BY <2>1, <2>2, <2>3, <2>5
<1>15. ASSUME NEW p \in 1..Len(f)
       PROVE  f[p] = "mask" <=> \E i \in 1..n : p = markersOf(q)[i] + 1
  <2>1. p \in Nat /\ p >= 1 /\ p <= Len(head) + Len(flat) + 3
    BY <1>2, <1>6, <1>11
  <2>2. \A i \in 1..n : /\ markersOf(q)[i] + 1 > Len(head) + 2
                        /\ markersOf(q)[i] + 1 <= Len(head) + 2 + Len(flat)
    BY <1>2, <1>6, <1>7, <1>8, <1>12
  <2>3. CASE p = 1
    <3>1. f[p] = "cls"
      BY <1>11, <2>3
    <3>2. ~ \E i \in 1..n : p = markersOf(q)[i] + 1
      BY <1>2, <1>12, <2>2, <2>3
    <3>. QED BY <1>2, <1>6, <1>11, <2>3, <3>1, <3>2
  <2>4. CASE p > 1 /\ p <= Len(head) + 1
    <3>1. f[p] = head[p - 1] /\ p - 1 \in 1..Len(head)
      BY <1>2, <1>11, <2>1, <2>4
    <3>2. f[p] # "mask"
      BY <1>9, <3>1
    <3>3. ~ \E i \in 1..n : p = markersOf(q)[i] + 1
      BY <1>2, <1>12, <2>2, <2>4
    <3>. QED BY <1>2, <1>6, <1>11, <2>1, <2>4, <3>2, <3>3
  <2>5. CASE p = Len(head) + 2
    <3>1. f[p] = "sep"
      BY <1>2, <1>11, <2>1, <2>5
    <3>2. ~ \E i \in 1..n : p = markersOf(q)[i] + 1
      BY <1>2, <1>12, <2>2, <2>5
    <3>. QED BY <2>5, <3>1, <3>2
  <2>6. CASE p > Len(head) + 2 /\ p <= Len(head) + 2 + Len(flat)
    <3>1. PICK j \in 1..Len(flat) : j = p - (Len(head) + 2)
      <4>1. p - (Len(head) + 2) \in 1..Len(flat)
        BY <1>2, <1>6, <2>1, <2>6
      <4>. QED BY <4>1
    <3>2. f[p] = flat[j]
      BY <1>2, <1>11, <2>1, <2>6, <3>1
    <3>3. flat[j] = "mask" <=> \E i \in 1..n : j = before(i) + 1
      BY <1>7
    <3>4. ASSUME NEW i \in 1..n
          PROVE  (j = before(i) + 1) <=> (p = markersOf(q)[i] + 1)
      <4>1. before(i) \in Nat /\ markersOf(q)[i] = Len(head) + 2 + before(i)
        BY <1>8, <1>12
      <4>. QED BY <1>2, <2>1, <3>1, <4>1
    <3>. QED BY <3>2, <3>3, <3>4
  <2>7. CASE p = Len(head) + 2 + Len(flat) + 1
    <3>1. f[p] = "sep"
      BY <1>2, <1>6, <1>11, <1>14, <2>1, <2>7
    <3>2. ~ \E i \in 1..n : p = markersOf(q)[i] + 1
      BY <1>2, <1>6, <1>12, <2>2, <2>7
    <3>. QED BY <3>1, <3>2
  <2>. QED BY <1>2, <1>6, <2>1, <2>3, <2>4, <2>5, <2>6, <2>7
<1>16. totalLength(options) = Len(flat)
  BY DEF totalLength, flat
<1>. QED BY <1>2, <1>6, <1>11, <1>12, <1>13, <1>14, <1>15, <1>16 DEF n, head, options, f
-----------------------------------------------------------------------------
(* What a row keeps of the State.                                          *)
StateKept(q) ==
  LET room == limit - Len(fixedPart(q)) - 1
  IN IF Len(state.text) > room THEN room ELSE Len(state.text)

(* The row of a question that is not rejected is within the limit, keeps   *)
(* its markers, and has the mask token and sep where they belong.          *)
LEMMA RowOfQuestion ==
  ASSUME NEW q \in Questions, limit \in Nat, state.text \in Seq(Vocabulary), ~rejects(q)
  PROVE  LET n == Len(q.options)
             f == Len(fixedPart(q))
             row == rowOf(q)
         IN  /\ row \in Seq(Tokens) /\ f \in Nat /\ f > 2
             /\ row = fixedPart(q) \o Cut(encodeText(sanitize(state.text)), limit - f - 1) \o <<"sep">>
             /\ StateKept(q) \in Nat /\ StateKept(q) <= Len(state.text)
             /\ Len(row) = f + StateKept(q) + 1 /\ Len(row) <= limit
             /\ retainedMarkers(q) = markersOf(q)
             /\ row[2 + Len(budgetedHead(q))] = "sep" /\ row[f] = "sep" /\ row[Len(row)] = "sep"
             /\ \A p \in 1..Len(row) : row[p] = "mask" <=> \E i \in 1..n : p = markersOf(q)[i] + 1
<1>. DEFINE n == Len(q.options)
            h == Len(budgetedHead(q))
            fixed == fixedPart(q)
            f == Len(fixed)
            text == encodeText(sanitize(state.text))
            room == limit - f - 1
            kept == Cut(text, room)
            row == fixed \o kept \o <<"sep">>
<1>1. /\ fixed \in Seq(Tokens) /\ h \in Nat
      /\ f = h + totalLength(budgetedOptions(q)) + 3
      /\ totalLength(budgetedOptions(q)) \in Nat
      /\ markersOf(q) \in [1..n -> Nat]
      /\ \A i \in 1..n : markersOf(q)[i] + 1 <= f
      /\ fixed[h + 2] = "sep" /\ fixed[f] = "sep"
      /\ \A p \in 1..f : fixed[p] = "mask" <=> \E i \in 1..n : p = markersOf(q)[i] + 1
  BY FixedPart
<1>2. f \in Nat /\ f > 2
  BY <1>1
<1>3. room \in Nat
  <2>1. ~(f + 1 > limit)
    BY DEF rejects
  <2>. HIDE DEF f
  <2>. QED BY <1>2, <2>1
<1>4. text \in Seq(TextTokens) /\ Len(text) = Len(state.text) /\ Len(state.text) \in Nat
  <2>1. text \in Seq(TextTokens) /\ Len(text) = Len(state.text)
    BY WordsOnly
  <2>. QED BY <2>1
<1>. HIDE DEF text, room
<1>5. /\ kept \in Seq(TextTokens)
      /\ Len(kept) = IF Len(state.text) > room THEN room ELSE Len(state.text)
  BY <1>3, <1>4, CutBegins
<1>. HIDE DEF kept
<1>6. kept \in Seq(Tokens) /\ "sep" \in Tokens
  <2>1. "sep" \in Tokens
    BY DEF Tokens
  <2>. QED BY <1>5, <2>1, TextTokensAreTokens
<1>. HIDE DEF fixed
<1>7. /\ row \in Seq(Tokens) /\ Len(row) = f + Len(kept) + 1
      /\ \A p \in 1..Len(row) :
           row[p] = IF p <= f THEN fixed[p]
                    ELSE IF p <= f + Len(kept) THEN kept[p - f] ELSE "sep"
  <2>1. fixed \in Seq(Tokens)
    BY <1>1
  <2>. QED BY <1>6, <2>1, RowLayout
<1>. HIDE DEF f, row
<1>8. Len(kept) = StateKept(q)
  BY <1>5 DEF StateKept, room, f, fixed
<1>9. StateKept(q) \in Nat /\ StateKept(q) <= Len(state.text) /\ StateKept(q) <= room
  BY <1>3, <1>4, <1>5, <1>8
<1>10. Len(row) <= limit /\ Len(row) \in Nat
  BY <1>2, <1>7, <1>8, <1>9 DEF room
<1>11. rowOf(q) = row
  <2>1. Larger(0, room) = room
    BY <1>3 DEF Larger
  <2>2. rowOf(q) = Cut(row, limit)
    BY <2>1 DEF rowOf, row, kept, room, f, fixed, text, modelStateText
  <2>. QED BY <1>7, <1>10, <2>2, CutBegins
<1>12. retainedMarkers(q) = markersOf(q)
  <2>1. n \in Nat
    BY QuestionFields
  <2>. HIDE DEF n
  <2>2. markersOf(q) \in Seq(Nat) /\ Len(markersOf(q)) = n
    BY <1>1, <2>1, FunctionIsSequence
  <2>3. ASSUME NEW i \in 1..n
        PROVE  markersOf(q)[i] \in 0..(limit - 1)
    <3>1. markersOf(q)[i] \in Nat /\ markersOf(q)[i] + 1 <= f
      BY <1>1
    <3>. QED BY <1>2, <1>3, <3>1 DEF room
  <2>. QED BY <2>2, <2>3, KeptAll DEF retainedMarkers
<1>13. row[2 + h] = "sep" /\ row[f] = "sep" /\ row[Len(row)] = "sep"
  <2>. HIDE DEF h
  <2>0. PICK m \in Nat : m = totalLength(budgetedOptions(q)) /\ f = h + m + 3 /\ h \in Nat
    BY <1>1
  <2>1. PICK a \in 1..Len(row) : a = 2 + h /\ a = h + 2 /\ a <= f
    <3>1. 2 + h \in 1..Len(row) /\ 2 + h = h + 2 /\ 2 + h <= f
      BY <1>7, <1>8, <1>9, <2>0
    <3>. QED BY <3>1
  <2>2. PICK b \in 1..Len(row) : b = f /\ b <= f
    BY <1>2, <1>7, <1>8, <1>9
  <2>3. PICK c \in 1..Len(row) : c = Len(row) /\ ~(c <= f) /\ ~(c <= f + Len(kept))
    BY <1>2, <1>7, <1>8, <1>9
  <2>4. row[a] = "sep"
    BY <1>1, <1>7, <2>1
  <2>5. row[b] = "sep"
    BY <1>1, <1>7, <2>2
  <2>6. row[c] = "sep"
    BY <1>7, <2>3
  <2>. QED BY <2>1, <2>2, <2>3, <2>4, <2>5, <2>6
<1>14. ASSUME NEW p \in 1..Len(row)
       PROVE  row[p] = "mask" <=> \E i \in 1..n : p = markersOf(q)[i] + 1
  <2>0. p \in Nat /\ p >= 1 /\ p <= f + Len(kept) + 1 /\ Len(kept) \in Nat
    BY <1>2, <1>7, <1>8, <1>9
  <2>1. CASE p <= f
    <3>1. p \in 1..f /\ row[p] = fixed[p]
      BY <1>2, <1>7, <2>0, <2>1
    <3>2. fixed[p] = "mask" <=> \E i \in 1..n : p = markersOf(q)[i] + 1
      BY <1>1, <3>1
    <3>. QED BY <3>1, <3>2
  <2>2. p > f => ~ \E i \in 1..n : p = markersOf(q)[i] + 1
    <3>1. p \in Nat /\ f \in Nat
      BY <1>2, <2>0
    <3>2. \A i \in 1..n : markersOf(q)[i] \in Nat /\ markersOf(q)[i] + 1 <= f
      BY <1>1
    <3>. QED BY <3>1, <3>2
  <2>3. CASE p > f /\ p <= f + Len(kept)
    <3>1. row[p] = kept[p - f] /\ p - f \in 1..Len(kept)
      BY <1>2, <1>7, <2>0, <2>3
    <3>2. \A j \in 1..Len(kept) : kept[j] \in TextTokens
      BY <1>5
    <3>3. row[p] # "mask"
      BY <3>1, <3>2, TextTokensAreTokens
    <3>. QED BY <2>2, <2>3, <3>3
  <2>4. CASE p = f + Len(kept) + 1
    <3>1. row[p] = "sep" /\ p > f
      BY <1>2, <1>7, <2>0, <2>4
    <3>. QED BY <2>2, <3>1
  <2>. QED BY <1>2, <2>0, <2>1, <2>3, <2>4
<1>. QED BY <1>2, <1>7, <1>8, <1>9, <1>10, <1>11, <1>12, <1>13, <1>14 DEF n, h, f, fixed, row, kept, text, room
-----------------------------------------------------------------------------
(***************************************************************************)
(* The inductive invariant: what has been prepared is prepareItem of what  *)
(* was asked and not rejected, and the batch is made of it.                *)
(***************************************************************************)
Item == [inputIDs : Seq(Tokens), markerPositions : Seq(Nat), qtype : 0..2,
         originalTokens : Nat, truncated : BOOLEAN]

(* The types of the request and of what is prepared.                       *)
TypeOK ==
  /\ state \in [kind : {"invalid", "text", "json"}, text : Seq(Vocabulary)]
  /\ limit \in Nat \ {0} /\ policy \in {"RejectOverflow", "TruncateOverflow"}
  /\ status \in {"new", "preparing", "rejected", "ready"}
  /\ asked \in Seq(Questions) /\ items \in Seq(Item)

Prepared ==
  /\ Len(items) <= Len(asked)
  /\ status # "rejected" => Len(items) = Len(asked)
  /\ \A i \in 1..Len(items) : items[i] = prepareItem(asked[i]) /\ ~rejects(asked[i])

Collated == status = "ready" => items # <<>> /\ batch = collatePrepared

IInv == TypeOK /\ Prepared /\ Collated

(* The item of a question that is not rejected.                            *)
LEMMA ItemOfQuestion ==
  ASSUME NEW q \in Questions, limit \in Nat, state.text \in Seq(Vocabulary), ~rejects(q)
  PROVE  prepareItem(q) \in Item
<1>1. rowOf(q) \in Seq(Tokens) /\ Len(rowOf(q)) \in Nat
  <2>1. rowOf(q) \in Seq(Tokens)
    BY RowOfQuestion
  <2>. QED BY <2>1
<1>2. retainedMarkers(q) \in Seq(Nat)
  <2>1. retainedMarkers(q) = markersOf(q)
    BY RowOfQuestion
  <2>2. markersOf(q) \in [1..Len(q.options) -> Nat] /\ Len(q.options) \in Nat
    BY FixedPart, QuestionFields
  <2>3. markersOf(q) \in Seq(Nat)
    BY <2>2, FunctionIsSequence
  <2>. QED BY <2>1, <2>3
<1>3. normalizeQuestion(q).qtype \in 0..2
  <2>1. q.kind \in {"choice", "score", "noul"}
    BY QuestionFields
  <2>. QED BY <2>1 DEF normalizeQuestion, normalizeChoice, normalizeScore, normalizeNoul
<1>4. originalTokens(q) \in Nat
  <2>1. fixedPart(q) \in Seq(Tokens)
    BY FixedPart
  <2>2. Len(fixedPart(q)) \in Nat /\ Len(state.text) \in Nat
    BY <2>1
  <2>. QED BY <2>2 DEF originalTokens, modelStateText
<1>5. (originalTokens(q) > Len(rowOf(q))) \in BOOLEAN
  OBVIOUS
<1>. QED BY <1>1, <1>2, <1>3, <1>4, <1>5 DEF prepareItem, Item

(* A request begins within its types.                                      *)
LEMMA InitIInv == Init => IInv
<1>. SUFFICES ASSUME Init
              PROVE  IInv
  OBVIOUS
<1>1. state \in [kind : {"invalid", "text", "json"}, text : Seq(Vocabulary)]
  <2>1. CASE state = ZeroState
    <3>1. <<>> \in Seq(Vocabulary)
      OBVIOUS
    <3>. QED BY <2>1, <3>1 DEF ZeroState
  <2>2. ASSUME NEW d \in Inputs, state = TextState(d)
        PROVE  state \in [kind : {"invalid", "text", "json"}, text : Seq(Vocabulary)]
    BY <2>2, TextAssumption DEF TextState
  <2>3. ASSUME NEW d \in Inputs, state = JSONState(d)
        PROVE  state \in [kind : {"invalid", "text", "json"}, text : Seq(Vocabulary)]
    <3>1. <<>> \in Seq(Vocabulary) /\ Kept(d, Vocabulary \ {" "}) \in Seq(Vocabulary)
      <4>1. d \in Seq(Vocabulary)
        BY TextAssumption
      <4>2. Kept(d, Vocabulary \ {" "}) \in Seq(Vocabulary)
        BY <4>1, KeptType
      <4>3. <<>> \in Seq(Vocabulary)
        OBVIOUS
      <4>. QED BY <4>2, <4>3
    <3>. QED BY <2>3, <3>1 DEF JSONState, ZeroState
  <2>. QED BY <2>1, <2>2, <2>3 DEF Init
<1>2. limit \in Nat \ {0}
  <2>1. PICK l \in InputTokenLimits : limit = effectiveLimit(l)
    BY DEF Init
  <2>2. l \in Nat
    BY ManifestAssumption
  <2>. QED BY <2>1, <2>2, ManifestNaturals DEF effectiveLimit
<1>3. asked = <<>> /\ items = <<>> /\ status = "new" /\ policy \in {"RejectOverflow", "TruncateOverflow"}
  BY DEF Init
<1>4. <<>> \in Seq(Questions) /\ <<>> \in Seq(Item) /\ Len(<<>>) = 0
  OBVIOUS
<1>5. TypeOK
  BY <1>1, <1>2, <1>3, <1>4 DEF TypeOK
<1>6. Prepared /\ Collated
  BY <1>3, <1>4 DEF Prepared, Collated
<1>. QED BY <1>5, <1>6 DEF IInv

(* Every step keeps the invariant.                                         *)
LEMMA NextIInv == IInv /\ [Next]_vars => IInv'
<1>. SUFFICES ASSUME IInv, [Next]_vars
              PROVE  IInv'
  OBVIOUS
<1>. USE DEF IInv
<1>0. Len(items) \in Nat /\ Len(asked) \in Nat
  BY DEF TypeOK
<1>1. CASE Validate
  <2>1. UNCHANGED <<state, limit, policy, asked, items, batch>> /\ status' \in {"preparing", "rejected"}
        /\ status = "new"
    BY <1>1 DEF Validate
  <2>2. TypeOK'
    BY <2>1 DEF TypeOK
  <2>3. Prepared'
    BY <2>1 DEF Prepared, prepareItem, rejects, rowOf, retainedMarkers, originalTokens, modelStateText
  <2>. QED BY <2>1, <2>2, <2>3 DEF Collated
<1>2. CASE PrepareQuestion
  <2>1. PICK q \in Questions :
          /\ asked' = Append(asked, q)
          /\ \/ status' = "rejected" /\ UNCHANGED items
             \/ /\ ~rejects(q) /\ Len(retainedMarkers(q)) = Len(q.options)
                /\ items' = Append(items, prepareItem(q)) /\ UNCHANGED status
    BY <1>2 DEF PrepareQuestion
  <2>2. UNCHANGED <<state, limit, policy, batch>> /\ status = "preparing"
    BY <1>2 DEF PrepareQuestion
  <2>3. Len(items) = Len(asked)
    BY <2>2 DEF Prepared
  <2>4. /\ asked' \in Seq(Questions) /\ Len(asked') = Len(asked) + 1
        /\ (\A i \in 1..Len(asked) : asked'[i] = asked[i]) /\ asked'[Len(asked) + 1] = q
    BY <2>1 DEF TypeOK
  <2>5. CASE status' = "rejected" /\ UNCHANGED items
    <3>1. TypeOK'
      BY <2>2, <2>4, <2>5 DEF TypeOK
    <3>2. Prepared'
      <4>1. Len(items') <= Len(asked')
        BY <1>0, <2>3, <2>4, <2>5
      <4>2. \A i \in 1..Len(items) : items[i] = prepareItem(asked[i]) /\ ~rejects(asked[i])
        BY DEF Prepared
      <4>3. \A i \in 1..Len(items') : items'[i] = prepareItem(asked[i])' /\ ~rejects(asked[i])'
        BY <2>2, <2>3, <2>4, <2>5, <4>2
           DEF prepareItem, rejects, rowOf, retainedMarkers, originalTokens, modelStateText
      <4>. QED BY <2>5, <4>1, <4>3 DEF Prepared
    <3>. QED BY <2>5, <3>1, <3>2 DEF Collated
  <2>6. CASE ~rejects(q) /\ items' = Append(items, prepareItem(q)) /\ UNCHANGED status
    <3>1. prepareItem(q) \in Item
      BY <2>6, ItemOfQuestion DEF TypeOK
    <3>2. /\ items' \in Seq(Item) /\ Len(items') = Len(items) + 1
          /\ (\A i \in 1..Len(items) : items'[i] = items[i]) /\ items'[Len(items) + 1] = prepareItem(q)
      BY <2>6, <3>1 DEF TypeOK
    <3>3. TypeOK'
      BY <2>2, <2>4, <2>6, <3>2 DEF TypeOK
    <3>4. ASSUME NEW i \in 1..Len(items')
          PROVE  items'[i] = prepareItem(asked'[i]) /\ ~rejects(asked'[i])
      <4>1. i \in 1..Len(items) \/ i = Len(items) + 1
        BY <1>0, <3>2
      <4>2. CASE i \in 1..Len(items)
        BY <2>3, <2>4, <3>2, <4>2 DEF Prepared
      <4>3. CASE i = Len(items) + 1
        BY <2>3, <2>4, <2>6, <3>2, <4>3
      <4>. QED BY <4>1, <4>2, <4>3
    <3>5. \A i \in 1..Len(items') : items'[i] = prepareItem(asked[i])' /\ ~rejects(asked[i])'
      BY <2>2, <3>4
         DEF prepareItem, rejects, rowOf, retainedMarkers, originalTokens, modelStateText
    <3>6. Prepared'
      BY <1>0, <2>3, <2>4, <3>2, <3>5 DEF Prepared
    <3>. QED BY <2>2, <2>6, <3>3, <3>6 DEF Collated
  <2>. QED BY <2>1, <2>5, <2>6
<1>3. CASE CollatePrepared
  <2>1. /\ UNCHANGED <<state, limit, policy, asked, items>> /\ status' = "ready"
        /\ status = "preparing" /\ items # <<>> /\ batch' = collatePrepared
    BY <1>3 DEF CollatePrepared
  <2>2. TypeOK'
    BY <2>1 DEF TypeOK
  <2>3. Prepared'
    BY <2>1 DEF Prepared, prepareItem, rejects, rowOf, retainedMarkers, originalTokens, modelStateText
  <2>4. collatePrepared' = collatePrepared
    BY <2>1 DEF collatePrepared, sequenceLength, markerLength, anyTruncated
  <2>. QED BY <2>1, <2>2, <2>3, <2>4 DEF Collated
<1>4. CASE UNCHANGED vars
  <2>1. UNCHANGED <<state, limit, policy, asked, items, batch, status>>
    BY <1>4 DEF vars
  <2>2. TypeOK'
    BY <2>1 DEF TypeOK
  <2>3. Prepared'
    BY <2>1 DEF Prepared, prepareItem, rejects, rowOf, retainedMarkers, originalTokens, modelStateText
  <2>4. collatePrepared' = collatePrepared
    BY <2>1 DEF collatePrepared, sequenceLength, markerLength, anyTruncated
  <2>. QED BY <2>1, <2>2, <2>3, <2>4 DEF Collated
<1>. QED BY <1>1, <1>2, <1>3, <1>4 DEF Next

(* The types, for every manifest, every vocabulary and all questions.      *)
THEOREM TypeCorrect == Spec => []TypeOK
<1>1. IInv => TypeOK
  BY DEF IInv
<1>. QED BY InitIInv, NextIInv, <1>1, PTL DEF Spec
-----------------------------------------------------------------------------
(* The lengths of items, as the proofs use them.                           *)
LEMMA PreparedItem ==
  ASSUME IInv, NEW i \in 1..Len(items)
  PROVE  /\ asked[i] \in Questions /\ items[i] = prepareItem(asked[i]) /\ ~rejects(asked[i])
         /\ limit \in Nat /\ state.text \in Seq(Vocabulary) /\ items[i] \in Item
         /\ items[i].inputIDs = rowOf(asked[i]) /\ items[i].inputIDs \in Seq(Tokens)
         /\ items[i].markerPositions = markersOf(asked[i])
         /\ items[i].markerPositions \in Seq(Nat)
         /\ items[i].originalTokens = originalTokens(asked[i]) /\ originalTokens(asked[i]) \in Nat
         /\ items[i].truncated = (originalTokens(asked[i]) > Len(rowOf(asked[i])))
         /\ Len(rowOf(asked[i])) \in Nat
<1>1. /\ limit \in Nat /\ state.text \in Seq(Vocabulary)
      /\ asked \in Seq(Questions) /\ items \in Seq(Item)
  BY DEF IInv, TypeOK
<1>2. Len(items) \in Nat /\ Len(asked) \in Nat /\ Len(items) <= Len(asked)
  BY <1>1 DEF IInv, Prepared
<1>3. i \in 1..Len(asked)
  BY <1>2
<1>4. asked[i] \in Questions /\ items[i] \in Item
  BY <1>1, <1>3
<1>5. items[i] = prepareItem(asked[i]) /\ ~rejects(asked[i])
  BY DEF IInv, Prepared
<1>6. /\ items[i].inputIDs \in Seq(Tokens) /\ items[i].markerPositions \in Seq(Nat)
      /\ items[i].originalTokens \in Nat
  BY <1>4 DEF Item
<1>7. /\ items[i].inputIDs = rowOf(asked[i]) /\ items[i].markerPositions = retainedMarkers(asked[i])
      /\ items[i].originalTokens = originalTokens(asked[i])
      /\ items[i].truncated = (originalTokens(asked[i]) > Len(rowOf(asked[i])))
  BY <1>5 DEF prepareItem
<1>8. retainedMarkers(asked[i]) = markersOf(asked[i])
  BY <1>1, <1>4, <1>5, RowOfQuestion
<1>9. Len(rowOf(asked[i])) \in Nat
  BY <1>6, <1>7
<1>. QED BY <1>1, <1>4, <1>5, <1>6, <1>7, <1>8, <1>9

(* Sum adds the elements of a sequence.                                    *)
LEMMA SumOfSequence ==
  ASSUME NEW n \in Nat, NEW s, DOMAIN s = 1..n
  PROVE  \E g : Adds(g, s, 1..n) /\ Sum(s) = g[1..n]
<1>. DEFINE g == CHOOSE m : Adds(m, s, 1..n)
<1>1. IsFiniteSet(1..n)
  BY FS_Interval
<1>2. Adds(g, s, 1..n)
  BY <1>1, AddsExists
<1>3. Sum(s) = g[1..n]
  BY DEF Sum, FoldSeq, FoldFunction, FoldFunctionOnSet, MapThenFoldSet, Adds, PickedPlusRest, Picked
<1>. HIDE DEF g
<1>. QED BY <1>2, <1>3

(* A row holds as many tokens as there were, or fewer; the latter only     *)
(* when overflow is not rejected.                                          *)
LEMMA RowTokens ==
  ASSUME IInv, NEW i \in 1..Len(items)
  PROVE  /\ Len(items[i].inputIDs) \in Nat /\ items[i].originalTokens \in Nat
         /\ Len(items[i].inputIDs) <= items[i].originalTokens
         /\ items[i].truncated <=> Len(items[i].inputIDs) # items[i].originalTokens
         /\ items[i].truncated <=> StateKept(asked[i]) < Len(state.text)
         /\ policy = "RejectOverflow" => ~items[i].truncated
<1>. DEFINE q == asked[i]
            f == Len(fixedPart(q))
<1>1. /\ q \in Questions /\ ~rejects(q) /\ limit \in Nat /\ state.text \in Seq(Vocabulary)
      /\ items[i].inputIDs = rowOf(q) /\ items[i].originalTokens = originalTokens(q)
      /\ originalTokens(q) \in Nat /\ Len(rowOf(q)) \in Nat
      /\ items[i].truncated = (originalTokens(q) > Len(rowOf(q)))
  BY PreparedItem
<1>. HIDE DEF q
<1>2. /\ f \in Nat /\ StateKept(q) \in Nat /\ StateKept(q) <= Len(state.text)
      /\ Len(rowOf(q)) = f + StateKept(q) + 1
  BY <1>1, RowOfQuestion
<1>3. originalTokens(q) = f + Len(state.text) + 1 /\ Len(state.text) \in Nat
  BY <1>1 DEF originalTokens, modelStateText
<1>4. policy = "RejectOverflow" => originalTokens(q) <= limit
  BY <1>1 DEF rejects
<1>5. StateKept(q) = IF Len(state.text) > limit - f - 1 THEN limit - f - 1 ELSE Len(state.text)
  BY DEF StateKept
<1>. HIDE DEF f
<1>6. items[i].truncated <=> originalTokens(q) > Len(rowOf(q))
  BY <1>1
<1>7. /\ Len(rowOf(q)) <= originalTokens(q)
      /\ (originalTokens(q) > Len(rowOf(q))) <=> Len(rowOf(q)) # originalTokens(q)
      /\ (originalTokens(q) > Len(rowOf(q))) <=> StateKept(q) < Len(state.text)
      /\ policy = "RejectOverflow" => ~(originalTokens(q) > Len(rowOf(q)))
  BY <1>1, <1>2, <1>3, <1>4, <1>5
<1>. QED BY <1>1, <1>6, <1>7 DEF q

(* Nothing of the State is lost unreported, for every manifest: sums of    *)
(* the rows and of what they had differ exactly when a row was cut.        *)
THEOREM TruncationReported == Spec => []TruncationIsReported
<1>1. IInv => TruncationIsReported
  <2>. SUFFICES ASSUME IInv, status = "ready"
                PROVE  /\ validateTruncation(batch)
                       /\ policy = "RejectOverflow" => ~batch.truncated
    BY DEF TruncationIsReported
  <2>. DEFINE n == Len(items)
              had == [i \in 1..n |-> items[i].originalTokens]
              holds == [i \in 1..n |-> Len(items[i].inputIDs)]
  <2>1. n \in Nat /\ DOMAIN items = 1..n /\ batch = collatePrepared
    BY DEF IInv, TypeOK, Collated
  <2>2. batch.original = Sum(had) /\ batch.effective = Sum(holds)
        /\ batch.truncated = \E i \in 1..n : items[i].truncated
    BY <2>1 DEF collatePrepared, anyTruncated
  <2>3. \A i \in 1..n :
          /\ Len(items[i].inputIDs) \in Nat /\ items[i].originalTokens \in Nat
          /\ Len(items[i].inputIDs) <= items[i].originalTokens
          /\ items[i].truncated <=> Len(items[i].inputIDs) # items[i].originalTokens
          /\ policy = "RejectOverflow" => ~items[i].truncated
    BY RowTokens
  <2>. HIDE DEF n
  <2>4. had \in [1..n -> Nat] /\ holds \in [1..n -> Nat] /\ \A i \in 1..n : holds[i] <= had[i]
    BY <2>3
  <2>5. \A i \in 1..n : items[i].truncated <=> holds[i] # had[i]
    BY <2>3
  <2>. HIDE DEF had, holds
  <2>6. PICK F : Adds(F, holds, 1..n) /\ Sum(holds) = F[1..n]
    BY <2>1, <2>4, SumOfSequence
  <2>7. PICK G : Adds(G, had, 1..n) /\ Sum(had) = G[1..n]
    BY <2>1, <2>4, SumOfSequence
  <2>8. IsFiniteSet(1..n)
    BY <2>1, FS_Interval
  <2>9. /\ F[1..n] \in Nat /\ G[1..n] \in Nat /\ F[1..n] <= G[1..n]
        /\ (F[1..n] = G[1..n]) <=> \A x \in 1..n : holds[x] = had[x]
    <3>1. PICK S : S = 1..n
      OBVIOUS
    <3>2. /\ IsFiniteSet(S) /\ had \in [S -> Nat] /\ holds \in [S -> Nat]
          /\ Adds(F, holds, S) /\ Adds(G, had, S) /\ \A x \in S : holds[x] <= had[x]
      BY <2>4, <2>6, <2>7, <2>8, <3>1
    <3>3. /\ F[S] \in Nat /\ G[S] \in Nat /\ F[S] <= G[S]
          /\ (F[S] = G[S]) <=> \A x \in S : holds[x] = had[x]
      BY <3>2, SumsDiffer
    <3>. QED BY <3>1, <3>3
  <2>10. batch.truncated <=> batch.original > batch.effective
    BY <2>2, <2>5, <2>6, <2>7, <2>9
  <2>11. validateTruncation(batch)
    BY <2>2, <2>6, <2>7, <2>9, <2>10 DEF validateTruncation
  <2>12. policy = "RejectOverflow" => ~batch.truncated
    BY <2>2, <2>3
  <2>. QED BY <2>11, <2>12
<1>. QED BY InitIInv, NextIInv, <1>1, PTL DEF Spec

(* Instructions and options together keep to HeadMaxLen, or to 8 tokens    *)
(* and 4 for each option.                                                  *)
LEMMA HeadBudget ==
  ASSUME NEW q \in Questions
  PROVE  Len(budgetedHead(q)) + totalLength(budgetedOptions(q)) <=
           Larger(HeadMaxLen, 8 + 4 * Len(q.options))
<1>. DEFINE n == Len(q.options)
            h == Len(budgetedHead(q))
            t == totalLength(budgetedOptions(q))
            m == perOption(n)
<1>1. n \in Nat \ {0}
  BY QuestionFields
<1>2. h \in Nat /\ h <= Larger(8, HeadMaxLen - t) /\ t \in Nat
  <2>1. h \in Nat
    BY FixedPart
  <2>. QED BY <2>1, BudgetedHead
<1>3. HeadMaxLen \in Nat /\ HeadReserve \in Nat /\ HeadReserve >= 8
  BY ManifestNaturals
<1>4. /\ budgetedOptions(q) \in Seq(Seq(Tokens)) /\ Len(budgetedOptions(q)) = n
      /\ \/ HeadMaxLen - t >= HeadReserve
         \/ \A i \in 1..n : Len(budgetedOptions(q)[i]) <= m
  BY BudgetedOptions
<1>5. m \in Nat /\ (m = 4 \/ n * m <= HeadMaxLen - HeadReserve)
  BY <1>1, ShareOfAnOption
<1>6. CASE HeadMaxLen - t >= HeadReserve
  <2>. HIDE DEF h, t, n
  <2>1. h + t <= Larger(HeadMaxLen, 8 + 4 * n)
    BY <1>1, <1>2, <1>3, <1>6 DEF Larger
  <2>. QED BY <2>1 DEF h, t, n
<1>7. CASE \A i \in 1..n : Len(budgetedOptions(q)[i]) <= m
  <2>1. t <= n * m
    <3>1. Len(FlattenSeq(budgetedOptions(q))) <= Len(budgetedOptions(q)) * m
      <4>. HIDE DEF m
      <4>. QED BY <1>4, <1>5, <1>7, FlattenLength
    <3>. QED BY <1>4, <3>1 DEF totalLength
  <2>. HIDE DEF h, t, n, m
  <2>2. t <= 4 * n \/ t <= HeadMaxLen - HeadReserve
    <3>1. CASE m = 4
      BY <1>1, <2>1, <3>1
    <3>2. CASE n * m <= HeadMaxLen - HeadReserve
      <4>1. n * m \in Int
        BY <1>1, <1>5
      <4>. QED BY <1>2, <1>3, <2>1, <3>2, <4>1
    <3>. QED BY <1>5, <3>1, <3>2
  <2>. QED BY <1>1, <1>2, <1>3, <2>2 DEF Larger, n, h, t
<1>. QED BY <1>4, <1>6, <1>7

(* A row keeps to all its budgets, for every manifest with a HeadReserve   *)
(* of 8 tokens or more.                                                    *)
THEOREM BudgetsKept == Spec => []RowsKeepTheirBudgets
<1>1. IInv => RowsKeepTheirBudgets
  <2>. SUFFICES ASSUME IInv, NEW i \in DOMAIN items
                PROVE  LET row == items[i].inputIDs
                           options == budgetedOptions(asked[i])
                           head == 2 + Len(budgetedHead(asked[i]))
                           fixed == Len(fixedPart(asked[i]))
                           kept == Len(row) - fixed - 1
                       IN /\ Len(row) <= limit
                          /\ head < fixed /\ fixed < Len(row)
                          /\ row[head] = "sep" /\ row[fixed] = "sep" /\ row[Len(row)] = "sep"
                          /\ items[i].truncated <=> kept < Len(state.text)
                          /\ fixed <= 3 + Larger(HeadMaxLen, 8 + 4 * Len(options))
                          /\ \A o \in DOMAIN options :
                               Len(options[o]) >=
                                 1 + Min({OptionMaxLen, 3, Len(normalizeQuestion(asked[i]).options[o])})
    BY DEF RowsKeepTheirBudgets
  <2>. DEFINE q == asked[i]
              n == Len(q.options)
              row == items[i].inputIDs
              h == Len(budgetedHead(q))
              f == Len(fixedPart(q))
              t == totalLength(budgetedOptions(q))
              options == budgetedOptions(q)
              texts == normalizeQuestion(q).options
  <2>1. i \in 1..Len(items)
    BY DEF IInv, TypeOK
  <2>2. /\ q \in Questions /\ ~rejects(q) /\ limit \in Nat /\ state.text \in Seq(Vocabulary)
        /\ row = rowOf(q)
    BY <2>1, PreparedItem
  <2>3. items[i].truncated <=> StateKept(q) < Len(state.text)
    BY <2>1, RowTokens
  <2>. HIDE DEF q, row
  <2>4. /\ row \in Seq(Tokens) /\ f \in Nat /\ StateKept(q) \in Nat
        /\ Len(row) = f + StateKept(q) + 1 /\ Len(row) <= limit
        /\ row[2 + h] = "sep" /\ row[f] = "sep" /\ row[Len(row)] = "sep"
    BY <2>2, RowOfQuestion
  <2>5. h \in Nat /\ t \in Nat /\ f = h + t + 3
    BY <2>2, FixedPart
  <2>6. 2 + h < f /\ f < Len(row) /\ Len(row) - f - 1 = StateKept(q)
    <3>. HIDE DEF h, f, t
    <3>. QED BY <2>4, <2>5
  <2>7. f <= 3 + Larger(HeadMaxLen, 8 + 4 * n)
    <3>1. h + t <= Larger(HeadMaxLen, 8 + 4 * n)
      BY <2>2, HeadBudget
    <3>2. n \in Nat /\ HeadMaxLen \in Nat
      BY <2>2, QuestionFields, ManifestNaturals
    <3>3. Larger(HeadMaxLen, 8 + 4 * n) \in Nat
      BY <3>2 DEF Larger
    <3>. HIDE DEF h, f, t, n
    <3>. QED BY <2>5, <3>1, <3>3
  <2>8. /\ options \in Seq(Seq(Tokens)) /\ Len(options) = n /\ DOMAIN options = 1..n
         /\ \A o \in 1..n : \/ Len(options[o]) >= 1 + Len(texts[o])
                            \/ Len(options[o]) >= 1 + OptionMaxLen
                            \/ Len(options[o]) >= 4
    <3>1. options \in Seq(Seq(Tokens)) /\ Len(options) = n
      BY <2>2, BudgetedOptions
    <3>2. DOMAIN options = 1..n
      <4>. HIDE DEF options, n
      <4>. QED BY <3>1
    <3>. QED BY <2>2, <3>1, <3>2, BudgetedOptions
  <2>9. ASSUME NEW o \in 1..n
         PROVE  Len(options[o]) >= 1 + Min({OptionMaxLen, 3, Len(texts[o])})
    <3>1. texts \in Seq(Seq(Vocabulary)) /\ Len(texts) = n
      BY <2>2, RenderedOptions
    <3>2. Len(texts[o]) \in Int /\ OptionMaxLen \in Int /\ 3 \in Int /\ Len(options[o]) \in Int
      <4>. HIDE DEF texts, options, n
      <4>. QED BY <2>8, <3>1, ManifestNaturals
    <3>. HIDE DEF texts, options, n
    <3>3. PICK a \in Int, b \in Int, c \in Int : a = OptionMaxLen /\ b = 3 /\ c = Len(texts[o])
      BY <3>2
    <3>4. PICK x : x = Min({a, b, c})
      OBVIOUS
    <3>5. x \in {a, b, c} /\ \A y \in {a, b, c} : x <= y
      BY <3>4, LeastOfThree
    <3>6. x \in Int /\ x <= a /\ x <= b /\ x <= c
      BY <3>5
    <3>7. Len(options[o]) >= 1 + c \/ Len(options[o]) >= 1 + a \/ Len(options[o]) >= 4
      BY <2>8, <3>3
    <3>8. Len(options[o]) >= 1 + x
      BY <3>2, <3>3, <3>6, <3>7
    <3>. QED BY <3>3, <3>4, <3>8
  <2>. HIDE DEF h, f, t, texts, options, n
  <2>. QED BY <2>3, <2>4, <2>6, <2>7, <2>8, <2>9 DEF row, q, h, f, options, texts
<1>. QED BY InitIInv, NextIInv, <1>1, PTL DEF Spec
-----------------------------------------------------------------------------
(* A padded sequence, place by place.                                      *)
LEMMA PadPlaces ==
  ASSUME NEW S, NEW s \in Seq(S), NEW e \in S, NEW n \in Nat, Len(s) <= n
  PROVE  /\ Pad(s, n, e) \in Seq(S) /\ Len(Pad(s, n, e)) = n /\ DOMAIN Pad(s, n, e) = 1..n
         /\ \A j \in 1..n : (j <= Len(s) => Pad(s, n, e)[j] = s[j])
         /\ \A j \in 1..n : (j > Len(s) => Pad(s, n, e)[j] = e)
<1>1. PICK k \in Nat : k = n - Len(s)
  OBVIOUS
<1>. DEFINE z == [i \in 1..k |-> e]
<1>2. z \in Seq(S) /\ Len(z) = k /\ \A i \in 1..k : z[i] = e
  <2>1. z \in [1..k -> S]
    OBVIOUS
  <2>. QED BY <2>1, FunctionIsSequence
<1>3. Pad(s, n, e) = s \o z
  BY <1>1 DEF Pad, Fill
<1>. HIDE DEF z
<1>4. /\ s \o z \in Seq(S) /\ Len(s \o z) = n /\ DOMAIN (s \o z) = 1..n
  BY <1>1, <1>2
<1>5. ASSUME NEW j \in 1..n
      PROVE  (j <= Len(s) => (s \o z)[j] = s[j]) /\ (j > Len(s) => (s \o z)[j] = e)
  <2>1. ASSUME j <= Len(s)
        PROVE  (s \o z)[j] = s[j]
    BY <1>2, <2>1
  <2>2. ASSUME j > Len(s)
        PROVE  (s \o z)[j] = e
    <3>1. (s \o z)[j] = z[j - Len(s)] /\ j - Len(s) \in 1..k
      BY <1>1, <1>2, <2>2
    <3>. QED BY <1>2, <2>2, <3>1
  <2>. QED BY <2>1, <2>2
<1>. QED BY <1>3, <1>4, <1>5

(* The same for the masks, which are padded lists of one value.            *)
LEMMA FillPlaces ==
  ASSUME NEW S, NEW a \in S, NEW m \in Nat
  PROVE  Fill(m, a) \in Seq(S) /\ Len(Fill(m, a)) = m /\ \A j \in 1..m : Fill(m, a)[j] = a
<1>1. Fill(m, a) \in [1..m -> S] /\ \A j \in 1..m : Fill(m, a)[j] = a
  BY DEF Fill
<1>. QED BY <1>1, FunctionIsSequence

(* A mask: one value for what is there, another for the padding.           *)
LEMMA MaskPlaces ==
  ASSUME NEW S, NEW a \in S, NEW e \in S, NEW m \in Nat, NEW n \in Nat, m <= n
  PROVE  /\ DOMAIN Pad(Fill(m, a), n, e) = 1..n
         /\ \A j \in 1..n : (j <= m => Pad(Fill(m, a), n, e)[j] = a)
         /\ \A j \in 1..n : (j > m => Pad(Fill(m, a), n, e)[j] = e)
<1>1. PICK s \in Seq(S) : s = Fill(m, a) /\ Len(s) = m /\ \A j \in 1..m : s[j] = a
  BY FillPlaces
<1>2. Len(s) <= n
  BY <1>1
<1>3. /\ DOMAIN Pad(s, n, e) = 1..n
      /\ \A j \in 1..n : (j <= Len(s) => Pad(s, n, e)[j] = s[j])
      /\ \A j \in 1..n : (j > Len(s) => Pad(s, n, e)[j] = e)
  BY <1>2, PadPlaces
<1>4. \A j \in 1..n : (j <= m => Pad(s, n, e)[j] = a)
  BY <1>1, <1>3
<1>. QED BY <1>1, <1>3, <1>4

(* The widths of a batch are enough for all rows and markers.              *)
LEMMA BatchWidths ==
  ASSUME IInv, items # <<>>
  PROVE  /\ Len(items) \in Nat \ {0} /\ DOMAIN items = 1..Len(items)
         /\ sequenceLength \in Nat /\ markerLength \in Nat
         /\ \A i \in 1..Len(items) :
              /\ Len(items[i].inputIDs) \in Nat /\ Len(items[i].inputIDs) <= sequenceLength
              /\ Len(items[i].markerPositions) \in Nat
              /\ Len(items[i].markerPositions) <= markerLength
<1>. DEFINE n == Len(items)
            rows == [i \in 1..n |-> Len(items[i].inputIDs)]
            markers == [i \in 1..n |-> Len(items[i].markerPositions)]
<1>1. n \in Nat \ {0} /\ DOMAIN items = 1..n
  <2>1. items \in Seq(Item)
    BY DEF IInv, TypeOK
  <2>. QED BY <2>1
<1>2. ASSUME NEW i \in 1..n
      PROVE  Len(items[i].inputIDs) \in Nat /\ Len(items[i].markerPositions) \in Nat
  <2>1. items[i].inputIDs \in Seq(Tokens) /\ items[i].markerPositions \in Seq(Nat)
    BY PreparedItem
  <2>. QED BY <2>1
<1>. HIDE DEF n
<1>3. rows \in [1..n -> Nat] /\ markers \in [1..n -> Nat]
  BY <1>2
<1>4. /\ {rows[i] : i \in 1..n} = {Len(items[i].inputIDs) : i \in DOMAIN items}
      /\ {markers[i] : i \in 1..n} = {Len(items[i].markerPositions) : i \in DOMAIN items}
  BY <1>1
<1>5. /\ \A i \in 1..n : rows[i] = Len(items[i].inputIDs)
      /\ \A i \in 1..n : markers[i] = Len(items[i].markerPositions)
  OBVIOUS
<1>. HIDE DEF rows, markers
<1>6. sequenceLength \in Nat /\ \A i \in 1..n : rows[i] <= sequenceLength
  <2>1. Max({rows[i] : i \in 1..n}) \in Nat /\ \A i \in 1..n : rows[i] <= Max({rows[j] : j \in 1..n})
    BY <1>1, <1>3, GreatestOfAll
  <2>. QED BY <1>4, <2>1 DEF sequenceLength
<1>7. markerLength \in Nat /\ \A i \in 1..n : markers[i] <= markerLength
  <2>1. /\ Max({markers[i] : i \in 1..n}) \in Nat
        /\ \A i \in 1..n : markers[i] <= Max({markers[j] : j \in 1..n})
    BY <1>1, <1>3, GreatestOfAll
  <2>. QED BY <1>4, <2>1 DEF markerLength
<1>. QED BY <1>1, <1>2, <1>5, <1>6, <1>7 DEF n

(* The markers of one row, and no others, are places of the mask token.    *)
LEMMA RowMarkers ==
  ASSUME IInv, NEW i \in 1..Len(items)
  PROVE  LET row == items[i].inputIDs
             markers == items[i].markerPositions
         IN  /\ row \in Seq(Tokens) /\ markers \in Seq(Nat)
             /\ Len(markers) = Len(asked[i].options)
             /\ \A m \in 1..Len(markers) : markers[m] + 1 \in 1..Len(row)
             /\ \A p \in 1..Len(row) :
                  row[p] = "mask" <=> \E m \in 1..Len(markers) : p = markers[m] + 1
<1>. DEFINE q == asked[i]
            n == Len(q.options)
            row == items[i].inputIDs
            markers == items[i].markerPositions
            f == Len(fixedPart(q))
<1>1. /\ q \in Questions /\ ~rejects(q) /\ limit \in Nat /\ state.text \in Seq(Vocabulary)
      /\ row = rowOf(q) /\ markers = markersOf(q)
      /\ row \in Seq(Tokens) /\ markers \in Seq(Nat)
  BY PreparedItem
<1>. HIDE DEF q, row, markers
<1>2. n \in Nat /\ markersOf(q) \in [1..n -> Nat] /\ \A m \in 1..n : markersOf(q)[m] + 1 <= f
  BY <1>1, QuestionFields, FixedPart
<1>3. /\ f \in Nat /\ StateKept(q) \in Nat /\ Len(row) = f + StateKept(q) + 1
      /\ \A p \in 1..Len(row) : row[p] = "mask" <=> \E m \in 1..n : p = markersOf(q)[m] + 1
  BY <1>1, RowOfQuestion
<1>4. Len(markers) = n
  BY <1>1, <1>2, FunctionIsSequence
<1>. HIDE DEF n, f
<1>5. \A m \in 1..n : markers[m] + 1 \in 1..Len(row)
  <2>1. Len(row) \in Nat /\ f <= Len(row)
    BY <1>3
  <2>2. f \in Nat /\ \A m \in 1..n : markers[m] \in Nat /\ markers[m] + 1 <= f
    BY <1>1, <1>2, <1>3
  <2>. QED BY <2>1, <2>2
<1>. QED BY <1>1, <1>3, <1>4, <1>5 DEF q, n, row, markers

(* Every option of every row is read at its own mask token, whatever the   *)
(* texts, the budgets and the limit.                                       *)
THEOREM MarkersCorrect == Spec => []MarkersAreTheMasks
<1>1. IInv => MarkersAreTheMasks
  <2>. SUFFICES ASSUME IInv
                PROVE  MarkersAreTheMasks
    OBVIOUS
  <2>0. DOMAIN items = 1..Len(items)
    BY DEF IInv, TypeOK
  <2>1. ASSUME NEW i \in DOMAIN items
        PROVE  LET row == items[i].inputIDs IN
               /\ Len(items[i].markerPositions) = Len(asked[i].options)
               /\ ToSet(items[i].markerPositions) =
                    {p - 1 : p \in {j \in DOMAIN row : row[j] = "mask"}}
    <3>. DEFINE row == items[i].inputIDs
                markers == items[i].markerPositions
    <3>1. /\ row \in Seq(Tokens) /\ markers \in Seq(Nat)
          /\ Len(markers) = Len(asked[i].options)
          /\ \A m \in 1..Len(markers) : markers[m] + 1 \in 1..Len(row)
          /\ \A p \in 1..Len(row) :
               row[p] = "mask" <=> \E m \in 1..Len(markers) : p = markers[m] + 1
      BY <2>0, RowMarkers
    <3>. HIDE DEF row, markers
    <3>2. /\ DOMAIN row = 1..Len(row) /\ DOMAIN markers = 1..Len(markers)
          /\ \A m \in 1..Len(markers) : markers[m] \in Nat
      BY <3>1
    <3>3. ASSUME NEW m \in 1..Len(markers)
          PROVE  markers[m] \in {p - 1 : p \in {j \in DOMAIN row : row[j] = "mask"}}
      <4>1. markers[m] + 1 \in {j \in DOMAIN row : row[j] = "mask"}
        BY <3>1, <3>2
      <4>2. (markers[m] + 1) - 1 = markers[m]
        BY <3>2
      <4>. QED BY <4>1, <4>2
    <3>4. ASSUME NEW p \in DOMAIN row, row[p] = "mask"
          PROVE  \E m \in 1..Len(markers) : p - 1 = markers[m]
      <4>1. PICK m \in 1..Len(markers) : p = markers[m] + 1
        BY <3>1, <3>2, <3>4
      <4>. QED BY <3>2, <4>1
    <3>5. ToSet(markers) = {p - 1 : p \in {j \in DOMAIN row : row[j] = "mask"}}
      BY <3>2, <3>3, <3>4 DEF ToSet
    <3>. QED BY <3>1, <3>5 DEF row, markers
  <2>2. ASSUME status = "ready", NEW i \in DOMAIN items
        PROVE  LET row == batch.inputIDs[i]
                   counted == {m \in DOMAIN batch.markerMask[i] : batch.markerMask[i][m]}
               IN /\ Len(row) = Len(batch.inputIDs[1])
                  /\ {batch.markerPos[i][m] : m \in counted} =
                       {p - 1 : p \in {j \in DOMAIN row :
                                         row[j] = "mask" /\ batch.attentionMask[i][j] = 1}}
    <3>. DEFINE wide == sequenceLength
                many == markerLength
                row == items[i].inputIDs
                markers == items[i].markerPositions
                k == Len(row)
                c == Len(markers)
    <3>1. items # <<>> /\ batch = collatePrepared
      BY <2>2 DEF IInv, Collated
    <3>2. /\ Len(items) \in Nat \ {0} /\ wide \in Nat /\ many \in Nat
          /\ \A j \in 1..Len(items) : Len(items[j].inputIDs) <= wide
          /\ k \in Nat /\ k <= wide /\ c \in Nat /\ c <= many
      BY <2>0, <3>1, BatchWidths
    <3>3. /\ batch.inputIDs[i] = Pad(row, wide, "pad")
          /\ batch.attentionMask[i] = Pad(Fill(k, 1), wide, 0)
          /\ batch.markerPos[i] = Pad(markers, many, 0)
          /\ batch.markerMask[i] = Pad(Fill(c, TRUE), many, FALSE)
          /\ batch.inputIDs[1] = Pad(items[1].inputIDs, wide, "pad")
      <4>1. 1 \in DOMAIN items
        BY <2>0, <3>2
      <4>. QED BY <3>1, <4>1 DEF collatePrepared
    <3>4. /\ row \in Seq(Tokens) /\ markers \in Seq(Nat)
          /\ \A m \in 1..c : markers[m] + 1 \in 1..k
          /\ \A p \in 1..k : row[p] = "mask" <=> \E m \in 1..c : p = markers[m] + 1
      BY <2>0, RowMarkers
    <3>5. items[1].inputIDs \in Seq(Tokens) /\ Len(items[1].inputIDs) <= wide
      <4>1. 1 \in 1..Len(items)
        BY <3>2
      <4>. QED BY <3>2, <4>1, RowMarkers
    <3>6. "pad" \in Tokens
      BY DEF Tokens
    <3>. HIDE DEF wide, many, row, markers
    <3>7. /\ Len(Pad(row, wide, "pad")) = wide /\ DOMAIN Pad(row, wide, "pad") = 1..wide
          /\ \A j \in 1..wide : (j <= k => Pad(row, wide, "pad")[j] = row[j])
          /\ \A j \in 1..wide : (j > k => Pad(row, wide, "pad")[j] = "pad")
          /\ Len(Pad(items[1].inputIDs, wide, "pad")) = wide
      BY <3>2, <3>4, <3>5, <3>6, PadPlaces
    <3>. HIDE DEF k, c
    <3>8. /\ \A j \in 1..wide : (j <= k => Pad(Fill(k, 1), wide, 0)[j] = 1)
          /\ \A j \in 1..wide : (j > k => Pad(Fill(k, 1), wide, 0)[j] = 0)
      <4>0. PICK N : N = Nat
        OBVIOUS
      <4>1. PICK a \in N, z \in N : a = 1 /\ z = 0
        BY <4>0
      <4>2. k \in Nat /\ wide \in Nat /\ k <= wide
        BY <3>2
      <4>3. /\ \A j \in 1..wide : (j <= k => Pad(Fill(k, a), wide, z)[j] = a)
            /\ \A j \in 1..wide : (j > k => Pad(Fill(k, a), wide, z)[j] = z)
        BY <4>2, MaskPlaces
      <4>. QED BY <4>1, <4>3
    <3>9. \A m \in 1..many : (m <= c => Pad(markers, many, 0)[m] = markers[m])
      <4>0. PICK N : N = Nat
        OBVIOUS
      <4>1. PICK z \in N : z = 0
        BY <4>0
      <4>2. markers \in Seq(N) /\ many \in Nat /\ Len(markers) <= many
        BY <3>2, <3>4, <4>0 DEF c
      <4>3. \A m \in 1..many : (m <= Len(markers) => Pad(markers, many, z)[m] = markers[m])
        BY <4>2, PadPlaces
      <4>. QED BY <4>1, <4>3 DEF c
    <3>10. /\ DOMAIN Pad(Fill(c, TRUE), many, FALSE) = 1..many
           /\ \A m \in 1..many : Pad(Fill(c, TRUE), many, FALSE)[m] <=> m <= c
      <4>1. PICK y \in BOOLEAN, z \in BOOLEAN : y = TRUE /\ z = FALSE
        OBVIOUS
      <4>2. /\ DOMAIN Pad(Fill(c, y), many, z) = 1..many
            /\ \A m \in 1..many : (m <= c => Pad(Fill(c, y), many, z)[m] = y)
            /\ \A m \in 1..many : (m > c => Pad(Fill(c, y), many, z)[m] = z)
        BY <3>2, MaskPlaces
      <4>3. \A m \in 1..many : m <= c \/ m > c
        BY <3>2
      <4>4. \A m \in 1..many : m > c => ~(m <= c)
        BY <3>2
      <4>5. \A m \in 1..many : Pad(Fill(c, y), many, z)[m] <=> m <= c
        BY <4>1, <4>2, <4>3, <4>4, Zenon
      <4>. QED BY <4>1, <4>2, <4>5, Zenon
    <3>. DEFINE counted == {m \in DOMAIN batch.markerMask[i] : batch.markerMask[i][m]}
                masked == {j \in DOMAIN batch.inputIDs[i] :
                             batch.inputIDs[i][j] = "mask" /\ batch.attentionMask[i][j] = 1}
    <3>11. counted = 1..c
      <4>1. 1..c \subseteq 1..many /\ \A m \in 1..many : m <= c <=> m \in 1..c
        BY <3>2
      <4>2. /\ DOMAIN batch.markerMask[i] = 1..many
            /\ \A m \in 1..many : batch.markerMask[i][m] <=> m \in 1..c
        BY <3>3, <3>10, <4>1, Zenon
      <4>. QED BY <4>1, <4>2, Zenon
    <3>12. masked = {j \in 1..k : row[j] = "mask"}
      <4>1. ASSUME NEW j \in 1..wide
            PROVE  batch.inputIDs[i][j] = "mask" /\ batch.attentionMask[i][j] = 1
                     <=> j \in 1..k /\ row[j] = "mask"
        BY <3>2, <3>3, <3>7, <3>8
      <4>2. DOMAIN batch.inputIDs[i] = 1..wide /\ 1..k \subseteq 1..wide
        BY <3>2, <3>3, <3>7
      <4>. QED BY <4>1, <4>2
    <3>. HIDE DEF counted, masked
    <3>13. \A m \in 1..c : batch.markerPos[i][m] = markers[m] /\ markers[m] \in Nat
      BY <3>2, <3>3, <3>4, <3>9 DEF c
    <3>14. ASSUME NEW m \in 1..c
           PROVE  batch.markerPos[i][m] \in {p - 1 : p \in masked}
      <4>1. markers[m] + 1 \in masked
        BY <3>4, <3>12
      <4>2. (markers[m] + 1) - 1 = markers[m]
        BY <3>13
      <4>. QED BY <3>13, <4>1, <4>2
    <3>15. ASSUME NEW p \in masked
           PROVE  \E m \in 1..c : p - 1 = batch.markerPos[i][m]
      <4>1. PICK m \in 1..c : p = markers[m] + 1
        BY <3>4, <3>12
      <4>. QED BY <3>13, <4>1
    <3>16. {batch.markerPos[i][m] : m \in counted} = {p - 1 : p \in masked}
      BY <3>11, <3>14, <3>15
    <3>17. Len(batch.inputIDs[i]) = Len(batch.inputIDs[1])
      BY <3>3, <3>7
    <3>. QED BY <3>16, <3>17 DEF counted, masked
  <2>. QED BY <2>1, <2>2 DEF MarkersAreTheMasks
<1>. QED BY InitIInv, NextIInv, <1>1, PTL DEF Spec
-----------------------------------------------------------------------------
(***************************************************************************)
(* The reference, operation by operation: what reference.py computes is    *)
(* what the Go code computes, although the two are written differently.    *)
(***************************************************************************)

(* The reference's own copies of library operators are these modules'.     *)
LEMMA LibraryAgrees ==
  /\ \A S : Py!Max(S) = Max(S)
  /\ \A s : Py!FlattenSeq(s) = FlattenSeq(s)
<1>1. ASSUME NEW S
      PROVE  Py!Max(S) = Max(S)
  BY DEF Py!Max, Max
<1>2. ASSUME NEW s
      PROVE  Py!FlattenSeq(s) = FlattenSeq(s)
  BY DEF Py!FlattenSeq, FlattenSeq
<1>. QED BY <1>1, <1>2

(* A slice of the Python, ids[:n], is what Cut leaves.                     *)
LEMMA SlicesAgree ==
  ASSUME NEW S, NEW s \in Seq(S), NEW n \in Int
  PROVE  Py!First(s, n) = Cut(s, n)
<1>1. Len(s) \in Int /\ (n < Len(s) <=> Len(s) > n)
  OBVIOUS
<1>. QED BY <1>1 DEF Py!First, Cut

(* max of the Python is Larger.                                            *)
LEMMA GreaterAgrees ==
  ASSUME NEW a \in Int, NEW b \in Int
  PROVE  Py!Greater(a, b) = Larger(a, b)
BY DEF Py!Greater, Larger

(* text.replace(MASK_TOKEN, " ") is what sanitize does.                    *)
LEMMA UnmaskedAgrees ==
  ASSUME NEW text
  PROVE  Py!Unmasked(text) = sanitize(text)
BY DEF Py!Unmasked, sanitize

(* render_options is normalizeQuestion, and QTYPES its qtype.              *)
LEMMA RenderingAgrees ==
  ASSUME NEW q \in Questions
  PROVE  /\ Py!render_options(q) = normalizeQuestion(q).options
         /\ Py!QTYPES[q.kind] = normalizeQuestion(q).qtype
<1>. DEFINE n == Len(q.options)
            texts == normalizeQuestion(q).options
<1>1. /\ q.kind \in {"choice", "score", "noul"}
      /\ n \in Nat /\ n >= 2 /\ DOMAIN q.options = 1..n
      /\ q.kind = "noul" => n = 2
  BY QuestionFields
<1>. HIDE DEF n
<1>2. CASE q.kind = "choice"
  <2>1. texts = [i \in 1..n |->
                   IF q.options[i].description = <<>> THEN <<q.options[i].id>>
                   ELSE <<q.options[i].id, ":">> \o q.options[i].description]
    BY <1>1, <1>2 DEF normalizeQuestion, normalizeChoice
  <2>2. Py!render_options(q) =
          [i \in 1..n |->
             IF q.options[i].description = <<>> THEN <<q.options[i].id>>
             ELSE <<q.options[i].id, ":">> \o q.options[i].description]
    BY <1>1, <1>2 DEF Py!render_options
  <2>3. Py!QTYPES[q.kind] = normalizeQuestion(q).qtype
    BY <1>2 DEF Py!QTYPES, normalizeQuestion, normalizeChoice
  <2>. QED BY <2>1, <2>2, <2>3
<1>3. CASE q.kind = "score"
  <2>1. texts = [i \in 1..n |-> <<"level", ToString(i - 1), ":">> \o q.options[i].description]
    BY <1>1, <1>3 DEF normalizeQuestion, normalizeScore
  <2>2. Py!render_options(q) =
          [i \in 1..n |-> <<"level", ToString(i - 1), ":">> \o q.options[i].description]
    BY <1>1, <1>3 DEF Py!render_options
  <2>3. Py!QTYPES[q.kind] = normalizeQuestion(q).qtype
    BY <1>3 DEF Py!QTYPES, normalizeQuestion, normalizeScore
  <2>. QED BY <2>1, <2>2, <2>3
<1>4. CASE q.kind = "noul"
  <2>. DEFINE no == IF q.options[1].description # <<>> THEN q.options[1].description
                    ELSE <<"no", "the", "statement", "does", "not", "hold">>
              yes == IF q.options[2].description # <<>> THEN q.options[2].description
                     ELSE <<"yes", "the", "statement", "holds">>
  <2>1. texts = <<<<"false", ":">> \o no, <<"true", ":">> \o yes>>
    BY <1>1, <1>4 DEF normalizeQuestion, normalizeNoul
  <2>2. /\ Py!render_options(q)[1] = <<"false", ":">> \o no
        /\ Py!render_options(q)[2] = <<"true", ":">> \o yes
        /\ \E f : Py!render_options(q) = [i \in 1..2 |-> f[i]]
    <3>1. /\ Py!DefaultCriterion[1] = <<"no", "the", "statement", "does", "not", "hold">>
          /\ Py!DefaultCriterion[2] = <<"yes", "the", "statement", "holds">>
      BY DEF Py!DefaultCriterion
    <3>2. Py!render_options(q) =
            [i \in 1..2 |->
               <<IF i = 1 THEN "false" ELSE "true", ":">> \o
               IF q.options[i].description = <<>> THEN Py!DefaultCriterion[i]
               ELSE q.options[i].description]
      BY <1>1, <1>4 DEF Py!render_options
    <3>3. PICK r : r = Py!render_options(q)
      OBVIOUS
    <3>4. /\ r[1] = <<"false", ":">> \o
                      IF q.options[1].description = <<>> THEN Py!DefaultCriterion[1]
                      ELSE q.options[1].description
          /\ r[2] = <<"true", ":">> \o
                      IF q.options[2].description = <<>> THEN Py!DefaultCriterion[2]
                      ELSE q.options[2].description
      <4>1. 1 \in 1..2 /\ 2 \in 1..2 /\ 2 # 1
        OBVIOUS
      <4>2. r[1] = <<IF 1 = 1 THEN "false" ELSE "true", ":">> \o
                     IF q.options[1].description = <<>> THEN Py!DefaultCriterion[1]
                     ELSE q.options[1].description
        BY <3>2, <3>3, <4>1
      <4>3. r[2] = <<IF 2 = 1 THEN "false" ELSE "true", ":">> \o
                     IF q.options[2].description = <<>> THEN Py!DefaultCriterion[2]
                     ELSE q.options[2].description
        BY <3>2, <3>3, <4>1
      <4>. QED BY <4>1, <4>2, <4>3
    <3>5. r = [i \in 1..2 |-> r[i]]
      BY <3>2, <3>3
    <3>. QED BY <3>1, <3>3, <3>4, <3>5
  <2>3. Py!QTYPES[q.kind] = normalizeQuestion(q).qtype
    BY <1>4 DEF Py!QTYPES, normalizeQuestion, normalizeNoul
  <2>. HIDE DEF no, yes, texts
  <2>4. PICK a, b : a = <<"false", ":">> \o no /\ b = <<"true", ":">> \o yes
    OBVIOUS
  <2>5. PICK f : Py!render_options(q) = [i \in 1..2 |-> f[i]]
    BY <2>2
  <2>6. f[1] = a /\ f[2] = b
    BY <2>2, <2>4, <2>5
  <2>7. [i \in 1..2 |-> f[i]] = <<a, b>>
    BY <2>6
  <2>. QED BY <2>1, <2>3, <2>4, <2>5, <2>7 DEF texts
<1>. QED BY <1>1, <1>2, <1>3, <1>4

(* The options and the instructions keep to the same budgets.              *)
LEMMA OptionsAgree ==
  ASSUME NEW q \in Questions
  PROVE  Py!OptionIds(q) = encodedOptions(q)
<1>. DEFINE n == Len(q.options)
            texts == normalizeQuestion(q).options
<1>1. n \in Nat /\ DOMAIN q.options = 1..n
  BY QuestionFields
<1>2. texts \in Seq(Seq(Vocabulary)) /\ Len(texts) = n
  BY RenderedOptions
<1>. HIDE DEF n, texts
<1>3. DOMAIN texts = 1..n /\ \A i \in 1..n : texts[i] \in Seq(Vocabulary)
  BY <1>1, <1>2
<1>4. Py!render_options(q) = texts
  BY RenderingAgrees DEF texts
<1>5. encodedOptions(q) =
        [i \in 1..n |-> <<"mask">> \o Cut(encodeText(sanitize(texts[i])), OptionMaxLen)]
  BY <1>3 DEF encodedOptions, texts
<1>6. Py!OptionIds(q) =
        [i \in 1..n |-> <<"mask">> \o Py!First(Encode(Py!Unmasked(texts[i])), OptionMaxLen)]
  BY <1>1, <1>4 DEF Py!OptionIds
<1>7. ASSUME NEW i \in 1..n
      PROVE  Py!First(Encode(Py!Unmasked(texts[i])), OptionMaxLen) =
               Cut(encodeText(sanitize(texts[i])), OptionMaxLen)
  <2>1. texts[i] \in Seq(Vocabulary) /\ OptionMaxLen \in Int
    BY <1>3, ManifestNaturals
  <2>2. encodeText(sanitize(texts[i])) \in Seq(TextTokens)
    BY <2>1, WordsOnly
  <2>3. Encode(Py!Unmasked(texts[i])) = encodeText(sanitize(texts[i]))
    BY UnmaskedAgrees DEF encodeText
  <2>. QED BY <2>1, <2>2, <2>3, SlicesAgree
<1>. QED BY <1>5, <1>6, <1>7

(* The second cut of the options, to their share of the head's budget.     *)
LEMMA FittedOptionsAgree ==
  ASSUME NEW q \in Questions
  PROVE  Py!FittedOptions(q, HeadMaxLen) = budgetedOptions(q)
<1>. DEFINE n == Len(q.options)
            options == encodedOptions(q)
            share == Py!Greater(4, (HeadMaxLen - HeadReserve) \div Py!Greater(1, n))
<1>1. n \in Nat \ {0} /\ DOMAIN q.options = 1..n
  BY QuestionFields
<1>2. options \in [1..n -> Seq(Tokens)]
  BY EncodedOptions
<1>3. Py!OptionIds(q) = options
  BY OptionsAgree
<1>. HIDE DEF n, options
<1>4. Len(options) = n /\ DOMAIN options = 1..n /\ \A i \in 1..n : options[i] \in Seq(Tokens)
  BY <1>1, <1>2, FunctionIsSequence
<1>5. share = perOption(n) /\ perOption(n) \in Int
  <2>1. PICK a \in Int : a = HeadMaxLen - HeadReserve
    BY ManifestNaturals
  <2>2. PICK e \in Int : e = 1
    OBVIOUS
  <2>3. Py!Greater(e, n) = Larger(e, n) /\ Larger(e, n) = n
    BY <1>1, <2>2, GreaterAgrees DEF Larger
  <2>4. PICK d \in Int : d = a \div n
    BY <1>1, <2>1
  <2>5. PICK m \in Int : m = 4
    OBVIOUS
  <2>6. Py!Greater(m, d) = Larger(m, d)
    BY GreaterAgrees
  <2>7. share = Py!Greater(m, d) /\ perOption(n) = Larger(m, d)
    BY <2>1, <2>2, <2>3, <2>4, <2>5 DEF perOption
  <2>8. perOption(n) \in Int
    BY <1>1, ShareOfAnOption
  <2>. QED BY <2>6, <2>7, <2>8
<1>. HIDE DEF share
<1>6. \A i \in 1..n : Py!First(options[i], share) = Cut(options[i], perOption(n))
  BY <1>4, <1>5, SlicesAgree
<1>7. Py!OptionBudget(options, HeadMaxLen) = HeadMaxLen - totalLength(options)
  BY LibraryAgrees DEF Py!OptionBudget, totalLength
<1>8. Py!FittedOptions(q, HeadMaxLen) =
        IF HeadMaxLen - totalLength(options) < HeadReserve
        THEN [i \in 1..n |-> Py!First(options[i], share)] ELSE options
  BY <1>1, <1>3, <1>7 DEF Py!FittedOptions, n, share
<1>9. budgetedOptions(q) =
        IF HeadMaxLen - totalLength(options) < HeadReserve
        THEN [i \in 1..n |-> Cut(options[i], perOption(n))] ELSE options
  BY <1>4 DEF budgetedOptions, options
<1>10. [i \in 1..n |-> Py!First(options[i], share)] = [i \in 1..n |-> Cut(options[i], perOption(n))]
  BY <1>6
<1>11. CASE HeadMaxLen - totalLength(options) < HeadReserve
  BY <1>8, <1>9, <1>10, <1>11
<1>12. CASE ~(HeadMaxLen - totalLength(options) < HeadReserve)
  BY <1>8, <1>9, <1>12
<1>. QED BY <1>11, <1>12

(* The instructions, cut to what the options leave.                        *)
LEMMA FittedHeadAgrees ==
  ASSUME NEW q \in Questions
  PROVE  Py!FittedHead(q, HeadMaxLen) = budgetedHead(q)
<1>. DEFINE words == <<q.kind, "question:">> \o sanitize(q.instructions)
            left == HeadMaxLen - totalLength(budgetedOptions(q))
<1>1. left \in Int
  BY BudgetedHead, ManifestNaturals
<1>2. Py!OptionBudget(Py!FittedOptions(q, HeadMaxLen), HeadMaxLen) = left
  BY LibraryAgrees, FittedOptionsAgree DEF Py!OptionBudget, totalLength
<1>3. encodeText(words) \in Seq(TextTokens)
  BY HeadWords
<1>4. Py!FittedHead(q, HeadMaxLen) = Py!First(Encode(words), Py!Greater(8, left))
  BY <1>2, UnmaskedAgrees DEF Py!FittedHead
<1>5. budgetedHead(q) = Cut(encodeText(words), Larger(8, left))
  BY DEF budgetedHead
<1>. HIDE DEF words, left
<1>6. Encode(words) = encodeText(words)
  BY DEF encodeText
<1>7. PICK m \in Int : m = 8
  OBVIOUS
<1>8. Py!Greater(m, left) = Larger(m, left) /\ Larger(m, left) \in Int
  BY <1>1, GreaterAgrees DEF Larger
<1>9. Py!First(encodeText(words), Larger(m, left)) = Cut(encodeText(words), Larger(m, left))
  BY <1>3, <1>8, SlicesAgree
<1>. QED BY <1>4, <1>5, <1>6, <1>7, <1>8, <1>9

(* Concatenation may be taken in either order.                             *)
LEMMA ConcatenationAssociates ==
  ASSUME NEW S, NEW a \in Seq(S), NEW b \in Seq(S), NEW c \in Seq(S)
  PROVE  (a \o b) \o c = a \o (b \o c)
OBVIOUS

(* The rows are laid out option by option; so laid out, the options follow *)
(* each other, and the markers count what is before them.                  *)
LEMMA LaidSteps ==
  ASSUME NEW head \in Seq(Tokens), NEW options \in Seq(Seq(Tokens))
  PROVE  \E g : /\ Py!Laid(head, options) = g[Len(options)]
                /\ g[0].input_ids = <<"cls">> \o head \o <<"sep">> /\ g[0].markers = <<>>
                /\ \A k \in 1..Len(options) :
                     /\ g[k].input_ids = g[k - 1].input_ids \o options[k]
                     /\ g[k].markers = Append(g[k - 1].markers, Len(g[k - 1].input_ids))
<1>. DEFINE base == <<"cls">> \o head \o <<"sep">>
            n == Len(options)
            A == [input_ids : Seq(Tokens), markers : Seq(Nat)]
            first == [input_ids |-> base, markers |-> <<>>]
            more(a, o) == [input_ids |-> a.input_ids \o o,
                           markers |-> Append(a.markers, Len(a.input_ids))]
            Lays(g) == g = [t \in SUBSET (1..n) |->
                              IF t = {} THEN first ELSE more(g[t \ {Max(t)}], options[Max(t)])]
            w == CHOOSE g : Lays(g)
            h == [i \in 1..n |-> [a \in A |-> more(a, options[i])]]
<1>1. n \in Nat /\ DOMAIN options = 1..n /\ \A i \in 1..n : options[i] \in Seq(Tokens)
  OBVIOUS
<1>0. base \in Seq(Tokens)
  <2>1. PICK c \in Tokens, e \in Tokens : c = "cls" /\ e = "sep"
    BY DEF Tokens
  <2>2. <<c>> \o head \o <<e>> \in Seq(Tokens)
    OBVIOUS
  <2>. QED BY <2>1, <2>2
<1>2. first \in A /\ \A i \in 1..n : \A a \in A : more(a, options[i]) \in A
  <2>1. <<>> \in Seq(Nat)
    OBVIOUS
  <2>2. ASSUME NEW i \in 1..n, NEW a \in A
        PROVE  more(a, options[i]) \in A
    <3>1. a.input_ids \in Seq(Tokens) /\ a.markers \in Seq(Nat) /\ options[i] \in Seq(Tokens)
      BY <1>1
    <3>2. Len(a.input_ids) \in Nat
      BY <3>1
    <3>3. a.input_ids \o options[i] \in Seq(Tokens) /\ Append(a.markers, Len(a.input_ids)) \in Seq(Nat)
      BY <3>1, <3>2
    <3>. QED BY <3>3
  <2>3. first \in A
    <3>. HIDE DEF base
    <3>. QED BY <1>0, <2>1
  <2>. QED BY <2>2, <2>3
<1>3. Py!Laid(head, options) = w[1..n]
  BY <1>1, LibraryAgrees DEF Py!Laid, Py!Extended, Py!FoldLeft, Py!MapThenFoldSet
<1>. HIDE DEF A, n, first, more, base
<1>4. h \in [1..n -> [A -> A]] /\ \A i \in 1..n : \A a \in A : h[i][a] = more(a, options[i])
  BY <1>2
<1>. HIDE DEF h
<1>5. \A g \in [SUBSET (1..n) -> A] : FoldsLeft(g, h, first, n) <=> Lays(g)
  <2>. SUFFICES ASSUME NEW g \in [SUBSET (1..n) -> A]
                PROVE  FoldsLeft(g, h, first, n) <=> Lays(g)
    OBVIOUS
  <2>1. ASSUME NEW t \in SUBSET (1..n)
        PROVE  LastAfterRest(g, h, first, t) =
                 IF t = {} THEN first ELSE more(g[t \ {Max(t)}], options[Max(t)])
    <3>1. t # {} => Max(t) \in 1..n /\ t \ {Max(t)} \in SUBSET (1..n)
      BY <1>1, LastPlace
    <3>2. t # {} => g[t \ {Max(t)}] \in A
      BY <3>1
    <3>. QED BY <1>4, <3>1, <3>2 DEF LastAfterRest
  <2>. QED BY <2>1 DEF FoldsLeft
<1>6. PICK g \in [SUBSET (1..n) -> A] : FoldsLeft(g, h, first, n)
  BY <1>1, <1>2, <1>4, LeftFoldExists
<1>7. Lays(w)
  <2>1. Lays(g)
    BY <1>5, <1>6
  <2>. HIDE DEF Lays
  <2>. QED BY <2>1
<1>. HIDE DEF w
<1>8. w[1..0] = first
  <2>1. 1..0 = {} /\ {} \in SUBSET (1..n)
    OBVIOUS
  <2>. QED BY <1>7, <2>1
<1>9. ASSUME NEW k \in 1..n
      PROVE  w[1..k] = more(w[1..(k - 1)], options[k])
  <2>1. 1..k \in SUBSET (1..n) /\ 1..k # {} /\ k \in Nat \ {0}
    <3>1. k \in Nat \ {0} /\ k <= n
      BY <1>1
    <3>2. \A j \in 1..k : j \in 1..n
      BY <1>1, <3>1
    <3>3. k \in 1..k
      BY <3>1
    <3>. QED BY <3>1, <3>2, <3>3
  <2>2. Max(1..k) = k /\ (1..k) \ {k} = 1..(k - 1)
    BY <2>1, LastOfFirst
  <2>. QED BY <1>7, <2>1, <2>2
<1>. DEFINE m == [k \in 0..n |-> w[1..k]]
<1>10. /\ m[n] = w[1..n] /\ m[0] = w[1..0]
       /\ \A k \in 1..n : m[k] = w[1..k] /\ m[k - 1] = w[1..(k - 1)]
  BY <1>1
<1>. HIDE DEF m, Lays
<1>11. \A k \in 1..n : m[k] = more(m[k - 1], options[k])
  BY <1>9, <1>10
<1>12. \A a, o : /\ more(a, o).input_ids = a.input_ids \o o
                 /\ more(a, o).markers = Append(a.markers, Len(a.input_ids))
  BY DEF more
<1>13. first.input_ids = base /\ first.markers = <<>>
  BY DEF first
<1>14. /\ m[0].input_ids = base /\ m[0].markers = <<>>
       /\ \A k \in 1..n : /\ m[k].input_ids = m[k - 1].input_ids \o options[k]
                          /\ m[k].markers = Append(m[k - 1].markers, Len(m[k - 1].input_ids))
  <2>1. m[0] = first
    BY <1>8, <1>10
  <2>2. ASSUME NEW k \in 1..n
        PROVE  /\ m[k].input_ids = m[k - 1].input_ids \o options[k]
               /\ m[k].markers = Append(m[k - 1].markers, Len(m[k - 1].input_ids))
    <3>1. m[k] = more(m[k - 1], options[k])
      BY <1>11
    <3>. QED BY <1>12, <3>1
  <2>. QED BY <1>13, <2>1, <2>2
<1>15. Py!Laid(head, options) = m[n]
  BY <1>3, <1>10
<1>. QED BY <1>14, <1>15 DEF n, base

(* What all options laid out come to.                                      *)
LEMMA LaidOut ==
  ASSUME NEW head \in Seq(Tokens), NEW options \in Seq(Seq(Tokens))
  PROVE  /\ Py!Laid(head, options).input_ids = (<<"cls">> \o head \o <<"sep">>) \o FlattenSeq(options)
         /\ Py!Laid(head, options).markers =
              [i \in 1..Len(options) |->
                 Len(<<"cls">> \o head \o <<"sep">>) + Len(FlattenSeq(SubSeq(options, 1, i - 1)))]
<1>. DEFINE base == <<"cls">> \o head \o <<"sep">>
            n == Len(options)
            flat(k) == FlattenSeq(SubSeq(options, 1, k))
            c == [i \in 1..n |-> Len(base) + Len(flat(i - 1))]
<1>1. PICK g : /\ Py!Laid(head, options) = g[Len(options)]
               /\ g[0].input_ids = <<"cls">> \o head \o <<"sep">> /\ g[0].markers = <<>>
               /\ \A k \in 1..Len(options) :
                    /\ g[k].input_ids = g[k - 1].input_ids \o options[k]
                    /\ g[k].markers = Append(g[k - 1].markers, Len(g[k - 1].input_ids))
  BY LaidSteps
<1>2. n \in Nat /\ \A i \in 1..n : options[i] \in Seq(Tokens)
  OBVIOUS
<1>3. /\ \A k \in 0..n : flat(k) \in Seq(Tokens)
      /\ flat(0) = << >>
      /\ \A k \in 1..n : flat(k) = flat(k - 1) \o options[k]
      /\ flat(n) = FlattenSeq(options)
  BY FlattenSteps
<1>0. base \in Seq(Tokens)
  <2>1. PICK d \in Tokens, e \in Tokens : d = "cls" /\ e = "sep"
    BY DEF Tokens
  <2>2. <<d>> \o head \o <<e>> \in Seq(Tokens)
    OBVIOUS
  <2>. QED BY <2>1, <2>2
<1>. HIDE DEF flat, n, base
<1>4. Len(base) \in Nat /\ \A k \in 0..n : Len(flat(k)) \in Nat
  BY <1>0, <1>3
<1>5. c \in [1..n -> Nat] /\ \A i \in 1..n : c[i] = Len(base) + Len(flat(i - 1))
  <2>1. ASSUME NEW i \in 1..n
        PROVE  Len(base) + Len(flat(i - 1)) \in Nat
    <3>1. PICK k \in 0..n : k = i - 1
      BY <1>2
    <3>. QED BY <1>4, <3>1
  <2>. QED BY <2>1
<1>. HIDE DEF c
<1>6. c \in Seq(Nat) /\ Len(c) = n
  BY <1>2, <1>5, FunctionIsSequence
<1>. DEFINE T == {k \in Nat : k <= n => g[k].input_ids = base \o flat(k) /\ g[k].markers = SubSeq(c, 1, k)}
<1>7. 0 \in T
  <2>1. SubSeq(c, 1, 0) = <<>> /\ base \o << >> = base
    BY <1>0, <1>6
  <2>2. g[0].input_ids = base /\ g[0].markers = <<>>
    BY <1>1 DEF base
  <2>. QED BY <1>3, <2>1, <2>2
<1>8. ASSUME NEW k \in Nat, k \in T
      PROVE  k + 1 \in T
  <2>. SUFFICES ASSUME k + 1 <= n
                PROVE  /\ g[k + 1].input_ids = base \o flat(k + 1)
                       /\ g[k + 1].markers = SubSeq(c, 1, k + 1)
    OBVIOUS
  <2>1. PICK m \in 1..n : m = k + 1 /\ m - 1 = k
    BY <1>2
  <2>2. k \in 0..n /\ k <= n
    BY <1>2
  <2>3. g[k].input_ids = base \o flat(k) /\ g[k].markers = SubSeq(c, 1, k)
    BY <1>8, <2>2
  <2>4. /\ g[m].input_ids = g[k].input_ids \o options[m]
        /\ g[m].markers = Append(g[k].markers, Len(g[k].input_ids))
    BY <1>1, <2>1 DEF n
  <2>5. flat(m) = flat(k) \o options[m]
    BY <1>3, <2>1
  <2>6. flat(k) \in Seq(Tokens) /\ options[m] \in Seq(Tokens)
    BY <1>2, <1>3, <2>2
  <2>7. (base \o flat(k)) \o options[m] = base \o (flat(k) \o options[m])
    <3>1. PICK x \in Seq(Tokens), y \in Seq(Tokens), z \in Seq(Tokens) :
            x = base /\ y = flat(k) /\ z = options[m]
      BY <1>0, <2>6
    <3>2. (x \o y) \o z = x \o (y \o z)
      BY x \in Seq(Tokens), y \in Seq(Tokens), z \in Seq(Tokens), ConcatenationAssociates
    <3>. QED BY <3>1, <3>2
  <2>8. Len(base \o flat(k)) = c[m]
    <3>1. Len(base \o flat(k)) = Len(base) + Len(flat(k))
      BY <1>0, <2>6
    <3>. QED BY <1>5, <2>1, <3>1
  <2>9. Append(SubSeq(c, 1, k), c[m]) = SubSeq(c, 1, m)
    BY <1>6, <2>1
  <2>. QED BY <2>1, <2>3, <2>4, <2>5, <2>7, <2>8, <2>9
<1>. HIDE DEF T
<1>9. n \in T
  BY <1>2, <1>7, <1>8, SetInduction
<1>10. g[n].input_ids = base \o flat(n) /\ g[n].markers = SubSeq(c, 1, n)
  BY <1>2, <1>9 DEF T
<1>11. SubSeq(c, 1, n) = c
  BY <1>6
<1>. QED BY <1>1, <1>3, <1>10, <1>11 DEF c, flat, n, base

(* No marker of a row that is not rejected is dropped.                     *)
LEMMA RetainedSteps ==
  ASSUME NEW s \in Seq(Nat), NEW max_len \in Nat
  PROVE  \E g : /\ Py!Retained(s, max_len) = g[Len(s)]
                /\ g[0] = <<>>
                /\ \A k \in 1..Len(s) :
                     g[k] = IF s[k] < max_len THEN Append(g[k - 1], s[k]) ELSE g[k - 1]
<1>. DEFINE n == Len(s)
            A == Seq(Nat)
            Keeps(g) == g = [t \in SUBSET (1..n) |->
                               IF t = {} THEN <<>>
                               ELSE IF s[Max(t)] < max_len
                                    THEN Append(g[t \ {Max(t)}], s[Max(t)])
                                    ELSE g[t \ {Max(t)}]]
            w == CHOOSE g : Keeps(g)
            h == [i \in 1..n |-> [a \in A |-> IF s[i] < max_len THEN Append(a, s[i]) ELSE a]]
<1>1. n \in Nat /\ DOMAIN s = 1..n /\ \A i \in 1..n : s[i] \in Nat
  OBVIOUS
<1>2. h \in [1..n -> [A -> A]] /\ <<>> \in A
  BY <1>1
<1>3. \A i \in 1..n : \A a \in A : h[i][a] = IF s[i] < max_len THEN Append(a, s[i]) ELSE a
  OBVIOUS
<1>4. Py!Retained(s, max_len) = w[1..n]
  BY <1>1, LibraryAgrees DEF Py!Retained, Py!FoldLeft, Py!MapThenFoldSet
<1>. HIDE DEF h, A, n
<1>5. \A g \in [SUBSET (1..n) -> A] : FoldsLeft(g, h, <<>>, n) <=> Keeps(g)
  <2>. SUFFICES ASSUME NEW g \in [SUBSET (1..n) -> A]
                PROVE  FoldsLeft(g, h, <<>>, n) <=> Keeps(g)
    OBVIOUS
  <2>1. ASSUME NEW t \in SUBSET (1..n)
        PROVE  LastAfterRest(g, h, <<>>, t) =
                 IF t = {} THEN <<>>
                 ELSE IF s[Max(t)] < max_len
                      THEN Append(g[t \ {Max(t)}], s[Max(t)])
                      ELSE g[t \ {Max(t)}]
    <3>1. t # {} => Max(t) \in 1..n /\ t \ {Max(t)} \in SUBSET (1..n)
      BY <1>1, LastPlace
    <3>2. t # {} => g[t \ {Max(t)}] \in A
      BY <3>1
    <3>. QED BY <1>3, <3>1, <3>2 DEF LastAfterRest
  <2>. QED BY <2>1 DEF FoldsLeft
<1>6. PICK g \in [SUBSET (1..n) -> A] : FoldsLeft(g, h, <<>>, n)
  BY <1>1, <1>2, LeftFoldExists
<1>7. Keeps(w)
  <2>1. Keeps(g)
    BY <1>5, <1>6
  <2>. HIDE DEF Keeps
  <2>. QED BY <2>1
<1>. HIDE DEF w
<1>8. w[1..0] = <<>>
  <2>1. 1..0 = {} /\ {} \in SUBSET (1..n)
    OBVIOUS
  <2>. QED BY <1>7, <2>1
<1>9. ASSUME NEW k \in 1..n
      PROVE  w[1..k] = IF s[k] < max_len THEN Append(w[1..(k - 1)], s[k]) ELSE w[1..(k - 1)]
  <2>1. 1..k \in SUBSET (1..n) /\ 1..k # {} /\ k \in Nat \ {0}
    <3>1. k \in Nat \ {0} /\ k <= n
      BY <1>1
    <3>2. \A j \in 1..k : j \in 1..n
      BY <1>1, <3>1
    <3>3. k \in 1..k
      BY <3>1
    <3>. QED BY <3>1, <3>2, <3>3
  <2>2. Max(1..k) = k /\ (1..k) \ {k} = 1..(k - 1)
    BY <2>1, LastOfFirst
  <2>. QED BY <1>7, <2>1, <2>2
<1>. DEFINE m == [k \in 0..n |-> w[1..k]]
<1>10. /\ m[n] = w[1..n] /\ m[0] = w[1..0]
       /\ \A k \in 1..n : m[k] = w[1..k] /\ m[k - 1] = w[1..(k - 1)]
  BY <1>1
<1>. HIDE DEF m, Keeps
<1>. QED BY <1>4, <1>8, <1>9, <1>10 DEF n

(* Where every marker is below max_len, all are retained.                  *)
LEMMA RetainedAll ==
  ASSUME NEW s \in Seq(Nat), NEW max_len \in Nat, \A i \in 1..Len(s) : s[i] < max_len
  PROVE  Py!Retained(s, max_len) = s
<1>1. PICK g : /\ Py!Retained(s, max_len) = g[Len(s)]
               /\ g[0] = <<>>
               /\ \A k \in 1..Len(s) :
                    g[k] = IF s[k] < max_len THEN Append(g[k - 1], s[k]) ELSE g[k - 1]
  BY RetainedSteps
<1>2. Len(s) \in Nat /\ \A i \in 1..Len(s) : s[i] \in Nat
  OBVIOUS
<1>. DEFINE T == {k \in Nat : k <= Len(s) => g[k] = SubSeq(s, 1, k)}
<1>3. 0 \in T
  <2>1. SubSeq(s, 1, 0) = <<>>
    OBVIOUS
  <2>. QED BY <1>1, <2>1
<1>4. ASSUME NEW k \in Nat, k \in T
      PROVE  k + 1 \in T
  <2>1. SUFFICES ASSUME k + 1 <= Len(s)
                 PROVE  g[k + 1] = SubSeq(s, 1, k + 1)
    OBVIOUS
  <2>2. PICK m \in 1..Len(s) : m = k + 1 /\ m - 1 = k
    BY <1>2, <2>1
  <2>3. g[k] = SubSeq(s, 1, k)
    BY <1>4, <2>1
  <2>4. g[m] = Append(g[k], s[m])
    BY <1>1, <2>2
  <2>5. Append(SubSeq(s, 1, k), s[m]) = SubSeq(s, 1, m)
    BY <2>2
  <2>. QED BY <2>2, <2>3, <2>4, <2>5
<1>. HIDE DEF T
<1>5. Len(s) \in T
  BY <1>2, <1>3, <1>4, SetInduction
<1>6. SubSeq(s, 1, Len(s)) = s
  OBVIOUS
<1>. QED BY <1>1, <1>2, <1>5, <1>6 DEF T

(* The width of a batch, which reference.py finds row by row.              *)
LEMMA LongestSteps ==
  ASSUME NEW S, NEW seqs \in Seq(Seq(S))
  PROVE  \E g : /\ Py!Longest(seqs) = g[Len(seqs)]
                /\ g[0] = 0
                /\ \A k \in 1..Len(seqs) : g[k] = Py!Greater(g[k - 1], Len(seqs[k]))
<1>. DEFINE n == Len(seqs)
            Widens(g) == g = [t \in SUBSET (1..n) |->
                                IF t = {} THEN 0
                                ELSE Py!Greater(g[t \ {Max(t)}], Len(seqs[Max(t)]))]
            w == CHOOSE g : Widens(g)
            h == [i \in 1..n |-> [a \in Nat |-> Py!Greater(a, Len(seqs[i]))]]
<1>1. n \in Nat /\ DOMAIN seqs = 1..n /\ \A i \in 1..n : Len(seqs[i]) \in Nat
  <2>1. \A i \in 1..n : seqs[i] \in Seq(S)
    OBVIOUS
  <2>2. \A i \in 1..n : Len(seqs[i]) \in Nat
    BY <2>1
  <2>. QED BY <2>2
<1>2. h \in [1..n -> [Nat -> Nat]]
  <2>1. \A a \in Nat, b \in Nat : Py!Greater(a, b) \in Nat
    BY DEF Py!Greater
  <2>. QED BY <1>1, <2>1
<1>3. \A i \in 1..n : \A a \in Nat : h[i][a] = Py!Greater(a, Len(seqs[i]))
  OBVIOUS
<1>4. Py!Longest(seqs) = w[1..n]
  BY <1>1, LibraryAgrees DEF Py!Longest, Py!FoldLeft, Py!MapThenFoldSet
<1>. HIDE DEF h, n
<1>5. \A g \in [SUBSET (1..n) -> Nat] : FoldsLeft(g, h, 0, n) <=> Widens(g)
  <2>. SUFFICES ASSUME NEW g \in [SUBSET (1..n) -> Nat]
                PROVE  FoldsLeft(g, h, 0, n) <=> Widens(g)
    OBVIOUS
  <2>1. ASSUME NEW t \in SUBSET (1..n)
        PROVE  LastAfterRest(g, h, 0, t) =
                 IF t = {} THEN 0
                 ELSE Py!Greater(g[t \ {Max(t)}], Len(seqs[Max(t)]))
    <3>1. t # {} => Max(t) \in 1..n /\ t \ {Max(t)} \in SUBSET (1..n)
      BY <1>1, LastPlace
    <3>2. t # {} => g[t \ {Max(t)}] \in Nat
      BY <3>1
    <3>. QED BY <1>3, <3>1, <3>2 DEF LastAfterRest
  <2>. QED BY <2>1 DEF FoldsLeft
<1>6. PICK g \in [SUBSET (1..n) -> Nat] : FoldsLeft(g, h, 0, n)
  <2>0. PICK N : N = Nat
    OBVIOUS
  <2>1. PICK z \in N : z = 0
    BY <2>0
  <2>2. h \in [1..n -> [N -> N]]
    BY <1>2, <2>0
  <2>3. \E g \in [SUBSET (1..n) -> N] : FoldsLeft(g, h, z, n)
    BY <1>1, <2>2, LeftFoldExists
  <2>. QED BY <2>0, <2>1, <2>3
<1>7. Widens(w)
  <2>1. Widens(g)
    BY <1>5, <1>6
  <2>. HIDE DEF Widens
  <2>. QED BY <2>1
<1>. HIDE DEF w
<1>8. w[1..0] = 0
  <2>1. 1..0 = {} /\ {} \in SUBSET (1..n)
    OBVIOUS
  <2>. QED BY <1>7, <2>1
<1>9. ASSUME NEW k \in 1..n
      PROVE  w[1..k] = Py!Greater(w[1..(k - 1)], Len(seqs[k]))
  <2>1. 1..k \in SUBSET (1..n) /\ 1..k # {} /\ k \in Nat \ {0}
    <3>1. k \in Nat \ {0} /\ k <= n
      BY <1>1
    <3>2. \A j \in 1..k : j \in 1..n
      BY <1>1, <3>1
    <3>3. k \in 1..k
      BY <3>1
    <3>. QED BY <3>1, <3>2, <3>3
  <2>2. Max(1..k) = k /\ (1..k) \ {k} = 1..(k - 1)
    BY <2>1, LastOfFirst
  <2>. QED BY <1>7, <2>1, <2>2
<1>. DEFINE m == [k \in 0..n |-> w[1..k]]
<1>10. /\ m[n] = w[1..n] /\ m[0] = w[1..0]
       /\ \A k \in 1..n : m[k] = w[1..k] /\ m[k - 1] = w[1..(k - 1)]
  BY <1>1
<1>. HIDE DEF m, Widens
<1>11. m[0] = 0 /\ \A k \in 1..n : m[k] = Py!Greater(m[k - 1], Len(seqs[k]))
  BY <1>8, <1>9, <1>10
<1>. QED BY <1>4, <1>10, <1>11 DEF n

(* So found, it is the greatest of the lengths.                            *)
LEMMA LongestIsGreatest ==
  ASSUME NEW S, NEW seqs \in Seq(Seq(S)), Len(seqs) # 0
  PROVE  Py!Longest(seqs) = Max({Len(seqs[i]) : i \in DOMAIN seqs})
<1>. DEFINE n == Len(seqs)
<1>1. PICK g : /\ Py!Longest(seqs) = g[n]
               /\ g[0] = 0
               /\ \A k \in 1..n : g[k] = Py!Greater(g[k - 1], Len(seqs[k]))
  BY LongestSteps
<1>2. n \in Nat /\ n # 0 /\ DOMAIN seqs = 1..n /\ \A i \in 1..n : Len(seqs[i]) \in Nat
  <2>1. \A i \in 1..n : seqs[i] \in Seq(S)
    OBVIOUS
  <2>2. \A i \in 1..n : Len(seqs[i]) \in Nat
    BY <2>1
  <2>. QED BY <2>2
<1>. HIDE DEF n
<1>. DEFINE Greatest(k) == /\ g[k] \in Nat
                           /\ \A i \in 1..k : Len(seqs[i]) <= g[k]
                           /\ k > 0 => \E i \in 1..k : g[k] = Len(seqs[i])
            T == {k \in Nat : k <= n => Greatest(k)}
<1>3. 0 \in T
  BY <1>1
<1>4. ASSUME NEW k \in Nat, k \in T
      PROVE  k + 1 \in T
  <2>. SUFFICES ASSUME k + 1 <= n
                PROVE  Greatest(k + 1)
    OBVIOUS
  <2>1. PICK m \in 1..n : m = k + 1 /\ m - 1 = k
    BY <1>2
  <2>2. g[k] \in Nat /\ \A i \in 1..k : Len(seqs[i]) <= g[k]
    BY <1>2, <1>4
  <2>3. k > 0 => \E i \in 1..k : g[k] = Len(seqs[i])
    BY <1>2, <1>4
  <2>4. PICK a \in Nat, b \in Nat : a = g[k] /\ b = Len(seqs[m])
    BY <1>2, <2>2
  <2>5. g[m] = IF a < b THEN b ELSE a
    BY <1>1, <2>1, <2>4 DEF Py!Greater
  <2>6. g[m] \in Nat /\ a <= g[m] /\ b <= g[m]
    BY <2>5
  <2>7. \A i \in 1..m : i \in 1..k \/ i = m
    BY <2>1
  <2>8. \A i \in 1..m : Len(seqs[i]) <= g[m]
    <3>. SUFFICES ASSUME NEW i \in 1..m
                  PROVE  Len(seqs[i]) <= g[m]
      OBVIOUS
    <3>1. i \in 1..n
      BY <1>2, <2>1
    <3>2. Len(seqs[i]) \in Nat
      BY <1>2, <3>1
    <3>3. CASE i \in 1..k
      BY <2>2, <2>4, <2>6, <3>2, <3>3
    <3>4. CASE i = m
      BY <2>4, <2>6, <3>4
    <3>. QED BY <2>7, <3>3, <3>4
  <2>9. \E i \in 1..m : g[m] = Len(seqs[i])
    <3>1. m \in 1..m
      BY <1>2
    <3>2. CASE a < b
      BY <2>4, <2>5, <3>1, <3>2
    <3>3. CASE ~(a < b) /\ k > 0
      <4>1. PICK i \in 1..k : g[k] = Len(seqs[i])
        BY <2>3, <3>3
      <4>2. i \in 1..m
        BY <2>1
      <4>. QED BY <2>4, <2>5, <3>3, <4>1, <4>2
    <3>4. CASE ~(a < b) /\ k = 0
      <4>1. a = 0 /\ b = 0
        BY <1>1, <2>4, <3>4
      <4>. QED BY <2>4, <2>5, <3>1, <4>1
    <3>. QED BY <3>2, <3>3, <3>4
  <2>. QED BY <2>1, <2>6, <2>8, <2>9
<1>. HIDE DEF T, Greatest
<1>5. n \in T
  BY <1>2, <1>3, <1>4, SetInduction
<1>6. /\ g[n] \in Nat
      /\ \A i \in 1..n : Len(seqs[i]) <= g[n]
      /\ \E i \in 1..n : g[n] = Len(seqs[i])
  BY <1>2, <1>5 DEF T, Greatest
<1>. DEFINE L == {Len(seqs[i]) : i \in DOMAIN seqs}
<1>7. g[n] \in L /\ \A y \in L : g[n] >= y
  BY <1>2, <1>6
<1>8. \A y \in L : y \in Nat
  BY <1>2
<1>. HIDE DEF L
<1>9. Max(L) \in L /\ \A y \in L : Max(L) >= y
  BY <1>7 DEF Max
<1>10. Max(L) = g[n]
  BY <1>6, <1>7, <1>8, <1>9
<1>. QED BY <1>1, <1>10 DEF L

(* A row that is not rejected is the one build_sequence lays out.          *)
LEMMA SequenceAgrees ==
  ASSUME NEW q \in Questions, limit \in Nat, state.text \in Seq(Vocabulary), ~rejects(q)
  PROVE  Py!build_sequence(state.text, q, limit, HeadMaxLen) =
           [input_ids |-> rowOf(q), marker_positions |-> markersOf(q),
            qtype |-> normalizeQuestion(q).qtype]
<1>. DEFINE n == Len(q.options)
            head == budgetedHead(q)
            options == budgetedOptions(q)
            base == <<"cls">> \o head \o <<"sep">>
            laid == Py!Laid(head, options)
            f == fixedPart(q)
            text == encodeText(sanitize(state.text))
            room == Larger(0, limit - Len(f) - 1)
<1>1. /\ options \in Seq(Seq(Tokens)) /\ Len(options) = n /\ DOMAIN options = 1..n /\ n \in Nat
      /\ head \in Seq(Tokens) /\ Len(head) \in Nat /\ text \in Seq(Tokens)
  <2>1. options \in Seq(Seq(Tokens)) /\ Len(options) = n
    BY BudgetedOptions
  <2>2. head \in Seq(TextTokens) /\ text \in Seq(TextTokens)
    BY BudgetedHead, WordsOnly
  <2>3. n \in Nat
    BY QuestionFields
  <2>4. Seq(TextTokens) \subseteq Seq(Tokens)
    BY TextTokensAreTokens
  <2>. HIDE DEF options, head, text, n
  <2>5. DOMAIN options = 1..n
    BY <2>1
  <2>6. Len(head) \in Nat
    BY <2>2
  <2>. QED BY <2>1, <2>2, <2>3, <2>4, <2>5, <2>6
<1>2. /\ f \in Seq(Tokens) /\ Len(f) \in Nat
      /\ markersOf(q) \in [1..n -> Nat] /\ \A i \in 1..n : markersOf(q)[i] + 1 <= Len(f)
  <2>1. /\ f \in Seq(Tokens)
        /\ markersOf(q) \in [1..n -> Nat] /\ \A i \in 1..n : markersOf(q)[i] + 1 <= Len(f)
    BY FixedPart
  <2>2. Len(f) \in Nat
    BY <2>1
  <2>. QED BY <2>1, <2>2
<1>3. Len(f) + 1 <= limit
  <2>1. ~(Len(f) + 1 > limit)
    BY DEF rejects
  <2>. QED BY <1>2, <2>1
<1>4. Py!FittedHead(q, HeadMaxLen) = head /\ Py!FittedOptions(q, HeadMaxLen) = options
  BY FittedHeadAgrees, FittedOptionsAgree
<1>5. /\ laid.input_ids = base \o FlattenSeq(options)
      /\ laid.markers = [i \in 1..n |-> Len(base) + Len(FlattenSeq(SubSeq(options, 1, i - 1)))]
  <2>. HIDE DEF options, head
  <2>. QED BY <1>1, LaidOut
<1>6. base \in Seq(Tokens) /\ Len(base) = Len(head) + 2
  <2>. HIDE DEF head
  <2>1. PICK c \in Tokens, e \in Tokens : c = "cls" /\ e = "sep"
    BY DEF Tokens
  <2>2. <<c>> \o head \o <<e>> \in Seq(Tokens) /\ Len(<<c>> \o head \o <<e>>) = Len(head) + 2
    BY <1>1
  <2>. QED BY <2>1, <2>2
<1>7. FlattenSeq(options) \in Seq(Tokens)
  BY <1>1, FlattenElements
<1>8. Append(laid.input_ids, "sep") = f
  <2>1. f = (base \o FlattenSeq(options)) \o <<"sep">>
    BY DEF fixedPart
  <2>. HIDE DEF base, f, laid, options
  <2>2. PICK e \in Tokens : e = "sep"
    BY DEF Tokens
  <2>3. PICK s \in Seq(Tokens) : s = base \o FlattenSeq(options)
    <3>1. PICK a \in Seq(Tokens), b \in Seq(Tokens) : a = base /\ b = FlattenSeq(options)
      BY <1>6, <1>7
    <3>2. a \o b \in Seq(Tokens)
      OBVIOUS
    <3>. QED BY <3>1, <3>2
  <2>4. Append(s, e) = s \o <<e>>
    OBVIOUS
  <2>. QED BY <1>5, <2>1, <2>2, <2>3, <2>4
<1>9. laid.markers = markersOf(q)
  <2>1. markersOf(q) = [i \in DOMAIN options |-> Len(head) + 2 + totalLength(SubSeq(options, 1, i - 1))]
    BY DEF markersOf
  <2>. HIDE DEF base, f, laid, options, head
  <2>2. markersOf(q) = [i \in 1..n |-> Len(base) + Len(FlattenSeq(SubSeq(options, 1, i - 1)))]
    BY <1>1, <1>6, <2>1 DEF totalLength
  <2>. QED BY <1>5, <2>2
<1>10. Py!Retained(markersOf(q), limit) = markersOf(q)
  <2>. HIDE DEF n, f
  <2>1. PICK s : s = markersOf(q)
    OBVIOUS
  <2>2. s \in Seq(Nat) /\ Len(s) = n
    BY <1>1, <1>2, <2>1, FunctionIsSequence
  <2>3. \A i \in 1..Len(s) : s[i] < limit
    <3>1. \A i \in 1..n : s[i] \in Nat /\ s[i] + 1 <= Len(f)
      BY <1>2, <2>1
    <3>. QED BY <1>2, <1>3, <2>2, <3>1
  <2>. QED BY <2>1, <2>2, <2>3, RetainedAll
<1>. HIDE DEF f, text, base, head, options, n
<1>11. Py!Greater(0, limit - Len(f) - 1) = room /\ room \in Nat
  <2>0. PICK k \in Int, l \in Int : k = Len(f) /\ l = limit
    BY <1>2
  <2>1. PICK a \in Int : a = l - k - 1
    OBVIOUS
  <2>2. PICK z \in Int : z = 0
    OBVIOUS
  <2>3. Py!Greater(z, a) = Larger(z, a)
    BY GreaterAgrees
  <2>4. Larger(z, a) \in Nat
    BY <2>2 DEF Larger
  <2>. QED BY <2>0, <2>1, <2>2, <2>3, <2>4
<1>. HIDE DEF room
<1>12. Py!First(Encode(Py!Unmasked(state.text)), room) = Cut(text, room)
  <2>1. Encode(Py!Unmasked(state.text)) = text
    BY UnmaskedAgrees DEF encodeText, text
  <2>2. room \in Int
    BY <1>11
  <2>. QED BY <1>1, <2>1, <2>2, SlicesAgree
<1>13. Py!First(f \o Cut(text, room) \o <<"sep">>, limit) = rowOf(q)
  <2>1. Cut(text, room) \in Seq(Tokens)
    BY <1>1, <1>11, CutBegins
  <2>2. PICK e \in Tokens : e = "sep"
    BY DEF Tokens
  <2>3. f \o Cut(text, room) \o <<e>> \in Seq(Tokens)
    BY <1>2, <2>1
  <2>4. limit \in Int
    OBVIOUS
  <2>5. Py!First(f \o Cut(text, room) \o <<e>>, limit) = Cut(f \o Cut(text, room) \o <<e>>, limit)
    BY <2>3, <2>4, SlicesAgree
  <2>6. rowOf(q) = Cut(f \o Cut(text, room) \o <<"sep">>, limit)
    BY DEF rowOf, modelStateText, f, text, room
  <2>. QED BY <2>2, <2>5, <2>6
<1>. HIDE DEF laid
<1>14. Py!build_sequence(state.text, q, limit, HeadMaxLen) =
         [input_ids |-> Py!First(f \o Py!First(Encode(Py!Unmasked(state.text)), room) \o <<"sep">>, limit),
          marker_positions |-> Py!Retained(laid.markers, limit),
          qtype |-> Py!QTYPES[q.kind]]
  BY <1>4, <1>8, <1>11 DEF Py!build_sequence, laid
<1>15. Py!QTYPES[q.kind] = normalizeQuestion(q).qtype
  BY RenderingAgrees
<1>. QED BY <1>9, <1>10, <1>12, <1>13, <1>14, <1>15

(* Padding agrees, and so does a batch.                                    *)
LEMMA PaddingAgrees ==
  ASSUME NEW S, NEW s \in Seq(S), NEW e \in S, NEW n \in Nat, Len(s) <= n
  PROVE  Py!Padded(s, n, e) = Pad(s, n, e)
<1>1. /\ Pad(s, n, e) \in Seq(S) /\ DOMAIN Pad(s, n, e) = 1..n
      /\ \A j \in 1..n : (j <= Len(s) => Pad(s, n, e)[j] = s[j])
      /\ \A j \in 1..n : (j > Len(s) => Pad(s, n, e)[j] = e)
  BY PadPlaces
<1>2. PICK p : p = Pad(s, n, e)
  OBVIOUS
<1>3. p = [j \in 1..n |-> p[j]]
  BY <1>1, <1>2
<1>4. ASSUME NEW j \in 1..n
      PROVE  p[j] = IF j <= Len(s) THEN s[j] ELSE e
  <2>1. j \in Int /\ Len(s) \in Int
    OBVIOUS
  <2>2. j <= Len(s) \/ j > Len(s)
    BY <2>1
  <2>3. CASE j <= Len(s)
    BY <1>1, <1>2, <2>3
  <2>4. CASE j > Len(s)
    <3>1. ~(j <= Len(s))
      BY <2>1, <2>4
    <3>. QED BY <1>1, <1>2, <2>4, <3>1
  <2>. QED BY <2>2, <2>3, <2>4
<1>5. p = [j \in 1..n |-> IF j <= Len(s) THEN s[j] ELSE e]
  BY <1>3, <1>4
<1>. QED BY <1>2, <1>5 DEF Py!Padded

(* The masks of one row.                                                   *)
LEMMA MasksAgree ==
  ASSUME NEW S, NEW a \in S, NEW e \in S, NEW m \in Nat, NEW n \in Nat, m <= n
  PROVE  Py!Padded([j \in 1..m |-> a], n, e) = Pad(Fill(m, a), n, e)
<1>1. Fill(m, a) \in Seq(S) /\ Len(Fill(m, a)) = m
  BY FillPlaces
<1>2. PICK s \in Seq(S) : s = Fill(m, a) /\ Len(s) <= n
  BY <1>1
<1>3. Py!Padded(s, n, e) = Pad(s, n, e)
  BY <1>2, PaddingAgrees
<1>4. Fill(m, a) = [j \in 1..m |-> a]
  BY DEF Fill
<1>. QED BY <1>2, <1>3, <1>4

(* The tensors of collatePrepared are those of collate.                    *)
LEMMA BatchAgrees ==
  ASSUME IInv, items # <<>>, NEW rows,
         DOMAIN rows = DOMAIN items,
         \A i \in DOMAIN items : /\ rows[i].input_ids = items[i].inputIDs
                                 /\ rows[i].marker_positions = items[i].markerPositions
                                 /\ rows[i].qtype = items[i].qtype
  PROVE  LET b == collatePrepared
         IN  [input_ids |-> b.inputIDs, attention_mask |-> b.attentionMask,
              marker_pos |-> b.markerPos, marker_mask |-> b.markerMask, qtype |-> b.qtype]
               = Py!collate(rows)
<1>. DEFINE n == Len(items)
            ids == [i \in 1..n |-> items[i].inputIDs]
            markers == [i \in 1..n |-> items[i].markerPositions]
            wide == sequenceLength
            many == markerLength
<1>1. /\ n \in Nat \ {0} /\ DOMAIN items = 1..n /\ wide \in Nat /\ many \in Nat
      /\ \A i \in 1..n :
           /\ Len(items[i].inputIDs) \in Nat /\ Len(items[i].inputIDs) <= wide
           /\ Len(items[i].markerPositions) \in Nat /\ Len(items[i].markerPositions) <= many
  BY BatchWidths
<1>2. \A i \in 1..n : items[i].inputIDs \in Seq(Tokens) /\ items[i].markerPositions \in Seq(Nat)
  BY PreparedItem
<1>. HIDE DEF n
<1>3. /\ ids \in [1..n -> Seq(Tokens)] /\ markers \in [1..n -> Seq(Nat)]
      /\ \A i \in 1..n : ids[i] = items[i].inputIDs /\ markers[i] = items[i].markerPositions
  BY <1>2
<1>4. /\ {Len(ids[i]) : i \in 1..n} = {Len(items[i].inputIDs) : i \in DOMAIN items}
      /\ {Len(markers[i]) : i \in 1..n} = {Len(items[i].markerPositions) : i \in DOMAIN items}
  BY <1>1
<1>. HIDE DEF ids, markers
<1>5. Py!Longest(ids) = wide
  <2>1. ids \in Seq(Seq(Tokens)) /\ Len(ids) = n /\ DOMAIN ids = 1..n
    BY <1>1, <1>3, FunctionIsSequence
  <2>2. Py!Longest(ids) = Max({Len(ids[i]) : i \in DOMAIN ids})
    BY <1>1, <2>1, LongestIsGreatest
  <2>. QED BY <1>4, <2>1, <2>2 DEF sequenceLength
<1>6. Py!Longest(markers) = many
  <2>1. markers \in Seq(Seq(Nat)) /\ Len(markers) = n /\ DOMAIN markers = 1..n
    BY <1>1, <1>3, FunctionIsSequence
  <2>2. PICK N : N = Nat
    OBVIOUS
  <2>3. markers \in Seq(Seq(N)) /\ Len(markers) # 0
    BY <1>1, <2>1, <2>2
  <2>4. Py!Longest(markers) = Max({Len(markers[i]) : i \in DOMAIN markers})
    BY <2>3, LongestIsGreatest
  <2>. QED BY <1>4, <2>1, <2>4 DEF markerLength
<1>. HIDE DEF wide, many
<1>7. \A i \in 1..n : rows[i].input_ids = ids[i] /\ rows[i].marker_positions = markers[i]
  BY <1>1, <1>3
<1>8. /\ [i \in DOMAIN rows |-> rows[i].input_ids] = ids
      /\ [i \in DOMAIN rows |-> rows[i].marker_positions] = markers
  BY <1>1, <1>3, <1>7
<1>9. ASSUME NEW i \in 1..n
      PROVE  /\ Py!Padded(ids[i], wide, "pad") = Pad(items[i].inputIDs, wide, "pad")
             /\ Py!Padded([j \in DOMAIN ids[i] |-> 1], wide, 0) =
                  Pad(Fill(Len(items[i].inputIDs), 1), wide, 0)
             /\ Py!Padded(markers[i], many, 0) = Pad(items[i].markerPositions, many, 0)
             /\ Py!Padded([j \in DOMAIN markers[i] |-> TRUE], many, FALSE) =
                  Pad(Fill(Len(items[i].markerPositions), TRUE), many, FALSE)
  <2>1. PICK row \in Seq(Tokens), places \in Seq(Nat) :
          /\ row = ids[i] /\ row = items[i].inputIDs
          /\ places = markers[i] /\ places = items[i].markerPositions
    BY <1>2, <1>3
  <2>2. PICK k \in Nat, c \in Nat : k = Len(row) /\ c = Len(places)
    OBVIOUS
  <2>3. /\ k <= wide /\ c <= many /\ wide \in Nat /\ many \in Nat
        /\ DOMAIN row = 1..k /\ DOMAIN places = 1..c
    BY <1>1, <2>1, <2>2
  <2>4. PICK p \in Tokens : p = "pad"
    BY DEF Tokens
  <2>5. Py!Padded(row, wide, p) = Pad(row, wide, p)
    BY <2>2, <2>3, PaddingAgrees
  <2>6. PICK N : N = Nat
    OBVIOUS
  <2>7. PICK one \in N, z \in N : one = 1 /\ z = 0
    BY <2>6
  <2>8. Py!Padded([j \in 1..k |-> one], wide, z) = Pad(Fill(k, one), wide, z)
    BY <2>3, MasksAgree
  <2>9. Py!Padded(places, many, z) = Pad(places, many, z)
    <3>1. places \in Seq(N) /\ Len(places) <= many
      BY <2>2, <2>3, <2>6
    <3>. QED BY <2>3, <3>1, PaddingAgrees
  <2>10. PICK B : B = BOOLEAN
    OBVIOUS
  <2>11. PICK y \in B, f \in B : y = TRUE /\ f = FALSE
    BY <2>10
  <2>12. Py!Padded([j \in 1..c |-> y], many, f) = Pad(Fill(c, y), many, f)
    BY <2>3, MasksAgree
  <2>13. Py!Padded(ids[i], wide, "pad") = Pad(items[i].inputIDs, wide, "pad")
    BY <2>1, <2>4, <2>5
  <2>14. Py!Padded([j \in DOMAIN ids[i] |-> 1], wide, 0) =
           Pad(Fill(Len(items[i].inputIDs), 1), wide, 0)
    BY <2>1, <2>2, <2>3, <2>7, <2>8
  <2>15. Py!Padded(markers[i], many, 0) = Pad(items[i].markerPositions, many, 0)
    BY <2>1, <2>7, <2>9
  <2>16. Py!Padded([j \in DOMAIN markers[i] |-> TRUE], many, FALSE) =
           Pad(Fill(Len(items[i].markerPositions), TRUE), many, FALSE)
    BY <2>1, <2>2, <2>3, <2>11, <2>12
  <2>. QED BY <2>13, <2>14, <2>15, <2>16
<1>. DEFINE b == collatePrepared
<1>10. /\ b.inputIDs = [i \in 1..n |-> Pad(items[i].inputIDs, wide, "pad")]
       /\ b.attentionMask = [i \in 1..n |-> Pad(Fill(Len(items[i].inputIDs), 1), wide, 0)]
       /\ b.markerPos = [i \in 1..n |-> Pad(items[i].markerPositions, many, 0)]
       /\ b.markerMask = [i \in 1..n |-> Pad(Fill(Len(items[i].markerPositions), TRUE), many, FALSE)]
       /\ b.qtype = [i \in 1..n |-> items[i].qtype]
  BY <1>1 DEF collatePrepared, wide, many
<1>11. Py!collate(rows) =
         [input_ids |-> [i \in 1..n |-> Py!Padded(ids[i], wide, "pad")],
          attention_mask |-> [i \in 1..n |-> Py!Padded([j \in DOMAIN ids[i] |-> 1], wide, 0)],
          marker_pos |-> [i \in 1..n |-> Py!Padded(markers[i], many, 0)],
          marker_mask |-> [i \in 1..n |-> Py!Padded([j \in DOMAIN markers[i] |-> TRUE], many, FALSE)],
          qtype |-> [i \in 1..n |-> rows[i].qtype]]
  BY <1>1, <1>5, <1>6, <1>8 DEF Py!collate
<1>. HIDE DEF b
<1>12. /\ b.inputIDs = [i \in 1..n |-> Py!Padded(ids[i], wide, "pad")]
       /\ b.attentionMask = [i \in 1..n |-> Py!Padded([j \in DOMAIN ids[i] |-> 1], wide, 0)]
       /\ b.markerPos = [i \in 1..n |-> Py!Padded(markers[i], many, 0)]
  <2>1. b.inputIDs = [i \in 1..n |-> Py!Padded(ids[i], wide, "pad")]
    BY <1>9, <1>10
  <2>2. b.attentionMask = [i \in 1..n |-> Py!Padded([j \in DOMAIN ids[i] |-> 1], wide, 0)]
    BY <1>9, <1>10
  <2>3. b.markerPos = [i \in 1..n |-> Py!Padded(markers[i], many, 0)]
    BY <1>9, <1>10
  <2>. QED BY <2>1, <2>2, <2>3
<1>13. b.markerMask = [i \in 1..n |-> Py!Padded([j \in DOMAIN markers[i] |-> TRUE], many, FALSE)]
  BY <1>9, <1>10
<1>14. b.qtype = [i \in 1..n |-> rows[i].qtype]
  BY <1>1, <1>10
<1>. QED BY <1>11, <1>12, <1>13, <1>14 DEF b

(* Every row the Go code prepares, and every batch, is the reference's,    *)
(* for all texts, questions, budgets and limits.                           *)
THEOREM ReferenceMatched == Spec => []RowsMatchReference
<1>1. IInv => RowsMatchReference
  <2>. SUFFICES ASSUME IInv
                PROVE  RowsMatchReference
    OBVIOUS
  <2>. DEFINE python(i) == Py!build_sequence(state.text, asked[i], limit, HeadMaxLen)
              rows == [i \in DOMAIN items |-> python(i)]
  <2>0. DOMAIN items = 1..Len(items)
    BY DEF IInv, TypeOK
  <2>1. ASSUME NEW i \in DOMAIN items
        PROVE  [input_ids |-> items[i].inputIDs, marker_positions |-> items[i].markerPositions,
                qtype |-> items[i].qtype] = python(i)
    <3>1. /\ asked[i] \in Questions /\ ~rejects(asked[i]) /\ limit \in Nat
          /\ state.text \in Seq(Vocabulary) /\ items[i] = prepareItem(asked[i])
          /\ items[i].inputIDs = rowOf(asked[i]) /\ items[i].markerPositions = markersOf(asked[i])
      BY <2>0, PreparedItem
    <3>2. items[i].qtype = normalizeQuestion(asked[i]).qtype
      BY <3>1 DEF prepareItem
    <3>3. python(i) = [input_ids |-> rowOf(asked[i]), marker_positions |-> markersOf(asked[i]),
                       qtype |-> normalizeQuestion(asked[i]).qtype]
      BY <3>1, SequenceAgrees
    <3>. QED BY <3>1, <3>2, <3>3
  <2>. HIDE DEF python
  <2>2. /\ DOMAIN rows = DOMAIN items
        /\ \A i \in DOMAIN items : /\ rows[i].input_ids = items[i].inputIDs
                                   /\ rows[i].marker_positions = items[i].markerPositions
                                   /\ rows[i].qtype = items[i].qtype
    <3>1. ASSUME NEW i \in DOMAIN items
          PROVE  /\ python(i).input_ids = items[i].inputIDs
                 /\ python(i).marker_positions = items[i].markerPositions
                 /\ python(i).qtype = items[i].qtype
      BY <2>1
    <3>. QED BY <3>1
  <2>. HIDE DEF rows
  <2>3. ASSUME status = "ready"
        PROVE  [input_ids |-> batch.inputIDs, attention_mask |-> batch.attentionMask,
                marker_pos |-> batch.markerPos, marker_mask |-> batch.markerMask,
                qtype |-> batch.qtype] = Py!collate(rows)
    <3>1. items # <<>> /\ batch = collatePrepared
      BY <2>3 DEF IInv, Collated
    <3>. QED BY <2>2, <3>1, BatchAgrees
  <2>. QED BY <2>1, <2>3 DEF RowsMatchReference, python, rows
<1>. QED BY InitIInv, NextIInv, <1>1, PTL DEF Spec
=============================================================================
