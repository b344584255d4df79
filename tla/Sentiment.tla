------------------------------- MODULE Sentiment -------------------------------
(***************************************************************************)
(* How a text feels about its subject: positive, negative, or neither.  A  *)
(* text is the sequence of its tokens.  Valences are in hundredths, scores *)
(* and confidence in thousandths.                                          *)
(***************************************************************************)
EXTENDS Integers, SequencesExt, FiniteSetsExt

CONSTANTS
  Rows,         \* of each language, the words and valences in its file
  Stems(_),     \* what is left of a token without each clitic it begins with
  Length(_),    \* the characters of a token
  Emoji(_),     \* the valences of the emoji in a token
  Marks(_),     \* how many of each mark that adds emphasis are in it
  Elongated(_), \* it has a letter three times in a row
  Negators, Intensifiers, Diminishers

SumOf(s) == FoldLeft(LAMBDA m, n : m + n, 0, s)
Abs(n) == IF n < 0 THEN 0 - n ELSE n
Scaled(n, percent) == IF n < 0 THEN 0 - ((0 - n) * percent) \div 100 ELSE (n * percent) \div 100

-----------------------------------------------------------------------------
(* Which words bear any. *)

NoValence == 1000000

(* A row without a number is skipped, and a later one replaces an earlier.  *)
Lexicon(rows) ==
  FoldLeft(LAMBDA lexicon, row : (row.word :> row.valence) @@ lexicon, <<>>,
           SelectSeq(rows, LAMBDA row : row.valence # NoValence))
Lexicons == [lang \in DOMAIN Rows |-> Lexicon(Rows[lang])]

SetsFor(lang) ==
  CASE lang \in {"ar", "fr", "en"}    -> <<lang>>
    [] lang = "ary"                   -> <<"ary", "ar">>
    [] lang \in {"mixed", "und"}      -> <<"ar", "ary", "fr", "en">>

FoundIn(sets, word) ==
  LET in == {n \in DOMAIN sets : word \in DOMAIN Lexicons[sets[n]]}
  IN  IF in = {} THEN NoValence ELSE Lexicons[sets[Min(in)]][word]

MinStem == 3

(* lookup: the word as it is, or else without a clitic, the longest first.  *)
Lookup(sets, token) ==
  FoldLeft(LAMBDA v, stem : IF v # NoValence \/ Length(stem) < MinStem THEN v ELSE FoundIn(sets, stem),
           FoundIn(sets, token), Stems(token))

-----------------------------------------------------------------------------
(* The score. *)

ModifierWindow == 3

Modified(valence, before) ==
  FoldLeft(LAMBDA v, word : CASE word \in Negators -> v
                              [] word \notin Negators /\ word \in Intensifiers -> Scaled(v, 130)
                              [] word \notin Negators \cup Intensifiers /\ word \in Diminishers -> Scaled(v, 70)
                              [] OTHER -> v, valence, before)

Damped(valence, before) ==
  IF ToSet(before) \cap Negators # {} THEN 0 - Scaled(valence, 74) ELSE valence

Emphasised(valence, token) == IF Elongated(token) THEN Scaled(valence, 120) ELSE valence

ValenceAt(text, i, base, before) == Emphasised(Damped(Modified(base, before), before), text[i])

Bearing(text, sets) == {i \in DOMAIN text : Lookup(sets, text[i]) # NoValence}

(* A word of valence nought is found, and adds nothing. *)
FromWords(text, sets) ==
  MapThenSumSet(LAMBDA i : ValenceAt(text, i, Lookup(sets, text[i]), SubSeq(text, Max({1, i - ModifierWindow}), i - 1)),
                Bearing(text, sets))

EmojiOf(text) == FlattenSeq([i \in DOMAIN text |-> Emoji(text[i])])

Bangs(text) ==
  LET In(mark) == SumOf([i \in DOMAIN text |-> Marks(text[i])[mark]])
  IN  Min({In("!"), 3}) + Min({In("arabic ?"), 2}) + Min({In("?"), 2})

Total(text, sets) == Scaled(FromWords(text, sets) + SumOf(EmojiOf(text)), 100 + 5 * Bangs(text))

(* The largest integer whose square is no more than n. *)
Root(n) == FoldLeft(LAMBDA r, bit : IF (r + bit) * (r + bit) <= n THEN r + bit ELSE r, 0, [i \in 1 .. 14 |-> 2 ^ (14 - i)])

Alpha == 150000
Saturated(total) ==
  LET size == (1000 * Abs(total)) \div Root(total * total + Alpha) IN IF total < 0 THEN 0 - size ELSE size

-----------------------------------------------------------------------------
(* How sure that is, and the label. *)

EvidenceSaturation == 4
MinConfidence == 350
Threshold == 150

Evidence(found, tokens) == Min({1000, Max({(1000 * found) \div EvidenceSaturation, (1000 * found) \div tokens})})
Confidence(score, evidence) == (evidence * (300 + (7 * Min({3 * Abs(score), 1000})) \div 10)) \div 1000

Neutral(confidence) == [label |-> "neutral", score |-> 0, confidence |-> confidence]

Labelled(score, confidence) ==
  IF confidence < MinConfidence THEN Neutral(confidence)
  ELSE [label |-> CASE score > Threshold -> "positive"
                    [] score < 0 - Threshold -> "negative"
                    [] OTHER -> "neutral",
        score |-> score, confidence |-> confidence]

Judged(score, found, tokens) == Labelled(score, Confidence(score, Evidence(found, tokens)))

ScoreIn(text, sets) ==
  Judged(Saturated(Total(text, sets)), Cardinality(Bearing(text, sets)) + Len(EmojiOf(text)), Len(text))

ScoreOf(text, lang) == IF text = <<>> THEN Neutral(0) ELSE ScoreIn(text, SetsFor(lang))
=============================================================================
