------------------------------- MODULE Language -------------------------------
(***************************************************************************)
(* The language of a text, and whether it is a question.  A text is the    *)
(* sequence of its normalised tokens; of a token only its letters and      *)
(* digits matter, and the lexicons it is in.  Confidence is in thousandths.*)
(***************************************************************************)
EXTENDS Integers, SequencesExt, FiniteSetsExt

CONSTANTS
  Shape(_),                             \* the characters of a token, by their class
  DarijaRows, ArabiziRows, FrenchRows, EnglishRows, \* what each lexicon's file says
  QuestionWords, QuestionPhrases, LeadingOnly       \* sequences of characters

SumOf(s) == FoldLeft(LAMBDA m, n : m + n, 0, s)
Strong == 1000
Share(part, whole) == IF whole = 0 THEN 0 ELSE (1000 * part) \div whole
CountOf(s, Test(_)) == Cardinality({i \in DOMAIN s : Test(s[i])})

-----------------------------------------------------------------------------
(* The writing system. *)

Dominance == 600

Ratio(text) ==
  LET Of(classes) == SumOf([i \in DOMAIN text |-> CountOf(Shape(text[i]), LAMBDA c : c \in classes)])
  IN  [arabic |-> Of({"arabic"}), latin |-> Of({"ascii", "extended"}), other |-> Of({"letter"})]

LettersIn(r) == r.arabic + r.latin + r.other

ScriptOf(r) ==
  CASE LettersIn(r) = 0 -> "unknown"
    [] LettersIn(r) > 0 /\ Share(r.arabic, LettersIn(r)) >= Dominance -> "arabic"
    [] LettersIn(r) > 0 /\ Share(r.arabic, LettersIn(r)) < Dominance ->
         IF Share(r.latin, LettersIn(r)) >= Dominance THEN "latin" ELSE "mixed"

-----------------------------------------------------------------------------
(* The lexicons: markers of one token or two, each with its weight. *)

NoWeight == 0

Row(term, weight) == [term |-> term, weight |-> weight]

(* A row without a weight is a strong marker, a later one replaces an       *)
(* earlier, and one of no tokens, or of more than two, is skipped.          *)
FromRows(rows) ==
  FoldLeft(LAMBDA lexicon, row : (row.term :> IF row.weight = NoWeight THEN Strong ELSE row.weight) @@ lexicon,
           <<>>, SelectSeq(rows, LAMBDA row : Len(row.term) \in 1 .. 2))

Darija  == FromRows(DarijaRows)
Arabizi == FromRows(ArabiziRows)
French  == FromRows(FrenchRows)
English == FromRows(EnglishRows)

Score(lexicon, text) ==
  LET Found(n) == SelectSeq([i \in 1 .. Len(text) + 1 - n |-> SubSeq(text, i, i + n - 1)], LAMBDA term : term \in DOMAIN lexicon)
      weights  == [i \in DOMAIN (Found(1) \o Found(2)) |-> lexicon[(Found(1) \o Found(2))[i]]]
  IN  [strong |-> CountOf(weights, LAMBDA w : w >= Strong), hits |-> Len(weights),
       weight |-> SumOf(weights), total |-> Len(text)]

Coverage(score)   == Share(score.hits, score.total)
IsEvidence(score) == score.strong >= 1 \/ score.hits - score.strong >= 2

-----------------------------------------------------------------------------
(* The verdict of each writing system. *)

Alone == [lang |-> "none", share |-> 0]
With(lang, share) == [lang |-> lang, share |-> share]
Verdict(lang, confidence, secondary) ==
  [lang |-> lang, confidence |-> confidence, secondary |-> secondary, source |-> "lexicon"]

Capped(confidence, most) == Min({confidence, most})

DetectArabic(darija) ==
  IF IsEvidence(darija)
  THEN Verdict("ary", Capped(600 + Min({(12 * darija.weight) \div 100, 300}) + Min({Coverage(darija) \div 5, 100}), 970), Alone)
  ELSE Verdict("ar", 650, Alone)

(* arabizi_digit_score: the digits that stand for consonants, beside a      *)
(* letter of the same token.                                                *)
DigitScore(text) ==
  LET Beside(shape, i) == \E j \in {i - 1, i + 1} \cap DOMAIN shape : shape[j] = "ascii"
  IN  SumOf([n \in DOMAIN text |-> Cardinality({i \in DOMAIN Shape(text[n]) : Shape(text[n])[i] = "digit" /\ Beside(Shape(text[n]), i)})])

(* What the trigrams say, of three languages: an answer of the library's,   *)
(* with how sure it is of it.                                               *)
Statistical(guess) ==
  IF guess.lang \notin {"ar", "fr", "en"} THEN [Verdict("und", 0, Alone) EXCEPT !.source = "statistical"]
  ELSE [Verdict(guess.lang, CASE guess.sure = "reliable" -> 800
                              [] guess.sure = "clear" -> 620
                              [] guess.sure = "narrow" -> 400, Alone) EXCEPT !.source = "statistical"]

IsArabizi(ara, fre, digits) == (IsEvidence(ara) \/ (digits >= 1 /\ ara.hits > 0)) /\ ara.hits >= fre.hits

DetectLatin(ara, fre, eng, digits, guess) ==
  LET Also(lang, score) == IF score.hits > 0 THEN With(lang, Coverage(score)) ELSE Alone
      Common(lang, score, other) == Verdict(lang, Capped(600 + Min({(8 * score.weight) \div 100, 300}), 950), other)
      arabizi == IsArabizi(ara, fre, digits)
      french  == ~arabizi /\ IsEvidence(fre) /\ fre.hits > ara.hits /\ fre.hits >= eng.hits
      english == ~arabizi /\ ~french /\ IsEvidence(eng) /\ eng.hits > ara.hits /\ eng.hits > fre.hits
  IN  CASE arabizi -> Verdict("ary", Capped(600 + Min({ara.weight \div 10, 250}) + (IF digits > 0 THEN 100 ELSE 0), 950), Also("fr", fre))
        [] french  -> Common("fr", fre, Also("ary", ara))
        [] english -> Common("en", eng, Also("fr", fre))
        [] OTHER   -> Statistical(guess)

MixedSecondaryMin == 300

DetectMixed(darija, ara, fre, arabic) ==
  LET spoken == IsEvidence(darija) \/ IsEvidence(ara)
  IN  CASE spoken /\ fre.hits > 0 ->
             IF Coverage(fre) >= MixedSecondaryMin THEN Verdict("mixed", 700, With("fr", Coverage(fre)))
             ELSE Verdict("ary", 750, With("fr", Coverage(fre)))
        [] spoken /\ fre.hits = 0 -> Verdict("ary", 750, Alone)
        [] ~spoken /\ IsEvidence(fre) /\ arabic < 500 -> Verdict("fr", 650, With("ar", arabic))
        [] OTHER -> Verdict("mixed", 600, Alone)

-----------------------------------------------------------------------------
(* The whole detection. *)

MinConfidence == 550
FullConfidenceTokens == 5

Undetermined(script, confidence) == [lang |-> "und", confidence |-> confidence, script |-> script, secondary |-> Alone]

(* finish: a guess from a short text is worth less, and one below the floor *)
(* is none.                                                                 *)
Finish(raw, script, tokens) ==
  LET confidence == IF raw.source = "lexicon" THEN raw.confidence
                    ELSE (raw.confidence * Min({tokens, FullConfidenceTokens})) \div FullConfidenceTokens
  IN  IF confidence < MinConfidence THEN Undetermined(script, confidence)
      ELSE [lang |-> raw.lang, confidence |-> confidence, script |-> script, secondary |-> raw.secondary]

Detected(text, guess, ratio) ==
  CASE ScriptOf(ratio) = "unknown" -> Undetermined("unknown", 0)
    [] ScriptOf(ratio) = "arabic"  -> Finish(DetectArabic(Score(Darija, text)), "arabic", Len(text))
    [] ScriptOf(ratio) = "latin"   ->
         Finish(DetectLatin(Score(Arabizi, text), Score(French, text), Score(English, text), DigitScore(text), guess), "latin", Len(text))
    [] ScriptOf(ratio) = "mixed"   ->
         Finish(DetectMixed(Score(Darija, text), Score(Arabizi, text), Score(French, text), Share(ratio.arabic, LettersIn(ratio))),
                "mixed", Len(text))

Detect(text, guess) == IF text = <<>> THEN Undetermined("unknown", 0) ELSE Detected(text, guess, Ratio(text))

-----------------------------------------------------------------------------
(* Questions: a text as it is typed, character by character. *)

Words(text) ==
  LET ends == {i \in DOMAIN text : text[i] # " " /\ (i = Len(text) \/ text[i + 1] = " ")}
      Start(i) == Max({j \in 0 .. i : j = 0 \/ text[j] = " "}) + 1
  IN  [k \in 1 .. Cardinality(ends) |-> LET i == SetToSortSeq(ends, <)[k] IN SubSeq(text, Start(i), i)]

Marks == {"?", "'"}

(* trim_matches: without what is not a letter or a digit at its ends. *)
Clean(word) ==
  LET kept == {i \in DOMAIN word : word[i] \notin Marks}
  IN  IF kept = {} THEN <<>> ELSE SubSeq(word, Min(kept), Max(kept))

IsQuestion(text) ==
  LET words == Words(text)
  IN  /\ words # <<>>
      /\ \/ Last(Last(words)) = "?"
         \/ \E phrase \in QuestionPhrases, i \in DOMAIN text : IsPrefix(phrase, SubSeq(text, i, Len(text)))
         \/ /\ Len(words) >= 2
            /\ \E i \in DOMAIN words : Clean(words[i]) \in QuestionWords /\ (i = 1 \/ Clean(words[i]) \notin LeadingOnly)
=============================================================================
