------------------------------- MODULE Translit -------------------------------
(***************************************************************************)
(* Arabizi and Arabic: what a word written in one can be in the other, and *)
(* what a query is widened by.  A word is a sequence of letters; an Arabic *)
(* letter has its name.  Scores and weights are in hundredths.             *)
(***************************************************************************)
EXTENDS Integers, SequencesExt, FiniteSetsExt

CONSTANTS
  BeamWidth, TopK, MinTokenLen, MaxExpansion,
  Concepts,          \* the rows of the files of words that are equal
  MaxVariants, MaxExpandedTokens

Ascii == {"a", "b", "c", "d", "e", "f", "g", "h", "i", "j", "k", "l", "m", "n", "o", "p", "q", "r", "s", "t", "u", "v", "w", "x", "y", "z"}
Digits == {"0", "1", "2", "3", "4", "5", "6", "7", "8", "9"}

-----------------------------------------------------------------------------
(* Arabizi to Arabic. *)

(* The letters a letter or two can stand for, the best first; <<>> is a     *)
(* vowel that is not written.                                              *)
One(letters) == [n \in DOMAIN letters |-> <<letters[n]>>]
OrNone(letter) == <<<<letter>>, <<>>>>
Single ==
  [b |-> One(<<"ba">>), c |-> One(<<"kaf", "sin">>), d |-> One(<<"dal", "dad">>), f |-> One(<<"fa">>),
   g |-> One(<<"qaf", "ga", "ghain">>), h |-> One(<<"ha", "hah">>), j |-> One(<<"jim">>), k |-> One(<<"kaf", "qaf">>),
   l |-> One(<<"lam">>), m |-> One(<<"mim">>), n |-> One(<<"nun">>), p |-> One(<<"ba">>), q |-> One(<<"qaf">>),
   r |-> One(<<"ra">>), s |-> One(<<"sin", "sad">>), t |-> One(<<"ta", "tah">>), v |-> One(<<"fa">>), w |-> One(<<"waw">>),
   x |-> <<<<"kaf", "sin">>>>, y |-> One(<<"ya">>), z |-> One(<<"zay", "zah">>),
   a |-> OrNone("alef"), i |-> OrNone("ya"), o |-> OrNone("waw"), u |-> OrNone("waw"), e |-> <<<<>>, <<"ya">>>>]
  @@ ("2" :> One(<<"hamza", "alef hamza">>)) @@ ("3" :> One(<<"ain">>)) @@ ("5" :> One(<<"khah">>)) @@ ("6" :> One(<<"tah">>))
  @@ ("7" :> One(<<"hah">>)) @@ ("8" :> One(<<"ghain">>)) @@ ("9" :> One(<<"qaf">>))
Digraph ==
  (<<"c", "h">> :> One(<<"shin">>)) @@ (<<"s", "h">> :> One(<<"shin">>)) @@ (<<"k", "h">> :> One(<<"khah">>))
  @@ (<<"g", "h">> :> One(<<"ghain">>)) @@ (<<"t", "h">> :> One(<<"tha", "ta">>)) @@ (<<"d", "h">> :> One(<<"thal", "dad">>))
  @@ (<<"o", "u">> :> One(<<"waw">>)) @@ (<<"o", "o">> :> One(<<"waw">>)) @@ (<<"a", "a">> :> One(<<"alef">>))
  @@ (<<"e", "e">> :> One(<<"ya">>)) @@ (<<"i", "i">> :> One(<<"ya">>)) @@ (<<"d", "j">> :> One(<<"jim">>))

(* Two letters before one; what stands for nothing has no outputs. *)
Candidates(word, i) ==
  LET two == SubSeq(word, i, i + 1)
      isDigraph == i < Len(word) /\ two \in DOMAIN Digraph
  IN  CASE isDigraph -> [length |-> 2, outputs |-> Digraph[two]]
        [] ~isDigraph /\ word[i] \in DOMAIN Single -> [length |-> 1, outputs |-> Single[word[i]]]
        [] OTHER -> [length |-> 1, outputs |-> <<>>]

LongVowels == {"alef", "waw", "ya"}

(* How Arabic it looks that "next" follows what is written (bigram_score).  *)
BigramScore(written, next) ==
  CASE next = <<>> -> 15
    [] next # <<>> /\ written = <<>> -> IF next[1] \in {"alef", "mim", "ta", "ya", "nun"} THEN 30 ELSE 20
    [] next # <<>> /\ written # <<>> ->
         20 - (IF Last(written) = next[1] THEN 50 ELSE 0)
            - (IF {Last(written), next[1]} \subseteq LongVowels THEN 30 ELSE 0)
            + (IF written = <<"alef">> /\ next[1] = "lam" THEN 40 ELSE 0)
            - (IF next[1] \in {"sad", "dad", "tah", "zah", "ga"} THEN 15 ELSE 0)

Variant(text, score) == [text |-> text, score |-> score]

(* A sort that keeps the order of equals: the first of the best is first.   *)
Sorted(s, Key(_)) ==
  LET Place(i) == Cardinality({j \in DOMAIN s : Key(s[j]) > Key(s[i]) \/ (Key(s[j]) = Key(s[i]) /\ j <= i)})
  IN  [n \in DOMAIN s |-> s[CHOOSE i \in DOMAIN s : Place(i) = n]]
Taken(s, n) == SubSeq(s, 1, Min({n, Len(s)}))

(* Each path goes on with each output, and the best of them are kept; a     *)
(* character that stands for nothing is dropped.                            *)
Longer(beam, outputs, most) ==
  LET paths == FlattenSeq([p \in DOMAIN beam |-> [n \in DOMAIN outputs |->
                 Variant(beam[p].text \o outputs[n], beam[p].score + BigramScore(beam[p].text, outputs[n]))]])
  IN  Taken(Sorted(SelectSeq(paths, LAMBDA v : Len(v.text) <= most), LAMBDA v : v.score), BeamWidth)

Vowels == {"a", "e", "i", "o", "u"}
Collapsed(word) ==
  FoldLeft(LAMBDA out, c : IF out # <<>> /\ Last(out) = c /\ c \notin Vowels THEN out ELSE Append(out, c), <<>>, word)

(* A scan of the word: where it is at, and the paths so far. *)
Step(word, s) ==
  IF s.at > Len(word) THEN s
  ELSE LET found == Candidates(word, s.at)
       IN  [at |-> s.at + found.length,
            beam |-> IF found.outputs = <<>> THEN s.beam ELSE Longer(s.beam, found.outputs, MaxExpansion * Len(word))]
Scanned(word) == FoldLeft(LAMBDA s, i : Step(word, s), [at |-> 1, beam |-> <<Variant(<<>>, 0)>>], word).beam

(* Only those of the same spelling that stand together are made one. *)
Distinct(variants) ==
  FoldLeft(LAMBDA out, v : IF out # <<>> /\ Last(out).text = v.text THEN out ELSE Append(out, v), <<>>, variants)

ToArabic(token) ==
  IF Len(token) < MinTokenLen \/ ToSet(token) \cap Ascii = {} THEN <<>>
  ELSE Taken(Distinct(SelectSeq(Scanned(Collapsed(token)), LAMBDA v : v.text # <<>>)), TopK)

-----------------------------------------------------------------------------
(* Arabic to Arabizi: one spelling of each letter. *)

Usual ==
  [alef |-> <<"a">>, ba |-> <<"b">>, ta |-> <<"t">>, tha |-> <<"t", "h">>, jim |-> <<"j">>, hah |-> <<"7">>, khah |-> <<"k", "h">>,
   dal |-> <<"d">>, thal |-> <<"d", "h">>, ra |-> <<"r">>, zay |-> <<"z">>, sin |-> <<"s">>, shin |-> <<"c", "h">>, sad |-> <<"s">>,
   dad |-> <<"d">>, tah |-> <<"t">>, zah |-> <<"z">>, ain |-> <<"3">>, ghain |-> <<"g", "h">>, fa |-> <<"f">>, qaf |-> <<"9">>,
   ga |-> <<"g">>, kaf |-> <<"k">>, lam |-> <<"l">>, mim |-> <<"m">>, nun |-> <<"n">>, ha |-> <<"h">>, waw |-> <<"o", "u">>,
   ya |-> <<"i">>, hamza |-> <<"2">>]
  @@ ("alef hamza" :> <<"a">>) @@ ("teh marbuta" :> <<"a">>)

ToArabizi(word) == FlattenSeq([i \in DOMAIN word |-> IF word[i] \in DOMAIN Usual THEN Usual[word[i]] ELSE <<word[i]>>])

-----------------------------------------------------------------------------
(* What a query is widened by. *)

TranslitWeight == 60
MaxWeight == 95

(* The concepts of the files, without those that have fewer than two words. *)
Curated == SelectSeq(Concepts, LAMBDA c : Len(c.variants) >= 2)
IndexOf(token) == SelectSeq(Curated, LAMBDA c : token \in ToSet(c.variants))

Found(text, weight, origin) == [text |-> text, weight |-> Min({weight, MaxWeight}), origin |-> origin]

(* Those that were not seen before, each once. *)
Fresh(found, seen) ==
  FoldLeft(LAMBDA s, v : IF v.text \in s.seen THEN s ELSE [seen |-> s.seen \cup {v.text}, out |-> Append(s.out, v)],
           [seen |-> seen, out |-> <<>>], found).out

Siblings(token) ==
  FlattenSeq([n \in DOMAIN IndexOf(token) |->
    LET c == IndexOf(token)[n] IN [k \in DOMAIN c.variants |-> Found(c.variants[k], c.weight, "lexicon")]])

(* Most of its letters are Latin. *)
IsLatin(token) ==
  LET letters == SelectSeq(token, LAMBDA c : c \notin Digits)
  IN  letters # <<>> /\ 10 * Len(SelectSeq(letters, LAMBDA c : c \in Ascii)) >= 6 * Len(letters)

ShouldTransliterate(token, lang) ==
  /\ IsLatin(token)
  /\ lang \notin {"fr", "en"}
  /\ Len(token) >= MinTokenLen

Guesses(token, lang) ==
  IF ~ShouldTransliterate(token, lang) THEN <<>>
  ELSE LET variants == ToArabic(token) IN [n \in DOMAIN variants |-> Found(variants[n].text, TranslitWeight, "translit")]

Widened(s, token, lang) ==
  IF s.tokens >= MaxExpandedTokens \/ Len(token) < MinTokenLen THEN s
  ELSE LET more == Fresh(Siblings(token) \o Guesses(token, lang), s.seen)
       IN  [seen |-> s.seen \cup {v.text : v \in ToSet(more)}, out |-> s.out \o more,
            tokens |-> s.tokens + (IF more = <<>> THEN 0 ELSE 1)]

Expand(query, lang) ==
  LET all == FoldLeft(LAMBDA s, token : Widened(s, token, lang), [seen |-> ToSet(query), out |-> <<>>, tokens |-> 0], query)
  IN  Taken(Sorted(all.out, LAMBDA v : v.weight), MaxVariants)

(* What the engine is told of the concepts, for its own look-ups.           *)
MeiliSynonyms ==
  LET words == UNION {ToSet(c.variants) : c \in ToSet(Curated)}
      Equal(word) == UNION {ToSet(c.variants) \ {word} : c \in {c \in ToSet(Curated) : word \in ToSet(c.variants)}}
  IN  [word \in {w \in words : Equal(w) # {}} |-> Equal(word)]
=============================================================================
