-------------------------------- MODULE Summaries --------------------------------
(***************************************************************************)
(* What the model is shown and what of its answer is: the passages of a     *)
(* prompt, the checks of a summary, and the cleaning of a translation.     *)
(* Texts are sequences of characters; those that are not told apart are    *)
(* "a", in Latin letters, and "alef", in Arabic ones.  A number has one     *)
(* digit to each character.                                               *)
(***************************************************************************)
EXTENDS Integers, SequencesExt, FiniteSetsExt

CONSTANTS MaxPassages,     \* passages of a prompt, at most
          MaxContext,      \* characters of them all
          Around,          \* of each, what its domain and date add
          MaxPassageChars, \* characters of an excerpt
          SnapChars,       \* how far it may move to begin with a word
          MaxChars,        \* characters of a summary
          MaxSentences,    \* its sentences
          RefusalChars,    \* characters of an answer that is a refusal, if it has the word
          PhoneDigits,     \* digits in a row that make a telephone number
          MaxInput         \* characters of a text to translate

Blank     == {" ", "line"}
Digits    == [d \in {"1", "2", "9"} |-> CASE d = "1" -> 1 [] d = "2" -> 2 [] d = "9" -> 9]
Latin     == {"a", "b", "I dot"}
Arabic    == {"alef"}
Letters   == Latin \cup Arabic
Alphanumeric == Letters \cup DOMAIN Digits

Trimmed(text, Out) ==
  LET kept == {i \in DOMAIN text : text[i] \notin Out}
  IN  IF kept = {} THEN <<>> ELSE SubSeq(text, Min(kept), Max(kept))
Trim(text) == Trimmed(text, Blank)

(* A word from its first letter, digit or point to its last. *)
Core(word) ==
  LET kept == {i \in DOMAIN word : word[i] \in Alphanumeric \cup {"."}}
  IN  IF kept = {} THEN <<>> ELSE SubSeq(word, Min(kept), Max(kept))

(* split_whitespace. *)
WordsOf(text) ==
  LET Starts(i) == text[i] \notin Blank /\ (i > 1 => text[i - 1] \in Blank)
      Word(i)   == SubSeq(text, i, Max({j \in i .. Len(text) : \A k \in i .. j : text[k] \notin Blank}))
      starts    == SetToSortSeq({i \in DOMAIN text : Starts(i)}, <)
  IN  [n \in DOMAIN starts |-> Word(starts[n])]

Places(part, text) == {i \in 1 .. Len(text) - Len(part) + 1 : SubSeq(text, i, i + Len(part) - 1) = part}

-----------------------------------------------------------------------------
(* The prompt (prompt.rs). *)

(* A letter takes as many bytes as it does, and what it is lowercased to    *)
(* may take more: a place among the lowercased bytes is read as one among   *)
(* the bytes of the text.                                                  *)
Lower(c) == IF c = "I dot" THEN <<"i", "dot">> ELSE <<c>>
Lowered(text) == FlattenSeq([k \in DOMAIN text |-> Lower(text[k])])

(* How many bytes come before the first of the words, which are the long     *)
(* ones of the query, that is in the text; nothing if none is.              *)
FirstOf(text, words) ==
  LET places == UNION {Places(Lowered(w), Lowered(text)) : w \in words}
  IN  IF places = {} THEN {} ELSE {Min(places) - 1}

(* snap_to_word: to the character after the first blank, if one is near.    *)
SnapToWord(text, start) ==
  LET near == {i \in start + 1 .. Min({start + SnapChars, Len(text)}) : text[i] \in Blank}
  IN  IF start = 0 \/ near = {} THEN start ELSE Min(near)

Panics == <<"panic">>
Excerpt(text, words) ==
  LET limit == MaxPassageChars
      best  == FirstOf(text, words)
      back  == Max({Max(best) - limit \div 4, 0})
      start == SnapToWord(text, IF best = {} THEN 0 ELSE Min({back, Len(text) - limit}))
      end   == Min({start + limit, Len(text)})
  IN  CASE Len(text) <= limit -> Trim(text)
        [] Len(text) > limit /\ best # {} /\ Max(best) > Len(text) -> Panics
        [] OTHER -> Trim((IF start > 0 THEN <<"...">> ELSE <<>>) \o SubSeq(text, start + 1, end)
                         \o (IF end < Len(text) THEN <<"...">> ELSE <<>>))

(* build: in the order of their rank, those good enough and that say         *)
(* something, until they are enough or the next does not fit.               *)
Build(passages, words) ==
  LET Do(s, p) ==
        LET text == Excerpt(p.text, words)
            cost == Len(text) + Around
        IN  CASE s.full \/ Len(s.cited) >= MaxPassages -> [s EXCEPT !.full = TRUE]
              [] ~s.full /\ Len(s.cited) < MaxPassages /\ (~p.good \/ text = <<>>) -> s
              [] ~s.full /\ Len(s.cited) < MaxPassages /\ p.good /\ text # <<>> /\ cost > s.budget -> [s EXCEPT !.full = TRUE]
              [] OTHER -> [s EXCEPT !.budget = @ - cost, !.cited = Append(@, [id |-> p.id, text |-> text])]
  IN  FoldLeft(Do, [cited |-> <<>>, budget |-> MaxContext, full |-> FALSE], passages).cited

(* The language asked for: Arabic, where it is not known to be another.     *)
FromDetected(code) == IF code \in {"fr", "en"} THEN code ELSE "ar"

(* civil_from_days: the date of a day.  An era is 400 years. *)
EraDays   == 146097
EpochDays == 719468
CivilFromDays(days) ==
  LET z   == days + EpochDays
      era == z \div EraDays
      doe == z % EraDays
      yoe == (doe - doe \div 1460 + doe \div 36524 - doe \div 146096) \div 365
      doy == doe - (365 * yoe + yoe \div 4 - yoe \div 100)
      mp  == (5 * doy + 2) \div 153
      m   == IF mp < 10 THEN mp + 3 ELSE mp - 9
  IN  [year |-> yoe + era * 400 + (IF m <= 2 THEN 1 ELSE 0), month |-> m, day |-> doy - (153 * mp + 2) \div 5 + 1]

-----------------------------------------------------------------------------
(* The checks of what comes back (validate.rs). *)

(* A telephone number: digits, with nothing but separators among them.      *)
Separators == {" ", "-", "."}
PhoneIn(text) ==
  \E i, j \in DOMAIN text :
    /\ text[i] \in DOMAIN Digits
    /\ \A k \in i .. j : text[k] \in DOMAIN Digits \cup Separators
    /\ Cardinality({k \in i .. j : text[k] \in DOMAIN Digits}) >= PhoneDigits

(* A domain: a word with two to six letters after its last dot. *)
IsDomain(word) ==
  LET dots == {i \in DOMAIN word : word[i] = "."}
  IN  /\ dots # {} /\ Max(dots) > 1
      /\ Len(word) - Max(dots) \in 2 .. 6
      /\ \A i \in Max(dots) + 1 .. Len(word) : word[i] \in Latin
DomainIn(text) == \E word \in ToSet(WordsOf(text)) : IsDomain(Core(word))

ContactDetails(text) == "@" \in ToSet(text) \/ DomainIn(text) \/ PhoneIn(text)

(* truncate: whole sentences, as many as there is room for; the beginning    *)
(* of a text that has none.                                                *)
Ends == {".", "line"}
Truncate(text) ==
  LET ends == {i \in DOMAIN text : text[i] \in Ends /\ i <= MaxChars}
      few  == {i \in ends : Cardinality({j \in ends : j <= i}) <= MaxSentences}
      cut  == IF few = {} THEN <<>> ELSE Trim(SubSeq(text, 1, Max(few)))
  IN  IF cut = <<>> THEN Trim(SubSeq(text, 1, Min({MaxChars, Len(text)}))) ELSE cut

(* resolve_citations: a bracket is closed by the first that closes.  A       *)
(* marker of a passage that was shown is kept, any other dropped, and so is *)
(* anything short in brackets.                                             *)
IsNumber(inner) == inner # <<>> /\ \A i \in DOMAIN inner : inner[i] \in DOMAIN Digits
NumberOf(inner) == FoldLeft(LAMBDA n, c : 10 * n + Digits[c], 0, inner)
(* Faulty: any number in brackets is taken for a marker of a passage. *)
MarkedAny(n, shown) == IsNumber(n)
Marked(n, shown) == IsNumber(n) /\ NumberOf(n) \in 1 .. shown
Spaced(words) == FlattenSeq([n \in DOMAIN words |-> IF n = 1 THEN words[n] ELSE <<" ">> \o words[n]])
Close(text, i) == IF text[i] # "[" \/ "]" \notin ToSet(SubSeq(text, i, Len(text))) THEN 0
                  ELSE Min({j \in i + 1 .. Len(text) : text[j] = "]"})
Resolved(s, number, shown, next) ==
  IF Marked(number, shown)
  THEN [next |-> next, out |-> s.out \o <<"[">> \o number \o <<"]">>, cited |-> s.cited \cup {NumberOf(number)}]
  ELSE [s EXCEPT !.next = next]
ResolveCitations(text, shown) ==
  LET Inner(i) == SubSeq(text, i + 1, Close(text, i) - 1)
      Do(s, i) ==
        CASE i < s.next -> s
          [] i >= s.next /\ Close(text, i) # 0 /\ (IsNumber(Trim(Inner(i))) \/ Len(Inner(i)) <= 3) ->
               Resolved(s, Trim(Inner(i)), shown, Close(text, i) + 1)
          [] OTHER -> [s EXCEPT !.next = i + 1, !.out = Append(@, text[i])]
      Tidy(s) == [text |-> Spaced(WordsOf(s.out)), cited |-> s.cited]
  IN  Tidy(FoldLeft(Do, [next |-> 1, out |-> <<>>, cited |-> {}], [i \in DOMAIN text |-> i]))

(* matches_language: by the letters alone. *)
MatchesLanguage(text, language) ==
  LET letters == Cardinality({i \in DOMAIN text : text[i] \in Letters})
      arabic  == Cardinality({i \in DOMAIN text : text[i] \in Arabic})
  IN  letters > 0 /\ IF language = "ar" THEN 2 * arabic >= letters ELSE 5 * arabic < letters

Insufficient(text) == "INSUFFICIENT" \in ToSet(text) /\ Len(text) <= RefusalChars
Injected(text) == "system:" \in ToSet(text)

Withheld(why) == [kind |-> why, text |-> <<>>, cited |-> {}]
CheckText(text, resolved, language) ==
  LET tests  == <<<<"empty", text = <<>>>>, <<"insufficient", Insufficient(text)>>, <<"injection", Injected(text)>>,
                  <<"contact_details", ContactDetails(text)>>, <<"uncited", resolved.cited = {}>>,
                  <<"wrong_language", ~MatchesLanguage(resolved.text, language)>>>>
      failed == SelectInSeq(tests, LAMBDA t : t[2])
  IN  IF failed = 0 THEN [kind |-> "summary", text |-> resolved.text, cited |-> resolved.cited]
      ELSE Withheld(tests[failed][1])
Check(raw, shown, language) == CheckText(Trim(raw), ResolveCitations(Truncate(Trim(raw)), shown), language)

-----------------------------------------------------------------------------
(* Translations (translate.rs). *)

Translatable(text, from, to) == Trim(text) # <<>> /\ Len(Trim(text)) <= MaxInput /\ from # to

(* clean: the delimiters, then what announces a translation, then the quotes *)
(* around it all.                                                          *)
Without(text, tag) == Trim(Trimmed(text, {tag}))
Announces == {"Translation:"}
CleanTranslation(raw) ==
  LET bare == Without(Without(Trim(raw), "<text>"), "</text>")
      said == IF bare # <<>> /\ Head(bare) \in Announces THEN Trim(Tail(bare)) ELSE bare
  IN  IF Len(said) >= 2 /\ Head(said) = "quote" /\ Last(said) = "quote"
      THEN Trim(SubSeq(said, 2, Len(said) - 1)) ELSE said
=============================================================================
