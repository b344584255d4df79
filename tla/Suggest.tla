------------------------------- MODULE Suggest -------------------------------
(***************************************************************************)
(* Autocomplete: an index of terms looked up by prefix, and three legs     *)
(* whose candidates are merged.  A text is a sequence of numbers, the code *)
(* points of its letters; "Fold" is what folding makes of a letter.        *)
(* Weights are in hundredths.                                              *)
(***************************************************************************)
EXTENDS Integers, FiniteSets, SequencesExt

CONSTANTS
  Fold(_),      \* a letter, folded
  MinPrefix,    \* MIN_PREFIX_CHARS
  Arabizi       \* letters that give away Arabizi: its digits

WPrefix   == 100
WCurated  == 90
WTitle    == 70
WTranslit == 60

Folded(text) == [i \in DOMAIN text |-> Fold(text[i])]

Less(s, t) ==
  \E n \in 0 .. Len(s) : /\ n <= Len(t) /\ SubSeq(s, 1, n) = SubSeq(t, 1, n)
                         /\ IF n = Len(s) THEN n < Len(t) ELSE n < Len(t) /\ s[n + 1] < t[n + 1]

(* PrefixIndex::build: a term as it first came, with the most any source   *)
(* gives it.                                                               *)
Push(entries, display, weight) ==
  LET key == Folded(display)
      i   == SelectInSeq(entries, LAMBDA e : e.key = key)
  IN  CASE Len(key) < MinPrefix -> entries
        [] i # 0 -> [entries EXCEPT ![i].weight = IF @ < weight THEN weight ELSE @]
        [] OTHER -> Append(entries, [key |-> key, text |-> display, weight |-> weight])

Build(curated, corpus) ==
  LET pushed == FoldLeft(LAMBDA es, t : Push(es, t, WPrefix),
                         FoldLeft(LAMBDA es, c : Push(es, c.text, (WCurated * c.weight) \div 100), <<>>, curated),
                         corpus)
      order  == SetToSortSeq(DOMAIN pushed, LAMBDA i, j : Less(pushed[i].key, pushed[j].key))
  IN  [n \in DOMAIN order |-> pushed[order[n]]]

Heavier(a, b) == a.weight > b.weight \/ (a.weight = b.weight /\ Len(a.text) < Len(b.text))

Sorted(entries) ==
  LET Before(i, j) == \/ Heavier(entries[i], entries[j])
                      \/ ~Heavier(entries[j], entries[i]) /\ i < j
      order == SetToSortSeq(DOMAIN entries, Before)
  IN  [n \in DOMAIN order |-> entries[order[n]]]

Upto(s, n) == SubSeq(s, 1, IF n < Len(s) THEN n ELSE Len(s))

(* Faulty: the search stops at the entries not after the prefix itself. *)
StartAfter(entries, prefix) == 1 + Cardinality({i \in DOMAIN entries : ~Less(prefix, entries[i].key)})

(* partition_point: the entries before the prefix come first. *)
Start(entries, prefix) == 1 + Cardinality({i \in DOMAIN entries : Less(entries[i].key, prefix)})

(* PrefixIndex::prefix: the entries that begin with it are next to each     *)
(* other; no more than eight times the limit are looked at.                *)
Prefix(entries, prefix, limit) ==
  LET from  == SubSeq(entries, Start(entries, prefix), Len(entries))
      stop  == SelectInSeq(from, LAMBDA e : ~IsPrefix(prefix, e.key))
      found == Upto(IF stop = 0 THEN from ELSE SubSeq(from, 1, stop - 1), 8 * limit)
  IN  IF prefix = <<>> THEN <<>> ELSE Upto(Sorted(found), limit)

(* merge, its first half: the heaviest of those that fold to one key. *)
Best(candidates) ==
  LET keys   == {Folded(candidates[i].text) : i \in DOMAIN candidates} \ {<<>>}
      Heaviest(k) ==
        LET same == {i \in DOMAIN candidates : Folded(candidates[i].text) = k}
        IN  candidates[CHOOSE i \in same : \A j \in same :
                         \/ candidates[i].weight > candidates[j].weight
                         \/ (candidates[i].weight = candidates[j].weight /\ i <= j)]
  IN  {Heaviest(k) : k \in keys}

(* Its second: a candidate that something shown extends is not shown. *)
Merge(candidates, limit) ==
  LET Before(a, b) == Heavier(a, b) \/ (~Heavier(b, a) /\ Less(a.text, b.text))
      ranked == SetToSortSeq(Best(candidates), Before)
      Extended(shown, c) == \E i \in DOMAIN shown : /\ IsStrictPrefix(Folded(c.text), Folded(shown[i].text))
      Add(shown, c) == IF Len(shown) >= limit \/ Extended(shown, c) THEN shown ELSE Append(shown, c)
  IN  FoldLeft(Add, <<>>, ranked)

(* The handler's legs.  "variants" are what the expander makes of the      *)
(* prefix; "titles" are the engine's hits, none where it is slow or down.   *)
Candidates(entries, prefix, variants, titles, limit) ==
  LET From(es, factor, source) ==
        [i \in DOMAIN es |-> [text |-> es[i].text, weight |-> (es[i].weight * factor) \div 100, source |-> source]]
      index    == From(Prefix(entries, prefix, 2 * limit), 100, "index")
      arabizi  == Len(index) < limit /\ \E i \in DOMAIN prefix : prefix[i] \in Arabizi
      translit == IF ~arabizi THEN <<>>
                  ELSE FlattenSeq([i \in DOMAIN Upto(variants, limit) |->
                         From(Prefix(entries, Folded(variants[i]), limit), WTranslit, "transliteration")])
      known    == index \o translit
      fitting  == SelectSeq(Upto(titles, limit), LAMBDA t : \E i, j \in DOMAIN t : SubSeq(Folded(t), i, j) = prefix)
      title    == [i \in DOMAIN fitting |-> [text |-> fitting[i], weight |-> WTitle, source |-> "title"]]
  IN  IF Len(known) < limit THEN known \o title ELSE known

Suggestions(entries, raw, variants, titles, limit) ==
  LET prefix == Folded(raw)
  IN  IF Len(prefix) < MinPrefix THEN <<>>
      ELSE Merge(Candidates(entries, prefix, variants, titles, limit), limit)
=============================================================================
