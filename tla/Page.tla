---------------------------------- MODULE Page ----------------------------------
(***************************************************************************)
(* A page read into a document, and what is said of it by its words.  A    *)
(* text is a sequence of tokens, as it is for Dates; a "<" and a ">" are   *)
(* left by markup that was pasted as text, and an "entity" becomes the     *)
(* character it names.  A page has what its head says of it, its article   *)
(* in JSON-LD, and its nodes, in the order they are written and each at    *)
(* its depth.                                                              *)
(***************************************************************************)
EXTENDS Integers, SequencesExt, FiniteSetsExt, TLC

CONSTANTS
  MinBody, MinBlock, MinParagraph, MinDescription, ExcerptChars, MaxBodyBytes, MaxLinks, MaxMedia, MaxTags, MaxDepth,
  SpamPhrases,  \* sequences of words
  Keywords,     \* the words of each topic, the topics in the order of their labels
  Names,        \* the names, sequences of words, of each wilaya
  Letters(_),   \* the length of a word
  Capital(_)    \* it begins with a capital

Da == INSTANCE Dates

Token(kind, bytes, wide) == [kind |-> kind, value |-> 0, bytes |-> bytes, wide |-> wide]
Blank    == Token("blank", 1, 1)
Ellipsis == Token("ellipsis", 3, 3)
Panics   == <<Token("panic", 1, 1)>>

Chars(text) == FoldLeft(LAMBDA n, t : n + t.bytes \div t.wide, 0, text)

-----------------------------------------------------------------------------
(* Texts. *)

(* strip_tags: all that is not between a < and its >, entities decoded after. *)
Decoded(t) == IF t.kind = "entity" THEN Token("mark", 1, 1) ELSE t
StripTags(text) ==
  LET Do(s, t) == CASE t.kind = "<" -> [s EXCEPT !.depth = @ + 1]
                    [] t.kind = ">" -> [s EXCEPT !.depth = Max({@ - 1, 0})]
                    [] t.kind \notin {"<", ">"} /\ s.depth = 0 -> [s EXCEPT !.out = Append(@, Decoded(t))]
                    [] OTHER -> s
  IN  FoldLeft(Do, [depth |-> 0, out |-> <<>>], text).out

(* Blanks are one between words, and none around the text. *)
Clean(text) ==
  LET Do(s, t) == IF t.kind = "blank" /\ (s = <<>> \/ Last(s) = Blank) THEN s ELSE Append(s, t)
      out == FoldLeft(Do, <<>>, StripTags(text))
  IN  IF out # <<>> /\ Last(out) = Blank THEN Front(out) ELSE out

(* The first n characters (head), or those that fit in n bytes             *)
(* (truncate_bytes).                                                       *)
Upto(text, n, bytes) ==
  LET Do(s, t) == LET each == IF bytes THEN t.wide ELSE 1
                      kept == Min({s.room \div each, t.bytes \div t.wide})
                  IN  [room |-> IF kept < t.bytes \div t.wide THEN 0 ELSE s.room - kept * each,
                       out  |-> IF kept = 0 THEN s.out ELSE Append(s.out, [t EXCEPT !.bytes = kept * t.wide])]
  IN  FoldLeft(Do, [room |-> n, out |-> <<>>], text).out

(* excerpt_from: up to the last mark that ends a sentence, when that is not *)
(* in the first half.  The slice ends one byte after the mark begins.      *)
ExcerptFrom(body, n) ==
  LET head  == Upto(body, n, FALSE)
      stops == {i \in DOMAIN head : head[i].kind = "stop"}
      close == stops # {} /\ Da!Offset(head, Max(stops)) > n \div 2
  IN  CASE Chars(body) <= n -> head
        [] Chars(body) > n /\ close ->
             IF head[Max(stops)].bytes > 1 THEN Panics ELSE SubSeq(head, 1, Max(stops))
        [] OTHER -> Append(head, Ellipsis)

FirstNonEmpty(texts) ==
  LET i == SelectInSeq(texts, LAMBDA text : \E n \in DOMAIN text : text[n].kind # "blank")
  IN  IF i = 0 THEN <<>> ELSE texts[i]

Words(text) == FoldLeft(LAMBDA s, t : IF t.kind = "blank" THEN Append(s, <<>>)
                                      ELSE Append(Front(s), Append(Last(s), t)), <<<<>>>>, text)

-----------------------------------------------------------------------------
(* Nodes. *)

(* check_complexity: the tags that open are counted, and nested until one   *)
(* closes, whether or not they are of the kind that closes.               *)
Complex(marks) ==
  LET Do(s, m) == CASE m = "close" -> [s EXCEPT !.depth = @ - 1]
                    [] m = "open"  -> [tags |-> s.tags + 1, depth |-> s.depth + 1, deepest |-> Max({s.deepest, s.depth + 1})]
                    [] OTHER -> s
      s == FoldLeft(Do, [tags |-> 0, depth |-> 0, deepest |-> 0], marks)
  IN  s.tags > MaxTags \/ s.deepest > MaxDepth

(* The nodes under one: those that follow it, down to one no deeper. *)
Under(nodes, i) ==
  {j \in i + 1 .. Len(nodes) : \A k \in i + 1 .. j : nodes[k].depth > nodes[i].depth}

(* Faulty: what a stylesheet says is read. *)
InvisibleScripts == {"script", "noscript", "template", "svg", "iframe"}
Invisible == {"style", "script", "noscript", "template", "svg", "iframe"}

Joined(texts) == FoldLeft(LAMBDA s, t : IF s = <<>> \/ Last(s) = Blank THEN s \o t ELSE s \o <<Blank>> \o t, <<>>, texts)

(* visible_text: what is hidden by an attribute is among it, unless it is   *)
(* the block itself that is.                                              *)
VisibleText(nodes, i) ==
  LET shown == {j \in Under(nodes, i) : /\ nodes[j].tag = "text"
                                        /\ ~\E k \in Under(nodes, i) : nodes[k].tag \in Invisible /\ j \in Under(nodes, k)}
      order == SetToSortSeq(shown, <)
  IN  Joined([n \in DOMAIN order |-> nodes[order[n]].text])

LinkChars(nodes, i) ==
  LET In(k) == {j \in Under(nodes, k) : nodes[j].tag = "text"}
  IN  MapThenSumSet(LAMBDA k : MapThenSumSet(LAMBDA j : Chars(nodes[j].text), In(k)),
                    {k \in Under(nodes, i) : nodes[k].tag = "a"})

(* densest_matching: of the blocks with text enough and at most half of it  *)
(* in links, the first with the most that is not.                         *)
Block(nodes, i) == [tag |-> nodes[i].tag, hidden |-> nodes[i].hidden,
                    text |-> Clean(VisibleText(nodes, i)), links |-> LinkChars(nodes, i)]
Densest(blocks, tags) ==
  LET Does(b)  == b.tag \in tags /\ ~b.hidden /\ Chars(b.text) >= MinBlock /\ 2 * b.links <= Chars(b.text)
      Score(b) == Chars(b.text) - b.links
      best     == SelectInSeq(blocks, LAMBDA b : Does(b) /\ \A c \in ToSet(blocks) : Does(c) => Score(c) <= Score(b))
  IN  IF best = 0 THEN <<>> ELSE blocks[best].text

Containers == {"main", "div"}
DensestOf(blocks) == FirstNonEmpty(<<Densest(blocks, {"article"}), Densest(blocks, Containers)>>)
DensestBlock(nodes) == DensestOf([i \in DOMAIN nodes |-> Block(nodes, i)])

AllParagraphs(nodes) ==
  LET Long(i) == nodes[i].tag = "p" /\ Chars(Clean(VisibleText(nodes, i))) > MinParagraph
      order   == SetToSortSeq({i \in DOMAIN nodes : Long(i)}, <)
  IN  Joined([n \in DOMAIN order |-> Clean(VisibleText(nodes, order[n]))])

Distinct(s, max) == FoldLeft(LAMBDA out, x : IF Len(out) >= max \/ x \in ToSet(out) THEN out ELSE Append(out, x), <<>>, s)

(* extract_outlinks: addresses of the web, once each; "" stands for none.   *)
Outlinks(nodes) ==
  LET links == SelectSeq(nodes, LAMBDA n : n.tag = "a" /\ n.href # "")
  IN  Distinct([i \in DOMAIN links |-> links[i].href], MaxLinks)

(* extract_media: the page's own image, then those of the article that are  *)
(* not small, of the first few.                                           *)
SmallImage == 200
Media(page) ==
  LET inside == {j \in DOMAIN page.nodes : /\ page.nodes[j].tag = "img"
                                           /\ \E i \in DOMAIN page.nodes : /\ page.nodes[i].tag \in {"article", "main"}
                                                                           /\ j \in Under(page.nodes, i)}
      few    == SubSeq(SetToSortSeq(inside, <), 1, Min({MaxMedia, Cardinality(inside)}))
      large  == SelectSeq(few, LAMBDA j : page.nodes[j].width >= SmallImage /\ page.nodes[j].href # "")
      image  == IF page.image = "" THEN <<>> ELSE <<page.image>>
  IN  Distinct(image \o [n \in DOMAIN large |-> page.nodes[large[n]].href], MaxMedia)

-----------------------------------------------------------------------------
(* What the page says of itself. *)

(* extract_jsonld: the first article among the nodes of the scripts that    *)
(* can be read; no fields if there is none.                               *)
JsonLd(page) ==
  LET items == FlattenSeq(page.scripts)
      i     == SelectInSeq(items, LAMBDA item : item.article)
  IN  IF i = 0 THEN [article |-> FALSE, headline |-> <<>>, body |-> <<>>, date |-> <<>>, author |-> <<>>] ELSE items[i]

(* extract_body: the length is asked before the markup is taken out.        *)
Body(text, method) == [text |-> text, method |-> method]
FirstLongEnough(bodies, fallback) ==
  LET i == SelectInSeq(bodies, LAMBDA b : Chars(b.text) >= MinBody) IN IF i = 0 THEN fallback ELSE bodies[i]
ExtractBody(page) ==
  LET body == FirstLongEnough(<<Body(JsonLd(page).body, "json-ld"), Body(DensestBlock(page.nodes), "density"),
                                Body(page.descriptions[1], "opengraph")>>, Body(AllParagraphs(page.nodes), "fallback"))
  IN  [body EXCEPT !.text = IF body.method \in {"json-ld", "opengraph"} THEN Clean(@) ELSE @]

(* The rule of a host is its own, or that of the nearest host it is under.  *)
ForHost(rules, host) ==
  LET above == {n \in 1 .. Len(host) : SubSeq(host, n, Len(host)) \in DOMAIN rules}
  IN  IF above = {} THEN "no rule" ELSE rules[SubSeq(host, Min(above), Len(host))]

(* Only the first of the sources that says anything is read; after it, the  *)
(* words the body begins with.                                            *)
HeadChars == 400
HeadWords == 120
DateOr(date, words, now) == IF date # Da!NoDate THEN date ELSE Da!Scanned(words, now)
FirstOfThem(words) == SubSeq(words, 1, Min({HeadWords, Len(words)}))
ReadDate(said, now) == IF said = <<>> THEN Da!NoDate ELSE Da!Parse(said, now)
Published(page, body, now) ==
  DateOr(ReadDate(FirstNonEmpty(<<page.byRule, JsonLd(page).date>> \o page.dates), now),
         FirstOfThem(Words(Upto(body, HeadChars, FALSE))), now)

Title(page, body) ==
  LET title == Clean(FirstNonEmpty(<<JsonLd(page).headline>> \o page.titles))
  IN  IF title = <<>> THEN Upto(body, 80, FALSE) ELSE title

Described(page, body) ==
  LET description == Clean(FirstNonEmpty(page.descriptions))
  IN  IF Chars(description) > MinDescription THEN description ELSE ExcerptFrom(body, ExcerptChars)

Author(page) == FirstNonEmpty(<<JsonLd(page).author, page.author>>)

(* quality_score, in hundredths. *)
Quality(doc) ==
  LET length == (25 * Min({Chars(doc.body), 3000})) \div 3000
      dated  == [second |-> 20, day |-> 18, month |-> 10, unknown |-> 0]
      markup == ("json-ld" :> 20) @@ ("opengraph" :> 12) @@ ("density" :> 10) @@ ("fallback" :> 2)
      Worth(so, points) == IF so THEN points ELSE 0
  IN  length + dated[doc.precision] + markup[doc.method] + Worth(Chars(doc.title) > 15, 10)
        + Worth(doc.author # <<>>, 8) + Worth(doc.media # <<>>, 5) + Worth(doc.language # "und", 12)

Refused(kind, outlinks) == [kind |-> kind, outlinks |-> outlinks]

(* parse: a page with too little on it is refused with its links; one that  *)
(* asks not to be indexed, or too complex, without.                       *)
Document(page, body, date, now) ==
  [kind |-> "document", body |-> body.text, method |-> body.method, title |-> Title(page, body.text),
   excerpt   |-> Described(page, body.text), author |-> Author(page), media |-> Media(page),
   published |-> IF date = Da!NoDate THEN now ELSE date.unix,
   precision |-> IF date = Da!NoDate THEN "unknown" ELSE date.precision,
   language  |-> page.language, outlinks |-> Outlinks(page.nodes)]
Finished(doc) ==
  IF doc.precision = "panic" \/ doc.excerpt = Panics THEN Refused("panic", <<>>) ELSE doc @@ [quality |-> Quality(doc)]

ParseWith(page, body, now) ==
  CASE Complex(page.marks) -> Refused("complex", <<>>)
    [] ~Complex(page.marks) /\ page.noindex -> Refused("noindex", <<>>)
    [] ~Complex(page.marks) /\ ~page.noindex /\ Chars(body.text) < MinBody -> Refused("thin", Outlinks(page.nodes))
    [] OTHER -> Finished(Document(page, body, Published(page, body.text, now), now))
Truncated(body) == [body EXCEPT !.text = Upto(@, MaxBodyBytes, TRUE)]
Parse(page, now) == ParseWith(page, Truncated(ExtractBody(page)), now)

-----------------------------------------------------------------------------
(* The labels: of folded words in a sequence, searched for the words and    *)
(* phrases of the tables the program carries.                              *)

(* Where the phrase stands among the words. *)
PlacesOf(phrase, words) ==
  {i \in DOMAIN words : /\ i + Len(phrase) - 1 <= Len(words)
                        /\ SubSeq(words, i, i + Len(phrase) - 1) = phrase}

CountOf(word, words) == Cardinality({i \in DOMAIN words : words[i] = word})

-----------------------------------------------------------------------------
(* spam_score, in hundredths. *)

(* phrase_signal: how many of the phrases are there, not how often.         *)
PhrasesForMax == 3
PhraseSignal(words) ==
  LET present == Cardinality({phrase \in SpamPhrases : PlacesOf(phrase, words) # {}})
  IN  Min({100, (100 * present) \div PhrasesForMax})

(* stuffing_signal: the share of the word that is there most, of the words  *)
(* that are not short.                                                    *)
FewestWords    == 25
ShortestWord   == 4
StuffSaturation == 18
StuffingSignal(words) ==
  LET content == SelectSeq(words, LAMBDA w : Letters(w) >= ShortestWord)
      top     == Max({CountOf(w, content) : w \in ToSet(content)})
  IN  IF Len(content) < FewestWords THEN 0
      ELSE Min({100, (100 * 100 * top) \div (Len(content) * StuffSaturation)})

SpamScore(words) == Max({PhraseSignal(words), StuffingSignal(words)})

-----------------------------------------------------------------------------
(* label: the topics whose words are there at least twice, the most of them *)
(* first.                                                                 *)
MinHits   == 2
MaxLabels == 3
Hits(topic, words) == MapThenSumSet(LAMBDA w : CountOf(w, words), Keywords[topic])

(* Faulty: one mention is enough. *)
LabelsOfOne(words) == {t \in DOMAIN Keywords : Hits(t, words) > 0}
LabelsOf(words) == {t \in DOMAIN Keywords : Hits(t, words) >= MinHits}

Label(words) ==
  LET order == SetToSortSeq(LabelsOf(words),
                            LAMBDA a, b : \/ Hits(a, words) > Hits(b, words)
                                          \/ Hits(a, words) = Hits(b, words) /\ a < b)
  IN  SubSeq(order, 1, Min({MaxLabels, Len(order)}))

(* detect_wilaya: the one that is named most, the first of those; none if   *)
(* it is named once, and another is too.                                  *)
NoWilaya == 0
Mentions(code, words) == MapThenSumSet(LAMBDA name : Cardinality(PlacesOf(name, words)), Names[code])
DetectWilaya(words) ==
  LET named == {c \in DOMAIN Names : Mentions(c, words) > 0}
      most  == {c \in named : \A d \in named : Mentions(d, words) <= Mentions(c, words)}
      first == Min(most)
  IN  IF named = {} \/ (Mentions(first, words) = 1 /\ Cardinality(named) > 1) THEN NoWilaya ELSE first

(* extract_entities: words that begin with a capital, once each.            *)
MaxEntities == 20
Entities(words) ==
  LET Do(out, w) == IF Len(out) < MaxEntities /\ Letters(w) \in 3 .. 40 /\ Capital(w) /\ w \notin ToSet(out)
                    THEN Append(out, w) ELSE out
  IN  FoldLeft(Do, <<>>, words)
=============================================================================
