---------------------------- MODULE MCAlgorithms ----------------------------
(***************************************************************************)
(* The program's algorithms, each against a definition of what it is to    *)
(* compute.  A behaviour takes one topic and builds an input for it, symbol *)
(* by symbol, out of the topic's alphabet: every input up to a length is   *)
(* a state, and what is said of the topic an invariant.                    *)
(***************************************************************************)
EXTENDS Integers, FiniteSets, SequencesExt, FiniteSetsExt

VARIABLES topic, input

vars == <<topic, input>>

Upper(letter) == IF letter = 3 THEN 1 ELSE letter
BitsOf(h) == [n \in 0 .. 7 |-> (h \div 2 ^ (7 - n)) % 2]
HashOf(words) == BitsOf(FoldLeft(LAMBDA h, w : (7 * h + 5 * w + 3) % 256, 1, words))

FewestWords == 6
RunLength   == 3

Ro == INSTANCE Robots
Re == INSTANCE Revisit
Qu == INSTANCE Query
Ra == INSTANCE Ranking WITH Bits <- 3, MaxDistance <- 1, PerDomain <- 1, CandidatePool <- 4, Threshold <- 5, Budget <- 15, EngineTimeout <- 8
Su == INSTANCE Suggest WITH Fold <- Upper, MinPrefix <- 1, Arabizi <- {2}
Du == INSTANCE Duplicates WITH Width <- 2, MinTokens <- FewestWords, Shingle <- RunLength
Te == INSTANCE TextNormal WITH MaxChars <- 3
Da == INSTANCE Dates
LettersOf(w) == IF w = "le" THEN 2 ELSE 4
IsCapital(w) == w \in {"Oran", "Tizi"}
Pg == INSTANCE Page WITH MinBody <- 120, MinBlock <- 200, MinParagraph <- 20, MinDescription <- 40, ExcerptChars <- 4,
                         MaxBodyBytes <- 204800, MaxLinks <- 200, MaxMedia <- 4, MaxTags <- 100, MaxDepth <- 10,
                         SpamPhrases <- {<<"loan">>, <<"Oran", "loan">>, <<"goal">>}, Keywords <- <<{"goal"}, {"loan", "Tizi"}>>,
                         Names <- <<{<<"Oran">>}, {<<"Tizi", "Ouzu">>}>>, Letters <- LettersOf, Capital <- IsCapital

Unit(dimension, ratio, alias) == [dimension |-> dimension, ratio |-> [n |-> ratio, d |-> 1], aliases |-> {<<alias>>}]
SomeUnits ==
  [metre |-> Unit("length", 1, "m"), kilometre |-> Unit("length", 1000, "km"), minute |-> Unit("time", 60, "min"),
   celsius |-> Unit("temperature", 1, "C"), fahrenheit |-> Unit("temperature", 1, "F"), kelvin |-> Unit("temperature", 1, "K")]
Ut == INSTANCE Utilities WITH Largest <- 1000, MaxDepth <- 8, MaxExponent <- 64, Units <- SomeUnits, To <- {"to"}
Cv == INSTANCE Utilities WITH Largest <- 45000, MaxDepth <- 8, MaxExponent <- 64, Units <- SomeUnits, To <- {"to"}

Sm == INSTANCE Summaries WITH MaxPassages <- 2, MaxContext <- 9, Around <- 1, MaxPassageChars <- 4, SnapChars <- 1, MaxChars <- 9,
                              MaxSentences <- 2, RefusalChars <- 2, PhoneDigits <- 3, MaxInput <- 4

Marker(word, weight) == [term |-> <<word>>, weight |-> weight]
ShapeOf(token) ==
  CASE token \in {"shhal", "kitab"} -> <<"arabic", "arabic", "arabic">>
    [] token = "a3"   -> <<"ascii", "digit">>
    [] token = "2026" -> <<"digit", "digit">>
    [] OTHER          -> <<"ascii", "ascii">>
Lg == INSTANCE Language WITH Shape <- ShapeOf, DarijaRows <- <<Marker("shhal", 0)>>,
                             ArabiziRows <- <<Marker("wach", 1000), Marker("dar", 500)>>,
                             FrenchRows <- <<Marker("le", 500), Marker("ou", 1000)>>, EnglishRows <- <<Marker("the", 1000)>>,
                             QuestionWords <- {<<"q">>, <<"q", "u">>}, QuestionPhrases <- {<<"a", " ", "q">>}, LeadingOnly <- {<<"q">>}

Felt(word, valence) == [word |-> word, valence |-> valence]
Feeling == <<Felt("bad", 100), Felt("good", 200), Felt("known", 0), Felt("some", 1000000), Felt("bad", 0 - 200)>>
StemsOf(token) == IF token = "the good" THEN <<"d", "good">> ELSE <<>>
LengthOf(word) == IF word = "d" THEN 1 ELSE 4
EmojiIn(token) == CASE token = "smile" -> <<220>> [] token = "frown" -> <<0 - 220>> [] OTHER -> <<>>
MarksIn(token) == ("!" :> IF token = "!" THEN 1 ELSE 0) @@ ("?" :> 0) @@ ("arabic ?" :> 0)
IsLong(token) == FALSE
Se == INSTANCE Sentiment WITH Rows <- [ar |-> Feeling, ary |-> <<>>, fr |-> <<>>, en |-> Feeling],
                              Stems <- StemsOf, Length <- LengthOf, Emoji <- EmojiIn, Marks <- MarksIn, Elongated <- IsLong,
                              Negators <- {"not"}, Intensifiers <- {"very"}, Diminishers <- {}

Dar  == <<"d", "a", "r">>
Home == <<"b", "i", "t">>
Sakan == <<"sin", "kaf", "nun">>
Beit == <<"ba", "ya", "ta">>
Concept(weight, variants) == [weight |-> weight, variants |-> variants]
Tr == INSTANCE Translit WITH BeamWidth <- 12, TopK <- 4, MinTokenLen <- 3, MaxExpansion <- 2, MaxVariants <- 4, MaxExpandedTokens <- 2,
        Concepts <- <<Concept(85, <<Dar, Sakan, Home>>), Concept(98, <<Home, Beit>>), Concept(90, <<Beit>>)>>

Sc == INSTANCE SeedCrawl WITH MaxPerSource <- 3, MaxTotal <- 3, BatchSize <- 2, DiscoverLinks <- TRUE
Dv == INSTANCE Device WITH Reserve <- 900, Compiled <- TRUE, MaxLayers <- 999

CountOf(s, Test(_)) == Cardinality({i \in DOMAIN s : Test(s[i])})

-----------------------------------------------------------------------------
(* robots.txt and the lists of hosts. *)

Line(field, who, text, seconds) == [field |-> field, who |-> who, text |-> text, seconds |-> seconds]
RobotsLines ==
  {Line("blank", "", <<>>, 0), Line("other", "", <<>>, 0), Line("crawl-delay", "", <<>>, 2),
   Line("disallow", "", <<>>, 0), Line("disallow", "", <<"/">>, 0)}
  \cup {Line("user-agent", who, <<>>, 0) : who \in {"us", "*", "another"}}

(* A line says something to "who": a User-agent line before it names them,  *)
(* and from there on no line with a field of "ends" is followed by a        *)
(* User-agent line.                                                         *)
SaidTo(lines, who, ends) ==
  {i \in DOMAIN lines :
     /\ lines[i].text # <<>> \/ lines[i].seconds > 0
     /\ \E j \in 1 .. i - 1 :
          /\ lines[j].field = "user-agent" /\ lines[j].who = who
          /\ ~\E k, l \in j .. i : k < l /\ lines[l].field = "user-agent" /\ lines[k].field \in ends}

(* A line that is no rule stands inside a run of User-agent lines: an       *)
(* unknown field, or a Sitemap, of which Robots::parse makes the same.      *)
Interrupted(lines) ==
  \E i, j, k \in DOMAIN lines :
    /\ i < j /\ j < k /\ lines[i].field = "user-agent" /\ lines[k].field = "user-agent"
    /\ lines[j].field = "other" /\ \A l \in i .. k : lines[l].field \notin Ro!Rules

(* The rules obeyed are those of the groups that name us, and those for     *)
(* everybody only where nothing is said to us; a group ends where rules are *)
(* followed by a User-agent line, and nowhere else (Robots::parse).  Where  *)
(* the program does otherwise is held to what it does: another line inside  *)
(* a run of User-agent lines cuts the run in two, so the names above it do  *)
(* not get the rules below, and a group that names us only to allow all     *)
(* leaves us the rules for everybody.                                       *)
RulesAreOurs ==
  topic = "robots" =>
    LET group == Ro!Parse(input)
        ends  == IF Interrupted(input) THEN Ro!Rules \cup {"other"} ELSE Ro!Rules
        ours  == SaidTo(input, "us", ends)
        said  == IF ours # {} THEN ours ELSE SaidTo(input, "*", ends)
    IN  /\ Len(group.disallow) = Cardinality({i \in said : input[i].field = "disallow"})
        /\ group.delay > 0 <=> \E i \in said : input[i].field = "crawl-delay"

RECURSIVE Wildcard(_, _)
Wildcard(pattern, path) ==
  IF pattern = <<>> THEN path = <<>>
  ELSE IF Head(pattern) = "*"
       THEN \E n \in 0 .. Len(path) : Wildcard(Tail(pattern), SubSeq(path, n + 1, Len(path)))
       ELSE path # <<>> /\ Head(path) = Head(pattern) /\ Wildcard(Tail(pattern), Tail(path))

(* A pattern matches the paths a * and a final $ make it match, and with    *)
(* both in it no others: the first place a part is found at may not be the  *)
(* one that reaches the end (matches_pattern).                              *)
MatchIsWildcard ==
  topic = "pattern" /\ input # <<"$">> =>
    \A path \in BoundedSeq({"a", "b"}, 4) :
      LET anchored == input # <<>> /\ Last(input) = "$"
          matching == Wildcard(IF anchored THEN Front(input) ELSE Append(input, "*"), path)
      IN  /\ Ro!Matches(input, path) => matching
          /\ matching /\ (anchored => "*" \notin ToSet(input)) => Ro!Matches(input, path)

Hosts == {<<"com">>, <<"b", "com">>, <<"www", "b", "com">>, <<"a", "b", "com">>, <<"x", "a", "b", "com">>}
Opt(op, tier, host) == [op |-> op, tier |-> tier, host |-> host]
Opts == {Opt(op, tier, host) : op \in {"add", "remove"}, tier \in {"takedown", "host_opt_out"},
                               host \in {<<"b", "com">>, <<"www", "b", "com">>, <<"a", "b", "com">>}}

(* A host is let alone just when the last that was said of it, or of a host *)
(* it is under, in some tier, is that it be listed (Blocklist).             *)
BlockedByAncestor ==
  topic = "blocklist" =>
    LET Do(lists, o) == IF o.op = "add" THEN Ro!Listed(lists, o.tier, o.host) ELSE Ro!Unlisted(lists, o.tier, o.host)
        lists == FoldLeft(Do, [t \in ToSet(Ro!Tiers) |-> {}], input)
        Same(g, h) == g = h \/ <<"www">> \o g = h \/ g = <<"www">> \o h
        Stands(i) == /\ input[i].op = "add"
                     /\ ~\E j \in i + 1 .. Len(input) : /\ input[j].op = "remove" /\ input[j].tier = input[i].tier
                                                        /\ Same(input[j].host, input[i].host)
    IN  \A host \in Hosts :
          Ro!Blocked(lists, host) # Ro!NoTier
          <=> \E i \in DOMAIN input : /\ Stands(i)
                                      /\ \/ Same(input[i].host, host) \/ IsSuffix(input[i].host, host)
                                         \/ \E g \in Hosts : Same(g, input[i].host) /\ IsSuffix(g, host)

-----------------------------------------------------------------------------
(* Intervals between visits. *)

Visited(observations, tier) ==
  FoldLeft(LAMBDA v, o : IF o \in Re!Observations THEN Re!Record(v, o, tier, "h", 1)
                         ELSE Re!Applied(v, "changed", tier, 1), Re!NeverVisited, observations)

(* A page's interval is within its tier, or none, whatever is observed of   *)
(* it and in what order; and it is parked at the top just when it changed   *)
(* at the floor, or where it had no interval, VolatileAfter times since it  *)
(* was last found as it was (Schedule::observe).                            *)
StaysInTier ==
  topic = "visits" =>
    \A trust \in {30, 60, 90} :
      LET tier  == Re!ForTrust(trust)
          visit == Visited(input, tier)
          quiet == {i \in DOMAIN input : input[i] \in {"unchanged", "not modified"}}
          Since == (IF quiet = {} THEN 1 ELSE Max(quiet) + 1) .. Len(input)
          AtFloor(i) == input[i] = "changed" /\ Visited(SubSeq(input, 1, i - 1), tier).interval <= tier.floor
          moved == {i \in DOMAIN input : input[i] \in Re!Observations}
      IN  /\ visit.interval = 0 \/ visit.interval \in tier.floor .. tier.ceiling
          /\ visit.volatile <=> /\ Cardinality({i \in Since : AtFloor(i)}) >= Re!VolatileAfter

-----------------------------------------------------------------------------
(* A crawl of seeds, and the device a model runs on. *)

Address(host, segments, digits, feed) ==
  [host |-> host, segments |-> segments, digits |-> digits, asset |-> FALSE, feed |-> feed]
Front1    == Address(1, 1, FALSE, FALSE)
SiteMap   == Address(1, 1, FALSE, TRUE)
InnerMap  == Address(1, 2, FALSE, TRUE)
Section   == Address(1, 2, FALSE, FALSE)
Stories   == [n \in 1 .. 3 |-> [Address(1, 2, TRUE, FALSE) EXCEPT !.segments = n + 1]]
Elsewhere == Address(2, 2, TRUE, FALSE)
Answer(answer, text, links, index) == [answer |-> answer, text |-> text, links |-> links, index |-> index]
Answers == {Answer("page", n, <<>>, FALSE) : n \in 1 .. 2} \cup {Answer(a, 0, <<>>, FALSE) : a \in {"thin", "robots", "failed"}}
SeedParts ==
  <<{<<Front1>>, <<SiteMap>>, <<Front1, SiteMap>>, <<SiteMap, Front1>>},
    {Answer("page", 0, <<Stories[1], Section, Stories[2], Stories[1], Stories[3]>>, FALSE),
     Answer("page", 1, <<Elsewhere, Stories[2]>>, FALSE), Answer("thin", 0, <<Stories[1]>>, FALSE)},
    {Answer("page", 9, Stories, FALSE), Answer("page", 9, <<Section>>, FALSE), Answer("page", 9, <<InnerMap>>, TRUE),
     Answer("failed", 0, <<>>, FALSE)},
    Answers, Answers, 0 .. 2>>

WebOf(parts) ==
  (Front1 :> parts[2]) @@ (SiteMap :> parts[3]) @@ (Stories[1] :> parts[4]) @@ (Stories[2] :> parts[5])
  @@ (InnerMap :> Answer("page", 9, <<Section, Stories[1], Stories[2], Stories[3]>>, FALSE))
  @@ (Section :> Answer("thin", 0, <<>>, FALSE)) @@ (Stories[3] :> Answer("page", 3, <<>>, FALSE))

CrawlKeeps(run, web, seeds) ==
  LET pages == {u \in ToSet(run.tried) : web[u].answer = "page"}
  IN  /\ IsInjective(run.tried) /\ Len(run.tried) <= 3 * Len(seeds)
      /\ run.texts = {web[u].text : u \in pages} /\ run.indexed = Cardinality(run.texts) /\ run.indexed <= 3
      /\ Cardinality(pages) = run.indexed + run.duplicate
      /\ Len(run.tried) = run.robots + run.failed + run.thin + Cardinality(pages)
      /\ run.indexed - Len(run.written) \in IF run.aborted THEN 1 .. 2 ELSE {0}

DeviceRequests ==
  [preference : {{}, {"gpu"}, {"cpu"}, {"auto"}, {"tpu"}}, layers : {{}, {0 - 1}, {0}, {8}, {1000}}]
Free  == {Dv!NoCard, 0, 900, 901, 1600, 2907, 4096}

LastOf(items, first) == IF items = <<>> THEN first ELSE Last(items)

DeviceFits(set, r, free, size) ==
  /\ r.active = "gpu" <=> r.layers > 0
  /\ r.active = "gpu" => free > 900 /\ set.preference # "cpu"
  /\ r.active = "gpu" /\ set.layers = Dv!Unset => Min({r.layers, 32}) * size <= 32 * (free - 900)
  /\ r.fellBack <=> r.active = "cpu" /\ set.preference = "gpu" /\ set.layers # 0
  /\ \A more \in Free : more >= free => Dv!Resolve(set, more, size).layers >= r.layers

(* A crawl of seeds tries no address and writes no text twice, keeps to its *)
(* caps and to its account, and has written what it says but for the batch  *)
(* it was lost with (crawl::run); and the layers that go to the card fit    *)
(* what is free, are never fewer for more, and no card where one was asked  *)
(* for is told (device::resolve), on the last setting that was not refused, *)
(* the preference of a request whose layers are refused included            *)
(* (set_device).                                                           *)
LimitHolds ==
  /\ topic = "seeds" /\ Len(input) = Len(SeedParts) =>
       CrawlKeeps(Sc!Run(WebOf(input), input[1], input[6]), WebOf(input), input[1])
  /\ topic = "device" =>
       LET set    == FoldLeft(Dv!SetDevice, [preference |-> "auto", layers |-> Dv!Unset], input)
           heard  == SelectSeq(input, LAMBDA q : q.preference \subseteq Dv!Preferences)
           wished == SelectSeq(heard, LAMBDA q : q.preference # {})
           count  == SelectSeq(heard, LAMBDA q : q.layers # {} /\ q.layers \subseteq 0 .. 999)
       IN  /\ {set.preference} = LastOf(wished, [preference |-> {"auto"}]).preference
           /\ {set.layers} = LastOf(count, [layers |-> {Dv!Unset}]).layers
           /\ \A free \in Free, found \in [1 .. 2 -> {0, 900, 1600, 4680}] :
                LET models == [i \in 1 .. 2 |-> [id |-> i, size |-> 1000 * i, actual |-> found[i]]]
                    loaded == Dv!Load(set, free, models, 2)
                IN  /\ loaded = {} <=> found[1] = 0 /\ found[2] < 1800
                    /\ \A r \in loaded : DeviceFits(set, r, free, IF found[2] >= 1800 THEN found[2] ELSE found[1])
                    /\ loaded = {} => DeviceFits(set, Dv!Shown(loaded, set, free, models), free, Dv!UnknownSize)
                    /\ Dv!Shown(loaded, [set EXCEPT !.preference = "cpu"], free, models).active = "gpu" => loaded # {}

-----------------------------------------------------------------------------
(* The query, the ranking, completions. *)

Letters(s) == CountOf(s, LAMBDA c : c = "a")
LettersIn(ss) == FoldLeft(LAMBDA n, s : n + Letters(s), 0, ss)

(* Nothing of a query is lost: each letter of it is in a term, a phrase, a  *)
(* -term or the host of the last site:, once, unless it follows a slash     *)
(* there; and what is sent to the engine has the letters of the terms and   *)
(* the phrases (operators::parse).                                          *)
EveryWordIsKept ==
  topic = "query" /\ CountOf(input, LAMBDA c : c = "site:") <= 1 =>
    LET p == Qu!Parse(input)
    IN  /\ p.site = <<>> \/ "/" \notin ToSet(input) =>
             Letters(input) = LettersIn(p.terms) + LettersIn(p.phrases) + LettersIn(p.site) + LettersIn(p.excluded)
        /\ Letters(Qu!EngineQuery(p)) = LettersIn(p.terms) + LettersIn(p.phrases)

Hit(sig, domain, age) ==
  [sig |-> sig, domain |-> domain, age |-> age, trust |-> 500, dated |-> TRUE, quality |-> 500, spam |-> 0]
HitKinds == {Hit(0, "d", 1), Hit(1, "d", 60), Hit(3, "e", 1), Hit(Ra!NoSig, "d", 1), Hit(Ra!NoSig, "e", 60)}

Leg(takes, answers, hits) == [takes |-> takes, answers |-> answers, hits |-> hits, widens |-> hits > 0]
Legs == {Leg(takes, answers, hits) : takes \in {0, 3, 7, 8, 9, 12}, answers \in BOOLEAN, hits \in {0, 4, 9}}

SearchEnds(first, second, weather) ==
  LET served == Ra!Served(weather, first, second)
      Waited(leg) == IF leg.takes < 8 THEN leg.takes ELSE 8
      asked == Waited(first) + (IF served.expanded THEN Waited(second) ELSE 0)
  IN  /\ served.at <= 15
      /\ served.status = "ok" => served.facets /\ served.hits >= first.hits
      /\ first.answers /\ weather + first.takes <= 7 => served.status = "ok"
      /\ served.status = "gateway timeout" => weather + asked > 15
      /\ served.expanded => first.hits < 5

(* The grades of a run's documents, and whether none of them is there twice. *)
Judged(lang, judged) == [grades |-> [best |-> 3, good |-> 2, fair |-> 1, poor |-> 0], lang |-> lang, judged |-> judged]
Unjudged(lang) == [grades |-> [poor |-> 0], lang |-> lang, judged |-> "human"]
Ideally(results) ==
  /\ Ra!Ndcg(Judged("ar", "human"), results, 10) = 1000 <=> IsPrefix(<<"best", "good", "fair">>, results)
  /\ \A i \in 1 .. Len(results) - 1 :
       LET swapped == [results EXCEPT ![i] = results[i + 1], ![i + 1] = results[i]]
           golden  == Judged("ar", "human")
       IN  Ra!Grade(golden, results[i]) > Ra!Grade(golden, results[i + 1]) =>
             /\ Ra!Ndcg(golden, swapped, 10) < Ra!Ndcg(golden, results, 10)
             /\ Ra!Mrr(golden, swapped, 10) <= Ra!Mrr(golden, results, 10)
             /\ Ra!Recall(golden, swapped, 50) = Ra!Recall(golden, results, 50)

Observed(golden, results, published) == [golden |-> golden, results |-> results, published |-> published]
Runs == {Observed(Judged(lang, judged), <<"good", "best">>, <<900000, 0>>) : lang \in {"ar", "fr"}, judged \in {"human", "machine"}}
        \cup {Observed(Judged("ar", "human"), <<>>, <<>>), Observed(Unjudged("fr"), <<"poor">>, <<1086401>>)}
NobodyJudged(o) == o.golden.lang = "fr" /\ o.results = <<"poor">>
Reported(report, judged, results) ==
  /\ report.unjudged = CountOf(input, NobodyJudged)
  /\ report.all.ndcg = judged.all.ndcg /\ report.recall = judged.recall
  /\ MapThenSumSet(LAMBDA b : report.freshness[b], DOMAIN report.freshness) = results

(* Every hit is shown on one page, once, or folded under one that tells the *)
(* same story, and no two that are shown tell the same.  A search is over   *)
(* within its budget, with no less than its first look-up found if that     *)
(* leaves time for a second, and lost only where the two did not fit.  And  *)
(* a better order of the same hits scores better, the best the most, in a   *)
(* report where a query nobody judged is told apart (rerank, paging,        *)
(* handler, eval::score).                                                   *)
RankedOnce ==
  /\ topic = "search" /\ Len(input) = 2 => \A weather \in {0, 3} : SearchEnds(input[1], input[2], weather)
  /\ topic = "judged" /\ IsInjective(input) => Ideally(input)
  /\ topic = "report" => Reported(Ra!Report(input, 1000000), Ra!Report(SelectSeq(input, LAMBDA o : ~NobodyJudged(o)), 1000000),
                                     Len(FlattenSeq([i \in DOMAIN input |-> input[i].published])))
  /\ topic = "hits" =>
    LET hits   == [i \in DOMAIN input |-> input[i] @@ [id |-> i]]
        ranked == Ra!Rerank(hits, {})
        pages  == FlattenSeq([n \in 1 .. Ra!TotalPages(Len(ranked), 2) |-> Ra!Page(ranked, n, 2)])
        all    == FlattenSeq([n \in DOMAIN pages |-> <<pages[n].hit>> \o pages[n].collapsed])
    IN  /\ Len(all) = Len(hits) /\ ToSet(all) = ToSet(hits)
        /\ \A r \in ToSet(pages) : \A h \in ToSet(r.collapsed) : Ra!SameStory(r.hit, h)
        /\ \A i, j \in DOMAIN pages : i # j => ~Ra!SameStory(pages[i].hit, pages[j].hit)

Terms == BoundedSeq({1, 2, 3}, 2) \ {<<>>}

(* All the spellings in Arabic letters of what is left of a word. *)
RECURSIVE Spelled(_, _, _)
Spelled(word, at, written) ==
  IF at > Len(word) THEN {written}
  ELSE LET found == Tr!Candidates(word, at)
       IN  IF found.outputs = <<>> THEN Spelled(word, at + 1, written)
           ELSE UNION {Spelled(word, at + found.length, Tr!Variant(written.text \o next, written.score + Tr!BigramScore(written.text, next))) :
                    next \in ToSet(found.outputs)}

LikeliestFirst(variants, spellings) ==
  /\ ToSet(variants) \subseteq spellings
  /\ variants # <<>> => \A s \in spellings : s.text # <<>> => s.score <= variants[1].score

(* Two letters of an Arabic word whose usual spellings run together. *)
RunTogether(word) ==
  \E i \in 1 .. Len(word) - 1 : word[i] = word[i + 1] \/ (word[i + 1] = "ha" /\ word[i] \in {"kaf", "sin", "dal", "shin"})

Equals(token) == IF token \in DOMAIN Tr!MeiliSynonyms THEN Tr!MeiliSynonyms[token] ELSE {}
WidenedBy(query, variants) ==
  LET texts == {v.text : v \in ToSet(variants)}
      equals == UNION {Equals(token) : token \in ToSet(query)} \ ToSet(query)
  IN  /\ Cardinality(texts) = Len(variants) /\ texts \cap ToSet(query) = {}
      /\ \A i, j \in DOMAIN variants : i < j => variants[i].weight >= variants[j].weight
      /\ Len(query) <= 2 => IF Len(variants) < 4 THEN equals \subseteq texts
                            ELSE \A t \in equals \ texts : variants[4].origin = "lexicon"

(* A prefix is completed by the heaviest of the terms that begin with it,   *)
(* whatever the order they were read in; and of what is suggested, titles   *)
(* too, nothing is there twice or begins what stands above it.  A query is  *)
(* widened by what its words are equal to, each once, and by guesses only   *)
(* after that; of a word's spellings in Arabic letters the likeliest is     *)
(* not lost; and a word's usual spelling in Latin letters leads back to it  *)
(* (PrefixIndex, merge, expand, to_arabic).                                 *)
CompletedByHeaviest ==
  /\ topic = "widened" => \A lang \in {"ary", "fr"} : WidenedBy(input, Tr!Expand(input, lang))
  /\ topic = "arabizi" => LikeliestFirst(Tr!ToArabic(input), Spelled(Tr!Collapsed(input), 1, Tr!Variant(<<>>, 0)))
  /\ topic = "arabic" /\ ~RunTogether(input) =>
       input \in {s.text : s \in Spelled(Tr!Collapsed(Tr!ToArabizi(input)), 1, Tr!Variant(<<>>, 0))}
  /\ topic = "terms" =>
    LET split   == IF input = <<>> THEN 0 ELSE 1
        entries == Su!Build([i \in 1 .. split |-> [text |-> input[1], weight |-> 50]], SubSeq(input, split + 1, Len(input)))
    IN  /\ {e.key : e \in ToSet(entries)} = {Su!Folded(t) : t \in ToSet(input)}
        /\ \A prefix \in BoundedSeq({1, 2}, 2) \ {<<>>} :
             LET fitting == {e \in ToSet(entries) : IsPrefix(prefix, e.key)}
                 found   == Su!Prefix(entries, prefix, 2)
                 shown   == Su!Suggestions(entries, prefix, <<<<1>>, <<2>>>>, <<<<1, 3, 2>>>>, 2)
             IN  /\ ToSet(found) \subseteq fitting
                 /\ Len(found) = Min({2, Cardinality(fitting)})
                 /\ \A e \in ToSet(found), f \in fitting \ ToSet(found) : ~Su!Heavier(f, e)
                 /\ \A i, j \in DOMAIN shown : i < j => ~IsPrefix(Su!Folded(shown[j].text), Su!Folded(shown[i].text))

-----------------------------------------------------------------------------
(* Texts that are the same, or nearly. *)

(* A hash up to three bits from a stored one is found, although only those  *)
(* that share a band with it are looked at (SimHashIndex::find_near).  And  *)
(* another word in a place moves no bit's vote far, however long the text:  *)
(* by its own two, and four for each run of words it is in (simhash).       *)
NearIsFound ==
  /\ topic = "hash" /\ input # <<>> =>
       LET index == Du!Insert({}, input[1], "stored")
       IN  \A h \in Du!Hash : Du!FindNear(index, h) = IF Du!IsNear(h, input[1]) THEN {"stored"} ELSE {}
  /\ topic = "words" /\ Len(input) >= FewestWords =>
    \A i \in DOMAIN input, word \in 0 .. 1 : \A n \in 0 .. Du!Bits - 1 :
      LET moved == Du!Vote(input, n) - Du!Vote([input EXCEPT ![i] = word], n)
      IN  moved \in 0 - 2 - 4 * RunLength .. 2 + 4 * RunLength

(* Normalised twice is normalised once, and what is folded for a look-up is *)
(* the same whether or not it was normalised before (normalize, fold).      *)
Normalised ==
  topic = "characters" =>
    LET n == Te!Normalize(input)
    IN  /\ Te!Normalize(n) = n
        /\ Te!Fold(n) = Te!Fold(input)
        /\ Te!Fold(Te!Fold(input)) = Te!Fold(input)

-----------------------------------------------------------------------------
(* Dates and sitemaps. *)

Token(kind, value, bytes) == [kind |-> kind, value |-> value, bytes |-> bytes, wide |-> 1]
Digits(value, bytes) == Token("number", value, bytes)
Char(kind) == Token(kind, 0, 1)
Dashed(y, m, d) == <<Digits(y, 4), Char("-"), Digits(m, 2), Char("-"), Digits(d, 2)>>
Clock == <<Digits(10, 2), Char(":"), Digits(30, 2), Char(":"), Digits(15, 2)>>
ClockSeconds == 37815

LeapYear(y) == y % 4 = 0 /\ (y % 100 # 0 \/ y % 400 = 0)
MonthLength(y, m) == CASE m = 2 -> IF LeapYear(y) THEN 29 ELSE 28
                       [] m \in {4, 6, 9, 11} -> 30
                       [] OTHER -> 31

(* The day by going through the calendar from 1970. *)
Walked(y, m, d) ==
  MapThenSumSet(LAMBDA z : IF LeapYear(z) THEN 366 ELSE 365, 1970 .. y - 1)
  + MapThenSumSet(LAMBDA n : MonthLength(y, n), 1 .. m - 1) + d - 1

Event(event, name, url, date) == [event |-> event, name |-> name, url |-> url, http |-> url # "", date |-> date]
Element(name, url, date) == <<Event("start", name, "", <<>>), Event("text", name, url, date), Event("end", name, "", <<>>)>>
Block(url, dated, before) == [url |-> url, dated |-> dated, before |-> before]
BlockEvents(b) ==
  LET loc  == IF b.url = "" THEN <<>> ELSE Element("loc", b.url, <<>>)
      date == IF b.dated THEN Element("lastmod", "", Dashed(2026, 8, 4)) ELSE <<>>
  IN  <<Event("start", "url", "", <<>>)>> \o (IF b.before THEN date \o loc ELSE loc \o date)
      \o <<Event("end", "url", "", <<>>)>>

Pieces ==
  {Dashed(2026, 8, 4), Clock, <<Char("blank")>>, <<Char("T")>>, <<Char("-")>>, <<Token("word", 0, 8)>>,
   <<[kind |-> "word", value |-> 0, bytes |-> 8, wide |-> 2]>>}

OneByteEach(text) == \A i \in DOMAIN text : text[i].wide = 1

Way(text, unix, precision) == [text |-> text, date |-> Da!Read(unix, precision)]
Numbers(a, b, y) == <<Digits(a, 2), Char("/"), Digits(b, 2), Char("/"), Digits(y, 4)>>

(* The ways a day is written, in a text and in a sitemap. *)
Ways(y, m, d, day) ==
  LET Timed(zone) == Dashed(y, m, d) \o <<Char("T")>> \o Clock \o zone
      then == day + ClockSeconds
  IN  {Way(Timed(<<Char("Z")>>), then, "second"), Way(Timed(<<>>), then - 3600, "second"),
       Way(Timed(<<Char("-"), Digits(2, 2), Char(":"), Digits(30, 2)>>), then + 9000, "second"),
       Way(Timed(<<Char("+"), Digits(230, 4)>>), then - 9000, "second"),
       Way(Dashed(y, m, d), day, "day"), Way(Numbers(d, m, y), day, "day"),
       Way(IF d > 12 THEN Numbers(m, d, y) ELSE Numbers(d, m, y), day, "day"),
       Way(<<Digits(d, 2), Char("blank"), Token("month", m, 4), Char("blank"), Digits(y, 4)>>, day, "day")}
SitemapWays(y, m, d, day) ==
  {Way(Dashed(y, m, d), day, "day"), Way(Dashed(y, m, d) \o <<Char("T")>> \o Clock \o <<Char("Z")>>, day + ClockSeconds, "second")}
DayIsRead(y, m, d, days) ==
  /\ Da!DaysFromCivil(y, m, d) = days
  /\ y < 2037 => /\ \A way \in Ways(y, m, d, days * Da!Day) : Da!Parse(way.text, 2114380800) = way.date
                 /\ \A way \in SitemapWays(y, m, d, days * Da!Day) : Da!W3c(way.text) = way.date

(* A date is read as the day the calendar makes it, in every way of writing *)
(* it: with or without a time and its zone, with the month named, and in    *)
(* numbers the day first, or the month where only that can be meant; and a  *)
(* sitemap's date is that of the address it stands with; and whatever is    *)
(* written, in characters of one byte, is read to its end                  *)
(* (date::parse, sitemap::extract_entries).                                 *)
DatesAreRight ==
  /\ topic = "date" /\ Len(input) = 3 =>
       LET y == input[1]  m == input[2]  d == input[3]
       IN  d <= MonthLength(y, m) => DayIsRead(y, m, d, Walked(y, m, d))
  /\ topic = "sitemap" =>
       LET events == FlattenSeq([i \in DOMAIN input |-> BlockEvents(input[i])])
           named  == SelectSeq(input, LAMBDA b : b.url # "")
       IN  Da!Entries(events, 10)
             = [i \in DOMAIN named |-> [loc |-> named[i].url,
                                        lastmod |-> IF named[i].dated THEN Da!W3c(Dashed(2026, 8, 4)) ELSE Da!NoDate]]
  /\ topic = "text" =>
       LET text == FlattenSeq(input) IN OneByteEach(text) => Da!Parse(text, 2000000000) # Da!Panics

-----------------------------------------------------------------------------
(* Pages. *)

(* A block of a page, in the one before it or beside it: its own text, a    *)
(* link's, and a stylesheet.                                              *)
Blocks == [tag : {"article", "div"}, hidden : BOOLEAN, inside : BOOLEAN, text : {30, 210}, link : {0, 210}]

Node(tag, depth, hidden, text, href) == [tag |-> tag, depth |-> depth, hidden |-> hidden, text |-> text, href |-> href, width |-> 0]
Prose(i, chars) == <<[kind |-> "word", value |-> i, bytes |-> chars, wide |-> 1]>>
Depth(i) == IF input[i].inside THEN 1 ELSE 0
BlockNodes(i) ==
  LET b == input[i]  d == Depth(i)
  IN  <<Node(b.tag, d, b.hidden, <<>>, ""), Node("text", d + 1, FALSE, Prose(i, b.text), ""),
        Node("style", d + 1, FALSE, <<>>, ""), Node("text", d + 2, FALSE, Prose(0, 210), "")>>
      \o (IF b.link = 0 THEN <<>>
          ELSE <<Node("a", d + 1, FALSE, <<>>, ToString(i)), Node("text", d + 2, FALSE, Prose(i, b.link), "")>>)

PageOf(nodes) ==
  [nodes |-> nodes, marks |-> <<>>, scripts |-> <<>>, noindex |-> FALSE, titles |-> <<>>, dates |-> <<>>, byRule |-> <<>>,
   descriptions |-> <<<<>>, <<>>>>, author |-> <<>>, image |-> "", language |-> "und"]

(* What the blocks of a page of depths 0 and 1 have in them. *)
Of(i) == {i} \cup {j \in i + 1 .. Len(input) : Depth(i) = 0 /\ \A k \in i + 1 .. j : Depth(k) = 1}
Linked(i) == MapThenSumSet(LAMBDA j : input[j].link, Of(i))
Whole(i)  == MapThenSumSet(LAMBDA j : input[j].text, Of(i)) + Linked(i)
               + Cardinality(Of(i)) + Cardinality({j \in Of(i) : input[j].link > 0}) - 1
Does(i)   == ~input[i].hidden /\ Whole(i) >= 200 /\ 2 * Linked(i) <= Whole(i)
Best(blocks) == {i \in blocks : \A j \in blocks : Whole(j) - Linked(j) <= Whole(i) - Linked(i)}
Preferred(blocks, articles) == IF articles = {} THEN Best(blocks) ELSE Best(articles)

ReadAs(read, bodies) ==
  /\ read.kind = IF bodies = {} THEN "thin" ELSE "document"
  /\ ToSet(read.outlinks) = {ToString(i) : i \in {j \in DOMAIN input : input[j].link > 0}}
  /\ bodies # {} => \E i \in bodies : /\ {t.value : t \in {t \in ToSet(read.body) : t.kind = "word"}} = Of(i)
                                      /\ Pg!Chars(read.body) = Whole(i)

(* Of a page without JSON-LD: it is a document just when a block that is    *)
(* not hidden has text enough, and no more of it in links than not; then it *)
(* has the text of the block with the most, of an article if one will do,  *)
(* all of it and nothing that is not shown; and its links are followed      *)
(* either way.  An excerpt of it can be cut, unless it has a mark of two    *)
(* bytes and more characters than are shown (Parser::parse, excerpt_from).  *)
PageIsRead ==
  /\ topic = "page" =>
       LET doing == {i \in DOMAIN input : Does(i)}
       IN  ReadAs(Pg!Parse(PageOf(FlattenSeq([i \in DOMAIN input |-> BlockNodes(i)])), 2000000000),
                  Preferred(doing, {i \in doing : input[i].tag = "article"}))
  /\ topic = "prose" =>
       LET Cut(excerpt) == excerpt = Pg!Panics =>
                             Pg!Chars(input) > 4 /\ \E i \in DOMAIN input : input[i].kind = "stop" /\ input[i].wide = 2
       IN  Cut(Pg!ExcerptFrom(input, 4))

Guess(lang, sure) == [lang |-> lang, sure |-> sure]
GuessKinds == {Guess("other", "narrow")} \cup {Guess(lang, sure) : lang \in {"fr", "en"}, sure \in {"reliable", "clear", "narrow"}}

(* The hits of each lexicon, weak or strong, and whether they are enough. *)
Hits(words) == CountOf(input, LAMBDA w : w \in words)
Enough(strong, weak) == Hits(strong) >= 1 \/ Hits(weak) >= 2
Heard(d, guess) ==
  LET arabizi == Enough({"wach"}, {"dar"}) \/ (Hits({"dar"}) > 0 /\ Hits({"a3"}) > 0)
      french  == Enough({"ou"}, {"le"})
      Most(words, others) == \A other \in others : Hits(words) > Hits(other)
  IN  /\ d.lang # "und" => d.confidence \in 550 .. 970
      /\ d.lang = "ary" => Hits({"shhal"}) > 0 \/ arabizi
      /\ d.script = "latin" =>
           /\ arabizi /\ Most({"wach", "dar"}, {{"le", "ou"}}) => d.lang = "ary"
           /\ french /\ Most({"le", "ou"}, {{"wach", "dar"}, {"the"}}) => d.lang = "fr"
           /\ ~arabizi /\ Most({"the"}, {{"le", "ou"}, {"wach", "dar"}}) => d.lang = "en"
           /\ d.lang \in {"fr", "en"} /\ Hits({"le", "ou", "the"}) = 0 => d.lang = guess.lang /\ Len(input) >= 4

Unfelt(text) == [i \in DOMAIN text |-> CASE text[i] = "good" -> "bad" [] text[i] = "bad" -> "good"
                                        [] text[i] = "smile" -> "frown" [] text[i] = "frown" -> "smile" [] OTHER -> text[i]]
Denied(i) == \E j \in 1 .. i - 1 : j >= i - 3 /\ input[j] = "not"
Sided(words, opposite) == \E i \in DOMAIN input : input[i] \in (IF Denied(i) THEN opposite ELSE words)
Opposite(label) == CASE label = "positive" -> "negative" [] label = "negative" -> "positive" [] OTHER -> label
FeltAs(s) ==
  /\ s.label = "positive" => Sided({"good", "the good"}, {"bad"}) \/ Hits({"smile"}) > 0
  /\ s.label = "negative" => Sided({"bad"}, {"good", "the good"})
  /\ Hits({"the good"}) = 0 => Se!ScoreOf(Unfelt(input), "mixed") = [s EXCEPT !.label = Opposite(@), !.score = 0 - @]
  /\ Se!ScoreOf(Append(input, "some"), "mixed").label \in {s.label, "neutral"}
  /\ {s.label, Se!ScoreOf(Append(input, "!"), "mixed").label} # {"positive", "negative"}

Asks(text) ==
  Lg!IsQuestion(text) /\ "?" \notin ToSet(text) =>
    "q" \in ToSet(text) /\ \E i, j, k \in DOMAIN text : i < j /\ j < k /\ text[i] # " " /\ text[j] = " " /\ text[k] # " "

(* What is said of a text, a reader can find in it: a topic has two words   *)
(* there, a wilaya is named more than any other, or more than once and no  *)
(* less than those after it, and what counts as spam has three phrases,    *)
(* however often one of them is there.  A language has the most words      *)
(* there, where it has enough of them, or is the one guessed; a mood has a *)
(* word of its own side, or a denied one of the other, and is turned round *)
(* with them; and a question has a question's word, or its mark (label,    *)
(* detect_wilaya, spam_score, detect, score, is_question).                 *)
SaidInTheText ==
  /\ topic = "labels" =>
       LET Count(ws) == CountOf(input, LAMBDA w : w \in ws)
           oran == Count({"Oran"})
           tizi == Cardinality({i \in 1 .. Len(input) - 1 : input[i] = "Tizi" /\ input[i + 1] = "Ouzu"})
           bid  == \E i \in 1 .. Len(input) - 1 : input[i] = "Oran" /\ input[i + 1] = "loan"
           goal == Count({"goal"})
           loan == Count({"loan", "Tizi"})
       IN  /\ Pg!Label(input) = SelectSeq(IF loan > goal THEN <<2, 1>> ELSE <<1, 2>>, LAMBDA t : (IF t = 1 THEN goal ELSE loan) >= 2)
           /\ Pg!DetectWilaya(input) = CASE oran > tizi -> 1
                                         [] tizi > oran -> 2
                                         [] OTHER -> IF oran > 1 THEN 1 ELSE Pg!NoWilaya
           /\ Pg!SpamScore(input) >= 80 <=> goal > 0 /\ bid
  /\ topic = "language" => \A guess \in GuessKinds : Heard(Lg!Detect(input, guess), guess)
  /\ topic = "mood" => FeltAs(Se!ScoreOf(input, "mixed"))
  /\ topic = "question" => Asks(input)

-----------------------------------------------------------------------------
(* What is written by the model. *)

Written ==
  {<<"[", "1", "]">>, <<"[", "9", "]">>, <<"[">>, <<"]">>, <<"a", "a">>, <<"alef">>, <<".">>, <<" ">>, <<"1">>}
Passage(good, size) == [good |-> good, size |-> size]

Nested(text) ==
  \E i, j \in DOMAIN text : i < j /\ text[i] = "[" /\ text[j] = "[" /\ "]" \notin ToSet(SubSeq(text, i, j))
Markers(text) ==
  {SubSeq(text, i + 1, j - 1) :
     <<i, j>> \in {p \in (DOMAIN text) \X (DOMAIN text) :
                    /\ p[1] + 1 < p[2] /\ text[p[1]] = "[" /\ text[p[2]] = "]"
                    /\ \A k \in p[1] + 1 .. p[2] - 1 : text[k] \in DOMAIN Sm!Digits}}
Grounded(text, read, language) ==
  read.kind = "summary" =>
    /\ read.cited = {1} /\ (Nested(text) \/ Markers(read.text) = {<<"1">>})
    /\ Len(read.text) <= 9 /\ CountOf(read.text, LAMBDA c : c = ".") <= 2
    /\ read.text = Sm!Truncate(Sm!Trim(text)) => ~Sm!ContactDetails(read.text)
    /\ CountOf(read.text, LAMBDA c : c = "alef") > 0 <=> language = "ar"

Cost(passages) == MapThenSumSet(LAMBDA n : input[passages[n]].size + 1, DOMAIN passages)
Chosen(cited, useful) ==
  LET n == Len(cited)  most == Min({2, Len(useful)})
  IN  /\ [k \in 1 .. n |-> cited[k].id] = SubSeq(useful, 1, n)
      /\ Cost(SubSeq(useful, 1, n)) <= 9 /\ n <= most
      /\ n < most => Cost(SubSeq(useful, 1, n + 1)) > 9

AskedFor == <<"b", "b">>
Shows(text, excerpt) ==
  /\ Sm!Places(AskedFor, text) # {} /\ "I dot" \notin ToSet(text) => Sm!Places(AskedFor, excerpt) # {}
  /\ Len(excerpt) <= 6 /\ (excerpt = Sm!Panics => "I dot" \in ToSet(text))

(* A summary that is shown cites passages the model was shown and no other, *)
(* in the language asked for, in whole sentences where it has any, and as   *)
(* long as no marker was taken out of it, without contact details; a        *)
(* passage the model was shown is good enough, and none that ranks before   *)
(* it is; an excerpt has the words asked for in it; and a translation is     *)
(* cleaned of nothing that was translated (prompt::build, validate::check,  *)
(* translate::clean).                                                      *)
SummaryIsGrounded ==
  /\ topic = "summary" =>
       \A language \in {"ar", "fr"} :
         Grounded(FlattenSeq(input), Sm!Check(FlattenSeq(input), 1, language), language)
  /\ topic = "passages" =>
       LET PassageAt(i) == [id |-> i, good |-> input[i].good, text |-> [k \in 1 .. input[i].size |-> "a"]]
       IN  Chosen(Sm!Build([i \in DOMAIN input |-> PassageAt(i)], {}),
                  SetToSortSeq({i \in DOMAIN input : input[i].good /\ input[i].size > 0}, <))
  /\ topic = "excerpt" => Shows(input, Sm!Excerpt(input, {AskedFor}))
  /\ topic = "translation" =>
       LET Said(s) == CountOf(s, LAMBDA c : c = "w") IN Said(Sm!CleanTranslation(input)) = Said(input)

-----------------------------------------------------------------------------
(* Instant answers. *)

(* Where a sum is split: the last + or - that has a value before it, else   *)
(* the last * or /, else the first ^; in no brackets.                      *)
Outside(s, i) == CountOf(SubSeq(s, 1, i), LAMBDA c : c = "(") = CountOf(SubSeq(s, 1, i), LAMBDA c : c = ")")
Splits(s, ops) == {i \in 2 .. Len(s) : s[i] \in ops /\ Outside(s, i) /\ s[i - 1] \in {"2", "3", ")", "%"}}

RECURSIVE Valued(_)
Valued(s) ==
  LET sums  == Splits(s, {"-"})  products == Splits(s, {"*", "/"})  powers == Splits(s, {"^"})
      Left(i)  == Valued(SubSeq(s, 1, i - 1))
      Right(i) == Valued(SubSeq(s, i + 1, Len(s)))
  IN  CASE sums # {} ->
             LET i == Max(sums)
             IN  Ut!Minus(Left(i), IF Last(s) = "%" THEN Ut!Times(Left(i), Right(i)) ELSE Right(i))
        [] sums = {} /\ products # {} ->
             LET i == Max(products) IN IF s[i] = "*" THEN Ut!Times(Left(i), Right(i)) ELSE Ut!Over(Left(i), Right(i))
        [] sums = {} /\ products = {} /\ powers # {} -> LET i == Min(powers) IN Ut!ToThe(Left(i), Right(i))
        [] sums = {} /\ products = {} /\ powers = {} /\ s # <<>> /\ s[1] = "-" -> Ut!Minus(Ut!Whole(0), Valued(Tail(s)))
        [] sums = {} /\ products = {} /\ powers = {} /\ s # <<>> /\ s[1] # "-" /\ Last(s) = "%" ->
             Ut!Over(Valued(Front(s)), Ut!Whole(100))
        [] sums = {} /\ products = {} /\ powers = {} /\ Len(s) > 2 /\ s[1] = "(" /\ Last(s) = ")" -> Valued(SubSeq(s, 2, Len(s) - 1))
        [] s # <<>> /\ ToSet(s) \subseteq {"2", "3"} ->
             Ut!Whole(FoldLeft(LAMBDA v, c : 10 * v + (IF c = "2" THEN 2 ELSE 3), 0, s))
        [] OTHER -> Ut!Refused

Subtractive == {<<"I", "V">>, <<"I", "X">>, <<"X", "L">>, <<"X", "C">>, <<"C", "D">>, <<"C", "M">>}

(* An answer is right, or there is none: a sum is what its operators say,   *)
(* by the strength of each and a percentage of what it is added to; what is *)
(* encoded can be read back, and every Roman number too but those that      *)
(* begin with a subtractive pair, which get no answer at all; a converted   *)
(* amount has as much in it; and the day after a day is the day after it in *)
(* the Hijri calendar, in months of 29 or 30 days (calculator, utilities,   *)
(* units, datetime).                                                        *)
AnswersAreRight ==
  /\ topic = "sum" => Ut!Evaluate(input) = Valued(input)
  /\ topic = "bytes" => Ut!Decode64(Ut!Encode64(input)) = input /\ Ut!UrlDecode(Ut!UrlEncode(input)) = input
  /\ topic = "roman" /\ input # <<>> =>
       LET roman == Ut!ToRoman(input[1])
       IN  Ut!FromRoman(roman) = IF \E pair \in Subtractive : IsPrefix(pair, roman) THEN 0 ELSE input[1]
  /\ topic = "units" /\ Len(input) = 2 =>
       LET from == input[1]  to == input[2]  v == Ut!Whole(32)
           got  == Cv!Converted(v, Append(CHOOSE a \in SomeUnits[from].aliases : TRUE, "to") \o (CHOOSE a \in SomeUnits[to].aliases : TRUE))
       IN  /\ got = Ut!Refused <=> SomeUnits[from].dimension # SomeUnits[to].dimension
           /\ got # Ut!Refused => /\ Cv!Convert(got, to, from) = v
                                  /\ SomeUnits[from].dimension # "temperature" =>
                                       got.n * SomeUnits[to].ratio.n = 32 * got.d * SomeUnits[from].ratio.n
  /\ topic = "hijri" /\ input # <<>> =>
       LET today == Cv!Hijri(input[1])  next == Cv!Hijri(input[1] + 1)
       IN  \/ next = [today EXCEPT !.day = @ + 1] /\ next.day \in 2 .. 30
           \/ /\ today.day \in 29 .. 30 /\ next.day = 1
              /\ next = IF today.month = 12 THEN [year |-> today.year + 1, month |-> 1, day |-> 1]
                        ELSE [today EXCEPT !.month = @ + 1, !.day = 1]

-----------------------------------------------------------------------------

(* A date's year, month and day. *)
DateParts == <<{1999, 2000, 2036, 2100}, 1 .. 12, {1, 12, 13, 28, 29, 30, 31}>>

(* The symbols of a topic's inputs, and how many an input has at most. *)
Topics ==
  [robots     |-> [symbols |-> RobotsLines, most |-> 5],
   pattern    |-> [symbols |-> {"a", "b", "*", "$"}, most |-> 5],
   blocklist  |-> [symbols |-> Opts, most |-> 3],
   visits     |-> [symbols |-> Re!Observations \cup {"sitemap"}, most |-> 6],
   query      |-> [symbols |-> {"a", Qu!Blank, "quote", "left", "right", "site:", "-", "/"}, most |-> 5],
   hits       |-> [symbols |-> HitKinds, most |-> 4],
   terms      |-> [symbols |-> Terms, most |-> 3],
   widened    |-> [symbols |-> {Dar, Home, Beit, <<"a", "b">>, <<"s", "o", "r">>}, most |-> 3],
   hash       |-> [symbols |-> Du!Hash, most |-> 1],
   words      |-> [symbols |-> 0 .. 1, most |-> 7],
   characters |-> [symbols |-> {"a", "A", "3", " ", "acute", "zero-width", "fatha", "tatweel", "arabic 3", "no-break space", "control", "ligature aa", "alef hamza"}, most |-> 4],
   date       |-> [symbols |-> {}, most |-> 3],
   sitemap    |-> [symbols |-> {Block(u, d, b) : u \in {"", "u"}, d \in BOOLEAN, b \in BOOLEAN}, most |-> 3],
   page       |-> [symbols |-> Blocks, most |-> 2],
   labels     |-> [symbols |-> {"goal", "loan", "Oran", "Tizi", "Ouzu", "le"}, most |-> 5],
   language   |-> [symbols |-> {"wach", "dar", "le", "ou", "the", "shhal", "kitab", "a3", "2026"}, most |-> 4],
   mood       |-> [symbols |-> {"good", "bad", "the good", "not", "very", "some", "known", "smile", "!"}, most |-> 4],
   question   |-> [symbols |-> {"q", "u", "a", " ", "?", "'"}, most |-> 5],
   arabizi    |-> [symbols |-> {"a", "i", "d", "h", "s", "c", "k", "7", "-"}, most |-> 4],
   arabic     |-> [symbols |-> {"shin", "kaf", "sin", "ha", "ain", "waw", "dal", "zah", "alef"}, most |-> 3],
   search     |-> [symbols |-> Legs, most |-> 2],
   judged     |-> [symbols |-> {"best", "good", "fair", "poor", "unknown"}, most |-> 5],
   report     |-> [symbols |-> Runs, most |-> 3],
   seeds      |-> [symbols |-> {}, most |-> 6],
   device     |-> [symbols |-> DeviceRequests, most |-> 2],
   sum        |-> [symbols |-> {"2", "3", "-", "/", "^", "%", "(", ")"}, most |-> 5],
   bytes      |-> [symbols |-> {0, 37, 43, 65, 250}, most |-> 4],
   roman      |-> [symbols |-> 1 .. 3999, most |-> 1],
   units      |-> [symbols |-> DOMAIN SomeUnits, most |-> 2],
   hijri      |-> [symbols |-> 20000 .. 31000, most |-> 1],
   summary    |-> [symbols |-> Written, most |-> 4],
   passages   |-> [symbols |-> {Passage(g, n) : g \in BOOLEAN, n \in {0, 2, 4}}, most |-> 4],
   excerpt    |-> [symbols |-> {"a", "b", " ", "I dot"}, most |-> 7],
   translation |-> [symbols |-> {"<text>", "</text>", "Translation:", "quote", "w", " "}, most |-> 5],
   text       |-> [symbols |-> Pieces, most |-> 4],
   prose      |-> [symbols |-> {Prose(1, 1)[1], Pg!Token("stop", 1, 1), Pg!Token("stop", 2, 2)}, most |-> 6]]

Init == topic \in DOMAIN Topics /\ input = <<>>

Grow ==
  /\ Len(input) < Topics[topic].most
  /\ \E symbol \in IF topic = "date" THEN DateParts[Len(input) + 1]
                   ELSE IF topic = "seeds" THEN SeedParts[Len(input) + 1]
                   ELSE Topics[topic].symbols :
       input' = Append(input, symbol)
  /\ UNCHANGED topic

Spec == Init /\ [][Grow]_vars
=============================================================================
