------------------------------- MODULE Ranking -------------------------------
(***************************************************************************)
(* What a search makes of the hits the engine returns: they are scored,    *)
(* folded where they tell the same story, spread over the domains and cut  *)
(* into pages.  A hit is a record of what the ranking looks at: its id,    *)
(* sig, a simhash of Bits bits or NoSig, its domain, its source's trust,   *)
(* age in days, whether its date is known, quality and spam.  Weights and  *)
(* signals are in thousandths.                                             *)
(***************************************************************************)
EXTENDS Integers, FiniteSets, SequencesExt, FiniteSetsExt

CONSTANTS
  Bits,            \* of a simhash
  MaxDistance,     \* simhash_collapse_distance
  PerDomain,       \* per_domain_cap
  CandidatePool,
  Threshold,       \* EXPANSION_THRESHOLD: fewer hits, and the query is widened
  Budget,          \* the time a search has, and the time its route has
  EngineTimeout    \* the time the engine has

NoSig == 0 - 1

Weights == [relevance |-> 550, freshness |-> 150, trust |-> 100, quality |-> 70, spam |-> 150]

(* e^(-n/10), e^(-n) and beyond that nothing, in thousandths. *)
Decayed == <<905, 819, 741, 670, 607, 549, 497, 449, 407, 368>>
Relevance(pos) ==
  LET tens == <<1000, 368, 135, 50, 18, 7, 2, 1>>
      high == (pos - 1) \div 10
      low  == (pos - 1) % 10
  IN  IF high >= Len(tens) THEN 0
      ELSE (tens[high + 1] * (IF low = 0 THEN 1000 ELSE Decayed[low])) \div 1000

(* infer_intent, and how fast it lets a page grow old: days to e^-1. *)
Intent(marks, ages) ==
  LET recent == Cardinality({i \in DOMAIN ages : ages[i] < 7})
      burst  == ages # <<>> /\ 10 * recent >= 4 * Len(ages)
  IN  CASE "news" \in marks \/ ("evergreen" \notin marks /\ burst) -> "news"
        [] "evergreen" \in marks /\ "news" \notin marks -> "evergreen"
        [] OTHER -> "default"

Tau == [news |-> 3, evergreen |-> 90, default |-> 30]

Freshness(hit, intent) ==
  LET fresh == Relevance(1 + (10 * hit.age) \div Tau[intent])
  IN  IF hit.dated THEN fresh ELSE fresh \div 2

Score(hit, pos, intent) ==
  ( Weights.relevance * Relevance(pos) + Weights.freshness * Freshness(hit, intent)
  + Weights.trust * hit.trust + Weights.quality * hit.quality - Weights.spam * hit.spam ) \div 1000

(* By score, and where scores are equal as the engine had them. *)
Scored(hits, marks) ==
  LET intent   == Intent(marks, [i \in DOMAIN hits |-> hits[i].age])
      score    == [i \in DOMAIN hits |-> Score(hits[i], i, intent)]
      Before(i, j) == score[i] > score[j] \/ (score[i] = score[j] /\ i < j)
      order    == SetToSortSeq(DOMAIN hits, Before)
  IN  [n \in DOMAIN order |-> [hit |-> hits[order[n]], score |-> score[order[n]], collapsed |-> <<>>]]

Distance(a, b) == Cardinality({n \in 0 .. Bits - 1 : (a \div 2 ^ n) % 2 # (b \div 2 ^ n) % 2})

SameStory(a, b) == a.sig # NoSig /\ b.sig # NoSig /\ Distance(a.sig, b.sig) <= MaxDistance

(* Faulty: an item is compared with the one shown before it. *)
HomeLast(shown, item) ==
  IF shown # <<>> /\ SameStory(Last(shown).hit, item.hit) THEN Len(shown) ELSE 0

(* The first of those shown that tells the same story, or 0. *)
Home(shown, item) == SelectInSeq(shown, LAMBDA r : SameStory(r.hit, item.hit))

CollapseNearDuplicates(ranked) ==
  LET Add(shown, item) ==
        LET home == Home(shown, item)
        IN  IF home = 0 THEN Append(shown, item)
            ELSE [shown EXCEPT ![home].collapsed = Append(@, item.hit)]
  IN  FoldLeft(Add, <<>>, ranked)

(* What is over a domain's share is put behind the rest. *)
CapPerDomain(ranked) ==
  LET Over(i) == Cardinality({j \in 1 .. i - 1 : ranked[j].hit.domain = ranked[i].hit.domain}) >= PerDomain
      At(over) == [n \in DOMAIN SetToSortSeq({i \in DOMAIN ranked : Over(i) = over}, <)
                     |-> ranked[SetToSortSeq({i \in DOMAIN ranked : Over(i) = over}, <)[n]]]
  IN  IF PerDomain = 0 THEN ranked ELSE At(FALSE) \o At(TRUE)

Rerank(hits, marks) == CapPerDomain(CollapseNearDuplicates(Scored(hits, marks)))

-----------------------------------------------------------------------------
(* search: what surrounds the ranking. *)

(* expand_and_merge: what the second leg adds comes after the first's. *)
Merge(primary, extra) ==
  LET Add(hits, hit) == IF hit.id \in {h.id : h \in ToSet(hits)} THEN hits ELSE Append(hits, hit)
  IN  FoldLeft(Add, primary, extra)

(* The hits: those of the query as typed, and where they are few and there *)
(* is time, those of its variants; a second leg that fails adds nothing.   *)
Retrieved(primary, extra, mayExpand) ==
  IF Len(primary) < Threshold /\ mayExpand THEN Merge(primary, extra) ELSE primary

(* A -term is looked for in the title: no other text is in a hit. *)
WithoutExcluded(ranked, excluded) ==
  SelectSeq(ranked, LAMBDA r : excluded \cap r.hit.title = {})

ClampTo(x, low, high) == IF x < low THEN low ELSE IF x > high THEN high ELSE x

Min2(a, b) == IF a < b THEN a ELSE b

Page(ranked, page, size) == SubSeq(ranked, (page - 1) * size + 1, Min2(page * size, Len(ranked)))

(* What the engine estimates, scaled by the share that outlived the -terms. *)
TotalHits(estimated, before, after, excluded) ==
  IF excluded = {} \/ before = 0 THEN estimated
  ELSE (2 * estimated * after + before) \div (2 * before)

TotalPages(total, size) == Min2((total + size - 1) \div size, 100)

-----------------------------------------------------------------------------
(* The time a search has, and what is given up when it runs short.  A      *)
(* search is told by how long each thing it waits for takes: the cache of  *)
(* the weather, before its budget starts, and the engine, once or twice.   *)

(* The percentage of the budget that must be left for a stage.              *)
Floor == [summary |-> 55, expansion |-> 35, facets |-> 20, rerank |-> 8, retrieval |-> 0]

Remaining(elapsed) == IF elapsed >= Budget THEN 0 ELSE Budget - elapsed
Allows(stage, elapsed) == stage = "retrieval" \/ 100 * Remaining(elapsed) >= Floor[stage] * Budget

(* The engine's answer, or that it was not waited for any longer.           *)
Taken(leg)    == Min2(leg.takes, EngineTimeout)
Answered(leg) == leg.takes < EngineTimeout /\ leg.answers

(* What the handler would answer, and when, were it let. *)
Outcome(at, status, facets, expanded, hits) ==
  [at |-> at, status |-> status, facets |-> facets, expanded |-> expanded, hits |-> hits]

Failure(leg) == IF leg.takes >= EngineTimeout THEN "upstream timeout" ELSE "upstream error"

(* The first leg is asked at once, so that facets are always asked for; a   *)
(* second one is made where too little was found and there is time, and     *)
(* what it does not find is not missed.  Results are ranked, whatever is    *)
(* left.                                                                    *)
Handled(first, second) ==
  LET facets   == Allows("facets", 0)
      after    == Taken(first)
      expanded == first.hits < Threshold /\ second.widens /\ Allows("expansion", after)
  IN  IF ~Answered(first) THEN Outcome(after, Failure(first), facets, FALSE, 0)
      ELSE IF ~expanded THEN Outcome(after, "ok", facets, FALSE, first.hits)
      ELSE Outcome(after + Taken(second), "ok", facets, TRUE, first.hits + (IF Answered(second) THEN second.hits ELSE 0))

(* The route's own timeout counts the wait for the weather too, and cuts    *)
(* off whatever is not answered by then.                                    *)
Served(weather, first, second) ==
  LET outcome == Handled(first, second)
  IN  IF weather + outcome.at > Budget THEN Outcome(Budget, "gateway timeout", FALSE, outcome.expanded, 0)
      ELSE [outcome EXCEPT !.at = weather + @]

-----------------------------------------------------------------------------
(* How good the results of a set of judged queries are.  A golden query has *)
(* the grades of some documents, 0 to 3; one it does not name has grade 0. *)
(* Scores are in thousandths.                                              *)

NoScore == -1     \* nothing is judged relevant

Grade(golden, doc) == IF doc \in DOMAIN golden.grades THEN golden.grades[doc] ELSE 0
Relevant(golden)   == {doc \in DOMAIN golden.grades : golden.grades[doc] > 0}

Top(s, k) == SubSeq(s, 1, IF k < Len(s) THEN k ELSE Len(s))
Total(s)  == FoldLeft(LAMBDA m, n : m + n, 0, s)

(* 1 / log2(i + 1) of the places down to the tenth, in ten thousandths.     *)
Discount == <<10000, 6309, 5000, 4307, 3869, 3562, 3333, 3155, 3010, 2891>>
Gain(grade) == 2 ^ grade - 1
Dcg(grades, k) == Total([i \in DOMAIN Top(grades, k) |-> Gain(grades[i]) * Discount[i]])

(* Every judged document, the best first, whether or not it was returned. *)
Ideal(golden) == SortSeq(SetToSeq({<<golden.grades[doc], doc>> : doc \in DOMAIN golden.grades}), LAMBDA p, q : p[1] > q[1])

Ndcg(golden, results, k) ==
  IF Relevant(golden) = {} THEN NoScore
  ELSE LET ideal == Dcg([i \in DOMAIN Ideal(golden) |-> Ideal(golden)[i][1]], k)
       IN  Min({1000, (1000 * Dcg([i \in DOMAIN results |-> Grade(golden, results[i])], k)) \div ideal})

(* A marginal result is no success. *)
MinSuccess == 2
Mrr(golden, results, k) ==
  LET good == {i \in DOMAIN Top(results, k) : Grade(golden, results[i]) >= MinSuccess}
  IN  IF good = {} THEN 0 ELSE 1000 \div Min(good)

Recall(golden, results, k) ==
  IF Relevant(golden) = {} THEN NoScore
  ELSE (1000 * Cardinality({i \in DOMAIN Top(results, k) : Grade(golden, results[i]) > 0})) \div Cardinality(Relevant(golden))

-----------------------------------------------------------------------------
(* The report of a run: of each query, what was observed. *)

AgeBucket(published, now) ==
  LET days == IF now >= published THEN (now - published) \div 86400 ELSE 0 - (published - now) \div 86400
  IN  CASE published <= 0 -> "unknown"
        [] published > 0 /\ days < 0 -> "future"
        [] published > 0 /\ days \in 0 .. 1 -> "0-1d"
        [] published > 0 /\ days \in 2 .. 7 -> "2-7d"
        [] published > 0 /\ days \in 8 .. 30 -> "8-30d"
        [] published > 0 /\ days \in 31 .. 365 -> "31-365d"
        [] published > 0 /\ days > 365 -> "365d+"

(* The mean of the scores that there are. *)
Mean(scores) ==
  LET some == SelectSeq(scores, LAMBDA s : s # NoScore)
  IN  IF some = <<>> THEN 0 ELSE Total(some) \div Len(some)

NdcgOf(observed)   == [i \in DOMAIN observed |-> Ndcg(observed[i].golden, observed[i].results, 10)]
RecallOf(observed) == [i \in DOMAIN observed |-> Recall(observed[i].golden, observed[i].results, 50)]
MrrOf(observed)    == [i \in DOMAIN observed |-> Mrr(observed[i].golden, observed[i].results, 10)]

IsZero(o) == o.results = <<>>
ZeroRate(observed) == (1000 * Len(SelectSeq(observed, IsZero))) \div Max({1, Len(observed)})

Summary(observed) == [queries |-> Len(observed), ndcg |-> Mean(NdcgOf(observed)), zero |-> ZeroRate(observed)]

Report(observed, now) ==
  LET ages == FlattenSeq([i \in DOMAIN observed |-> [n \in DOMAIN observed[i].published |-> AgeBucket(observed[i].published[n], now)]])
      languages == {o.golden.lang : o \in ToSet(observed)}
  IN  [all |-> Summary(observed), mrr |-> Mean(MrrOf(observed)), recall |-> Mean(RecallOf(observed)),
       unjudged |-> Len(SelectSeq(NdcgOf(observed), LAMBDA s : s = NoScore)),
       machine |-> Len(SelectSeq(observed, LAMBDA o : o.golden.judged = "machine")),
       byLanguage |-> [lang \in languages |-> Summary(SelectSeq(observed, LAMBDA o : o.golden.lang = lang))],
       freshness |-> [bucket \in ToSet(ages) |-> Len(SelectSeq(ages, LAMBDA a : a = bucket))]]
=============================================================================
