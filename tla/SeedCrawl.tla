-------------------------------- MODULE SeedCrawl --------------------------------
(***************************************************************************)
(* The crawl an operator starts from a list of seeds, and that ends: seed  *)
(* by seed it finds addresses, in a sitemap or among the links of a page,  *)
(* tries them one after the other, and sends what it reads to the engine   *)
(* in batches.  A web gives each address what it answers:                  *)
(* [answer, text, links, index], the answer a "page", a "thin" one that    *)
(* is not taken for a document, "robots" or "failed".                      *)
(***************************************************************************)
EXTENDS Integers, SequencesExt, FiniteSetsExt

CONSTANTS MaxPerSource, MaxTotal, BatchSize,
          DiscoverLinks  \* the links of a page are followed

Upto(s, n) == SubSeq(s, 1, Min({n, Len(s)}))

(* Addresses: [host, segments, digits, asset, feed].  The path of a home    *)
(* page has one segment, an empty one.                                     *)
Home(u) == [host |-> u.host, segments |-> 1, digits |-> FALSE, asset |-> FALSE, feed |-> FALSE]

(* looks_like_article *)
Article(u) == ~u.asset /\ u.segments >= 2 /\ (u.digits \/ u.segments >= 3)

Fetched(page) == page.answer \in {"page", "thin"}

-----------------------------------------------------------------------------
(* discover: what a seed leads to. *)

(* discover_from_page: the seed and the articles of its host it links to.   *)
Linked(out, link) ==
  IF Len(out) < MaxPerSource /\ link.host = out[1].host /\ Article(link) /\ link \notin ToSet(out)
  THEN Append(out, link)
  ELSE out

FromPage(web, u) ==
  IF DiscoverLinks /\ web[u].answer = "page" THEN FoldLeft(Linked, <<u>>, web[u].links) ELSE <<u>>

(* What the first sitemaps of an index list, be it articles or not.         *)
Children == 3
FromIndex(web, children) ==
  LET Read(pages, child) ==
        IF Len(pages) < MaxPerSource /\ Fetched(web[child]) THEN pages \o Upto(web[child].links, MaxPerSource) ELSE pages
  IN  FoldLeft(Read, <<>>, Upto(children, Children))

(* A sitemap without an article says nothing of the site.                   *)
Discover(web, seed) ==
  LET listed   == Upto(web[seed].links, 4 * MaxPerSource)
      articles == SelectSeq(listed, Article)
  IN  CASE ~seed.feed -> FromPage(web, seed)
        [] seed.feed /\ Fetched(web[seed]) /\ web[seed].index -> FromIndex(web, listed)
        [] seed.feed /\ Fetched(web[seed]) /\ ~web[seed].index /\ articles # <<>> -> articles
        [] OTHER -> FromPage(web, Home(seed))

-----------------------------------------------------------------------------
(* run: "tried", "found" and "written" are sequences of addresses, and an   *)
(* engine that is lost at the n-th batch ends the crawl.                    *)

Start == [found |-> <<>>, tried |-> <<>>, texts |-> {}, batch |-> <<>>, written |-> <<>>, batches |-> 0, aborted |-> FALSE,
          indexed |-> 0, fetched |-> 0, duplicate |-> 0, thin |-> 0, robots |-> 0, failed |-> 0]

Goes(run) == ~run.aborted /\ run.indexed < MaxTotal

(* Faulty: what was sent is sent again. *)
FlushKept(run, lostAt) ==
  IF run.batch = <<>> THEN run
  ELSE IF run.batches + 1 = lostAt THEN [run EXCEPT !.aborted = TRUE]
  ELSE [run EXCEPT !.batches = @ + 1, !.written = @ \o run.batch]

Flush(run, lostAt) ==
  IF run.batch = <<>> THEN run
  ELSE IF run.batches + 1 = lostAt THEN [run EXCEPT !.aborted = TRUE]
  ELSE [run EXCEPT !.batches = @ + 1, !.written = @ \o run.batch, !.batch = <<>>]

Took(run, u, text) ==
  IF text \in run.texts THEN [run EXCEPT !.duplicate = @ + 1]
  ELSE [run EXCEPT !.texts = @ \cup {text}, !.batch = Append(@, u), !.indexed = @ + 1]

FlushFull(run, lostAt) == IF Len(run.batch) >= BatchSize THEN Flush(run, lostAt) ELSE run

Try(web, run, u, lostAt) ==
  LET asked == [run EXCEPT !.tried = Append(@, u)]
      got   == [asked EXCEPT !.fetched = @ + 1]
  IN  CASE web[u].answer = "robots" -> [asked EXCEPT !.robots = @ + 1]
        [] web[u].answer = "failed" -> [asked EXCEPT !.failed = @ + 1]
        [] web[u].answer = "thin"   -> [got EXCEPT !.thin = @ + 1]
        [] OTHER -> FlushFull(Took(got, u, web[u].text), lostAt)

(* Every address found is remembered, those beyond the cap as well.         *)
FromSeed(web, run, discovered, lostAt) ==
  LET Fresh(found, u) == IF u \in ToSet(found) THEN found ELSE Append(found, u)
      found == FoldLeft(Fresh, run.found, discovered)
      queue == Upto(SubSeq(found, Len(run.found) + 1, Len(found)), MaxPerSource)
      Next(r, u) == IF Goes(r) THEN Try(web, r, u, lostAt) ELSE r
  IN  FoldLeft(Next, [run EXCEPT !.found = found], queue)

Run(web, seeds, lostAt) ==
  LET Seed(run, seed) == IF Goes(run) THEN FromSeed(web, run, Discover(web, seed), lostAt) ELSE run
      run == FoldLeft(Seed, Start, seeds)
  IN  IF run.aborted THEN run ELSE Flush(run, lostAt)
=============================================================================
