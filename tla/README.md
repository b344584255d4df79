# Xustive: formal models of a search engine

Xustive is a search engine for the Algerian web: a crawler discovers and fetches
pages, a stream carries the parsed documents to indexers, the indexers feed a
Meilisearch index, and an HTTP API answers queries from it, with instant answers,
suggestions and summaries of a local language model. This directory holds TLA+
models of that program, the TLC configurations that check them on small
instances, and TLAPS proofs about them for every instance. Paths below are
relative to `src/`; `crates/xustive-ingest/src/` is shortened to `ingest/` and
likewise for the other crates.

Contents: [the system](#1-the-system), [the modules](#2-the-modules),
[what is checked](#3-what-is-checked), [what is proved](#4-what-is-proved),
[where the code and its words differ](#5-where-the-code-and-its-words-differ),
[what is left out](#6-what-is-left-out), [the plan](#7-the-plan).

## 1. The system

### The crawl: frontier, workers, console, sitemap poller

*Frontier* (`ingest/frontier.rs`). The shared state of all crawl processes, in
Redis: a sorted set of hosts scored by the time they may next be
claimed from, one sorted set per host of URLs scored by priority, the set of URLs
ever seen, a hash of claimed URLs and when their claims expire, a hash of
metadata (of which the depth matters), a sorted set of pages to revisit scored by
when they are due. Operations: `add`, `claim`, `complete`,
`defer`, `promote_due`, `promote`, `reclaim`, `clear`. Only `claim` and
`reclaim` are Lua scripts and so atomic; the rest are sequences of round trips
that other processes see half done. It is correct if a URL is handed out once per
discovery, a host is not asked more often than its delay allows, no URL waits
where nobody looks, and none disappears.

*Crawl loop* (`ingest/orchestrator.rs`, `cli/crawld.rs`). Sixteen tokio tasks,
each with its own fetcher, each a loop of `Orchestrator::step`: sweep the expired
claims and the due pages, claim a URL, fetch it, add its links, book the next
visit, complete the claim; then deduplicate and queue the document. Hard: all
tasks share the frontier; any may stop between two round trips; the writes of
`schedule_revisit` and `complete` follow each other on the same keys.

*Console* (`api/admin_crawler.rs`): an administrator adds a source (`add`, then
`promote`), and starts, pauses and stops the crawl through flags.
*Sitemap poller* (`ingest/sitemap_poll.rs`): reads sitemaps beside the workers and
defers pages that changed.

*Fetcher, politeness and robots* (`ingest/fetch.rs`, `robots.rs`,
`robots_cache.rs`). Per fetcher, of which each worker and the poller has one: the
rules of every host, when they were read, its next slot and the delay learned
from its answers; shared in Redis, a cache of rules that lives a day. Correct if
turns at a host are as far apart as its rules ask for, and a site that closes
itself is left alone after a known time. Hard: callers of one fetcher wait in
turn, rules are read anew in between, two caches age one after the other.

*Revisit schedule* (`ingest/revisit.rs`). Per page, a visit record: interval,
validators, hash, sitemap date. It must keep the interval within the bounds of the
site's trust through every sequence of observations. Hard: worker and poller
read and write back the same record.

*Deduplication* (`ingest/dedup.rs`, `simhash_index.rs`). A set of content hashes,
where `is_new` records as it tests, and a banded index of similarity hashes. Hard:
the hash is recorded before the document is queued.

*Parser* (`ingest/parse.rs`, `rules.rs`, `date.rs`, `sitemap.rs`, `gazetteer.rs`,
`topics.rs`, `spam.rs`, `exclusion.rs`): pure functions of a page. It must take
what a reader sees, follow its links, date it right and label it with what it
says. *Crawl statistics* (`crawl_stats.rs`) and *raw store* (`raw_store.rs`):
counters, and an expiring cache.

### The queue: stream, indexers, dead letters, engine

*Index queue* (`queue/lib.rs`, `queue/dlq.rs`). A Redis stream trimmed to 100 000
entries, one consumer group with its pending list, a second stream of dead
letters, written as any job is and so trimmed to as many. Operations: `produce`, `consume`, `reclaim`, `ack`, `trim`, `depth_of`,
`dead_letter_job`, `peek_dead`, `replay_dead`.

*Indexer* (`queue/indexer.rs`, `cli/worker.rs`). Reclaims, consumes, validates,
cuts into chunks by size, submits, waits for the engine's task, then
acknowledges, retries, bisects or dead-letters. Correct if a document is
acknowledged only once it is durable somewhere, one bad document takes none with
it, and every good one is found in the end. Hard: crashes between write and
acknowledgement, two indexers with one batch (the reclaim time equals the time a
task is waited for), an engine that is slow rather than broken, an answer that
cannot be read and is taken for the documents' fault, trimming that does not look.

*Search backend client* (`search/client.rs`, `settings.rs`, `cli/main.rs`
`migrate`). Indices `documents_v1`, `documents_v2`, ... stand for the alias
`documents`, which everybody looks up for himself: migrations, writers and the API.
Hard: the engine makes an index of any name it is told to write to, and one named
as the alias hides the versions.

### Serving

*Query pipeline* (`api/search.rs`, `deadline.rs`, `search/operators.rs`,
`filter.rs`, `rank.rs`, `lang/expand.rs`): a query's operators, its language, one
or two retrievals, the merge, the ranking, one page of cards, within a time
budget. *Autocomplete* (`api/suggest.rs`): a prefix index rebuilt on a timer.
*Rate limiter* (`api/ratelimit.rs`): a table of fixed windows with a cap, keyed
by a salted hash; the clock is read before the lock is taken.

*Summary tokens* (`api/summary.rs`): a store with a cap and an expiry. *Inference
engine* (`ml/engine.rs`): a bounded queue, slots that each own a context,
deadlines, callers that leave, a shutdown that joins. *Prompting and validation*
(`ml/prompt.rs`, `validate.rs`, `translate.rs`): what a model may be told and what
of its text may be shown. Hard: every request must end whatever becomes of its
job.

*Instant answers* (`tools/`): pure functions of a query. *Tool data plane*
(`toold/`): a process that refreshes readings pass after pass; a reading must be
believable against the last one; the API withholds old ones, and a gauge tells.
*Administration* (`api/admin_crawler.rs`, `telemetry.rs`): a seed file that several
administrators may rewrite at once, all through one temporary file and with no lock; a
log filter whose override ends by itself.
*Language and text* (`lang/`, `text/`): pure functions of a text.

`PROJECT.json` lists every component with its status, and under `hazards` the
places, by line, where something can go wrong that a test would hardly reach.

## 2. The modules

| module | what it is |
|---|---|
| `RedisMaps` | the operations of a Redis hash or sorted set, as a partial function: `Put` (HSET, ZADD), `PutNew` (NX), `PutOld` (XX), `Remove` (HDEL, ZREM), `Lowest` (ZPOPMIN), `UpTo` (ZRANGEBYSCORE) |
| `Frontier` | the frontier's keys and its clients: crawl workers, consoles, pollers |
| `IndexQueue` | the stream, the crawl workers that fill it, the indexers, the engine, the dead letters and the operator's replay |
| `Delivery` | what the queue promises of a document; `IndexQueue` implements it |
| `Revisit` | a visit record, what an observation makes of it, what a sitemap makes of it |
| `CrawlPipeline` | extends `Revisit`: workers, poller and main task between a claimed page and a queued document |
| `Politeness` | fetchers, their callers, the shared cache of rules, a site that changes |
| `Pacing` | what a fetcher promises a host; `Politeness` implements it |
| `PendingStore` | the store of summary tokens |
| `Inference` | uses `PendingStore`: requests, the bounded queue, the slots, shutdown |
| `Indices` | the engine's indices and tasks; migrations, writers and the API that look the alias up |
| `ToolData` | the fetcher of readings, the cache, the card, the sampler of ages |
| `Sources` | the seed file, the temporary file, the requests of several administrators step by step |
| `LogLevel` | the log filter, its override and the timer that ends it |
| `RateLimit` | requests that take their key, read the clock and count themselves; the fixed windows, the full table, the sweep, the salt |
| `Operations` | composes `Indices`, `ToolData`, `Sources`, `LogLevel` and `RateLimit`: a behaviour is one of one of them, and the others stay as they are |
| `Robots` | the reading of robots.txt, patterns, robots directives of a page, the block list |
| `Query`, `Ranking` | operators and filters; rerank, collapse, paging, merging, the time budget, the scores of judged queries |
| `Suggest`, `Translit` | the prefix index and the merge of its legs; transliteration and the widening of a query |
| `Duplicates`, `TextNormal`, `Language`, `Sentiment` | similarity hashes; normalisation; scripts, languages, questions; mood |
| `Dates`, `Page` | dates and sitemaps; what is read of a page, its topics, places and spam |
| `Calculator`, `Utilities` | instant answers, in fractions for decimals |
| `Summaries` | passages, prompt, the checks of a summary and of a translation |
| `SeedCrawl` | the crawl of a list of seeds that ends: discovery, counts, batches |
| `Device` | where a model runs, the setting, which model it is |
| `MCFrontier`, `MCIndexQueue`, `MCCrawlPipeline`, `MCPoliteness`, `MCOperations` | instances for TLC (`Inference` needs none) |
| `MCAlgorithms` | an instance of every algorithm module, the inputs, and the reference definitions |
| `FrontierProofs`, `IndexQueueProofs`, `PipelineProofs`, `PolitenessProofs`, `InferenceProofs`, `IndicesProofs`, `RateLimitProofs`, `OperationsProofs` | lemmas and theorems |

### Frontier

*State.* One variable per Redis key (`hosts`, `queue`, `seen`, `inflight`,
`meta`, `deferred`); `queue` joins the queues of all hosts, since a URL belongs to
one. `visited` stands for the visit records, of which the frontier's clients only
need to know whether there is one. Per client: `pc`, and the Rust locals alive
across an `await` (`now`, `held`, `links`, `arg`, `todo`, `failed`, `booking`).

*Atomicity.* One action per Redis command that others can see: `add` is
`AddKnown | AddFull | AddNew`, then `AddQueue`, `AddMeta`, `AddHost` and, if one
of them failed, `UndoSeen` and `UndoMeta`. The SADD and the ZCARD of `add` are one
action: the ZCARD only reads, and what it reads may be stale by the time of
`AddQueue` all the same. `promote_due` is `ReadDue`, then `PromoteQueue`,
`PromoteHost`, `PromoteDone` per entry; `defer` is `DeferMeta`, `DeferDue`;
`complete` is `CompleteClaim`, `CompleteMeta`. The scripts are one action each
(`Reclaim`; `ClaimNothing | ClaimEmptyHost | ClaimUrl`).

*Failure.* Every write takes a parameter `ok`: it may fail and leave the store
alone, and the code goes on as it does (errors in `add` are gathered in `failed`,
elsewhere ignored). `Crash` stops a client between two round trips. A lost reply
is a crash or a failed write after the fact.

*Time.* `clock` is the wall clock in steps of one unit. Workers pass the time at
which their step began (`now`) to the scripts; `MaxLag` is how stale that may
get, and `Tick` respects it. Tick is disabled when nothing in the store waits for
time, which keeps runs from merely counting.

*Data.* A URL is a model value with a host and links; its priority is its depth
and a credit (`Priority`), since depth dominates every other term of the score and
the due set's members hold the priority. `Credits` says by how much a revisit may
be better than a discovery. The outcome of a fetch is two Booleans: are its links
followed, is it booked again.

*History.* `lastClaim`, `torn`, `rebooked`, `fate` and the counters record what
happened, for the properties only. `fate` is the ledger of losses: each action
that lets a URL go writes why, and `Accounted` says that no other action does.

### IndexQueue

*State.* `stream` holds entries that are new, pending (delivered), idle (pending
long enough to be reclaimed) or acknowledged (an acknowledged entry stays and
takes room until it is trimmed). An entry is named by its document. `shape` says
whether it decodes as a job. `tasks` and `index` are the engine's. Per indexer:
the letters to write (`refused`), the chunks to submit, the chunk submitted.

*Nature of a document.* `sound`; `refused` by `validate`; or `rejected` by the
engine, which fails the whole task the document is in.

*Actions.* `CheckLag`, `QueueDocument` are the crawl worker's loop; `Reclaim`,
`Consume`, `Bury`, `Submit`, `GiveUp`, `Misread`, `Ack`, `Split` the indexer's, one per
command to Redis or to the engine; `RunTask` the engine; `Age` the passing of the
300 s after which an entry may be reclaimed, which is also how long a task is
waited for, so it may pass while its indexer still waits; `Peek`, `Requeue`,
`Delete` the operator's replay; `Crash` the end of an indexer, which is also what
any failed call to Redis amounts to. After `GiveUp` the engine may still run the
task later, or never have had it, and so it may after `Misread`: an answer whose body
cannot be read (`client.rs:311-314`), or a call refused for its key, which `classify`
(`worker.rs:25-32`) takes for the documents' fault. The chunk is bisected then, and the
document that is left alone when it happens is in `blamed`. A letter is written as any
job is (`Write`): the oldest letters of a full stream are trimmed, and `erased` has them,
as it has those a replay deletes unread.

The order in which `process` cuts and submits chunks is left open (any partition,
any order), which covers what the sizes of documents decide in the code.

`Delivery` is the abstract specification: each document has a place (unknown, waiting,
found, buried or taken away) and the operator a phase. `PlaceOf` reads a document's place off
the stream, the index and the dead letters, and `DeliveryMap` in `IndexQueue` is the
refinement mapping; `DeliveryKept` (`DeliveryMap!Spec`) is checked and proved. What an
indexer, the engine or a crash does to batches, chunks, tasks and acknowledgements is one
step `Deliver` or none; in it a sound document may be buried if it was misjudged
(`blamed`), and a buried one dropped if that is excused (`erased`).

### CrawlPipeline

*State.* What the site says (`site`), the pages in the frontier (`booked`), the
hash in each visit record (`visits`), the content hashes (`hashes`), what was queued
(`stream`), the page budget and the atomics `produced` and `stop`; per worker, the
page it holds and what it has read of it.

*Actions.* A worker's loop, one action per round trip: look at the flags, claim,
read the visit record, fetch, record the visit and book the next, ask whether the
content is new, queue, count. The poller reads a sitemap, reads a record, writes
it back and promotes the page. `Heartbeat`, `Signal` and `Drain` are the main
task; `Crash` is a restart of the process; `Publish` changes a page. A failure may
be any one of the calls. The frontier is abstracted to a set: `Frontier` has its
keys, and that what is in it is claimed in the end is `QueuedIsClaimed` there.
An interval is abstracted to "due sooner or later", since `Revisit` and its
topic in `MCAlgorithms` have the arithmetic.

### Politeness and Pacing

One host stands for all, since hosts share no state. `call` is where each caller
of `get_conditional` is; `host` is a fetcher's `HostState` (rules, when they were
read, next slot, delay). `UseOwn`, `UseShared` and `AskSite` are the three sources of
`ensure_robots`; `TakeTurn` reserves a slot, `Send` follows the wait, `Respond`,
`Redirect` and `Fail` are `record_fetch` and its backing off. `SiteChanges` and `Forget` are the
world outside. Steps that wait for a lock or one round trip to Redis take no time.

`Pacing` is the abstract specification: a fetcher has a slot, a caller that takes
a turn starts no sooner and pushes the slot past it by the gap the rules ask for;
only rules read anew start over. `PacingMap` in `Politeness` is the refinement
mapping, and `TurnsArePaced` (`PacingMap!Spec`) is checked and proved.

### Inference and PendingStore

A search inserts a token; a summary takes it, submits a job with `try_send` to the
bounded queue and waits; a translation's text is streamed. Slots load, receive,
prefill, decode a token at a time and look whether anybody still listens. A job's
lateness is abstract: in time, past its deadline, past what the caller waits.
`Close` drops the sender, `Joined` follows the slots' ends.

### Indices, ToolData, Sources, LogLevel, RateLimit

`Indices`: the engine runs tasks in order and makes an index that is written to
and is not there; each process looks the alias up as `resolve` does, name first,
then versions, and fails anywhere, before or after its request was taken.
Writers start only after a migration (Makefile, `seed: migrate`).
`ToolData`: ages count in ticks from the publisher's measurement; the fetcher
crashes between any two places and looks at the clock once a pass (`main.rs:89`), so it
accepts what is older by as much as the pass is late, and what is ahead by `Skew`, the
300 s for clocks that differ; the sampler scans place by place.
`Sources`: each administrator's request reads the file, creates or empties `{path}.tmp`,
fills it, renames it, adds to the frontier and answers, with the others' steps, a failure
or a stop of the API in between. Whoever has the temporary file open when another renames
it goes on writing into the list itself, and whoever comes to rename it then finds none.
The file is a set of lines: what is written over what another wrote leaves any part of
that. `torn` records that two changes met, or that one was made to a file that could not
be read; `last` is what was answered of each line since, `void` marks the requests whose
answer does not count, because they met another.
`LogLevel`: the timer looks and reverts in two steps.
`RateLimit`: a request takes its key under the salt of the moment (`TakeKey`, which may
make a new one), reads the clock (`ReadClock`) and, under the lock, sweeps, renews and
counts (`Count`), while others do the same and the clock goes on. A salt is named by the
moment it was made: two are never equal. A bucket's count stops one past the limit, where
it no longer decides anything. `granted` is a history of who was counted and let through,
in which window and in which place of it.

These five share no state. `Operations` has them side by side, each with its own
variables: `subject` says whose behaviour this is, so that one run does not multiply
their states and one theorem covers each.

### The algorithms

Pure functions, as operators over abstract data: a page is a tree of blocks with
counts, a text a sequence of tokens or characters of the classes that matter, a
weight is in thousandths, a similarity hash the function of its bits. Loops that carry state are folds with a record. Words
of word lists and the statistical language detector are parameters or external.

## 3. What is checked

Runs that pass:

| run | instance | properties |
|---|---|---|
| `discovery` | two workers, three pages on two hosts that link to each other, queue cap 1, one failure | `NothingStranded`, `DiscoveredOnce`, `HostPaced` |
| `revisit` | two workers and a poller, one page, revisits of two priorities, one failure | `Accounted` |
| `claimed_in_the_end` | two workers, a console, two pages on two hosts, no failures, fair | `QueuedIsClaimed` |
| `indexing` | two crawl workers, two indexers, a document of each nature, one failure | `NeverNowhere`, `UnreadIsKept` |
| `indexed_in_the_end` | one crawl worker, two indexers, a sound and a rejected document, replays, one failure, fair | `SoundIsIndexed`, `DeliveryKept` |
| `crawl` | two workers, the poller, two copies of one story of which one changes, one failure or crash | `Overshoot`, `RememberedIsQueued`, `NothingDropped` |
| `crawl_ends` | the same without failures, fair | `CrawlEnds`, `PublishedIsQueued` |
| `politeness` | a worker and the poller with a fetcher each, one change of the site or the cache | `TurnsArePaced`, `ClosedIsLeftAlone` |
| `serving` | two summaries and a translation, two slots, a queue of one, a store of one, fair | `SummarisedOnce`, `AbandonedStops`, `NoneIsForgotten`, `ServingEnds` |
| `operations` | two migrations, a writer and the API; two places; two administrators, an address in two spellings and a comment; a good and a bad filter; two requests at once of two networks | `WritesAreRead`, `WithheldIsTold`, `ListIsKept`, `OverrideEnds`, `WindowsHold` |
| `algorithms` | every input of each of its topics, up to a length | fifteen, below |

One run is expected to fail, see `reclaim` in section 5.

- **NothingStranded**: the URL queue and the host schedule are written in two
  round trips while claims drop hosts whose queue is empty. A queued URL's host
  is nevertheless scheduled, or about to be, unless the client that was to do so
  stopped or was refused.
- **DiscoveredOnce**: a link found on several pages by several workers is fetched
  by one of them, because SADD decides. It holds until the first revisit is
  booked and as long as no write failed: after a failed write `add` takes the URL
  out of `seen` and leaves its queue entry.
- **HostPaced**: two claims of one host are `Delay` apart, less the staleness of
  the time that is passed to the script.
- **Accounted**: a URL that was ever known is somewhere, or one of the reasons in
  `Fates` was recorded. The list of reasons is the complete list of ways a URL is
  lost: its host's queue was full, its claim expired, a client stopped with it, it
  could not be booked, it was booked while a second worker was removing the old
  booking (`promote_due` read twice), an `add` could not be undone, or it was
  completed without a revisit.
- **QueuedIsClaimed**: no host starves another.
- **NeverNowhere**: at every moment a queued document is in the index, an
  unacknowledged entry, or a dead letter, unless it was trimmed, off the stream or off the
  dead letters, or deleted with letters the operator did not replay. The run fills the
  stream of dead letters and loses one, also of a sound document.
- **DeliveryKept**: the refinement of `Delivery`. Bisection finds the culprit: a slow
  engine, a crash or a second indexer never has a sound document dead-lettered, nor one
  indexed that is not sound; an answer that is misread has it dead-lettered only where it
  was alone in its chunk. What is found stays found, what waits is taken away only if it was
  trimmed or deleted with letters that were not replayed, and a buried document leaves
  its letter only by a replay that read it and queued it before deleting it, or because
  the stream of letters was full and the oldest was trimmed.
- **UnreadIsKept**: backpressure keeps unread entries from being trimmed, although
  each worker looks at the lag before it fetches and queues after it has.
- **SoundIsIndexed**: every sound document is indexed in the end, or was trimmed while it
  was pending, or an answer for it alone was misread.
- **Overshoot**: the page budget, checked before a step and spent after it, is
  overshot by fewer pages than there are workers.
- **RememberedIsQueued**: a body the store remembers, as a page's last hash or as
  queued before, was queued, or is in hand, or its queueing is a recorded loss.
- **NothingDropped**: a page leaves the crawl, booked or claimed and not yet booked
  again, only in a step that fails or crashes, or for being no document, and then it is
  in `gone`; a document that was read leaves its worker's hands only for the queue, for
  another worker's hands, or for `lost`. Duplicates are dropped, so the second half rests
  on what the set of hashes may be trusted with.
- **CrawlEnds**, **PublishedIsQueued**: told to stop, or with its budget spent, the
  crawl ends; what a page says is queued in the end, whatever poller and workers
  overwrite of each other's records.
- **TurnsArePaced**: the refinement of `Pacing`. **ClosedIsLeftAlone**: a site that
  closes itself is let alone two lifetimes of its rules later, and not sooner,
  because the shared cache keeps them for one and the fetcher that takes them for
  another.
- **SummarisedOnce**, **AbandonedStops**, **ServingEnds**: a token is used once; a
  reader who left costs a slot one token; every request is answered and a process
  told to stop stops.
- **WritesAreRead**: what a writer was acknowledged is where a process that starts
  now looks the alias up, and the API reads that index with its settings, whoever
  migrates at once and whatever request fails.
- **WithheldIsTold**: where a card is withheld for its age, the gauge says that
  something is too old. **ListIsKept**: until two changes of the seed file meet, or one is
  made to a file that could not be read, it keeps its comments wherever the API stops; and
  at any time a source that was answered to be added or removed, by a request that met no
  other and since two last met, is there or is not, whatever is done to other lines and
  however much an earlier meeting has spoilt. **OverrideEnds**: an
  override is gone within its time and one round of the timer.
- **WindowsHold**: the limiter counts in fixed windows, with a clock that is read before the
  lock is taken and under a salt that changes. Its comments concede a burst of twice the limit
  across a boundary and one more window a day. That is what is left: in the time of one
  window, less what two requests may be late, a network is let through for fewer than two
  windows' requests, and fewer than three where the salt changed in between. A `Span` of
  one unit more and TLC finds the first bound exceeded, of two more and it finds the second.
  What a full table lets through is not counted, by the code or here.
- The fifteen of `algorithms` compare what the code computes with a definition of
  what it is to compute, written another way: `RulesAreOurs`, `MatchIsWildcard`,
  `BlockedByAncestor` (robots and lists), `StaysInTier` (intervals over six observations),
  `LimitHolds` (the caps and the account of a crawl of seeds; the layers that fit a card),
  `EveryWordIsKept` (operators), `RankedOnce` (ranking, paging, the time budget,
  the scores of judged queries), `CompletedByHeaviest` (suggestions,
  transliteration, widening), `NearIsFound` (similarity hashes), `Normalised`,
  `DatesAreRight` (against a calendar by counting days), `PageIsRead`,
  `SaidInTheText` (labels, language, mood, questions), `AnswersAreRight` (calculator,
  units, numerals, encodings, the Hijri calendar) and `SummaryIsGrounded`. Each is a
  conjunction over its topics; the comment above it states them.

Each property has a mutant in `PROJECT.json`: an operator of the module, marked
"faulty" there (`ClaimDropsHost`, `BuryAcked`, `ReserveReads`, `TakeCopy`,
`DestinationByName`, `StartAfter`, ...), that changes the model the way a plausible
bug would change the code, and under which the property fails.

### Bounds

*Frontier, IndexQueue.* Two workers are what every race here needs: each property
speaks of a pair of claims, or of one client's half-done operation and another's
script. A queue cap of one makes `AddFull` reachable, three pages on two hosts
make hosts compete and links collide. The clock goes far enough for a delay, a
claim's expiry and a second claim (`MaxClock`), and one failure anywhere
(`MaxFaults`) covers every single fault, at every place. In the queue, `MaxLen` 2
with `BackpressureAt` 1 and two crawl workers is the tight case of 5000 - 1 + 16
unread entries in 100 000: as many entries as workers may be queued past the
limit. `MaxBatch` 2 gives a batch to bisect. `MaxAttempts` is the code's 3.
`CountTo` 0 stops counting deliveries where no property reads the count. In
`indexing` the operator's replay is held back (`ReplayLimit` 0) to keep the state
space small; `indexed_in_the_end` has it.

*CrawlPipeline.* Two pages with the same story are what a duplicate needs, a thin
body what falls out, one publication (`MaxPublished`) what a poller and a worker
race about; a budget of 1 is overshot by two workers.

*Politeness.* `Ttl` 1 for the day, `MaxTime` 3 so that two lifetimes pass, three
calls of two callers, one change. Delays of 1 and 2 tell the default from the
rules', and `ThrottleMax` from `MaxDelay`.

*Inference.* A queue of one and two slots for three requests makes it full; a
store of one drops a token at its cap; two tokens of output let a reader leave in
the middle.

*Operations.* Layouts with no index, the bare alias, one version, two, and both; two tasks in
the engine. Ages: a value is stale past 1, accepted up to 2 or from 1 ahead (`Skew`), a pass is
late by up to 1 (`MaxLate`), and what is cached is forgotten after 2. A reading is 1 old, and
grows stale in the cache; or 1 ahead, which a late pass refuses; or 3 old, which a late pass
accepts, and is stale when it arrives. The list of sources has a comment and an address in two
spellings, of which the one written by hand is there at first or not; addresses that are traps
are in the theorem only. Two administrators, each with any request after any other, are what it
takes to lose an answered change, to empty the list and to rename what is not there any more.
The log's override lasts 3 and the timer's round 2. A window is 3, a request is late by at most
1 and a salt lives 4, so that three windows, two of one salt and one of the next, come as near
to each other as they can by time 4; a table of two buckets is full with two networks, or with
one of two salts. It is full then when the salt changes, so of the two bounds the run reaches
the first to the last request and the second to the last but one; a table of three reaches both,
in more states than a run should have, and the theorem is for a table of any size.

*Algorithms.* The lengths are in `Topics`; alphabets hold one symbol of each kind
the code tells apart. Caps that are reached are cut down (`PerDomain`, `CandidatePool`,
`MaxExpansion`); those of `Translit` (beam 12, four best) are the code's.
The time budget in `Ranking` counts in hundreds of milliseconds: a budget of 15, an engine's timeout of 8.

### Fairness

`FairSpec` of the frontier assumes that a worker that can take a step takes one,
since tokio polls every task and a loop never waits on another's, that a request
under way is finished, and that time passes. It does not assume that anybody
makes a request. `FairSpec` of the queue assumes the same of indexers, that the
engine works through its tasks, and that pending entries age. It does not assume
that a page is crawled, so the crawl may end, and it needs to: see `starved`
below. `CrawlPipeline` assumes that every task and the heartbeat run on, and
strong fairness for the claim of each page, which `QueuedIsClaimed` of the
frontier justifies: a page that waits is handed out however often others are
before it. `Inference` assumes that threads and tasks are scheduled and that time
passes; not that anybody asks, leaves or stops the process.

*Deadlock.* Where a system really stops (a crawl with nothing queued, an empty
queue, a process that ended, an input of full length, a clock at its bound) the
cfg says `CHECK_DEADLOCK FALSE`. `operations` is checked for deadlock.

*Symmetry* is used where only safety is checked: workers are interchangeable, and
so are producers, indexers, the callers with their fetchers, the administrators, and the
requests and the networks of the limiter.

## 4. What is proved

### Frontier

For every set of hosts, URLs, workers, consoles and pollers, every web, depth,
delay, cap and bound that satisfy `FrontierAssumption` (`FrontierProofs`):

| theorem | statement |
|---|---|
| `TypeCorrect` | `Spec => [](TypeOK /\ Shape)` |
| `HostsArePaced` | `Spec => HostPaced` |
| `NoneStranded` | `Spec => []NothingStranded` |
| `FoundOnce` | `Spec => []DiscoveredOnce` |
| `NothingIsLost` | `Spec => []Accounted` |

*Assumptions.* `FrontierAssumption` only says what the constants are (a URL has
one host, numbers are natural numbers, the queue cap and the batch are positive)
and that workers, consoles and pollers are different processes.

*Argument.* `TypeOK` is not inductive: `CompleteMeta` reads `held[w]`, and
`AddQueue` reads `arg[c]`, which exist only because of where the client is.
`Shape` is the missing part: a worker past its claim holds one, a client in the
middle of a write holds the entry it writes, a worker with links left is in the
loop over them and its page is not at the maximal depth (so that the links'
depths have their type), a worker is never at the console's step.

`HostPaced` needs two more facts: `Timely` (a worker's `now` is at most `MaxLag`
behind the clock until its script has run, which is what `Tick` is guarded by) and
`Resting` (a host that was claimed from is either past its delay or scheduled no
sooner). `Resting` is where the NX of `ScheduleHost` matters, and where a
dropped host does: `ClaimEmptyHost` may drop a host only when it is due, that is
past its delay, so it may come back at time 0.

`NothingStranded` is inductive relative to `TypeOK` and `Shape`. The proof turns
on one lemma (`ServedKeep`): the step of one client keeps every host served
that was, if it drops no host and if, when it leaves the span between its two
writes, it has scheduled the host or has been recorded as torn. The one action
that drops a host finds its queue empty.

`DiscoveredOnce` speaks of held pages only and is not inductive: a page could be in
two clients' hands before either queues it. `Once` says, as long as no write failed
(`errors = 0`), that a page not yet visited is in one place (`Single`: in one client's
add, or in the queue, or with one worker, and then in `seen`), and why the two ways
around SADD do not break it (`Booked`): only visited pages are booked, and so
promoted; and an add is undone, which takes the page out of `seen` again, only after a
write that failed. A step that puts no new page in anybody's hands keeps both parts
(`SinglyStep`, `BookedStep`), and most actions are such steps; those
that move a page (a new add, the write to the queue, a claim, a promotion) have a case each.

`Accounted` is not inductive either: it takes an entry of the due set for a trace of its
URL, and a worker that promotes may be about to remove that entry. `Kept` counts only entries
nobody is about to remove (`Removable`: the worker queued the URL before, and nobody has booked
it anew), and a page in a worker's hands only until its claim is given back. `Promises` says
what the two workers at the due set act on. A step of one client keeps the account of every
URL that is not in its hands (`AccountStep`), and nothing becomes removable but what that
client is about to remove (`RemovableStep`); what is left of each action is the one URL it
moves, and where it lets go of it `fate` says why.

The lemmas about maps all of these rest on are at the top of `FrontierProofs`.

### IndexQueue

For every finite set of documents of whatever nature, every finite set of crawl workers,
every set of indexers, and every limit that satisfy `IndexQueueAssumption`,
`AttemptsAssumption` and `RoomAssumption` (`IndexQueueProofs`):

| theorem | statement |
|---|---|
| `TypeCorrect` | `Spec => []TypeOK` |
| `NeverLost` | `Spec => []NeverNowhere` |
| `OnlyCulpritsBuried` | `Spec => []OnlyBadAreBuried`: dead letters are of documents that are not sound or are in `blamed` |
| `QueueDelivers` | `Spec => DeliveryKept`, that is `Spec => DeliveryMap!Spec` |
| `BackpressureHolds` | `Spec => UnreadIsKept` |

*Assumptions.* `IndexQueueAssumption` says what the constants are: documents are
finitely many (bisection compares cardinalities), limits are positive, a crawl
worker is not an indexer. `AttemptsAssumption`, `MaxAttempts > 1`, is a real one. A
reclaimed entry counts as delivered twice, so with a limit of 1 every reclaim
would dead-letter the job whole, a replay would put the same job on the stream again, and
acknowledging one of the two entries could acknowledge the other. The code's limit is 3.
`RoomAssumption` says that what may be unread fits the stream: the lag at which workers
pause and a document of every worker (5000 and 16, of 100 000). It is tight: with one
less, or with a replay on a stream as short as the instance `indexing` has, workers past
their look at the lag push what nobody has read off the front. Only `BackpressureHolds`
rests on it.

*Argument.* `NeverNowhere` is far from inductive, because an acknowledgement takes away
what a document is found by. `Inv` adds what makes it harmless:

- `Durable`: what an indexer is about to acknowledge is `Safe`, that is in the index,
  in a dead letter, waiting on the stream as a bare payload, or recorded as taken away.
  An acknowledgement only touches entries that are jobs, so it cannot make a safe
  document unsafe. `SafeNext` says that no other step can either.
- `Owned`: a task that somebody waits for is of the chunk he holds, and his only one.
  It is why the result of a task may be applied to that chunk, also after timeouts that
  leave tasks behind in the engine.
- `BareLetters`, `BaresLast`, `AllKnown`: letters hold bare documents, a bare entry is
  never in front of a job of the same document (so that trimming, which takes from the
  front, cannot take the bare one and leave a job that is then acknowledged), and nothing
  at hand was not queued before.
- `Requeued`: what the operator is about to delete is on the stream again or was trimmed.

A letter that is trimmed as another is written (`WriteIs`) goes to `erased`, and with it
what it made safe.

`OnlyBadAreBuried` needs less: `Culprits` (an indexer about to split holds a document
the engine rejects, or has misread an answer, so the last one left is that document or is
`blamed`) and, through `FlowNext`, where each new letter comes from.

`QueueDelivers` carries all of this (`Whole`) and `Sane` with it: what the engine is given
validated and was queued before, so that what it indexes is sound; and the letters the operator
has read are buried until he deletes them. Most steps leave the place of every document alone
or are an acknowledgement or a trimming, for which one lemma says what may become of a document
(`KeptIs`: it is where it was, or has been taken away with an excuse). Four steps move
documents: `QueueDocument` (`QueueMaps`; `NewestStays` says that what is queued is not trimmed by
its own trimming), `Bury` and `RunTask` (`BuryMaps`, `RunTaskMaps`, both a `Deliver`, the first
also of the letters that are trimmed) and `Delete`
(`DeleteMaps`), where a buried document becomes a waiting one, because `Requeue` put it on the
stream two steps before, or a trimmed one. That a document waiting is delivered is no
part of it: that is `SoundIsIndexed`, a liveness property, checked on the same run.

`BackpressureHolds` turns on a count that no variable keeps. `Paced` says that the unread
entries are the last of the stream (indexers take the earliest), and that the unread jobs
behind the last replayed letter, with the documents that workers past their look at the
lag have still to queue, are at most `BackpressureAt - 1` and the number of workers
(`Short`, `Room`). A look at the lag counts all unread entries and so bounds these
(`CheckLagPaced`); queueing moves one from the workers' to the stream's side
(`RoomGrows`). If trimming took an unread entry, all it leaves would be unread jobs,
more than `Room` (`QueuedKeepsUnread`).

### CrawlPipeline

For every finite set of workers that is not empty, every set of pages and bodies, every
budget and bound that satisfy `PipelineAssumption` (`PipelineProofs`):

| theorem | statement |
|---|---|
| `NothingForgotten` | `Spec => []RememberedIsQueued` |
| `NothingIsDropped` | `Spec => NothingDropped` |
| `BudgetHolds` | `Spec => []Overshoot` |
| `IntervalsFit` | of one visit: due between the tier's floor and its ceiling, and moved the right way |

*Assumptions.* The constants' types, and that there is a worker (`crawld.rs:179` takes at
least one): with none, a budget of 0 would be reached from the start.

*Argument.* `Cover` is what need not be remembered to be had: the bodies queued, lost or in
a worker's hands. `Covered` says that not only the visit records but every copy of one, the
worker's and the poller's, speaks of covered bodies, since either may be written back after
the record changed. `CoverGrows` says that no step uncovers a body. The step where that
could fail is the one that drops a document as a duplicate; there `Recorded` is needed: what
is in the set of hashes was queued or lost, or *another* worker is at the write.
`Spent` adds to the count of documents the workers past their look at it.

`NothingIsDropped` needs no new invariant: `PageLeaves` and `DocumentLeaves` say that a
step of a worker can take from the crawl only what that worker holds or takes off the
book, so that each action need only say what it does with that one page and document; the
worker that drops a duplicate again rests on `Recorded`. A page that was claimed a second
time while its first worker is still at the queue is the second worker's from then on.
`IntervalsFit` is about one step of module `Revisit`, which `CrawlPipeline` extends: from
any record, even one of another tier, a visit leads into the tier, so no induction over
the visits is needed for the bound; that a page is parked just when it should be depends on
all of them, and is checked on sequences (`StaysInTier`).

The same module proves what can be said of the algorithms a page meets on the way without
induction (`Duplicates`, `Dates`, `Summaries`):

| theorem | statement |
|---|---|
| `NearSharesBand` | two hashes that differ in at most three bits agree in one of four bands, of any width |
| `FoundExactly` | putting a document into the index adds it to what is found by a hash if its own is near, and changes nothing else |
| `CopiesAreOrdered` | `Better` is a strict order of copies, total on those with different ids |
| `WinnerIsBest` | the copy that is kept is the one better than all others |
| `DaysAreCounted` | the first of January 1970 is day 0 and the date after a date is one day later, in every year |
| `DateComesBack` | a date, as a day (`Read!DaysFromCivil`) and back (`Show!CivilFromDays`), is the same date, for every year |

`NearSharesBand` is a pigeonhole argument: if no band agreed, the four bands would have four
places where the hashes differ. The comment on `bands` (`core/hash.rs:127`) claims it of any
number of bands above the distance. `FoundExactly` follows: the buckets a hash is looked up in
leave out no near hash. `CopiesAreOrdered` rests on `BetterIs`, the first of five differences
deciding; that finitely many copies have a best one would be an induction. `DaysAreCounted`
goes from day to day (`NextInYear`) and from February to March (`NextYear`), where leap years
and eras are. `DateComesBack` splits a year of an era of 400 into its centuries, fours and rest
(`YearParts`, `YearIs`), so that each division is of a sum whose quotient can be named
(`DividedIs`); that a day 365 is a leap year's is `LeapParts`. Together they say all there is
to say of the two functions; `DatesAreRight` has the first over some years only, and of every
way to write a date. The two functions are of two crates, which nothing in the code ties
together but the number 719468.

### Politeness

For every set of fetchers, callers that share them in any way, policies and
delays that satisfy `PolitenessAssumption` (`PolitenessProofs`):

| theorem | statement |
|---|---|
| `FetchersArePaced` | `Spec => TurnsArePaced`, that is `Spec => PacingMap!Spec` |
| `ClosedSitesAreLeftAlone` | `Spec => ClosedIsLeftAlone` |

*Assumptions.* The constants' types, and that the longest delay rules may ask for
is no longer than what backing off leaves (`MaxDelay <= ThrottleMin`, `MaxDelay <=
ErrorMax`), which the code's constants satisfy (60 s, against 60 s and 300 s). Without it an
error would make a fetcher faster.

*Argument.* `NotFaster` (a fetcher that has rules is never faster than they ask) is
what makes a reserved slot far enough from the next, and needs `AdaptedBound`: no
answer, whatever its status and its Retry-After, brings the delay below the rules'.
`OpenOnce` says when rules that let us in can have been the site's: at most one
lifetime before a fetcher took them from the shared cache, where they may have
been for another. `HasRules` and `NotAhead` are what these two need to be
inductive.

### Inference

For every set of requests, every finite set of slots and every capacity that satisfy
`InferenceAssumption` (`InferenceProofs`):

| theorem | statement |
|---|---|
| `TypeCorrect` | `Spec => []TypeOK` |
| `TokensAreTakenOnce` | `Spec => []SummarisedOnce` |
| `StreamsStop` | `Spec => []AbandonedStops` |
| `NobodyWaitsForNothing` | `Spec => []NoneIsForgotten` |
| `LayersFit` | of `Resolve` in `Device`: what goes to the card fits it, more memory is never fewer layers, and a card that was asked for and not had is told |

*Assumptions.* The constants' types: summaries are no translations, the placeholder `NoJob` is
no request, slots are finitely many, capacities are positive.

*Argument.* Both properties need to know where a job is. `OnePlace` says that it is in one
place of the queue or on one slot, and nowhere before it was submitted; `Slotted`, that a slot
has a job just while it works. With it `Wasted` bounds what is decoded for nobody by what the
slot has decoded, and by one token for a stream, whose slot ends the job at the first token
nobody takes. `NoneIsForgotten`, that whoever has not been answered has a job a slot is
about or will come to, is not inductive, since a job in the queue is only as good as the slots
that still take from it. `Held` adds that: a queue that is not empty has a slot alive (`Served`),
slots are there just while the engine is (`Lived`), and the engine closes only after
everybody was answered (`Closing`). `Issued` and `Taken` say that the numbers of tokens only grow and that a token
someone has is not in the store any longer, whatever the store drops at its cap or its
expiry. `LayersFit` holds for every reserve, size and free memory; its lemmas are about
division by a number that is not fixed (`QuotientIs`, `QuotientGrows`).

### Indices

For any number of migrations and writers, any indices to begin with, and a queue of any
length, under `IndicesAssumption` (`IndicesProofs`): `AcknowledgedIsRead`, that is `Spec =>
[]WritesAreRead`.

*Assumptions.* The processes are different ones, and a set of versions that is not empty has a
newest one.

*Argument.* The index everybody means never moves. `Home` is the one the alias leads to, or
version 1 where there is none yet, and every task in the engine's queue and every process that has looked
is about it (`Queued`, `Knows`). A migration that finds nothing makes version 1; the engine
that makes an index of any name it is told to write to is told of no other name than `Home`,
since writers start after a migration has settled it. `Fits` says that `Home` is the newest
version unless an index has the alias's own name, and `HomeStays` that making it changes
nothing about that. `Queued` also says that of each process there is one task at most and that
it waits for it, so that an answer is the answer to what was asked.

### RateLimit

For any networks, any requests at once, any limit, window and table that satisfy
`RateLimitAssumption` (`RateLimitProofs`): `RequestsAreLimited`, that is `Spec =>
[]WindowsHold`.

*Assumptions.* The constants' types; a salt outlives a window, which those of the code do (24 h
against an hour at most); and a request that has taken its key counts itself before a
window has passed. The last is not enforced by the code, which waits for a lock with no limit.
It is what the model's `Tick` respects, and without it there is no bound: requests that are late
without end count themselves in as many windows as they like at one time.

*Argument.* The clock of a request may be behind what the buckets have seen, so windows of one
key may overlap: a late request can have a bucket swept or renewed before its time is over.
`Parted` says by how much they may: a later window begins no sooner than `Window - MaxWait`
after the earlier, and nobody is counted in it before the earlier one's time is over. `Fits` is what
makes that inductive: whoever was let through is of the window his bucket is in, with a place
that is taken, or of one that is over. It holds of a table with whatever is swept out of
it (`SweptIs`), and so of the bucket that is counted (`CountedIs`). `Aged` says the same of salts: no
key of an older one is taken once there is a newer, and soon nobody is let through with it.

From the invariant to the property there is only counting left. In a `Span`, no three windows
of one salt come together (`TwoWindows`); of two, the first request of the earlier is too
early (`FirstIsGone`), which is why there are fewer than two windows' requests and not as many;
no three salts come together (`TwoSalts`), and of two the newer has one window (`NewerSalt`).
Each window has as many places as it lets through (`OneWindow`), by an injection.

### Operations

`OperationsProofs` proves the rest for the composition, under `OperationsAssumption`, the
conjunction of the five modules' assumptions, all of which are constants' types but for those
above:

| theorem | statement |
|---|---|
| `EachIsItself` | `Spec => Ix!Spec /\ To!Spec /\ So!Spec /\ Lo!Spec /\ Rl!Spec` |
| `AcknowledgedIsRead` | `Spec => []WritesAreRead` |
| `WithheldIsReported` | `Spec => []WithheldIsTold` |
| `SourcesAreKept` | `Spec => []ListIsKept` |
| `OverridesEnd` | `Spec => []OverrideEnds` |
| `LimitsHold` | `Spec => []WindowsHold` |

*Argument.* A step of one subject changes none of the others' variables, so each of the five
behaves as its own specification says; what is proved of one alone then holds of it
in the composition. The theorems of `IndicesProofs` and `RateLimitProofs` are brought in by
INSTANCE, with a lemma that the two instances of a module mean the same.

`WithheldIsTold`: a scan that has missed nothing has seen how old what it is past is, as far as
that is too old (`Scanned`); an entry that is put behind the scan's back is either fresh or makes
it one that missed something. `ListIsKept`: nothing keeps two changes apart, so the invariant says
what is so of one that is under way (`Sure`). It is the only one (`Alone`), and then what it read is
what is still there and what is to take its place is that, changed as was asked; or it has met
another (`Spoilt`), and then no line's answer is known and no request that has read the file will
make one known, until it has ended and another has read the file alone. A change that was made alone is
still there when it is answered (`Done`), and what a line was last answered is unknown while any
request is about it (`Asked`). One lemma per step, for `Asked` and for the rest.
`OverrideEnds`: what is left of an override and its age add up to its time, and once nothing is
left its age and what is left of the timer's round to that time and one round (`LevelInv`).

*Only model-checked*: the liveness properties (`QueuedIsClaimed`, `SoundIsIndexed`, `CrawlEnds`,
`PublishedIsQueued`, `ServingEnds`), since fairness and ENABLED are out of the prover's reach, and
the fifteen properties of the algorithms: what a fold computes over a sequence of any length needs
induction over data, which the installed provers cannot do. Of three of them the part that needs
none is proved (`IntervalsFit` of `StaysInTier`, `LayersFit` of `LimitHolds`, `FoundExactly` of
`NearIsFound`); `WinnerIsBest` and `DateComesBack` are proved and in no run, and `DaysAreCounted` says for every
year what `DatesAreRight` counts for some. Every other property a passing run
checks is a theorem.

## 5. Where the code and its words differ

`reclaim` is a run that TLC ends with a counterexample to what a comment says: the
comment on RECLAIM_SCRIPT says claims of workers that went away are returned or
the URL is lost; the script drops them, and the URL is lost.

The models do what the code does also where it is not what its words promise. What
was met while they were written, each put so that it can be checked in the source:

*Crawl.* `complete`, which follows `defer`, deletes the metadata that `defer` wrote
so that a page would not come back at depth 0 (`orchestrator.rs:271`,
`frontier.rs:703`). A site is said to see one request at a time; a claim rests a
host for a delay, not until the page is done. A page whose fetch fails once, or
that is thin or noindex, is never revisited. An `add` that failed half-way leaves a
queue entry without a `seen` entry. A page that goes from A to B and back to A is
dropped as a duplicate. `known_hosts` is never seeded. `overdue` is always 0. The
poller delays a shutdown by a tick. The orchestrator's seeds are not tested for
traps and their hosts lack a port that the console's have.

*Queue.* Anything but a timeout, an unreachable host or a 5xx is taken for the documents'
fault: sound documents are bisected and dead-lettered for a body that could not be read or a
revoked key, which `indexer.rs:322-331` says must not happen for a failure that is not theirs.
The stream of dead letters is trimmed like any other, so letters that were written "before the
acknowledgement on purpose" (`dlq.rs:48-50`) may be gone before anybody reads them.
What an indexer leaves for retry is said to be reclaimed before newer
entries; `run_once` does not reclaim while there are new ones (`indexer.rs:231`;
"starved" above). A job is said to be dead-lettered after three deliveries; the
count a reclaim reports is always 2 (`dlq.rs:3-5`). A letter's payload is said to
be what was queued; one of two ways of writing it stores the bare document, which
a replay queues and nobody can read (`dlq.rs:25`).

*Politeness.* Rules may be obeyed for 48 hours, and an unreachable robots.txt keeps
a site closed for 24. Setting rules anew forgets the next slot and the delay
learned. A turn may come up to 200 ms early. `resolve_delay` and the registry's
`crawl_delay` are unused. An anchored pattern with `*` takes the first place a part
is found at; `$` alone matches everything; a group with an empty Disallow falls
back to the wildcard's. An unknown field or a Sitemap line between two User-agent lines cuts
their group in two, so that the names above it do not get the rules below (`robots.rs:158-164`),
where `unknown_fields_are_ignored_without_ending_a_group` (`robots_conformance.rs:203-212`)
says that such a field must not split one and tests it below the User-agent lines only.
Each worker's fetcher learns delays and backoffs for itself; `X-Robots-Tag: googlebot: nofollow` is applied to us.

*Search.* The date filter always fails: it names `published_at_precision`, which is
not filterable (`filter.rs:85-89`, `settings.rs:42-46`). A second retrieval begun with
35 % of 1500 ms left and a timeout of 800 ms may lose the first one's hits to a 504
(`search.rs:358`). `-term` looks at titles only. `lang=auto` means the language
"auto". The refusal of a rerank only counts a metric, and facets are asked for at
time 0 and so are never given up. `sort=recency` is re-sorted by the ranking. Pages
past the pool are empty while the count goes to 100. `site:/` is an empty filter.
The merge of suggestions keeps a strict prefix of equal weight (`suggest.rs:312`).

*Language.* One signal suffices for Arabizi where two are said to be required, and
Arabizi precedes English where English has more hits. Text of two scripts without
evidence is Mixed. "tch" is never tried (`MAX_DIGRAPH` 2); `dedup_by` removes
neighbours only; tokens are widened in order, not the rarest first. Diminishers of
two words match no token, "good!" is not in the lexicon, phrases of a question
match inside words.

*Pages.* `excerpt_from` slices inside '؟' and '۔' (`parse.rs:823-831`). Date parsing
slices bytes (`date.rs:133-160`). Void tags and `<` in scripts count as nesting;
JSON-LD bodies are measured before their markup is stripped; only the first date
that is not empty is read; hidden blocks inside a shown one are part of the body.
Of an image sitemap `image:loc` replaces the page's; CDATA and the offset of a
W3C date are ignored; "10:30 4 août 2026" is the 10th.

*Answers.* Roman numerals that begin with a subtractive pair (IV, IX, XL, XC, CD, CM) get no
answer: there is nothing yet to subtract from (`utilities.rs:313-314`, where the comment above
describes the notation as handled and the tests go both ways, :692-697, but never with such a numeral).
`1,5` is 15; `-2^2` is 4; a telephone number is a sum; ties between tools
go to the last one; 31 February is a date; `tva 2000 19%` takes 9 %; "in" is never
an inch.

*Summaries.* A job that expired in the queue is dropped without a word, which its
caller takes for a shutdown; an abandoned summary keeps its slot to the end. A
marker inside brackets can leave one half behind; removing a marker can join a
telephone number after the check; `2024-2025` is one.

*Operations.* A writer that looks the alias up before any index exists makes a plain
`documents` that hides the versions; `make crawl` does not depend on `migrate`. The
API that starts first keeps the bare alias. Two `keys` runs may issue a key twice.
An override set between the timer's two steps is reverted at once. Two
administrators share `{path}.tmp` and each writes what he read: an answered change is lost,
and one who has the file open as another renames it writes into the list itself, which is
empty or mixed of both until he is done, or for good if he is stopped. The comment says it is
"written whole through a temporary file", so that the crawler would not read a truncated one
(`admin_crawler.rs:550-552`). A file that cannot be read is taken for empty and overwritten. Removing compares spellings where adding normalises them. A wrong
reading that is within bounds blocks right ones until it expires. The gauge keeps
its value when the cache is empty, so an alert on its absence never fires.

*Command line, device.* Addresses beyond a source's cap are remembered like those
tried, so a later seed of the same site skips them (`crawl.rs:124-125`). A request
whose layer count is refused has changed the preference already
(`admin.rs:190-203`); a `null` layer count, said to mean "decide automatically"
(`admin.rs:116`), leaves the number that was set. The page sends its -1 as `null`
(`admin.js:26`), so automatic cannot be had back. The setting "takes effect on the next
model load", which happens only as the program starts, from the configuration.

*Evaluation.* A result listed twice may lift recall over 1; a page dated up to a day
ahead is "0-1d".

## 6. What is left out

- `clear` and `destroy` (an administrator's reset of a stopped crawl, tests), the
  read-only counts, and the timers of the two sweeps (either sweep may or may not
  happen in any step, which includes what the timers allow).
- Within the bound on faults, an answer that is misread may be of any chunk and come at any
  time; a key that stays revoked, for which every chunk is misread until all is dead-lettered,
  is beyond the runs (`SoundIsIndexed` excuses its documents) and within the theorems.
- Redis is taken to be durable and single. Trimming, of the stream and of the dead letters, is
  exact: the approximation of `MAXLEN ~` keeps more entries, never fewer.
- Writes of one client take effect in the order it makes them, since it awaits
  each reply.
- One host in `Politeness`, and the frontier's keys in `CrawlPipeline`: each is
  replaced by what another module shows of it.
- Prayer times and the sun (trigonometry), tables (fuel, exams, provinces), layered
  configuration, metrics, the address
  guard, generated prompts' wording, the web front end and the deployment: tables,
  formatting, presentation, or functions of floating-point numbers that have no
  exact counterpart here.
- The calculator's decimals round a quotient that does not end to 28 digits
  (`calculator.rs:200`); the model's fractions do not, so `2/3*3` is 2 only here.
- The list of sources is a set of lines: their order, and the pieces of lines two writers
  leave when they write over each other, are not told apart.
- Weights and scores are integers in thousandths where the code has `f64`; no
  property compares two that differ by rounding only.
- Everything listed as `not_modelled` in `PROJECT.json`, with the reason there.

## 7. The plan

What the models still lack, in order of worth:

1. `CrawlPipeline` and `IndexQueue` composed through `QueueDocument`. The product of the two is
   too large for TLC with the smallest instances that are of interest, so this would be a theorem
   only: both specifications side by side, joined at the queue as `Operations` joins its five,
   with `NothingDropped` and `DeliveryKept` carried together from a page read to a document found.
2. `SoundIsIndexed` from `Delivery` with fairness, once a prover has ENABLED.
3. `migrate` from one version to the next.
