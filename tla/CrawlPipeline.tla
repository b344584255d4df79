---------------------------- MODULE CrawlPipeline ----------------------------
(***************************************************************************)
(* The crawler daemon from a claimed page to a queued document: workers    *)
(* that fetch a page, record the visit, book the next one, drop what was   *)
(* already queued and queue the rest; the sitemap poller that corrects the *)
(* records; the main task that ends the crawl.  They share the visit       *)
(* records, the set of content hashes and the index queue in Redis, and    *)
(* two atomics of the process.                                             *)
(*                                                                         *)
(* The frontier is reduced to the pages it has; module Frontier has its    *)
(* keys, and shows that a page it has is claimed in the end.  A visit      *)
(* record is reduced to the hash the last visit read: module Revisit has   *)
(* the interval, and here a page comes due sooner or later, whatever its   *)
(* interval is.  A sitemap may say of a page whatever its publisher wrote. *)
(***************************************************************************)
EXTENDS Revisit, FiniteSets

CONSTANTS Workers, Pages,
          Bodies,       \* what a page may say; a body stands for its content hash
          Front,        \* what every page says at first: one story, syndicated
          Documents,    \* the bodies that parse to a document, the others are thin
          Validating,   \* the pages whose server sends validators
          Listed,       \* the pages a sitemap lists with a lastmod, each in one of its own
          Budgets,      \* the values --max may have; NoBudget is no bound
          MaxPublished, MaxFaults   \* bounds of the model

NoBudget == 0 - 1

ASSUME PipelineAssumption ==
  /\ Front \in Documents /\ Documents \subseteq Bodies /\ Validating \cup Listed \subseteq Pages
  /\ NoHash \notin Bodies \cup Pages
  /\ IsFiniteSet(Workers) /\ Workers # {}
  /\ Budgets \subseteq Nat \cup {NoBudget}

VARIABLES
  site,       \* what each page says now
  booked,     \* the pages in the frontier, waiting or due some day
  visits,     \* the hash in the visit record of each page
  hashes,     \* the content hashes recorded as queued
  stream,     \* the bodies of the documents queued for the indexer
  budget, produced, stop

shared == <<site, booked, visits, hashes, stream, budget>>

VARIABLES
  pc,         \* what each worker does next
  held,       \* the page each worker holds, what it read and the record it read
  main,       \* the main task: "watch", "drain" or "stopped"
  poller,     \* the sitemap poller: what it does next
  targets,    \* the pages whose sitemap it has still to poll
  copy        \* the page it is at, and the hash in the record it read of it

tasks == <<pc, held, poller, targets, copy>>

VARIABLES
  gone,       \* pages that fell out of the crawl, for a failed fetch, a thin body or a crash
  lost,       \* documents dropped by a failure or a crash before they were queued
  published, faults

vars == <<shared, produced, stop, tasks, main, gone, lost, published, faults>>

-----------------------------------------------------------------------------
Idle == [page |-> NoHash, body |-> NoHash, hash |-> NoHash]
NoCopy == [page |-> NoHash, hash |-> NoHash]

Init ==
  /\ site = [p \in Pages |-> Front]
  /\ booked = Pages
  /\ visits = [p \in Pages |-> NoHash]
  /\ hashes = {} /\ stream = {}
  /\ budget \in Budgets /\ produced = 0 /\ stop = FALSE
  /\ pc = [w \in Workers |-> "top"] /\ held = [w \in Workers |-> Idle]
  /\ main = "watch"
  /\ poller = "wait" /\ targets = {} /\ copy = NoCopy
  /\ gone = {} /\ lost = {} /\ published = 0 /\ faults = 0

(* What loses something: a failed fetch, a failed write to the queue, a crash. *)
Fault == faults < MaxFaults /\ faults' = faults + 1
NoFault == faults' = faults

Go(w, from, to) == pc[w] = from /\ pc' = [pc EXCEPT ![w] = to]

BudgetSpent == budget # NoBudget /\ produced >= budget

-----------------------------------------------------------------------------
(* A worker: crawld's loop around Orchestrator::step. *)

(* Faulty: the budget lets one document more through. *)
MayGoOnLate == ~ stop /\ (budget = NoBudget \/ produced <= budget)
(* Faulty: the flag is not looked at. *)
MayGoOnDeaf == ~ BudgetSpent
MayGoOn == ~ stop /\ ~ BudgetSpent

(* What a page's record tells of it; a record that cannot be read is none. *)
ReadOf(p, hash) == \/ hash = visits[p] /\ NoFault
                   \/ hash = NoHash /\ Fault

(* The two atomics are looked at before each claim; the page's record is    *)
(* read right after.  Nothing another task does between the three matters.  *)
Leave(w) ==
  /\ ~ MayGoOn /\ Go(w, "top", "done")
  /\ UNCHANGED <<shared, produced, stop, held, main, poller, targets, copy, gone, lost, published, faults>>

Claim(w, p) ==
  /\ MayGoOn /\ Go(w, "top", "fetch")
  /\ p \in booked /\ booked' = booked \ {p}
  /\ \E hash \in {visits[p], NoHash} :
       /\ ReadOf(p, hash)
       /\ held' = [held EXCEPT ![w] = [Idle EXCEPT !.page = p, !.hash = hash]]
  /\ UNCHANGED <<site, visits, hashes, stream, budget, produced, stop, main,
                 poller, targets, copy, gone, lost, published>>

(* The page is unchanged by its validator: 304, there is no body. *)
NotModified(w) == LET p == held[w].page IN
  p \in Validating /\ held[w].hash = site[p]

FetchNotModified(w) ==
  /\ Go(w, "fetch", "get again") /\ NotModified(w)
  /\ held' = [held EXCEPT ![w].hash = NoHash]
  /\ UNCHANGED <<shared, produced, stop, main, poller, targets, copy, gone, lost, published, faults>>

FetchDocument(w) ==
  /\ Go(w, "fetch", "get again")
  /\ ~ NotModified(w) /\ site[held[w].page] \in Documents
  /\ held' = [held EXCEPT ![w].body = site[held[w].page], ![w].hash = NoHash]
  /\ UNCHANGED <<shared, produced, stop, main, poller, targets, copy, gone, lost, published, faults>>

(* Refused by robots, failed, thin, excluded or malformed: no visit is booked. *)
FetchNothing(w) ==
  /\ Go(w, "fetch", "top")
  /\ \/ NoFault /\ ~ NotModified(w) /\ site[held[w].page] \notin Documents
     \/ Fault
  /\ gone' = gone \cup {held[w].page}
  /\ held' = [held EXCEPT ![w] = Idle]
  /\ UNCHANGED <<shared, produced, stop, main, poller, targets, copy, lost, published>>

(* schedule_revisit reads the record again, and writes what it makes of it: *)
(* a 304 keeps the hash and the validators that it has now.                 *)
GetAgain(w) ==
  /\ Go(w, "get again", "put visit")
  /\ \E hash \in {visits[held[w].page], NoHash} :
       /\ ReadOf(held[w].page, hash)
       /\ held' = [held EXCEPT ![w].hash = IF held[w].body = NoHash THEN hash ELSE held[w].body]
  /\ UNCHANGED <<shared, produced, stop, main, poller, targets, copy, gone, lost, published>>

(* Faulty: a visit that found nothing new is not booked again. *)
BookedChanged(w) == IF held[w].body = NoHash THEN booked ELSE booked \cup {held[w].page}
Booked(w) == booked \cup {held[w].page}

(* Write the record, book the next visit and complete the claim: a crash    *)
(* before the last loses the page, whatever of the three was done.          *)
PutVisit(w) ==
  /\ Go(w, "put visit", IF held[w].body = NoHash THEN "top" ELSE "dedup")
  /\ \/ NoFault /\ visits' = [visits EXCEPT ![held[w].page] = held[w].hash]
     \/ Fault   /\ UNCHANGED visits
  /\ booked' = Booked(w)
  /\ held' = [held EXCEPT ![w] = IF @.body = NoHash THEN Idle ELSE [@ EXCEPT !.hash = NoHash]]
  /\ UNCHANGED <<site, hashes, stream, budget, produced, stop, main,
                 poller, targets, copy, gone, lost, published>>

(* SADD says which worker was first.  An unreachable set makes every document new. *)
IsNew(w) ==
  /\ \/ /\ NoFault
        /\ hashes' = hashes \cup {held[w].body}
        /\ IF held[w].body \in hashes
           THEN Go(w, "dedup", "top") /\ held' = [held EXCEPT ![w] = Idle]
           ELSE Go(w, "dedup", "produce") /\ UNCHANGED held
     \/ Fault /\ Go(w, "dedup", "produce") /\ UNCHANGED <<hashes, held>>
  /\ UNCHANGED <<site, booked, visits, stream, budget, produced, stop, main,
                 poller, targets, copy, gone, lost, published>>

(* The counter is the process's own; no task acts between the two.  Only a  *)
(* budget is compared with it.                                              *)
Produce(w) ==
  /\ Go(w, "produce", "top") /\ held' = [held EXCEPT ![w] = Idle]
  /\ \/ /\ NoFault /\ produced' = IF budget = NoBudget THEN 0 ELSE produced + 1
        /\ stream' = stream \cup {held[w].body}
        /\ UNCHANGED lost
     \/ /\ Fault /\ lost' = lost \cup {held[w].body}
        /\ UNCHANGED <<stream, produced>>
  /\ UNCHANGED <<site, booked, visits, hashes, budget, stop, main,
                 poller, targets, copy, gone, published>>

Working(w) ==
  \/ Leave(w) \/ (\E p \in Pages : Claim(w, p))
  \/ FetchNotModified(w) \/ FetchDocument(w) \/ FetchNothing(w)
  \/ GetAgain(w) \/ PutVisit(w) \/ IsNew(w) \/ Produce(w)

-----------------------------------------------------------------------------
(* The sitemap poller.  It looks at stop only when its ticker ticks, and    *)
(* between two sitemaps; its ticker ticks every few hours.                  *)

PollerGo(from, to) == poller = from /\ poller' = to

Tick ==
  /\ PollerGo("wait", IF stop THEN "done" ELSE "next")
  /\ targets' = IF stop THEN {} ELSE Listed
  /\ UNCHANGED <<shared, produced, stop, pc, held, copy, main, gone, lost, published, faults>>

(* Take the next sitemap, and read the record of the page it lists; what    *)
(* happens to the record until it is written back is overwritten.  A        *)
(* sitemap that cannot be fetched, or a record that cannot be read, is      *)
(* passed over.                                                             *)
NextSitemap ==
  /\ \/ stop /\ PollerGo("next", "done") /\ targets' = {} /\ UNCHANGED copy
     \/ ~ stop /\ targets = {} /\ PollerGo("next", "wait") /\ UNCHANGED <<targets, copy>>
     \/ \E p \in targets :
          /\ ~ stop /\ targets' = targets \ {p}
          /\ \/ /\ PollerGo("next", "put")
                /\ copy' = [page |-> p, hash |-> visits[p]]
             \/ PollerGo("next", "next") /\ UNCHANGED copy
  /\ UNCHANGED <<shared, produced, stop, pc, held, main, gone, lost, published, faults>>

(* What the lastmod comes to: nothing is written, or the record read before  *)
(* is, with another interval and time; a changed page is booked for now,     *)
(* whether the write succeeds or not.                                        *)
PollerPut ==
  /\ PollerGo("put", "next")
  /\ \/ UNCHANGED <<visits, booked>>
     \/ /\ visits' = [visits EXCEPT ![copy.page] = copy.hash]
        /\ booked' \in {booked, booked \cup {copy.page}}
     \/ UNCHANGED visits /\ booked' = booked \cup {copy.page}
  /\ copy' = NoCopy
  /\ UNCHANGED <<site, hashes, stream, budget, produced, stop, pc, held,
                 targets, main, gone, lost, published, faults>>

Polling == Tick \/ NextSitemap \/ PollerPut

-----------------------------------------------------------------------------
(* The main task, and what is not the program's. *)

Signal ==
  /\ main = "watch" /\ main' = "drain" /\ stop' = TRUE
  /\ UNCHANGED <<shared, produced, tasks, gone, lost, published, faults>>

(* The heartbeat finds the budget spent. *)
Heartbeat ==
  /\ main = "watch" /\ BudgetSpent /\ main' = "drain" /\ stop' = TRUE
  /\ UNCHANGED <<shared, produced, tasks, gone, lost, published, faults>>

AllDone == poller = "done" /\ \A w \in Workers : pc[w] = "done"

(* Faulty: does not wait for the tasks. *)
AbortTasks ==
  /\ main = "drain" /\ main' = "stopped"
  /\ pc' = [w \in Workers |-> "done"] /\ held' = [w \in Workers |-> Idle]
  /\ poller' = "done"
  /\ UNCHANGED <<shared, produced, stop, targets, copy, gone, lost, published, faults>>

(* Every task is joined, then the process ends. *)
Drain ==
  /\ main = "drain" /\ AllDone /\ main' = "stopped"
  /\ UNCHANGED <<shared, produced, stop, tasks, gone, lost, published, faults>>

(* The process is killed and started again: what its workers held is gone,  *)
(* and so are the claims, which nothing hands out again.                    *)
Held == {w \in Workers : held[w].page # NoHash}
Crash ==
  /\ Fault /\ main # "stopped"
  /\ gone' = gone \cup {held[w].page : w \in {v \in Held : held[v].page \notin booked}}
  /\ lost' = lost \cup {held[w].body : w \in {v \in Held : held[v].body # NoHash}}
  /\ pc' = [w \in Workers |-> "top"] /\ held' = [w \in Workers |-> Idle]
  /\ poller' = "wait" /\ targets' = {} /\ copy' = NoCopy
  /\ main' = "watch" /\ stop' = FALSE /\ produced' = 0
  /\ UNCHANGED <<shared, published>>

Publish ==
  /\ ~ stop /\ published < MaxPublished /\ published' = published + 1
  /\ \E p \in Listed : \E b \in Bodies \ {site[p]} : site' = [site EXCEPT ![p] = b]
  /\ UNCHANGED <<booked, visits, hashes, stream, budget, produced, stop, tasks, main, gone, lost, faults>>

Next ==
  \/ \E w \in Workers : Working(w)
  \/ Polling \/ Signal \/ Heartbeat \/ Drain \/ Crash \/ Publish

(* Every task runs on; the heartbeat beats; the frontier hands out every    *)
(* page in its turn.  Nothing makes a site publish or a signal arrive.      *)
Spec ==
  /\ Init /\ [][Next]_vars
  /\ \A w \in Workers : WF_vars(Working(w))
  /\ WF_vars(Polling) /\ WF_vars(Heartbeat) /\ WF_vars(Drain)
  /\ \A p \in Pages : SF_vars(\E w \in Workers : Claim(w, p))

-----------------------------------------------------------------------------
(* The page budget is overshot by less than the number of workers, which    *)
(* check it before they fetch and spend it after they queued.               *)
Overshoot == budget # NoBudget => produced < budget + Cardinality(Workers)

(* A body the store remembers, as the hash of a page's last visit or as     *)
(* queued before, was queued, or a worker is about to, or its queueing      *)
(* failed or died.  Were it not, the page would answer 304 or be taken for  *)
(* a duplicate for ever, and the index would never have it.                 *)
InHand == {held[w].body : w \in Workers}
Remembered == hashes \cup {visits[p] : p \in Pages}
RememberedIsQueued ==
  Remembered \ {NoHash} \subseteq stream \cup InHand \cup lost

(* A page leaves the crawl, booked or claimed and not yet booked again, by  *)
(* a fault or for being no document, and is known to have; a document that  *)
(* was read leaves a worker's hands for the queue, unless another has it,   *)
(* or it was lost (Orchestrator::step books before it completes; crawld     *)
(* drops what was queued before).                                           *)
Busy    == {"fetch", "get again", "put visit"}
Crawled == booked \cup {held[w].page : w \in {v \in Workers : pc[v] \in Busy}}
Owed    == InHand \ {NoHash}
PageIsKept     == \A p \in Crawled \ Crawled' : p \in gone' /\ (faults' > faults \/ site[p] \notin Documents)
DocumentIsKept == Owed \ Owed' \subseteq stream' \cup lost'
NothingDropped == [][PageIsKept /\ DocumentIsKept]_vars

(* Once told to stop, or once the budget is spent, the crawl ends: every    *)
(* worker and the poller come to look at the flag.                          *)
CrawlEnds == (stop \/ BudgetSpent) ~> (main = "stopped" \/ ~ (stop \/ BudgetSpent))

(* What a page says is queued in the end, under its own URL or another's,   *)
(* unless the page changes first, falls out of the crawl or the crawl ends: *)
(* whatever the poller and the workers overwrite of each other's records.   *)
PublishedIsQueued ==
  \A p \in Pages : \A b \in Documents :
    site[p] = b ~> \/ b \in stream \cup lost \/ site[p] # b
                   \/ p \in gone \/ stop \/ BudgetSpent
=============================================================================
