------------------------------ MODULE Frontier ------------------------------
(***************************************************************************)
(* The crawl frontier: the Redis keys that say which URLs are known, which *)
(* wait in which host's queue, when each host may next be asked, which are *)
(* being fetched and which are to be visited again; and the processes that *)
(* share them.  A worker is one crawl loop (Orchestrator::step) of the     *)
(* daemon, a console the administrator's add-source handler, a poller the  *)
(* sitemap poller.                                                         *)
(*                                                                         *)
(* Claiming and reclaiming are Lua scripts, hence one action each.  Every  *)
(* other operation is a series of round trips and is modelled as such: one *)
(* action per command that others can observe.  A client may stop between  *)
(* any two of them (Crash), and a write may fail (the parameter ok).       *)
(***************************************************************************)
EXTENDS RedisMaps, FiniteSets

CONSTANTS Hosts, Urls,
          HostOf,        \* the host of each URL
          Seeds,         \* the URLs the crawl starts from, at depth 0
          Sources,       \* the URLs a console may add, at depth 0 too
          Links,         \* the admissible links found on each page
          Workers, Consoles, Pollers,
          MaxDepth,      \* links followed from a seed at most (max_depth)
          Delay,         \* between two claims of one host (default_delay)
          ClaimTTL,      \* how long a claim is held
          MaxPerHost,    \* the cap on one host's queue
          PromoteBatch,  \* entries one sweep of the due set reads at most
          Intervals,     \* the revisit intervals the scheduler may choose; {} is no revisiting
          Credits,       \* what a revisit's priority may be better by than a discovery's
          MaxLag,        \* how stale the time a script is called with may be
          MaxClock, MaxFaults, MaxRequests   \* bounds of the model

Clients == Workers \cup Consoles \cup Pollers

ASSUME FrontierAssumption ==
  /\ HostOf \in [Urls -> Hosts]
  /\ Seeds \subseteq Urls /\ Sources \subseteq Urls
  /\ Links \in [Urls -> SUBSET Urls]
  /\ {MaxDepth, Delay, ClaimTTL, MaxLag, MaxClock, MaxFaults, MaxRequests}
       \subseteq Nat
  /\ {MaxPerHost, PromoteBatch} \subseteq Nat \ {0}
  /\ Intervals \subseteq Nat /\ Credits \subseteq {0, 2}
  /\ Workers \cap Consoles = {} /\ Workers \cap Pollers = {} /\ Consoles \cap Pollers = {}

VARIABLES
  clock,     \* the time every process reads
  hosts,     \* sorted set: a host to the time it may next be claimed from
  queue,     \* the sorted sets of all hosts: a URL to its priority
  seen,      \* the URLs ever discovered
  inflight,  \* hash: a claimed URL to the time its claim expires
  meta,      \* hash: a URL to the depth it was found at
  deferred,  \* sorted set: a page to revisit to the time it is due
  visited    \* the pages that have a visit record

store == <<hosts, queue, seen, inflight, meta, deferred, visited>>

VARIABLES
  pc,        \* what each client does next
  now,       \* the time a worker read when its step began
  held,      \* the claim each working worker holds
  links,     \* what each client has still to add
  arg,       \* the entry each client is in the middle of writing
  todo,      \* the due entries each worker has still to promote
  failed,    \* the clients a write of whose add has failed
  booking    \* the workers that will book a revisit of the page they hold

local == <<pc, now, held, links, arg, todo, failed, booking>>

(* What happened, for the properties; the program keeps none of it. *)
VARIABLES
  lastClaim, \* when each host was last claimed from
  torn,      \* hosts whose queue was written by a client that did not get to schedule them
  rebooked,  \* due entries written again while a worker was promoting them
  fate,      \* why a URL that is nowhere any more is nowhere
  crashes, errors, requests

history == <<lastClaim, torn, rebooked, fate, crashes, errors, requests>>

vars == <<clock, store, local, history>>

-----------------------------------------------------------------------------
(* One URL's entry as it is written.  Its depth stands for all the metadata *)
(* kept with a URL.  The credit is what its priority gains over that of a   *)
(* discovery at its depth; the due set's members hold the priority, so two  *)
(* entries of one URL with different priorities are two members.            *)
Depths  == 0 .. MaxDepth + 1
Pending == [url : Urls, depth : Depths, credit : 0 .. 2]
Claimed == [url : Urls, depth : Depths]

Discovery(u, depth) == [url |-> u, depth |-> depth, credit |-> 0]
SitemapCredit == 1   \* that of an article, which no revisit's credit equals

(* Lower is claimed first.  Depth dominates every other term of the score.  *)
Front == 0
Priority(e) == 3 * (e.depth + 1) - e.credit

(* decode_meta: an absent entry reads as depth 0, that of a seed. *)
DecodeMeta(u) == IF u \in DOMAIN meta THEN meta[u] ELSE 0

QueueOf(h) == {u \in DOMAIN queue : HostOf[u] = h}

Sweeping == {"sweep", "due", "promote", "promote host", "promote done", "claim"}
Adding   == {"queue", "meta", "host", "undo seen", "undo meta"}
Labels   == {"idle", "fetch", "links", "front", "defer meta", "defer due", "complete", "forget"}
              \cup Sweeping \cup Adding

Fates == {"full", "expired", "crashed", "unbooked", "unscheduled", "not undone", "finished"}

(* The daemon adds every seed before it starts its workers. *)
Init ==
  /\ clock = 0
  /\ hosts = [h \in {HostOf[u] : u \in Seeds} |-> 0]
  /\ queue = [u \in Seeds |-> Priority(Discovery(u, 0))]
  /\ seen = Seeds
  /\ meta = [u \in Seeds |-> 0]
  /\ inflight = EmptyMap /\ deferred = EmptyMap /\ visited = {}
  /\ pc = [c \in Clients |-> "idle"]
  /\ now = [w \in Workers |-> 0]
  /\ held = EmptyMap /\ arg = EmptyMap
  /\ links = [c \in Clients |-> {}]
  /\ todo = [w \in Workers |-> {}]
  /\ failed = {} /\ booking = {}
  /\ lastClaim = EmptyMap /\ torn = {} /\ rebooked = {} /\ fate = EmptyMap
  /\ crashes = 0 /\ errors = 0 /\ requests = 0

Goto(c, label) == pc' = [pc EXCEPT ![c] = label]
At(c, label)   == pc[c] = label

(* A write either takes effect or, while the model still has errors to give *)
(* out, fails and leaves the store as it was.                               *)
Write(ok) == /\ ok \/ crashes + errors < MaxFaults
             /\ errors' = IF ok THEN errors ELSE errors + 1

(* Faulty: without the NX; and, below, not writing the host at all. *)
ScheduleHostNow(h, ok) ==
  /\ hosts' = IF ok THEN Put(hosts, h, 0) ELSE hosts
  /\ torn' = IF ok THEN torn \ {h} ELSE torn \cup {h}
ScheduleNoHost(h, ok) ==
  /\ UNCHANGED hosts
  /\ torn' = IF ok THEN torn \ {h} ELSE torn \cup {h}

(* ZADD hosts NX 0: a host that is scheduled keeps its time.                *)
ScheduleHost(h, ok) ==
  /\ hosts' = IF ok THEN PutNew(hosts, h, 0) ELSE hosts
  /\ torn' = IF ok THEN torn \ {h} ELSE torn \cup {h}

-----------------------------------------------------------------------------
(* Time.  It passes while something in the store waits for it, and no       *)
(* further than MaxLag beyond the time a worker's step began before that    *)
(* worker's claim script has run.                                           *)
Tick ==
  /\ clock < MaxClock
  /\ \/ \E h \in DOMAIN hosts : hosts[h] > clock
     \/ \E e \in DOMAIN deferred : deferred[e] > clock
     \/ \E u \in DOMAIN inflight : inflight[u] >= clock
  /\ \A w \in Workers : pc[w] \in Sweeping => clock < now[w] + MaxLag
  /\ clock' = clock + 1
  /\ UNCHANGED <<store, local, history>>

-----------------------------------------------------------------------------
(* step: sweep expired claims and due pages when their half minute is up,   *)
(* then claim.  The timers are left out: either sweep may or may not be due.*)

BeginStep(w) ==
  /\ At(w, "idle")
  /\ now' = [now EXCEPT ![w] = clock]
  /\ \E next \in {"sweep", "due", "claim"} : Goto(w, next)
  /\ UNCHANGED <<clock, store, held, links, arg, todo, failed, booking, history>>

(* RECLAIM_SCRIPT: expired claims are dropped from the hash, and that is    *)
(* all that is done with them.                                              *)
Expired(t) == {u \in DOMAIN inflight : inflight[u] < t}

Reclaim(w) ==
  /\ At(w, "sweep")
  /\ inflight' = Remove(inflight, Expired(now[w]))
  /\ LET abandoned == Expired(now[w]) \ {held[v].url : v \in DOMAIN held}
     IN  fate' = [u \in DOMAIN fate \cup abandoned |->
                    IF u \in abandoned THEN "expired" ELSE fate[u]]
  /\ \E next \in {"due", "claim"} : Goto(w, next)
  /\ UNCHANGED <<clock, hosts, queue, seen, meta, deferred, visited,
                 now, held, links, arg, todo, failed, booking,
                 lastClaim, rebooked, torn, crashes, errors, requests>>

(* promote_due reads the earliest entries that have come due ... *)
(* Faulty: takes the batch off the due set before it is queued. *)
PopDue(w) ==
  /\ At(w, "due")
  /\ \E batch \in SUBSET UpTo(deferred, now[w]) :
       /\ Cardinality(batch) <= PromoteBatch
       /\ deferred' = Remove(deferred, batch)
       /\ todo' = [todo EXCEPT ![w] = batch]
       /\ Goto(w, IF batch = {} THEN "claim" ELSE "promote")
  /\ UNCHANGED <<clock, hosts, queue, seen, inflight, meta, visited,
                 now, held, links, arg, failed, booking, history>>

ReadDue(w) ==
  /\ At(w, "due")
  /\ LET due == UpTo(deferred, now[w])
     IN  \E batch \in SUBSET due :
           /\ \/ batch = due /\ Cardinality(due) <= PromoteBatch
              \/ Cardinality(batch) = PromoteBatch
           /\ \A e \in batch, f \in due \ batch : deferred[e] <= deferred[f]
           /\ todo' = [todo EXCEPT ![w] = batch]
           /\ Goto(w, IF batch = {} THEN "claim" ELSE "promote")
  /\ UNCHANGED <<clock, store, now, held, links, arg, failed, booking, history>>

(* ... and for each writes it to its host's queue, ... *)
PromoteQueue(w, ok) ==
  /\ At(w, "promote")
  /\ Write(ok)
  /\ \E e \in todo[w] :
       /\ arg' = Put(arg, w, e)
       /\ queue' = IF ok THEN Put(queue, e.url, Priority(e)) ELSE queue
       /\ fate' = IF ok THEN Remove(fate, {e.url}) ELSE fate
  /\ failed' = IF ok THEN failed ELSE failed \cup {w}
  /\ Goto(w, "promote host")
  /\ UNCHANGED <<clock, hosts, seen, inflight, meta, deferred, visited,
                 now, held, links, todo, booking, lastClaim, rebooked, torn, crashes, requests>>

(* ... schedules the host if it is not, ... *)
PromoteHost(w, ok) ==
  /\ At(w, "promote host")
  /\ Write(ok)
  /\ ScheduleHost(HostOf[arg[w].url], ok)
  /\ failed' = IF ok THEN failed ELSE failed \cup {w}
  /\ Goto(w, "promote done")
  /\ UNCHANGED <<clock, queue, seen, inflight, meta, deferred, visited,
                 now, held, links, arg, todo, booking, lastClaim, rebooked, fate, crashes, requests>>

(* ... and takes it off the due set, unless one of the writes failed.  The  *)
(* page may have been claimed, fetched and booked again by now: what is     *)
(* then removed is the new booking, which is nowhere else.                  *)
PromoteDone(w, ok) ==
  /\ At(w, "promote done")
  /\ Write(ok \/ w \in failed)
  /\ LET removes == ok /\ w \notin failed
     IN  /\ deferred' = IF removes THEN Remove(deferred, {arg[w]}) ELSE deferred
         /\ fate' = IF removes /\ arg[w] \in rebooked
                    THEN Put(fate, arg[w].url, "unscheduled") ELSE fate
  /\ todo' = [todo EXCEPT ![w] = @ \ {arg[w]}]
  /\ rebooked' = rebooked \cap UNION {todo'[v] : v \in Workers}
  /\ arg' = Remove(arg, {w})
  /\ failed' = failed \ {w}
  /\ Goto(w, IF todo[w] = {arg[w]} THEN "claim" ELSE "promote")
  /\ UNCHANGED <<clock, hosts, queue, seen, inflight, meta, visited,
                 now, held, links, booking, lastClaim, torn, crashes, requests>>

(* CLAIM_SCRIPT, which is called with the time the step began. *)
DueHosts(t) == Lowest(hosts, UpTo(hosts, t))

(* No host is due, or the store could not be reached.                       *)
ClaimNothing(w) ==
  /\ At(w, "claim")
  /\ Write(DueHosts(now[w]) = {})
  /\ Goto(w, "idle")
  /\ now' = [now EXCEPT ![w] = 0]
  /\ UNCHANGED <<clock, store, held, links, arg, todo, failed, booking,
                 lastClaim, torn, rebooked, fate, crashes, requests>>

(* Faulty: drops the host without having looked into its queue. *)
ClaimDropsHost(w) ==
  /\ At(w, "claim")
  /\ \E h \in DueHosts(now[w]) : hosts' = Remove(hosts, {h})
  /\ Goto(w, "idle")
  /\ now' = [now EXCEPT ![w] = 0]
  /\ UNCHANGED <<clock, queue, seen, inflight, meta, deferred, visited,
                 held, links, arg, todo, failed, booking, history>>

(* The earliest host has nothing queued: it is dropped and nothing claimed. *)
ClaimEmptyHost(w) ==
  /\ At(w, "claim")
  /\ \E h \in DueHosts(now[w]) :
       /\ QueueOf(h) = {}
       /\ hosts' = Remove(hosts, {h})
  /\ Goto(w, "idle")
  /\ now' = [now EXCEPT ![w] = 0]
  /\ UNCHANGED <<clock, queue, seen, inflight, meta, deferred, visited,
                 held, links, arg, todo, failed, booking, history>>

ClaimUrl(w) ==
  /\ At(w, "claim")
  /\ \E h \in DueHosts(now[w]) : \E u \in Lowest(queue, QueueOf(h)) :
       /\ queue' = Remove(queue, {u})
       /\ hosts' = Put(hosts, h, now[w] + Delay)
       /\ inflight' = Put(inflight, u, now[w] + ClaimTTL)
       /\ held' = Put(held, w, [url |-> u, depth |-> DecodeMeta(u)])
       /\ lastClaim' = Put(lastClaim, h, clock)
  /\ Goto(w, "fetch")
  /\ now' = [now EXCEPT ![w] = 0]
  /\ UNCHANGED <<clock, seen, meta, deferred, visited,
                 links, arg, todo, failed, booking, torn, rebooked, fate,
                 crashes, errors, requests>>

-----------------------------------------------------------------------------
(* process: fetch the page, then walk through its links and book the next   *)
(* visit, either or both of which the outcome may rule out.  A failed       *)
(* fetch, a robots refusal and a noindex page do neither, a thin page only  *)
(* yields links, an unchanged page (304) is only booked.                    *)
Fetch(w) ==
  /\ At(w, "fetch")
  /\ \E follow \in BOOLEAN, book \in BOOLEAN :
       /\ links' = [links EXCEPT ![w] = IF follow /\ held[w].depth < MaxDepth
                                          THEN Links[held[w].url] ELSE {}]
       /\ booking' = IF book /\ Intervals # {} THEN booking \cup {w} ELSE booking
  /\ Goto(w, "links")
  /\ UNCHANGED <<clock, store, now, held, arg, todo, failed, history>>

-----------------------------------------------------------------------------
(* add.  A worker adds each link one deeper than the page it is on; a       *)
(* console adds a seed.                                                     *)

DepthOf(c) == IF c \in Workers THEN held[c].depth + 1 ELSE 0

(* What a client does with a URL that add did not queue: a worker goes on   *)
(* to its next link, a console asks for it to be moved to the front anyway. *)
NotAdded(c, u) ==
  /\ links' = [links EXCEPT ![c] = @ \ {u}]
  /\ IF c \in Workers THEN UNCHANGED <<pc, arg>>
     ELSE Goto(c, "front") /\ arg' = Put(arg, c, Discovery(u, 0))

(* SADD said the URL is known, or could not be reached, which reads the same. *)
AddKnown(c) ==
  /\ At(c, "links")
  /\ \E u \in links[c] : Write(u \in seen) /\ NotAdded(c, u)
  /\ UNCHANGED <<clock, store, now, held, todo, failed, booking,
                 lastClaim, torn, rebooked, fate, crashes, requests>>

(* SADD recorded it and ZCARD found the host's queue at its cap. *)
AddFull(c) ==
  /\ At(c, "links")
  /\ \E u \in links[c] \ seen :
       /\ Cardinality(QueueOf(HostOf[u])) >= MaxPerHost
       /\ seen' = seen \cup {u}
       /\ NotAdded(c, u)
       /\ fate' = Put(fate, u, "full")
  /\ UNCHANGED <<clock, hosts, queue, inflight, meta, deferred, visited,
                 now, held, todo, failed, booking, lastClaim, rebooked, torn, crashes, errors, requests>>

(* Faulty: does not heed what SADD answered. *)
AddAgain(c) ==
  /\ At(c, "links")
  /\ \E u \in links[c] :
       /\ Cardinality(QueueOf(HostOf[u])) < MaxPerHost
       /\ seen' = seen \cup {u}
       /\ links' = [links EXCEPT ![c] = @ \ {u}]
       /\ arg' = Put(arg, c, Discovery(u, DepthOf(c)))
  /\ Goto(c, "queue")
  /\ UNCHANGED <<clock, hosts, queue, inflight, meta, deferred, visited,
                 now, held, todo, failed, booking, history>>

AddNew(c) ==
  /\ At(c, "links")
  /\ \E u \in links[c] \ seen :
       /\ Cardinality(QueueOf(HostOf[u])) < MaxPerHost
       /\ seen' = seen \cup {u}
       /\ links' = [links EXCEPT ![c] = @ \ {u}]
       /\ arg' = Put(arg, c, Discovery(u, DepthOf(c)))
  /\ Goto(c, "queue")
  /\ UNCHANGED <<clock, hosts, queue, inflight, meta, deferred, visited,
                 now, held, todo, failed, booking, history>>

AddQueue(c, ok) ==
  /\ At(c, "queue")
  /\ Write(ok)
  /\ queue' = IF ok THEN Put(queue, arg[c].url, Priority(arg[c])) ELSE queue
  /\ fate' = IF ok THEN Remove(fate, {arg[c].url}) ELSE fate
  /\ failed' = IF ok THEN failed ELSE failed \cup {c}
  /\ Goto(c, "meta")
  /\ UNCHANGED <<clock, hosts, seen, inflight, meta, deferred, visited,
                 now, held, links, arg, todo, booking, lastClaim, rebooked, torn, crashes, requests>>

AddMeta(c, ok) ==
  /\ At(c, "meta")
  /\ Write(ok)
  /\ meta' = IF ok THEN Put(meta, arg[c].url, arg[c].depth) ELSE meta
  /\ failed' = IF ok THEN failed ELSE failed \cup {c}
  /\ Goto(c, "host")
  /\ UNCHANGED <<clock, hosts, queue, seen, inflight, deferred, visited,
                 now, held, links, arg, todo, booking, lastClaim, torn, rebooked, fate, crashes, requests>>

(* What a client does once an add is over: a worker goes on to the next     *)
(* link, a console moves the URL to the front of its host's queue.          *)
AfterAdd(c) == IF c \in Workers THEN "links" ELSE "front"

AddHost(c, ok) ==
  /\ At(c, "host")
  /\ Write(ok)
  /\ ScheduleHost(HostOf[arg[c].url], ok)
  /\ IF ok /\ c \notin failed
       THEN /\ Goto(c, AfterAdd(c))
            /\ arg' = IF c \in Workers THEN Remove(arg, {c}) ELSE arg
       ELSE Goto(c, "undo seen") /\ UNCHANGED arg
  /\ failed' = failed \ {c}
  /\ UNCHANGED <<clock, queue, seen, inflight, meta, deferred, visited,
                 now, held, links, todo, booking, lastClaim, rebooked, fate, crashes, requests>>

(* A write failed: the URL is made discoverable again.  The queue entry, if *)
(* it was the one that succeeded, stays.                                    *)
UndoSeen(c, ok) ==
  /\ At(c, "undo seen")
  /\ Write(ok)
  /\ seen' = IF ok THEN seen \ {arg[c].url} ELSE seen
  /\ fate' = IF ok THEN fate ELSE Put(fate, arg[c].url, "not undone")
  /\ Goto(c, "undo meta")
  /\ UNCHANGED <<clock, hosts, queue, inflight, meta, deferred, visited,
                 now, held, links, arg, todo, failed, booking,
                 lastClaim, torn, rebooked, crashes, requests>>

UndoMeta(c, ok) ==
  /\ At(c, "undo meta")
  /\ Write(ok)
  /\ meta' = IF ok THEN Remove(meta, {arg[c].url}) ELSE meta
  /\ Goto(c, AfterAdd(c))
  /\ arg' = IF c \in Workers THEN Remove(arg, {c}) ELSE arg
  /\ UNCHANGED <<clock, hosts, queue, seen, inflight, deferred, visited,
                 now, held, links, todo, failed, booking,
                 lastClaim, torn, rebooked, fate, crashes, requests>>

-----------------------------------------------------------------------------
(* The administrator adds a URL: add and then, whatever it said, promote.   *)
(* (A daemon that starts while another runs adds its seeds the same way,    *)
(* without the promote.)                                                    *)
Submit(c) ==
  /\ At(c, "idle")
  /\ requests < MaxRequests /\ requests' = requests + 1
  /\ \E u \in Sources :
       /\ links' = [links EXCEPT ![c] = {u}]
       /\ Goto(c, "links")
  /\ UNCHANGED <<clock, store, now, held, arg, todo, failed, booking,
                 lastClaim, torn, rebooked, fate, crashes, errors>>

(* promote: ordering only, and only of a URL that still waits. *)
MoveToFront(c) ==
  /\ At(c, "front")
  /\ queue' \in {queue, PutOld(queue, arg[c].url, Front)}   \* the request's "front" flag
  /\ arg' = Remove(arg, {c})
  /\ Goto(c, "idle")
  /\ UNCHANGED <<clock, hosts, seen, inflight, meta, deferred, visited,
                 now, held, links, todo, failed, booking, history>>

-----------------------------------------------------------------------------
(* defer: record the metadata, then put the page on the due set.            *)

(* schedule_revisit, by the worker that holds the page. *)
Book(w) ==
  /\ At(w, "links") /\ links[w] = {}
  /\ w \in booking
  /\ visited' = visited \cup {held[w].url}
  /\ \E credit \in Credits :
       arg' = Put(arg, w, [url |-> held[w].url, depth |-> held[w].depth, credit |-> credit])
  /\ booking' = booking \ {w}
  /\ Goto(w, "defer meta")
  /\ UNCHANGED <<clock, hosts, queue, seen, inflight, meta, deferred,
                 now, held, links, todo, failed, history>>

(* poll_sitemap: the sitemap says a page we hold has changed. *)
SitemapChanged(p) ==
  /\ At(p, "idle")
  /\ requests < MaxRequests /\ requests' = requests + 1
  /\ \E u \in visited : arg' = Put(arg, p, [url |-> u, depth |-> 1, credit |-> SitemapCredit])
  /\ Goto(p, "defer meta")
  /\ UNCHANGED <<clock, store, now, held, links, todo, failed, booking,
                 lastClaim, torn, rebooked, fate, crashes, errors>>

DeferMeta(c, ok) ==
  /\ At(c, "defer meta")
  /\ Write(ok)
  /\ meta' = IF ok THEN Put(meta, arg[c].url, arg[c].depth) ELSE meta
  /\ Goto(c, "defer due")
  /\ UNCHANGED <<clock, hosts, queue, seen, inflight, deferred, visited,
                 now, held, links, arg, todo, failed, booking, lastClaim, torn, rebooked, fate, crashes, requests>>

(* A worker books a visit after the interval, a poller one that is due now. *)
DeferDue(c, ok) ==
  /\ At(c, "defer due")
  /\ Write(ok)
  /\ \E i \in IF c \in Workers THEN Intervals ELSE {0} :
       deferred' = IF ok THEN Put(deferred, arg[c], clock + i) ELSE deferred
  /\ rebooked' = IF ok /\ \E w \in Workers : arg[c] \in todo[w]
                 THEN rebooked \cup {arg[c]} ELSE rebooked
  /\ fate' = IF ok THEN Remove(fate, {arg[c].url})
             ELSE IF c \in Workers THEN Put(fate, arg[c].url, "unbooked") ELSE fate
  /\ arg' = Remove(arg, {c})
  /\ Goto(c, IF c \in Workers THEN "complete" ELSE "idle")
  /\ UNCHANGED <<clock, hosts, queue, seen, inflight, meta, visited,
                 now, held, links, todo, failed, booking, lastClaim, torn, crashes, requests>>

-----------------------------------------------------------------------------
(* complete, whatever became of the page: the claim goes, then the metadata. *)

CompleteClaim(w, ok) ==
  /\ \/ At(w, "complete") /\ UNCHANGED fate
     \/ /\ At(w, "links") /\ links[w] = {} /\ w \notin booking
        /\ fate' = Put(fate, held[w].url, "finished")
  /\ Write(ok)
  /\ inflight' = IF ok THEN Remove(inflight, {held[w].url}) ELSE inflight
  /\ Goto(w, "forget")
  /\ UNCHANGED <<clock, hosts, queue, seen, meta, deferred, visited,
                 now, held, links, arg, todo, failed, booking, lastClaim, rebooked, torn, crashes, requests>>

CompleteMeta(w, ok) ==
  /\ At(w, "forget")
  /\ Write(ok)
  /\ meta' = IF ok THEN Remove(meta, {held[w].url}) ELSE meta
  /\ held' = Remove(held, {w})
  /\ Goto(w, "idle")
  /\ UNCHANGED <<clock, hosts, queue, seen, inflight, deferred, visited,
                 now, links, arg, todo, failed, booking,
                 lastClaim, torn, rebooked, fate, crashes, requests>>

-----------------------------------------------------------------------------
(* A client stops between two round trips and starts again with nothing in  *)
(* hand.  A reply that is lost on the way back is no different: the command *)
(* has run and its caller does not know.                                    *)
Crash(c) ==
  /\ crashes + errors < MaxFaults
  /\ ~At(c, "idle")
  /\ crashes' = crashes + 1
  /\ pc' = [pc EXCEPT ![c] = "idle"]
  /\ held' = Remove(held, {c}) /\ arg' = Remove(arg, {c})
  /\ links' = [links EXCEPT ![c] = {}]
  /\ failed' = failed \ {c} /\ booking' = booking \ {c}
  /\ IF c \in Workers
       THEN now' = [now EXCEPT ![c] = 0] /\ todo' = [todo EXCEPT ![c] = {}]
       ELSE UNCHANGED <<now, todo>>
  /\ torn' = IF pc[c] \in {"meta", "host", "promote host"}
               THEN torn \cup {HostOf[arg[c].url]} ELSE torn
  /\ LET dropped == (IF pc[c] \in Adding THEN {arg[c].url} ELSE {})
                       \cup (IF c \in DOMAIN held THEN {held[c].url} ELSE {})
     IN  fate' = [u \in DOMAIN fate \cup dropped |->
                    IF u \in dropped THEN "crashed" ELSE fate[u]]
  /\ UNCHANGED <<clock, store, lastClaim, rebooked, errors, requests>>

-----------------------------------------------------------------------------
Sweep(w)    == BeginStep(w) \/ Reclaim(w) \/ ReadDue(w)
                 \/ \E ok \in BOOLEAN : PromoteQueue(w, ok) \/ PromoteHost(w, ok) \/ PromoteDone(w, ok)
Claim(w)    == ClaimNothing(w) \/ ClaimEmptyHost(w) \/ ClaimUrl(w)
Add(c)      == AddKnown(c) \/ AddFull(c) \/ AddNew(c)
                 \/ \E ok \in BOOLEAN : \/ AddQueue(c, ok) \/ AddMeta(c, ok) \/ AddHost(c, ok)
                                        \/ UndoSeen(c, ok) \/ UndoMeta(c, ok)
Defer(c)    == \E ok \in BOOLEAN : DeferMeta(c, ok) \/ DeferDue(c, ok)
Complete(w) == \E ok \in BOOLEAN : CompleteClaim(w, ok) \/ CompleteMeta(w, ok)

WorkerStep(w)  == Sweep(w) \/ Claim(w) \/ Fetch(w) \/ Add(w) \/ Book(w) \/ Defer(w) \/ Complete(w)
ConsoleStep(c) == Submit(c) \/ Add(c) \/ MoveToFront(c)
PollerStep(p)  == SitemapChanged(p) \/ Defer(p)

Next == \/ Tick
        \/ \E w \in Workers : WorkerStep(w)
        \/ \E c \in Consoles : ConsoleStep(c)
        \/ \E p \in Pollers : PollerStep(p)
        \/ \E c \in Clients : Crash(c)

Spec == Init /\ [][Next]_vars

(* The tokio runtime goes on polling every worker and every request that is *)
(* under way, and time passes.  Nobody has to make a request or to change a *)
(* sitemap.                                                                 *)
FairSpec == /\ Spec
            /\ WF_vars(Tick)
            /\ \A w \in Workers : WF_vars(WorkerStep(w))
            /\ \A c \in Consoles : WF_vars(Add(c) \/ MoveToFront(c))
            /\ \A p \in Pollers : WF_vars(Defer(p))

-----------------------------------------------------------------------------
(* The types of the keys and of what the clients hold (frontier.rs k_hosts   *)
(* to k_due, and the locals of step, process, add, defer and promote_due).   *)
StoreOK ==
  /\ IsMap(hosts, Hosts, Nat)
  /\ IsMap(queue, Urls, Nat)
  /\ seen \subseteq Urls
  /\ IsMap(inflight, Urls, Nat)
  /\ IsMap(meta, Urls, Depths)
  /\ IsMap(deferred, Pending, Nat)
  /\ visited \subseteq Urls

LocalOK ==
  /\ pc \in [Clients -> Labels]
  /\ now \in [Workers -> Nat]
  /\ IsMap(held, Workers, Claimed)
  /\ links \in [Clients -> SUBSET Urls]
  /\ IsMap(arg, Clients, Pending)
  /\ todo \in [Workers -> SUBSET Pending]
  /\ failed \subseteq Clients
  /\ booking \subseteq Workers

HistoryOK ==
  /\ IsMap(lastClaim, Hosts, Nat)
  /\ torn \subseteq Hosts
  /\ rebooked \subseteq Pending
  /\ IsMap(fate, Urls, Fates)
  /\ crashes \in Nat /\ errors \in Nat /\ requests \in Nat

TypeOK == clock \in Nat /\ StoreOK /\ LocalOK /\ HistoryOK

(* Politeness: however many workers share the frontier, two claims of one   *)
(* host are Delay apart, less what the time a worker passes to the script   *)
(* lags behind (CLAIM_SCRIPT, and the NX of add and promote_due; a host     *)
(* that is dropped and scheduled again must not be claimable at once).      *)
ClaimIsPaced ==
  \A w \in DOMAIN held' \ DOMAIN held :
    LET h == HostOf[held'[w].url]
    IN  h \in DOMAIN lastClaim => clock + MaxLag >= lastClaim[h] + Delay
HostPaced == [][ClaimIsPaced]_vars

(* No queued URL waits at a host nobody will ever claim from: its host is   *)
(* scheduled, or a client is about to schedule it, or the client that was   *)
(* about to crashed or was refused (add and promote_due write the queue and *)
(* the host in separate round trips, and claim drops hosts meanwhile).      *)
Scheduling(h) == \E c \in DOMAIN arg : /\ pc[c] \in {"meta", "host", "promote host"}
                                       /\ HostOf[arg[c].url] = h
NothingStranded ==
  \A u \in DOMAIN queue : \/ HostOf[u] \in DOMAIN hosts
                          \/ HostOf[u] \in torn
                          \/ Scheduling(HostOf[u])

(* No URL gets lost unnoticed: one that is known is queued, in flight, due  *)
(* for a revisit or in a client's hands, or was completed without a revisit *)
(* to come, refused by a full queue, dropped by a crashed client or by a    *)
(* failed write, or its claim expired.  In particular a crash inside        *)
(* promote_due loses nothing (frontier.rs:779-780).                         *)
InHand(u) == \/ \E w \in DOMAIN held : held[w].url = u
             \/ \E c \in DOMAIN arg : arg[c].url = u
Accounted ==
  \A u \in seen : \/ u \in DOMAIN queue \cup DOMAIN inflight \cup DOMAIN fate
                  \/ \E e \in DOMAIN deferred : e.url = u
                  \/ InHand(u)

(* A URL found on many pages by many workers is fetched by one: until a     *)
(* revisit of it is booked, and as long as no write failed, it is not       *)
(* queued while it is held nor held by two workers (the SADD of add is what *)
(* decides between workers that found the same link, frontier.rs:595-597).  *)
DiscoveredOnce ==
  errors = 0 =>
    \A w \in DOMAIN held : held[w].url \notin visited =>
      /\ held[w].url \notin DOMAIN queue
      /\ \A v \in DOMAIN held : held[v].url = held[w].url => v = w

(* A queued URL is claimed in the end, with workers running and none of     *)
(* them failing: hosts are taken earliest first and a claimed host goes to  *)
(* the back, so no host starves another.                                    *)
QueuedIsClaimed ==
  \A u \in Urls : u \in DOMAIN queue ~> u \notin DOMAIN queue

-----------------------------------------------------------------------------
(* What the source says of the frontier and the frontier does not do.       *)

(* frontier.rs:491-494: claims whose worker never came back are returned,   *)
(* or the URL is lost.                                                      *)
ReclaimReturnsUrl ==
  [][\A u \in DOMAIN inflight \ DOMAIN inflight' :
       \/ \E w \in DOMAIN held : held[w].url = u
       \/ u \in DOMAIN queue']_vars
=============================================================================
