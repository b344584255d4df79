----------------------------- MODULE Politeness -----------------------------
(***************************************************************************)
(* Fetching from one host: fetchers that each keep the host's rules and    *)
(* its next slot in memory, callers that share a fetcher, the robots.txt   *)
(* cache in Redis all fetchers share, and a site that may change its rules *)
(* or go away.  One host stands for all: they share no state.              *)
(*                                                                         *)
(* Time is in steps of the clock.  The steps a caller makes between        *)
(* finding its fetcher's rules and reserving its turn wait for nothing but *)
(* a lock and one round trip to Redis, and take none.                      *)
(***************************************************************************)
EXTENDS Integers

CONSTANTS Fetchers, Callers,
          FetcherOf,     \* the fetcher of each caller
          Policies,      \* the robots.txt files the site may serve
          Open,          \* those that let us at our paths
          DelayOf,       \* the Crawl-delay of each, or NoDelay
          RetryAfter,    \* the values of a Retry-After header
          Ttl,           \* how long rules hold, in a fetcher and in the shared cache
          DefaultDelay, MaxDelay,              \* of robots.txt
          ThrottleMin, ThrottleMax, ErrorMax,  \* of the adaptive delay
          MaxRedirects,
          MaxTime, MaxCalls, MaxChanges   \* bounds of the model

NoDelay == 0   \* no Crawl-delay line, or no Retry-After header

(* How a request for robots.txt fails.  One that is not there allows        *)
(* everything; one that is refused, or cannot be had, allows nothing.      *)
Failures == {"missing", "refused", "unreachable"}

ASSUME PolitenessAssumption ==
  /\ FetcherOf \in [Callers -> Fetchers]
  /\ Open \subseteq Policies /\ Policies \cap Failures = {}
  /\ DelayOf \in [Policies -> Nat] /\ RetryAfter \subseteq Nat
  /\ {Ttl, DefaultDelay, MaxDelay, ThrottleMin, ThrottleMax, ErrorMax} \subseteq Nat
  /\ {MaxRedirects, MaxTime, MaxCalls, MaxChanges} \subseteq Nat
  /\ MaxDelay <= ThrottleMin /\ MaxDelay <= ErrorMax /\ ThrottleMin <= ThrottleMax

VARIABLES
  clock,
  site,      \* what a request for robots.txt finds: a policy, or how it fails
  openAt,    \* when the site last let us in
  shared,    \* the shared cache's entry: the answer, and when it was asked for
  host,      \* each fetcher's HostState
  call,      \* where each caller is
  calls, changes   \* how many calls there were, and changes outside the fetchers

env == <<clock, site, openAt, changes>>
vars == <<env, shared, host, call, calls>>

-----------------------------------------------------------------------------
(* Rules *)

AtLeast(x, y) == IF x < y THEN y ELSE x
AtMost(x, y)  == IF x > y THEN y ELSE x

Allowed(answer) == answer \in Open \cup {"missing"}

CrawlDelay(answer) ==
  AtMost(IF answer \in Policies /\ DelayOf[answer] # NoDelay THEN DelayOf[answer]
         ELSE DefaultDelay, MaxDelay)

Never == 0 - 1
NoHost == [answer |-> "refused", fetched |-> Never, next |-> 0, delay |-> 0]
NoEntry == [answer |-> "unreachable", at |-> Never]

SetRules(f, answer) ==
  host' = [host EXCEPT ![f] = [answer |-> answer, fetched |-> clock, next |-> clock,
                               delay |-> CrawlDelay(answer)]]

(* Faulty: rules once read are kept. *)
RulesAbsent(f) == host[f].fetched = Never
RulesStale(f) == host[f].fetched = Never \/ clock - host[f].fetched > Ttl

(* Redis drops an entry after two lifetimes; one past the first is stale. *)
InRedis == shared.at # Never /\ clock - shared.at < 2 * Ttl
SharedFresh == InRedis /\ clock - shared.at <= Ttl

-----------------------------------------------------------------------------
(* A call: Fetcher::get_conditional. *)

Idle == [pc |-> "idle", at |-> 0, hops |-> 0]

Init ==
  /\ clock = 0 /\ openAt = 0
  /\ site \in Policies \cup Failures
  /\ shared = NoEntry
  /\ host = [f \in Fetchers |-> NoHost]
  /\ call = [c \in Callers |-> Idle]
  /\ calls = 0 /\ changes = 0

Go(c, from, to) == call[c].pc = from /\ call' = [call EXCEPT ![c].pc = to]

Begin == calls < MaxCalls /\ calls' = calls + 1

(* ensure_robots, in the order of the code: the fetcher's own rules, then   *)
(* the shared ones, then the site's.                                        *)
UseOwn(c) ==
  /\ Begin /\ ~ RulesStale(FetcherOf[c]) /\ Go(c, "idle", "ready")
  /\ UNCHANGED <<env, shared, host>>

LookFurther(c) ==
  /\ Begin /\ RulesStale(FetcherOf[c]) /\ Go(c, "idle", "looking")
  /\ UNCHANGED <<env, shared, host>>

UseShared(c) ==
  /\ SharedFresh /\ Go(c, "looking", "ready")
  /\ SetRules(FetcherOf[c], shared.answer)
  /\ UNCHANGED <<env, shared, calls>>

(* Also where Redis cannot be reached. *)
AskSite(c) ==
  /\ call[c].pc = "looking"
  /\ call' = [call EXCEPT ![c] = [Idle EXCEPT !.pc = "asking", !.at = clock]]
  /\ UNCHANGED <<env, shared, host, calls>>

(* The entry carries the time before the request; none is kept of a site   *)
(* that could not be reached, and a failed write leaves the old one.       *)
SiteAnswers(c) ==
  /\ call[c].pc = "asking" /\ call' = [call EXCEPT ![c] = [Idle EXCEPT !.pc = "ready"]]
  /\ \/ site # "unreachable" /\ shared' = [answer |-> site, at |-> call[c].at]
     \/ UNCHANGED shared
  /\ SetRules(FetcherOf[c], site)
  /\ UNCHANGED <<env, calls>>

Refuse(c) ==
  /\ ~ Allowed(host[FetcherOf[c]].answer) /\ Go(c, "ready", "idle")
  /\ UNCHANGED <<env, shared, host, calls>>

Admit(c) ==
  /\ Allowed(host[FetcherOf[c]].answer) /\ Go(c, "ready", "admitted")
  /\ UNCHANGED <<env, shared, host, calls>>

(* wait_turn: the caller sleeps until its turn, or longer. *)
Turn(f) == AtLeast(clock, host[f].next)

(* Faulty: the slot is read and left where it is. *)
ReserveReads(f) == UNCHANGED host
Reserve(f) == host' = [host EXCEPT ![f].next = Turn(f) + host[f].delay]

TakeTurn(c) ==
  LET f == FetcherOf[c] IN
  /\ call[c].pc = "admitted"
  /\ Reserve(f)
  /\ call' = [call EXCEPT ![c].pc = "waiting", ![c].at = Turn(f)]
  /\ UNCHANGED <<env, shared, calls>>

Send(c) ==
  /\ call[c].pc = "waiting" /\ clock >= call[c].at
  /\ call' = [call EXCEPT ![c] = [Idle EXCEPT !.pc = "sent"]]
  /\ UNCHANGED <<env, shared, host, calls>>

-----------------------------------------------------------------------------
(* The answer to a page request: Politeness::observe and record_fetch, and  *)
(* what becomes of the call.                                                *)

Relaxed(h) == AtLeast((9 * h.delay) \div 10, CrawlDelay(h.answer))

(* The adaptive delay after a status, and a Retry-After with a 429. *)
Adapted(h, status, after) ==
  CASE status = "throttled" ->
         AtMost(AtLeast(IF after = NoDelay THEN 4 * h.delay ELSE after, ThrottleMin), ThrottleMax)
    [] status = "error" -> AtMost(2 * h.delay, ErrorMax)
    [] status \in {"fetched", "redirect"} -> Relaxed(h)
    [] OTHER -> h.delay

Recorded(h) == [h EXCEPT !.next = AtLeast(h.next, clock + h.delay)]

Seen(f, status, after) ==
  host' = [host EXCEPT ![f] = Recorded([host[f] EXCEPT !.delay = Adapted(host[f], status, after)])]

Respond(c) ==
  \E status \in {"fetched", "throttled", "error", "refused"}, after \in RetryAfter \cup {NoDelay} :
    /\ status # "throttled" => after = NoDelay
    /\ call[c].pc = "sent" /\ call' = [call EXCEPT ![c] = Idle]
    /\ Seen(FetcherOf[c], status, after)
    /\ UNCHANGED <<env, shared, calls>>

(* A redirect is followed at once, without a turn of its own. *)
Redirect(c) ==
  /\ call[c].pc = "sent" /\ Seen(FetcherOf[c], "redirect", NoDelay)
  /\ IF call[c].hops < MaxRedirects THEN call' = [call EXCEPT ![c].hops = @ + 1]
     ELSE call' = [call EXCEPT ![c] = Idle]
  /\ UNCHANGED <<env, shared, calls>>

(* The address is unsafe, or there is no answer: the host is not observed. *)
Fail(c) ==
  /\ call[c].pc \in {"waiting", "sent"}
  /\ call' = [call EXCEPT ![c] = Idle]
  /\ UNCHANGED <<env, shared, host, calls>>

-----------------------------------------------------------------------------
(* Around the fetchers *)

Change == changes < MaxChanges /\ changes' = changes + 1

(* What a request for robots.txt would find from now on. *)
SiteChanges ==
  /\ Change
  /\ site' \in (Policies \cup Failures) \ {site}
  /\ openAt' = IF Allowed(site) THEN clock ELSE openAt
  /\ UNCHANGED <<clock, shared, host, call, calls>>

(* RobotsCache::forget, an operator's. *)
Forget ==
  /\ Change /\ shared # NoEntry /\ shared' = NoEntry
  /\ UNCHANGED <<clock, site, openAt, host, call, calls>>

Prompt == {"looking", "ready", "admitted"}   \* steps that take no time

Tick ==
  /\ clock < MaxTime /\ \A c \in Callers : call[c].pc \notin Prompt
  /\ clock' = clock + 1
  /\ UNCHANGED <<site, openAt, changes, shared, host, call, calls>>

Step(c) ==
  \/ UseOwn(c) \/ LookFurther(c) \/ UseShared(c) \/ AskSite(c) \/ SiteAnswers(c)
  \/ Refuse(c) \/ Admit(c) \/ TakeTurn(c) \/ Send(c)
  \/ Respond(c) \/ Redirect(c) \/ Fail(c)

Next == (\E c \in Callers : Step(c)) \/ SiteChanges \/ Forget \/ Tick

Spec == Init /\ [][Next]_vars

-----------------------------------------------------------------------------
(* Whatever callers share a fetcher, its turns at the host are apart by at  *)
(* least the delay the rules ask for, no answer brings one forward, and     *)
(* only rules read anew start over: the promise of Politeness::reserve.     *)
PacingMap == INSTANCE Pacing WITH
  slot <- [f \in Fetchers |-> host[f].next],
  turn <- [c \in Callers |-> IF call[c].pc = "waiting" THEN call[c].at ELSE Never],
  gap  <- [f \in Fetchers |-> IF host[f].fetched = Never THEN 0 ELSE CrawlDelay(host[f].answer)]

TurnsArePaced == PacingMap!Spec

(* A site that closes itself, or goes away, is let alone two lifetimes of   *)
(* its rules later: one the shared cache may keep them, and one more the    *)
(* fetcher that took them from it, whatever was asked and kept in between.  *)
ClosedIsLeftAlone ==
  [][\A c \in Callers : Admit(c) => Allowed(site) \/ clock - openAt <= 2 * Ttl]_vars
=============================================================================
