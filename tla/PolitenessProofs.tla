-------------------------- MODULE PolitenessProofs --------------------------
(***************************************************************************)
(* Proofs about Politeness, for any number of fetchers and of callers that *)
(* share them, any rules a site may publish and any delays.                *)
(***************************************************************************)
EXTENDS Politeness, TLAPS

Answers == Policies \cup Failures
Pcs == {"idle", "looking", "asking", "ready", "admitted", "waiting", "sent"}

HostStates == [answer : Answers, fetched : Int, next : Nat, delay : Nat]

TypeOK ==
  /\ clock \in Nat /\ site \in Answers /\ openAt \in Nat
  /\ shared \in [answer : Answers, at : Int]
  /\ host \in [Fetchers -> HostStates]
  /\ call \in [Callers -> [pc : Pcs, at : Nat, hops : Nat]]

(* Nothing is dated ahead of the clock. *)
NotAhead ==
  /\ openAt <= clock /\ shared.at <= clock
  /\ \A f \in Fetchers : host[f].fetched <= clock
  /\ \A c \in Callers : call[c].pc = "asking" => call[c].at <= clock

(* A fetcher that has a host's rules is never faster than they ask. *)
NotFaster ==
  \A f \in Fetchers : host[f].fetched # Never => host[f].delay >= CrawlDelay(host[f].answer)

(* A caller past ensure_robots has rules, and until it is let in fresh ones. *)
HasRules ==
  \A c \in Callers :
    /\ call[c].pc \in {"ready", "admitted", "waiting", "sent"} => host[FetcherOf[c]].fetched # Never
    /\ call[c].pc = "ready" => clock - host[FetcherOf[c]].fetched <= Ttl

(* The last moment at which the site let us in, as far as it may still. *)
LastOpen == IF Allowed(site) THEN clock ELSE openAt

(* Rules that let us in were the site's when they were asked for, or for a  *)
(* fetcher's own at most one lifetime before it took them.                 *)
OpenOnce ==
  /\ Allowed(shared.answer) => shared.at <= LastOpen
  /\ \A f \in Fetchers : Allowed(host[f].answer) => host[f].fetched <= LastOpen + Ttl

Inv == TypeOK /\ NotAhead /\ NotFaster /\ HasRules /\ OpenOnce

-----------------------------------------------------------------------------
(* PolitenessAssumption, one fact at a time. *)
LEMMA Assumptions ==
  /\ FetcherOf \in [Callers -> Fetchers]
  /\ Open \subseteq Policies /\ DelayOf \in [Policies -> Nat] /\ RetryAfter \subseteq Nat
  /\ \A a \in Failures : a \notin Policies
  /\ Ttl \in Nat /\ DefaultDelay \in Nat /\ MaxDelay \in Nat
  /\ ThrottleMin \in Nat /\ ThrottleMax \in Nat /\ ErrorMax \in Nat
  /\ MaxDelay <= ThrottleMin /\ MaxDelay <= ErrorMax /\ ThrottleMin <= ThrottleMax
BY PolitenessAssumption

(* A refusal, and a site that cannot be reached, let nobody in. *)
LEMMA ClosedAnswers == ~ Allowed("refused") /\ ~ Allowed("unreachable")
BY Assumptions DEF Allowed, Failures

LEMMA CrawlDelayBound ==
  ASSUME NEW a \in Answers
  PROVE  CrawlDelay(a) \in Nat /\ CrawlDelay(a) <= MaxDelay
BY Assumptions DEF CrawlDelay, AtMost

(* The delay a response leaves is no shorter than the rules ask for. *)
LEMMA AdaptedBound ==
  ASSUME NEW h \in HostStates, h.delay >= CrawlDelay(h.answer),
         NEW status, NEW after \in Nat
  PROVE  /\ Adapted(h, status, after) \in Nat
         /\ Adapted(h, status, after) >= CrawlDelay(h.answer)
<1>1. /\ h.delay \in Nat /\ h.answer \in Answers
      /\ CrawlDelay(h.answer) \in Nat /\ CrawlDelay(h.answer) <= MaxDelay
  BY CrawlDelayBound DEF HostStates
<1>2. CASE status = "throttled"
  BY <1>1, <1>2, Assumptions DEF Adapted, AtLeast, AtMost
<1>3. CASE status = "error"
  BY <1>1, <1>3, Assumptions DEF Adapted, AtMost
<1>4. CASE status \in {"fetched", "redirect"}
  <2>1. (9 * h.delay) \div 10 \in Nat
    BY <1>1
  <2> DEFINE r == (9 * h.delay) \div 10
  <2> HIDE DEF r
  <2>2. r \in Nat
    BY <2>1 DEF r
  <2>3. Relaxed(h) = AtLeast(r, CrawlDelay(h.answer))
    BY DEF Relaxed, r
  <2>4. Relaxed(h) \in Nat /\ Relaxed(h) >= CrawlDelay(h.answer)
    BY <1>1, <2>2, <2>3 DEF AtLeast
  <2> QED
    BY <1>4, <2>4 DEF Adapted
<1>5. CASE status \notin {"throttled", "error", "fetched", "redirect"}
  BY <1>1, <1>5 DEF Adapted
<1> QED
  BY <1>2, <1>3, <1>4, <1>5

(* What Seen and SetRules make of a HostState. *)
LEMMA SeenEffect ==
  ASSUME Inv, NEW f \in Fetchers, host[f].fetched # Never, NEW status, NEW after \in Nat,
         Seen(f, status, after)
  PROVE  /\ host' \in [Fetchers -> HostStates]
         /\ host'[f].answer = host[f].answer /\ host'[f].fetched = host[f].fetched
         /\ host'[f].next >= host[f].next
         /\ host'[f].delay >= CrawlDelay(host[f].answer)
         /\ \A g \in Fetchers \ {f} : host'[g] = host[g]
<1> DEFINE d == Adapted(host[f], status, after)
           h == [host[f] EXCEPT !.delay = d]
<1>1. host[f] \in HostStates /\ clock \in Nat
  BY DEF Inv, TypeOK
<1>2. host[f].delay >= CrawlDelay(host[f].answer)
  BY DEF Inv, NotFaster
<1>3. d \in Nat /\ d >= CrawlDelay(host[f].answer)
  BY <1>1, <1>2, AdaptedBound
<1> HIDE DEF d
<1>4. /\ h \in HostStates /\ h.answer = host[f].answer /\ h.fetched = host[f].fetched
      /\ h.next = host[f].next /\ h.delay = d
  BY <1>1, <1>3 DEF HostStates
<1> HIDE DEF h
<1>5. host' = [host EXCEPT ![f] = Recorded(h)]
  BY DEF Seen, h, d
<1>6. /\ Recorded(h) \in HostStates /\ Recorded(h).answer = h.answer
      /\ Recorded(h).fetched = h.fetched /\ Recorded(h).next >= h.next
      /\ Recorded(h).delay = h.delay
  BY <1>1, <1>4 DEF Recorded, HostStates, AtLeast
<1> QED
  BY <1>3, <1>4, <1>5, <1>6 DEF Inv, TypeOK

LEMMA SetRulesEffect ==
  ASSUME Inv, NEW f \in Fetchers, NEW a \in Answers, SetRules(f, a)
  PROVE  /\ host' \in [Fetchers -> HostStates]
         /\ host'[f].answer = a /\ host'[f].fetched = clock
         /\ host'[f].delay >= CrawlDelay(a)
         /\ \A g \in Fetchers \ {f} : host'[g] = host[g]
BY CrawlDelayBound DEF Inv, TypeOK, SetRules, HostStates

-----------------------------------------------------------------------------
(* Inv is inductive. *)
LEMMA InvInit == Init => Inv
BY Assumptions, ClosedAnswers
   DEF Init, Inv, TypeOK, NotAhead, NotFaster, HasRules, OpenOnce, HostStates, Answers, Failures,
       Pcs, Idle, NoHost, NoEntry, Never

(* A step that moves one caller and leaves the rest alone. *)
LEMMA CallOnly ==
  ASSUME Inv, NEW c \in Callers, UNCHANGED <<clock, site, openAt, shared, host>>,
         NEW r \in [pc : Pcs, at : Nat, hops : Nat], call' = [call EXCEPT ![c] = r],
         r.pc = "asking" => r.at <= clock,
         r.pc \in {"ready", "admitted", "waiting", "sent"} => host[FetcherOf[c]].fetched # Never,
         r.pc = "ready" => clock - host[FetcherOf[c]].fetched <= Ttl
  PROVE  Inv'
<1>1. \A d \in Callers : call'[d] = IF d = c THEN r ELSE call[d]
  BY DEF Inv, TypeOK
<1>2. TypeOK'
  BY DEF Inv, TypeOK
<1>3. NotAhead' /\ HasRules'
  BY <1>1 DEF Inv, NotAhead, HasRules
<1>4. NotFaster' /\ OpenOnce'
  BY DEF Inv, NotFaster, OpenOnce, LastOpen
<1> QED
  BY <1>2, <1>3, <1>4 DEF Inv

(* A caller that takes rules its fetcher may keep for a lifetime. *)
LEMMA RulesTaken ==
  ASSUME Inv, NEW c \in Callers, NEW a \in Answers, SetRules(FetcherOf[c], a),
         UNCHANGED <<clock, site, openAt>>, shared' \in [answer : Answers, at : Int],
         shared'.at <= clock, Allowed(shared'.answer) => shared'.at <= LastOpen,
         Allowed(a) => clock <= LastOpen + Ttl,
         NEW r \in [pc : Pcs, at : Nat, hops : Nat], r.pc = "ready",
         call' = [call EXCEPT ![c] = r]
  PROVE  Inv'
<1> DEFINE f == FetcherOf[c]
<1>1. f \in Fetchers /\ clock \in Nat /\ Ttl \in Nat
  BY Assumptions DEF Inv, TypeOK
<1>2. /\ host' \in [Fetchers -> HostStates]
      /\ host'[f].answer = a /\ host'[f].fetched = clock
      /\ host'[f].delay >= CrawlDelay(a)
      /\ \A g \in Fetchers \ {f} : host'[g] = host[g]
  BY <1>1, SetRulesEffect
<1>3. \A d \in Callers : call'[d] = IF d = c THEN r ELSE call[d]
  BY DEF Inv, TypeOK
<1>4. TypeOK'
  BY <1>2 DEF Inv, TypeOK
<1>5. NotAhead'
  BY <1>1, <1>2, <1>3 DEF Inv, NotAhead
<1>6. NotFaster'
  BY <1>2 DEF Inv, NotFaster
<1>7. HasRules'
  <2> SUFFICES ASSUME NEW d \in Callers
               PROVE  /\ call'[d].pc \in {"ready", "admitted", "waiting", "sent"}
                           => host'[FetcherOf[d]].fetched # Never
                      /\ call'[d].pc = "ready" => clock - host'[FetcherOf[d]].fetched <= Ttl
    BY DEF HasRules
  <2>1. FetcherOf[d] \in Fetchers
    BY Assumptions
  <2>2. CASE FetcherOf[d] = f
    BY <1>1, <1>2, <2>2 DEF Never
  <2>3. CASE FetcherOf[d] # f
    BY <1>2, <1>3, <2>1, <2>3 DEF Inv, HasRules
  <2> QED
    BY <2>2, <2>3
<1>8. OpenOnce'
  BY <1>1, <1>2 DEF Inv, OpenOnce, LastOpen
<1> QED
  BY <1>4, <1>5, <1>6, <1>7, <1>8 DEF Inv

(* A change to one host's slot and delay, with the caller that made it. *)
LEMMA HostAdjusted ==
  ASSUME Inv, NEW c \in Callers, UNCHANGED <<clock, site, openAt, shared>>,
         host' \in [Fetchers -> HostStates],
         \A f \in Fetchers : /\ host'[f].answer = host[f].answer
                             /\ host'[f].fetched = host[f].fetched
                             /\ host'[f].fetched # Never => host'[f].delay >= CrawlDelay(host'[f].answer),
         NEW r \in [pc : Pcs, at : Nat, hops : Nat], r.pc \in {"idle", "waiting", "sent"},
         call[c].pc \in {"admitted", "waiting", "sent"}, call' = [call EXCEPT ![c] = r]
  PROVE  Inv'
<1>1. \A d \in Callers : call'[d] = IF d = c THEN r ELSE call[d]
  BY DEF Inv, TypeOK
<1>2. \A d \in Callers : FetcherOf[d] \in Fetchers
  BY Assumptions
<1>3. TypeOK' /\ NotAhead' /\ NotFaster'
  BY <1>1 DEF Inv, TypeOK, NotAhead, NotFaster
<1>4. HasRules'
  BY <1>1, <1>2 DEF Inv, HasRules
<1>5. OpenOnce'
  BY DEF Inv, OpenOnce, LastOpen
<1> QED
  BY <1>3, <1>4, <1>5 DEF Inv

LEMMA InvStep ==
  ASSUME Inv, [Next]_vars
  PROVE  Inv'
<1>0. /\ clock \in Nat /\ openAt \in Nat /\ site \in Answers /\ Ttl \in Nat
      /\ shared \in [answer : Answers, at : Int] /\ host \in [Fetchers -> HostStates]
      /\ call \in [Callers -> [pc : Pcs, at : Nat, hops : Nat]]
  BY Assumptions DEF Inv, TypeOK
<1>1. ASSUME NEW c \in Callers, Step(c) PROVE Inv'
  <2> DEFINE f == FetcherOf[c]
  <2>0. f \in Fetchers /\ call[c] \in [pc : Pcs, at : Nat, hops : Nat] /\ host[f] \in HostStates
    BY <1>0, Assumptions
  <2>1. CASE UseOwn(c)
    <3> DEFINE r == [call[c] EXCEPT !.pc = "ready"]
    <3>1. r \in [pc : Pcs, at : Nat, hops : Nat] /\ r.pc = "ready"
      BY <2>0 DEF Pcs
    <3>2. /\ UNCHANGED <<clock, site, openAt, shared, host>> /\ call' = [call EXCEPT ![c] = r]
          /\ host[f].fetched # Never /\ ~ (clock - host[f].fetched > Ttl)
      BY <2>1, <1>0 DEF UseOwn, Go, RulesStale, env
    <3>3. clock - host[f].fetched <= Ttl
      BY <3>2, <1>0, <2>0 DEF HostStates
    <3> QED
      BY <3>1, <3>2, <3>3, CallOnly
  <2>2. CASE LookFurther(c)
    <3> DEFINE r == [call[c] EXCEPT !.pc = "looking"]
    <3>1. r \in [pc : Pcs, at : Nat, hops : Nat] /\ r.pc = "looking"
      BY <2>0 DEF Pcs
    <3>2. UNCHANGED <<clock, site, openAt, shared, host>> /\ call' = [call EXCEPT ![c] = r]
      BY <2>2, <1>0 DEF LookFurther, Go, env
    <3> QED
      BY <3>1, <3>2, CallOnly
  <2>3. CASE UseShared(c)
    <3> DEFINE r == [call[c] EXCEPT !.pc = "ready"]
    <3>1. r \in [pc : Pcs, at : Nat, hops : Nat] /\ r.pc = "ready" /\ call' = [call EXCEPT ![c] = r]
      BY <1>0, <2>0, <2>3 DEF Pcs, UseShared, Go
    <3>2. SetRules(f, shared.answer) /\ UNCHANGED <<clock, site, openAt, shared>>
      BY <2>3 DEF UseShared, env
    <3>3. shared.answer \in Answers /\ shared.at \in Int /\ clock - shared.at <= Ttl
      BY <1>0, <2>3 DEF UseShared, SharedFresh
    <3>4. shared.at <= clock /\ (Allowed(shared.answer) => shared.at <= LastOpen)
      BY DEF Inv, NotAhead, OpenOnce
    <3>5. Allowed(shared.answer) => clock <= LastOpen + Ttl
      BY <1>0, <3>3, <3>4 DEF LastOpen
    <3> QED
      BY <1>0, <3>1, <3>2, <3>3, <3>4, <3>5, RulesTaken
  <2>4. CASE AskSite(c)
    <3> DEFINE r == [Idle EXCEPT !.pc = "asking", !.at = clock]
    <3>1. r \in [pc : Pcs, at : Nat, hops : Nat] /\ r.pc = "asking" /\ r.at = clock
      BY <1>0 DEF Pcs, Idle
    <3>2. UNCHANGED <<clock, site, openAt, shared, host>> /\ call' = [call EXCEPT ![c] = r]
      BY <2>4 DEF AskSite, env
    <3> HIDE DEF r
    <3>3. r.at <= clock /\ r.pc \notin {"ready", "admitted", "waiting", "sent"}
      BY <1>0, <3>1
    <3> QED
      BY <3>1, <3>2, <3>3, CallOnly
  <2>5. CASE SiteAnswers(c)
    <3> DEFINE r == [Idle EXCEPT !.pc = "ready"]
    <3>1. r \in [pc : Pcs, at : Nat, hops : Nat] /\ r.pc = "ready" /\ call' = [call EXCEPT ![c] = r]
      BY <2>5 DEF Pcs, Idle, SiteAnswers
    <3>2. SetRules(f, site) /\ UNCHANGED <<clock, site, openAt>> /\ call[c].pc = "asking"
      BY <2>5 DEF SiteAnswers, env
    <3>3. call[c].at <= clock
      BY <3>2 DEF Inv, NotAhead
    <3>4. Allowed(site) => LastOpen = clock
      BY DEF LastOpen
    <3>5. shared' = [answer |-> site, at |-> call[c].at] \/ shared' = shared
      BY <2>5 DEF SiteAnswers
    <3>6. /\ shared' \in [answer : Answers, at : Int] /\ shared'.at <= clock
          /\ Allowed(shared'.answer) => shared'.at <= LastOpen
      BY <1>0, <2>0, <3>3, <3>4, <3>5 DEF Inv, NotAhead, OpenOnce
    <3>7. Allowed(site) => clock <= LastOpen + Ttl
      BY <1>0, <3>4
    <3> QED
      BY <1>0, <3>1, <3>2, <3>6, <3>7, RulesTaken
  <2>6. CASE Refuse(c)
    <3> DEFINE r == [call[c] EXCEPT !.pc = "idle"]
    <3>1. r \in [pc : Pcs, at : Nat, hops : Nat] /\ r.pc = "idle"
      BY <2>0 DEF Pcs
    <3>2. UNCHANGED <<clock, site, openAt, shared, host>> /\ call' = [call EXCEPT ![c] = r]
      BY <2>6, <1>0 DEF Refuse, Go, env
    <3> QED
      BY <3>1, <3>2, CallOnly
  <2>7. CASE Admit(c)
    <3> DEFINE r == [call[c] EXCEPT !.pc = "admitted"]
    <3>1. r \in [pc : Pcs, at : Nat, hops : Nat] /\ r.pc = "admitted"
      BY <2>0 DEF Pcs
    <3>2. /\ UNCHANGED <<clock, site, openAt, shared, host>> /\ call' = [call EXCEPT ![c] = r]
          /\ call[c].pc = "ready"
      BY <2>7, <1>0 DEF Admit, Go, env
    <3>3. host[f].fetched # Never
      BY <3>2 DEF Inv, HasRules
    <3> QED
      BY <3>1, <3>2, <3>3, CallOnly
  <2>8. CASE TakeTurn(c)
    <3> DEFINE r == [call[c] EXCEPT !.pc = "waiting", !.at = Turn(f)]
    <3>1. Turn(f) \in Nat
      BY <1>0, <2>0 DEF Turn, AtLeast, HostStates
    <3>2. r \in [pc : Pcs, at : Nat, hops : Nat] /\ r.pc = "waiting"
      BY <2>0, <3>1 DEF Pcs
    <3>3. call' = [call EXCEPT ![c] = r] /\ call[c].pc = "admitted"
      BY <1>0, <2>8 DEF TakeTurn
    <3>4. host' = [host EXCEPT ![f].next = Turn(f) + host[f].delay]
      BY <2>8 DEF TakeTurn, Reserve
    <3>5. /\ host' \in [Fetchers -> HostStates]
          /\ \A g \in Fetchers : /\ host'[g].answer = host[g].answer
                                 /\ host'[g].fetched = host[g].fetched
                                 /\ host'[g].delay = host[g].delay
      BY <1>0, <2>0, <3>1, <3>4 DEF HostStates
    <3>6. UNCHANGED <<clock, site, openAt, shared>>
      BY <2>8 DEF TakeTurn, env
    <3>7. \A g \in Fetchers : host[g].fetched # Never => host[g].delay >= CrawlDelay(host[g].answer)
      BY DEF Inv, NotFaster
    <3> QED
      BY <3>2, <3>3, <3>5, <3>6, <3>7, HostAdjusted
  <2>9. CASE Send(c)
    <3> DEFINE r == [Idle EXCEPT !.pc = "sent"]
    <3>1. r \in [pc : Pcs, at : Nat, hops : Nat] /\ r.pc = "sent"
      BY DEF Pcs, Idle
    <3>2. /\ UNCHANGED <<clock, site, openAt, shared, host>> /\ call' = [call EXCEPT ![c] = r]
          /\ call[c].pc = "waiting"
      BY <2>9, <1>0 DEF Send, env
    <3>3. host[f].fetched # Never
      BY <3>2 DEF Inv, HasRules
    <3> QED
      BY <3>1, <3>2, <3>3, CallOnly
  <2>10. CASE Respond(c) \/ Redirect(c)
    <3>1. PICK status, after : after \in Nat /\ Seen(f, status, after)
      <4>1. NoDelay \in Nat /\ RetryAfter \subseteq Nat
        BY Assumptions DEF NoDelay
      <4>2. CASE Respond(c)
        BY <4>1, <4>2 DEF Respond
      <4>3. CASE Redirect(c)
        BY <4>1, <4>3 DEF Redirect
      <4> QED
        BY <2>10, <4>2, <4>3
    <3>2. /\ call[c].pc = "sent" /\ UNCHANGED <<clock, site, openAt, shared>>
      BY <2>10 DEF Respond, Redirect, env
    <3>3. PICK r \in [pc : Pcs, at : Nat, hops : Nat] :
            r.pc \in {"idle", "waiting", "sent"} /\ call' = [call EXCEPT ![c] = r]
      <4>1. CASE Respond(c)
        BY <4>1 DEF Respond, Idle, Pcs
      <4>2. CASE Redirect(c)
        <5> DEFINE r == [call[c] EXCEPT !.hops = call[c].hops + 1]
        <5>1. r \in [pc : Pcs, at : Nat, hops : Nat] /\ r.pc = "sent"
          BY <2>0, <3>2
        <5>2. Idle \in [pc : Pcs, at : Nat, hops : Nat] /\ Idle.pc = "idle"
          BY DEF Idle, Pcs
        <5>3. call' = [call EXCEPT ![c] = r] \/ call' = [call EXCEPT ![c] = Idle]
          BY <1>0, <4>2 DEF Redirect
        <5> HIDE DEF r
        <5> QED
          BY <5>1, <5>2, <5>3
      <4> QED
        BY <2>10, <4>1, <4>2
    <3>4. host[f].fetched # Never
      BY <3>2 DEF Inv, HasRules
    <3>5. /\ host' \in [Fetchers -> HostStates]
          /\ host'[f].answer = host[f].answer /\ host'[f].fetched = host[f].fetched
          /\ host'[f].delay >= CrawlDelay(host[f].answer)
          /\ \A g \in Fetchers \ {f} : host'[g] = host[g]
      BY <2>0, <3>1, <3>4, SeenEffect
    <3>6. \A g \in Fetchers : host[g].fetched # Never => host[g].delay >= CrawlDelay(host[g].answer)
      BY DEF Inv, NotFaster
    <3> QED
      BY <3>2, <3>3, <3>5, <3>6, HostAdjusted
  <2>11. CASE Fail(c)
    <3>1. Idle \in [pc : Pcs, at : Nat, hops : Nat] /\ Idle.pc = "idle"
      BY DEF Pcs, Idle
    <3>2. UNCHANGED <<clock, site, openAt, shared, host>> /\ call' = [call EXCEPT ![c] = Idle]
      BY <2>11 DEF Fail, env
    <3> QED
      BY <3>1, <3>2, CallOnly
  <2> QED
    BY <1>1, <2>1, <2>2, <2>3, <2>4, <2>5, <2>6, <2>7, <2>8, <2>9, <2>10, <2>11 DEF Step
<1>2. CASE SiteChanges
  <2>1. /\ site' \in Answers /\ UNCHANGED <<clock, shared, host, call>>
        /\ openAt' = IF Allowed(site) THEN clock ELSE openAt
    BY <1>2 DEF SiteChanges, Answers
  <2>2. openAt' \in Nat /\ openAt' <= clock
    BY <1>0, <2>1 DEF Inv, NotAhead
  <2>3. LastOpen' >= LastOpen /\ LastOpen \in Nat /\ LastOpen' \in Nat
    BY <1>0, <2>1, <2>2 DEF LastOpen
  <2>4. TypeOK' /\ NotAhead' /\ NotFaster' /\ HasRules'
    BY <2>1, <2>2 DEF Inv, TypeOK, NotAhead, NotFaster, HasRules
  <2>5. OpenOnce'
    BY <1>0, <2>1, <2>3 DEF Inv, OpenOnce, HostStates
  <2> QED
    BY <2>4, <2>5 DEF Inv
<1>3. CASE Forget
  BY <1>0, <1>3, ClosedAnswers
     DEF Forget, Inv, TypeOK, NotAhead, NotFaster, HasRules, OpenOnce, LastOpen, NoEntry, Never,
         Answers, Failures
<1>4. CASE Tick
  <2>1. clock' = clock + 1 /\ UNCHANGED <<site, openAt, shared, host, call>>
    BY <1>4 DEF Tick
  <2>2. \A c \in Callers : call[c].pc # "ready"
    BY <1>4 DEF Tick, Prompt
  <2>3. TypeOK' /\ NotFaster' /\ HasRules'
    BY <1>0, <2>1, <2>2 DEF Inv, TypeOK, NotFaster, HasRules
  <2>4. NotAhead'
    BY <1>0, <2>1 DEF Inv, NotAhead, HostStates
  <2>5. LastOpen' >= LastOpen /\ LastOpen \in Nat /\ LastOpen' \in Nat
    BY <1>0, <2>1 DEF LastOpen
  <2>6. OpenOnce'
    BY <1>0, <2>1, <2>5 DEF Inv, OpenOnce, HostStates
  <2> QED
    BY <2>3, <2>4, <2>6 DEF Inv
<1>5. CASE UNCHANGED vars
  BY <1>5 DEF vars, env, Inv, TypeOK, NotAhead, NotFaster, HasRules, OpenOnce, LastOpen
<1> QED
  BY <1>1, <1>2, <1>3, <1>4, <1>5 DEF Next

THEOREM Invariance == Spec => []Inv
BY InvInit, InvStep, PTL DEF Spec

-----------------------------------------------------------------------------
(* An action is let in only where the site let us in two lifetimes ago or   *)
(* later: property ClosedIsLeftAlone of the runs.                           *)
LEMMA AdmitStep ==
  ASSUME Inv, NEW c \in Callers, Admit(c)
  PROVE  Allowed(site) \/ clock - openAt <= 2 * Ttl
<1> DEFINE f == FetcherOf[c]
<1>1. f \in Fetchers /\ clock \in Nat /\ openAt \in Nat /\ Ttl \in Nat /\ host[f].fetched \in Int
  BY Assumptions DEF Inv, TypeOK, HostStates
<1>2. Allowed(host[f].answer) /\ call[c].pc = "ready"
  BY DEF Admit, Go
<1>3. clock - host[f].fetched <= Ttl
  BY <1>2 DEF Inv, HasRules
<1>4. host[f].fetched <= LastOpen + Ttl
  BY <1>1, <1>2 DEF Inv, OpenOnce
<1>5. CASE ~ Allowed(site)
  BY <1>1, <1>3, <1>4, <1>5 DEF LastOpen
<1> QED
  BY <1>5

(* A site that closes itself is let alone two lifetimes of its rules later, *)
(* whatever the shared cache and the fetchers' own rules hold.              *)
THEOREM ClosedSitesAreLeftAlone == Spec => ClosedIsLeftAlone
<1>1. Inv /\ [Next]_vars
      => [\A c \in Callers : Admit(c) => Allowed(site) \/ clock - openAt <= 2 * Ttl]_vars
  BY AdmitStep
<1> QED
  BY <1>1, Invariance, PTL DEF Spec, ClosedIsLeftAlone

-----------------------------------------------------------------------------
(* Every step of the fetchers is a step of Pacing, or none. *)
LEMMA PacingInit == Init => PacingMap!Init
BY DEF Init, PacingMap!Init, PacingMap!NoTurn, NoHost, Idle, Never

LEMMA PacingStep ==
  ASSUME Inv, [Next]_vars
  PROVE  [PacingMap!Next]_PacingMap!vars
<1> DEFINE slot == [f \in Fetchers |-> host[f].next]
           turn == [c \in Callers |-> IF call[c].pc = "waiting" THEN call[c].at ELSE Never]
           gap == [f \in Fetchers |-> IF host[f].fetched = Never THEN 0 ELSE CrawlDelay(host[f].answer)]
<1>0. /\ clock \in Nat /\ host \in [Fetchers -> HostStates]
      /\ call \in [Callers -> [pc : Pcs, at : Nat, hops : Nat]]
      /\ FetcherOf \in [Callers -> Fetchers]
  BY Assumptions DEF Inv, TypeOK
<1>1. ASSUME NEW c \in Callers, Step(c) PROVE PacingMap!Next \/ UNCHANGED PacingMap!vars
  <2> DEFINE f == FetcherOf[c]
  <2>0. f \in Fetchers
    BY <1>0
  <2>1. CASE UseOwn(c) \/ LookFurther(c) \/ AskSite(c) \/ Refuse(c) \/ Admit(c)
    <3>1. /\ host' = host
          /\ \A d \in Callers : call'[d].pc = "waiting" <=> call[d].pc = "waiting"
          /\ \A d \in Callers : call[d].pc = "waiting" => call'[d] = call[d]
      BY <1>0, <2>1 DEF UseOwn, LookFurther, AskSite, Refuse, Admit, Go, Idle
    <3> QED
      BY <3>1 DEF PacingMap!vars
  <2>2. CASE UseShared(c) \/ SiteAnswers(c)
    <3>1. \A g \in Fetchers \ {f} : host'[g] = host[g]
      BY <1>0, <2>2 DEF UseShared, SiteAnswers, SetRules
    <3>2. /\ \A d \in Callers : call'[d].pc = "waiting" <=> call[d].pc = "waiting"
          /\ \A d \in Callers : call[d].pc = "waiting" => call'[d] = call[d]
      BY <1>0, <2>2 DEF UseShared, SiteAnswers, Go, Idle
    <3>3. PacingMap!ReadRules(f)
      BY <2>0, <3>1, <3>2 DEF PacingMap!ReadRules, PacingMap!Others
    <3> QED
      BY <2>0, <3>3 DEF PacingMap!Next
  <2>3. CASE TakeTurn(c)
    <3>1. /\ call[c].pc = "admitted" /\ call'[c].pc = "waiting" /\ call'[c].at = Turn(f)
          /\ \A d \in Callers \ {c} : call'[d] = call[d]
      BY <1>0, <2>3 DEF TakeTurn
    <3>2. /\ host'[f].next = Turn(f) + host[f].delay
          /\ \A g \in Fetchers \ {f} : host'[g] = host[g]
          /\ \A g \in Fetchers : host'[g].fetched = host[g].fetched /\ host'[g].answer = host[g].answer
      BY <1>0, <2>0, <2>3 DEF TakeTurn, Reserve, HostStates
    <3>3. Turn(f) \in Nat /\ Turn(f) >= host[f].next /\ host[f].delay \in Nat
      BY <1>0, <2>0 DEF Turn, AtLeast, HostStates
    <3>4. host[f].fetched # Never /\ host[f].delay >= CrawlDelay(host[f].answer)
      BY <2>0, <3>1 DEF Inv, HasRules, NotFaster
    <3>5. CrawlDelay(host[f].answer) \in Nat
      BY <1>0, <2>0, CrawlDelayBound DEF HostStates
    <3>6. /\ turn[c] = Never /\ turn'[c] = Turn(f) /\ \A d \in Callers \ {c} : turn'[d] = turn[d]
      BY <3>1
    <3>7. /\ slot[f] = host[f].next /\ slot'[f] = Turn(f) + host[f].delay
          /\ \A g \in Fetchers \ {f} : slot'[g] = slot[g]
          /\ gap[f] = CrawlDelay(host[f].answer) /\ gap' = gap
      BY <2>0, <3>2, <3>4
    <3> HIDE DEF slot, turn, gap
    <3>8. slot'[f] >= turn'[c] + gap[f] /\ turn'[c] >= slot[f]
      BY <3>3, <3>4, <3>5, <3>6, <3>7
    <3>9. PacingMap!TakeTurn(c)
      BY <3>6, <3>7, <3>8
         DEF PacingMap!TakeTurn, PacingMap!Others, PacingMap!NoTurn, Never, slot, turn, gap
    <3> QED
      BY <3>9 DEF PacingMap!Next
  <2>4. CASE Send(c) \/ Fail(c)
    <3>1. /\ host' = host /\ call'[c].pc # "waiting"
          /\ \A d \in Callers \ {c} : call'[d] = call[d]
      BY <1>0, <2>4 DEF Send, Fail, Idle
    <3>2. PacingMap!EndTurn(c)
      BY <3>1 DEF PacingMap!EndTurn, PacingMap!NoTurn, Never
    <3> QED
      BY <3>2 DEF PacingMap!Next
  <2>5. CASE Respond(c) \/ Redirect(c)
    <3>1. PICK status, after : after \in Nat /\ Seen(f, status, after)
      <4>1. NoDelay \in Nat /\ RetryAfter \subseteq Nat
        BY Assumptions DEF NoDelay
      <4>2. CASE Respond(c)
        BY <4>1, <4>2 DEF Respond
      <4>3. CASE Redirect(c)
        BY <4>1, <4>3 DEF Redirect
      <4> QED
        BY <2>5, <4>2, <4>3
    <3>2. /\ call[c].pc = "sent" /\ call'[c].pc \in {"idle", "sent"}
          /\ \A d \in Callers \ {c} : call'[d] = call[d]
      BY <1>0, <2>5 DEF Respond, Redirect, Idle
    <3>3. host[f].fetched # Never
      BY <3>2 DEF Inv, HasRules
    <3>4. /\ host'[f].answer = host[f].answer /\ host'[f].fetched = host[f].fetched
          /\ host'[f].next >= host[f].next
          /\ \A g \in Fetchers \ {f} : host'[g] = host[g]
      BY <2>0, <3>1, <3>3, SeenEffect
    <3>5. PacingMap!Postpone(f)
      BY <2>0, <3>2, <3>4 DEF PacingMap!Postpone, PacingMap!Others
    <3> QED
      BY <2>0, <3>5 DEF PacingMap!Next
  <2> QED
    BY <1>1, <2>1, <2>2, <2>3, <2>4, <2>5 DEF Step
<1>2. CASE SiteChanges \/ Forget \/ Tick \/ UNCHANGED vars
  BY <1>2 DEF SiteChanges, Forget, Tick, vars, env, PacingMap!vars
<1> QED
  BY <1>1, <1>2 DEF Next

(* The fetchers implement Pacing: property TurnsArePaced of the runs. *)
THEOREM FetchersArePaced == Spec => TurnsArePaced
BY Invariance, PacingInit, PacingStep, PTL DEF Spec, TurnsArePaced, PacingMap!Spec
=============================================================================
