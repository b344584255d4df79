------------------------------- MODULE Revisit -------------------------------
(***************************************************************************)
(* When to visit a page again: how the interval of a page moves with what  *)
(* its visits find, and the record kept of it between visits.  Intervals   *)
(* are whole seconds, as the record stores them.                           *)
(***************************************************************************)
EXTENDS Integers

Hour == 3600
Day  == 24 * Hour

(* Consecutive changed visits at the floor after which a page is parked. *)
VolatileAfter == 4

(* The tier a source's trust, 0 to 100, puts its pages in. *)
ForTrust(trust) ==
  CASE trust >= 80 -> [floor |-> Hour,     ceiling |-> 3 * Day]
    [] trust \in 50 .. 79 -> [floor |-> 2 * Hour, ceiling |-> 14 * Day]
    [] OTHER -> [floor |-> 6 * Hour, ceiling |-> 30 * Day]

NoHash == "none"   \* no body was ever parsed, or no validator was ever sent

(* What a visit found.  A 304 has no body to compare. *)
Observations == {"changed", "unchanged", "not modified"}

FromHashes(previous, current) ==
  IF previous = NoHash \/ previous # current THEN "changed" ELSE "unchanged"

(* Visit::default: a page never visited. *)
NeverVisited == [interval |-> 0, changes |-> 0, hash |-> NoHash, etag |-> NoHash,
                 fetched |-> 0, volatile |-> FALSE]

Clamp(x, tier) ==
  IF x < tier.floor THEN tier.floor ELSE IF x > tier.ceiling THEN tier.ceiling ELSE x

(* Faulty: a quiet visit doubles the interval and nothing holds it in its tier. *)
NextUnclamped(current, observation, tier) ==
  IF observation = "changed" THEN current \div 2 ELSE 2 * current

(* Halved by a change, grown by one floor by a quiet visit. *)
NextInterval(current, observation, tier) ==
  Clamp(IF observation = "changed" THEN current \div 2 ELSE current + tier.floor, tier)

(* The changed visits made at the floor since the last quiet one. *)
CountChanges(changes, observation, atFloor) ==
  CASE observation = "changed" /\ atFloor -> changes + 1
    [] observation = "changed" /\ ~atFloor -> changes
    [] OTHER -> 0

(* Schedule::observe and Visit::record. *)
Record(visit, observation, tier, hash, now) ==
  LET current  == IF visit.interval = 0 THEN tier.floor ELSE visit.interval
      changes  == CountChanges(visit.changes, observation, current <= tier.floor)
      volatile == changes >= VolatileAfter
  IN  [visit EXCEPT
         !.interval = IF volatile THEN tier.ceiling
                      ELSE NextInterval(current, observation, tier),
         !.changes  = changes,
         !.volatile = volatile,
         !.fetched  = now,
         !.hash     = IF observation # "not modified" /\ hash # NoHash THEN hash ELSE @]

DueAt(visit) == visit.fetched + visit.interval

(* What a sitemap's lastmod says of a page; NoDate where the entry has none. *)
NoDate == 0 - 1

SitemapVerdict(lastmod, visit) ==
  IF lastmod = NoDate \/ visit.fetched <= 0 THEN "unknown"
  ELSE IF lastmod > visit.fetched THEN "changed" ELSE "unchanged"

(* Visits::apply_sitemap: what it writes back, given the record it read. *)
Applied(visit, verdict, tier, now) ==
  CASE verdict = "unchanged" -> Record(visit, "unchanged", tier, NoHash, now)
    [] verdict = "changed"   -> [visit EXCEPT !.interval = 0, !.fetched = 0]
    [] OTHER -> visit
=============================================================================
