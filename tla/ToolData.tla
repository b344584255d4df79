-------------------------------- MODULE ToolData --------------------------------
(***************************************************************************)
(* The tool data plane: a process that asks a publisher for a reading of    *)
(* each place, pass after pass, and puts those it can believe into a cache; *)
(* the card the API makes of what is there; and the sampler that tells how  *)
(* old the oldest entry is.  Ages are in ticks and count from when the      *)
(* publisher measured.  The fetcher may stop at any moment and be started   *)
(* again, and the publisher may say anything at all.                       *)
(***************************************************************************)
EXTENDS Integers, FiniteSetsExt

CONSTANTS Places,
          Readings,   \* temperatures the publisher may say it measured
          Coldest, Hottest, \* what a temperature can be
          MaxJump,    \* how far it may move between two readings
          Lags,       \* how old a reading may be, or how far in the future
          MaxLag,     \* the oldest that is accepted
          Skew,       \* how far in the future it may be, for clocks that differ
          MaxLate,    \* how many ticks a pass takes at most
          Limit,      \* past this a value is not shown
          Ttl         \* past this the cache has forgotten it

(* Lags are whole ticks, and times are natural numbers. *)
ToolDataAssumption == Lags \subseteq Int /\ Limit \in Nat /\ Ttl \in Nat

VARIABLES
  cache,   \* for each place, what was last believed
  pass,    \* where the fetcher is in its pass, what it read before, and how
           \* late it is: it looks at the clock only when it begins
  sample,  \* where the sampler is in its scan, and the oldest age so far
  gauge,   \* the age it published last
  told     \* it has read all there was since the last tick, and since the
           \* last reading that was too old when it was made

vars == <<cache, pass, sample, gauge, told>>

Nothing == [value |-> 0, age |-> 0, left |-> 0]
Stopped == [at |-> "stopped", place |-> {}, previous |-> {}, rest |-> {}, late |-> 0]
Unknown == 0 - 1
Idle    == [at |-> "idle", rest |-> {}, oldest |-> Unknown, missed |-> FALSE]

Cached(place) == cache[place].left > 0
Ages          == (0 - Skew) .. Ttl + MaxLag + MaxLate
Age(place)    == IF cache[place].age > 0 THEN cache[place].age ELSE 0

TypeOK ==
  /\ cache \in [Places -> [value : Readings \cup {0}, age : Ages, left : 0 .. Ttl]]
  /\ pass.at \in {"stopped", "reading", "asking"} /\ pass.rest \subseteq Places /\ pass.previous \subseteq Readings
  /\ pass.late \in 0 .. MaxLate
  /\ sample.at \in {"idle", "scanning"} /\ sample.rest \subseteq Places /\ sample.oldest \in (Ages \cap Nat) \cup {Unknown}
  /\ gauge \in (Ages \cap Nat) \cup {Unknown} /\ told \in BOOLEAN

Init ==
  /\ cache = [p \in Places |-> Nothing]
  /\ pass = Stopped /\ sample = Idle /\ gauge = Unknown /\ told = FALSE

-----------------------------------------------------------------------------
(* A pass of the fetcher. *)

StartPass ==
  /\ pass.at = "stopped"
  /\ pass' = [Stopped EXCEPT !.at = "reading", !.rest = Places]
  /\ UNCHANGED <<cache, sample, gauge, told>>

(* The place's last value; none where the cache could not be read. *)
ReadPrevious ==
  /\ pass.at = "reading" /\ pass.rest # {}
  /\ \E p \in pass.rest, known \in {FALSE, TRUE} :
       pass' = [pass EXCEPT !.at = "asking", !.place = {p}, !.rest = @ \ {p},
                            !.previous = IF known /\ Cached(p) THEN {cache[p].value} ELSE {}]
  /\ UNCHANGED <<cache, sample, gauge, told>>

(* What can be believed (build): a time that was not long past when the     *)
(* pass began, nor ahead by more than clocks differ, a temperature there    *)
(* is, and not far from the last.                                           *)
Timely(lag, late) == lag - late \in (0 - Skew) .. MaxLag
Bounded(value) == value \in Coldest .. Hottest
Moved(value, previous) == \E last \in previous : value - last > MaxJump \/ last - value > MaxJump
Believed(value, lag) == Timely(lag, pass.late) /\ Bounded(value) /\ ~Moved(value, pass.previous)

NextPlace == pass' = [pass EXCEPT !.at = "reading", !.place = {}, !.previous = {}]

Answered ==
  /\ pass.at = "asking"
  /\ \E value \in Readings, lag \in Lags :
       /\ Believed(value, lag)
       /\ cache' = [p \in Places |-> IF p \in pass.place THEN [value |-> value, age |-> lag, left |-> Ttl] ELSE cache[p]]
       /\ told' = (told /\ lag <= Limit)
       /\ sample' = [sample EXCEPT !.missed = @ \/ lag > Limit]
  /\ NextPlace
  /\ UNCHANGED gauge

(* The publisher cannot be asked, what it says is not believed, or the      *)
(* cache cannot be written: the last value is kept.                        *)
Kept ==
  /\ pass.at = "asking"
  /\ NextPlace
  /\ UNCHANGED <<cache, sample, gauge, told>>

EndPass ==
  /\ pass.at = "reading" /\ pass.rest = {}
  /\ pass' = Stopped
  /\ UNCHANGED <<cache, sample, gauge, told>>

Crash ==
  /\ pass.at # "stopped"
  /\ pass' = Stopped
  /\ UNCHANGED <<cache, sample, gauge, told>>

-----------------------------------------------------------------------------
(* A scan of the sampler; a tick does not pass in the midst of it. *)

StartScan ==
  /\ sample.at = "idle"
  /\ sample' = [Idle EXCEPT !.at = "scanning", !.rest = Places]
  /\ UNCHANGED <<cache, pass, gauge, told>>

(* Faulty: the youngest. *)
OlderLast(age, oldest) == age
Older(age, oldest) == Max({age, oldest})

SampleOne ==
  /\ sample.at = "scanning" /\ sample.rest # {}
  /\ \E p \in sample.rest :
       \/ sample' = [sample EXCEPT !.rest = @ \ {p}, !.oldest = IF Cached(p) THEN Older(Age(p), @) ELSE @]
       \/ sample' = [sample EXCEPT !.rest = @ \ {p}, !.missed = TRUE]
  /\ UNCHANGED <<cache, pass, gauge, told>>

(* With nothing cached nothing is published, and what was before stays.    *)
Publish ==
  /\ sample.at = "scanning" /\ sample.rest = {}
  /\ gauge' = IF sample.oldest = Unknown THEN gauge ELSE sample.oldest
  /\ told' = ~sample.missed
  /\ sample' = Idle
  /\ UNCHANGED <<cache, pass>>

Aged(entry) == [value |-> entry.value, age |-> entry.age + 1, left |-> entry.left - 1]

Tick ==
  /\ sample.at = "idle"
  /\ pass.at # "stopped" => pass.late < MaxLate
  /\ pass' = IF pass.at = "stopped" THEN pass ELSE [pass EXCEPT !.late = @ + 1]
  /\ cache' = [p \in Places |-> IF cache[p].left > 1 THEN Aged(cache[p]) ELSE Nothing]
  /\ told' = FALSE
  /\ UNCHANGED <<sample, gauge>>

Next ==
  \/ StartPass \/ ReadPrevious \/ Answered \/ Kept \/ EndPass \/ Crash
  \/ StartScan \/ SampleOne \/ Publish \/ Tick
Spec == Init /\ [][Next]_vars

-----------------------------------------------------------------------------
(* The card (weather::answer): the entry, unless it is too old. *)
Stale(place) == Age(place) > Limit
Shown(place) == Cached(place) /\ ~Stale(place)

(* Where a card is withheld for its age the sampler says that something is *)
(* too old, at its next scan, however many other entries are fresh and      *)
(* whether or not the fetcher runs (sample; deploy/prometheus/alerts.yml).  *)
WithheldIsTold == told => \A p \in Places : Cached(p) /\ ~Shown(p) => gauge > Limit
=============================================================================
