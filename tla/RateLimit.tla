------------------------------- MODULE RateLimit -------------------------------
(***************************************************************************)
(* Requests counted in fixed windows.  A bucket belongs to a network, a    *)
(* /24 or a /48, under the salt of the day, which is named here by the      *)
(* moment it was made.  One route.  A request makes its key, reads the      *)
(* clock and counts itself under the lock, one after the other, while       *)
(* others do: by then the clock has gone on, and the salt perhaps too.     *)
(***************************************************************************)
EXTENDS Integers, Sequences, FiniteSets

CONSTANTS
  Networks,
  Callers,     \* requests at once
  Requests,    \* Limit: requests a network has in a window
  Window,
  MaxBuckets,
  SaltTtl,     \* how long a salt lives
  MaxWait,     \* how long a request may take to count itself
  MaxClock     \* bound: the last moment

(* A salt outlives a window (ratelimit.rs, SALT_TTL and the windows), and a *)
(* request is not a window late.                                           *)
RateLimitAssumption ==
  /\ Requests \in Nat \ {0} /\ Window \in Nat /\ MaxBuckets \in Nat \ {0} /\ MaxClock \in Nat
  /\ MaxWait \in Nat /\ MaxWait < Window /\ SaltTtl \in Nat /\ SaltTtl > Window

VARIABLES
  clock,
  rotated,  \* when the salt was made
  buckets,  \* of each key, how many requests and since when
  call,     \* what each request under way has done
  granted   \* history: those counted and let through, in order

vars == <<clock, rotated, buckets, call, granted>>

NoCall == [at |-> "none", network |-> {}, salt |-> 0, since |-> 0, now |-> 0]

Init ==
  /\ clock = 0 /\ rotated = 0
  /\ buckets = <<>>
  /\ call = [c \in Callers |-> NoCall]
  /\ granted = <<>>

(* client_key: the salt is made anew once it is too old. *)
TakeKey(c, network) ==
  /\ call[c].at = "none"
  /\ rotated' = IF clock - rotated >= SaltTtl THEN clock ELSE rotated
  /\ call' = [call EXCEPT ![c] = [at |-> "clock", network |-> {network}, salt |-> rotated', since |-> clock, now |-> 0]]
  /\ UNCHANGED <<clock, buckets, granted>>

ReadClock(c) ==
  /\ call[c].at = "clock"
  /\ call' = [call EXCEPT ![c].at = "count", ![c].now = clock]
  /\ UNCHANGED <<clock, rotated, buckets, granted>>

-----------------------------------------------------------------------------
(* What follows is done under the lock. *)

Elapsed(bucket, now) == IF now > bucket.started THEN now - bucket.started ELSE 0

(* Buckets whose window is over are swept once the table is full. *)
Full(table) == Cardinality(DOMAIN table) >= MaxBuckets
Swept(now) ==
  IF ~Full(buckets) THEN buckets
  ELSE LET live == {k \in DOMAIN buckets : Elapsed(buckets[k], now) < Window}
       IN  [k \in live |-> buckets[k]]

(* Faulty: the count starts again and the window does not. *)
RenewedInPlace(bucket, now) == IF Elapsed(bucket, now) >= Window THEN [bucket EXCEPT !.count = 0] ELSE bucket

Renewed(bucket, now) ==
  IF Elapsed(bucket, now) >= Window THEN [count |-> 0, started |-> now] ELSE bucket

(* The bucket of a key with one request more; past the limit it does not    *)
(* matter by how much.                                                     *)
Counted(table, key, now) ==
  LET bucket  == IF key \in DOMAIN table THEN table[key] ELSE [count |-> 0, started |-> now]
      renewed == Renewed(bucket, now)
  IN  [count |-> IF renewed.count > Requests THEN renewed.count ELSE renewed.count + 1, started |-> renewed.started]

Grant(key, bucket) ==
  [network |-> key[1], salt |-> key[2], started |-> bucket.started, nth |-> bucket.count, at |-> clock]

(* A table that is full of live buckets lets everybody through uncounted.  *)
Count(c) ==
  /\ call[c].at = "count"
  /\ LET table == Swept(call[c].now)
     IN  \/ /\ Full(table)
            /\ buckets' = table /\ UNCHANGED granted
         \/ /\ ~Full(table)
            /\ \E network \in call[c].network :
                 LET key    == <<network, call[c].salt>>
                     bucket == Counted(table, key, call[c].now)
                 IN  /\ buckets' = [k \in DOMAIN table \cup {key} |-> IF k = key THEN bucket ELSE table[k]]
                     /\ granted' = IF bucket.count <= Requests THEN Append(granted, Grant(key, bucket)) ELSE granted
  /\ call' = [call EXCEPT ![c] = NoCall]
  /\ UNCHANGED <<clock, rotated>>

Tick ==
  /\ clock < MaxClock
  /\ \A c \in Callers : call[c].at # "none" => clock < call[c].since + MaxWait
  /\ clock' = clock + 1
  /\ UNCHANGED <<rotated, buckets, call, granted>>

Next ==
  \/ \E c \in Callers : \/ \E network \in Networks : TakeKey(c, network)
                        \/ ReadClock(c) \/ Count(c)
  \/ Tick
Spec == Init /\ [][Next]_vars

-----------------------------------------------------------------------------
TypeOK ==
  /\ clock \in 0 .. MaxClock /\ rotated \in 0 .. clock
  /\ DOMAIN buckets \subseteq Networks \X Nat
  /\ \A k \in DOMAIN buckets : buckets[k].count \in 1 .. Requests + 1 /\ buckets[k].started \in 0 .. clock
  /\ \A c \in Callers : call[c].at \in {"none", "clock", "count"} /\ call[c].network \subseteq Networks
  /\ \A i \in DOMAIN granted : granted[i].network \in Networks /\ granted[i].nth \in 1 .. Requests

(* A window, less what two requests may be late. *)
Span == IF MaxWait = 0 THEN Window - 1 ELSE Window - 2 * MaxWait

During(network, from) ==
  {i \in DOMAIN granted : granted[i].network = network /\ granted[i].at \in from .. from + Span}

(* The table does not grow past its cap; and in the time of one window a    *)
(* network is let through for less than two windows' requests, across a     *)
(* boundary, and for one window's more where the salt changed, however late *)
(* requests count themselves and whatever is swept.  What a full table lets *)
(* through is not counted (RateLimiter::check, client_key; ratelimit.rs:21  *)
(* and 26).                                                                *)
WindowsHold ==
  /\ Cardinality(DOMAIN buckets) <= MaxBuckets
  /\ \A n \in Networks, from \in 0 .. clock :
       /\ Cardinality(During(n, from)) < 3 * Requests
       /\ (\A i, j \in During(n, from) : granted[i].salt = granted[j].salt) => Cardinality(During(n, from)) < 2 * Requests
==============================================================================
