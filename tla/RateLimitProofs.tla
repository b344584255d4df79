--------------------------- MODULE RateLimitProofs ---------------------------
(***************************************************************************)
(* Proofs about RateLimit, for any networks, any number of requests at     *)
(* once, any limit, window and table, and a request that is late by less   *)
(* than a window.                                                          *)
(***************************************************************************)
EXTENDS RateLimit, FiniteSetTheorems, TLAPS

Grants  == [network : Networks, salt : Nat, started : Nat, nth : 1 .. Requests, at : Nat]
Buckets == [count : 1 .. Requests + 1, started : Nat]
Calls   == [at : {"none", "clock", "count"}, network : SUBSET Networks, salt : Nat, since : Nat, now : Nat]

Types ==
  /\ clock \in Nat /\ rotated \in 0 .. clock
  /\ call \in [Callers -> Calls]
  /\ granted \in Seq(Grants)

(* A table of buckets: none too many, and none started before its salt.    *)
Table(t) ==
  /\ IsFiniteSet(DOMAIN t) /\ Cardinality(DOMAIN t) <= MaxBuckets
  /\ \A k \in DOMAIN t : /\ k \in Networks \X Nat
                         /\ t[k] \in Buckets /\ k[2] <= t[k].started /\ t[k].started <= clock

(* A request under way has waited no longer than it may. *)
UnderWay(c) == call[c].at # "none"
Waits ==
  \A c \in Callers : UnderWay(c) =>
    /\ \E n \in Networks : call[c].network = {n}
    /\ call[c].salt <= call[c].since /\ call[c].since <= clock /\ clock <= call[c].since + MaxWait
    /\ call[c].at = "count" => call[c].since <= call[c].now /\ call[c].now <= clock

(* The salts there are traces of.  They were made far apart; and of one    *)
(* that is not the newest of them no key was taken, and soon nobody was    *)
(* let through, once the next was made.                                    *)
Salts == {rotated} \cup {call[c].salt : c \in {x \in Callers : UnderWay(x)}} \cup {granted[i].salt : i \in DOMAIN granted}
Aged ==
  /\ \A x \in Salts : x \in Nat /\ x <= rotated
  /\ \A x, y \in Salts : x < y => x + SaltTtl <= y
  /\ \A c \in Callers, x \in Salts : UnderWay(c) /\ call[c].salt < x => call[c].since <= x
  /\ \A i \in DOMAIN granted, x \in Salts : granted[i].salt < x => granted[i].at <= x + MaxWait

(* Of each that was let through, when its window began and when it came.   *)
Key(i) == <<granted[i].network, granted[i].salt>>
Timed ==
  \A i \in DOMAIN granted :
    /\ granted[i].salt <= granted[i].started /\ granted[i].started <= granted[i].at /\ granted[i].at <= clock
    /\ granted[i].at < granted[i].started + Window + MaxWait
    /\ granted[i].nth = 1 => granted[i].at <= granted[i].started + MaxWait

(* Of two of one key, each has a place of its own, and where one is of a    *)
(* later window that window begins later, and the other's is over by then. *)
Parted ==
  \A i, j \in DOMAIN granted : Key(i) = Key(j) =>
    /\ i # j => granted[i].started # granted[j].started \/ granted[i].nth # granted[j].nth
    /\ granted[i].started < granted[j].started =>
         /\ granted[i].started + Window <= granted[j].at
         /\ granted[i].started + Window <= granted[j].started + MaxWait

(* What was let through is of the window its bucket is in, or of one that  *)
(* is over.                                                                *)
Fits(t) ==
  \A i \in DOMAIN granted :
    \/ /\ Key(i) \in DOMAIN t
       /\ granted[i].started = t[Key(i)].started /\ granted[i].nth <= t[Key(i)].count
    \/ /\ granted[i].started + Window <= clock
       /\ Key(i) \in DOMAIN t => /\ granted[i].started < t[Key(i)].started
                                 /\ granted[i].started + Window <= t[Key(i)].started + MaxWait

Inv == Types /\ Waits /\ Aged /\ Timed /\ Parted /\ Table(buckets) /\ Fits(buckets)
-----------------------------------------------------------------------------
LEMMA InitInv == RateLimitAssumption /\ Init => Inv
<1> SUFFICES ASSUME RateLimitAssumption, Init PROVE Inv
  OBVIOUS
<1>1. Types /\ DOMAIN granted = {} /\ rotated = 0
  BY DEF Init, Types, NoCall, Calls
<1>2. \A c \in Callers : ~ UnderWay(c)
  BY DEF Init, NoCall, UnderWay
<1>3. Salts = {0}
  BY <1>1, <1>2 DEF Salts
<1>4. Aged /\ Waits
  BY <1>1, <1>2, <1>3 DEF Aged, Waits
<1>5. Table(buckets)
  <2>1. DOMAIN buckets = {}
    BY DEF Init
  <2> QED
    BY <2>1, FS_EmptySet DEF Table, RateLimitAssumption
<1> QED
  BY <1>1, <1>4, <1>5 DEF Inv, Timed, Parted, Fits

(* Neither the clock nor what a request does before it counts itself makes *)
(* a table or what was let through fit less.                               *)
LEMMA LaterFits ==
  ASSUME RateLimitAssumption, Inv, clock' \in Nat, clock <= clock', UNCHANGED <<buckets, granted>>
  PROVE  Timed' /\ Parted' /\ Table(buckets)' /\ Fits(buckets)'
<1>1. granted \in Seq(Grants) /\ clock \in Nat /\ \A i \in DOMAIN granted : granted[i] \in Grants
  BY DEF Inv, Types
<1>2. \A i \in DOMAIN granted : granted[i].started \in Nat /\ granted[i].at \in Nat /\ Key(i)' = Key(i)
  BY <1>1 DEF Grants, Key
<1>3. Timed'
  BY <1>1, <1>2 DEF Inv, Timed
<1>4. Parted'
  BY <1>2 DEF Inv, Parted
<1>5. Table(buckets)'
  BY <1>1 DEF Inv, Table, Buckets
<1>6. Fits(buckets)'
  <2>1. \A i \in DOMAIN granted : granted[i].started + Window <= clock => granted[i].started + Window <= clock'
    BY <1>1, <1>2 DEF RateLimitAssumption
  <2> QED
    BY <1>2, <2>1 DEF Inv, Fits
<1> QED
  BY <1>3, <1>4, <1>5, <1>6

LEMMA TakeKeyInv ==
  ASSUME RateLimitAssumption, Inv, NEW c \in Callers, NEW n \in Networks, TakeKey(c, n)
  PROVE  Inv'
<1>1. /\ rotated' = (IF clock - rotated >= SaltTtl THEN clock ELSE rotated)
      /\ call' = [call EXCEPT ![c] = [at |-> "clock", network |-> {n}, salt |-> rotated', since |-> clock, now |-> 0]]
      /\ UNCHANGED <<clock, buckets, granted>> /\ call \in [Callers -> Calls]
      /\ clock \in Nat /\ rotated \in 0 .. clock
  BY DEF TakeKey, Inv, Types
<1>2. /\ rotated' \in 0 .. clock /\ rotated <= rotated'
      /\ rotated' # rotated => rotated' = clock /\ rotated + SaltTtl <= clock
  BY <1>1 DEF RateLimitAssumption
<1>3. Types'
  BY <1>1, <1>2 DEF Inv, Types, Calls
<1>4. /\ \A d \in Callers \ {c} : call'[d] = call[d] /\ UnderWay(d)' = UnderWay(d)
      /\ call'[c].salt = rotated' /\ call'[c].since = clock /\ call'[c].network = {n} /\ call'[c].at = "clock"
  BY <1>1 DEF UnderWay
<1>5. Waits'
  BY <1>1, <1>2, <1>4 DEF Inv, Waits, UnderWay, RateLimitAssumption
<1>6. Salts' \subseteq Salts \cup {rotated'} /\ rotated \in Salts
  BY <1>1, <1>4 DEF Salts
<1>7. Aged'
  <2>1. \A x \in Salts : x \in Nat /\ x <= rotated /\ (x < rotated => x + SaltTtl <= rotated)
    BY <1>6 DEF Inv, Aged
  <2>2. \A x \in Salts' : x \in Nat /\ x <= rotated'
    BY <1>1, <1>2, <1>6, <2>1
  <2>3. ASSUME NEW x \in Salts', NEW y \in Salts', x < y
        PROVE  x + SaltTtl <= y
    <3>1. x \in Salts
      BY <1>1, <1>2, <1>6, <2>2, <2>3
    <3>2. CASE y \in Salts
      BY <2>3, <3>1, <3>2 DEF Inv, Aged
    <3>3. CASE y = rotated' /\ rotated' # rotated
      BY <1>1, <1>2, <2>1, <3>1, <3>3 DEF RateLimitAssumption
    <3> QED
      BY <1>6, <3>2, <3>3
  <2>4. ASSUME NEW d \in Callers, NEW x \in Salts', UnderWay(d)', call'[d].salt < x
        PROVE  call'[d].since <= x
    <3>1. CASE d = c
      BY <1>2, <1>4, <2>2, <2>4, <3>1
    <3>2. CASE d # c /\ x \in Salts
      BY <1>4, <2>4, <3>2 DEF Inv, Aged
    <3>3. CASE d # c /\ x = rotated' /\ rotated' # rotated
      BY <1>2, <1>4, <2>4, <3>3 DEF Inv, Waits
    <3> QED
      BY <1>6, <3>1, <3>2, <3>3
  <2>5. ASSUME NEW i \in DOMAIN granted, NEW x \in Salts', granted[i].salt < x
        PROVE  granted[i].at <= x + MaxWait
    <3>1. CASE x \in Salts
      BY <2>5, <3>1 DEF Inv, Aged
    <3>2. CASE x = rotated' /\ rotated' # rotated
      <4>1. granted[i] \in Grants /\ granted[i].at <= clock
        BY DEF Inv, Types, Timed
      <4> QED
        BY <1>1, <1>2, <3>2, <4>1 DEF Grants, RateLimitAssumption
    <3> QED
      BY <1>6, <3>1, <3>2
  <2> QED
    BY <1>1, <2>2, <2>3, <2>4, <2>5 DEF Aged
<1> QED
  BY <1>1, <1>3, <1>5, <1>7, LaterFits DEF Inv

(* A request that goes on keeps its salt and when it took it. *)
LEMMA SameCalls ==
  ASSUME Inv, UNCHANGED <<rotated, granted>>,
         \A d \in Callers : UnderWay(d)' => UnderWay(d) /\ call'[d].salt = call[d].salt /\ call'[d].since = call[d].since
  PROVE  Aged'
<1>1. Salts' \subseteq Salts
  BY DEF Salts
<1> QED
  BY <1>1 DEF Inv, Aged

LEMMA ReadClockInv ==
  ASSUME RateLimitAssumption, Inv, NEW c \in Callers, ReadClock(c)
  PROVE  Inv'
<1>1. /\ call[c].at = "clock" /\ call' = [call EXCEPT ![c] = [call[c] EXCEPT !.at = "count", !.now = clock]]
      /\ UNCHANGED <<clock, rotated, buckets, granted>> /\ call \in [Callers -> Calls] /\ clock \in Nat
  BY DEF ReadClock, Inv, Types
<1>2. /\ \A d \in Callers \ {c} : call'[d] = call[d]
      /\ call'[c].salt = call[c].salt /\ call'[c].since = call[c].since /\ call'[c].network = call[c].network
      /\ call'[c].at = "count" /\ call'[c].now = clock /\ call'[c] \in Calls
  BY <1>1 DEF Calls
<1>3. Types'
  BY <1>1, <1>2 DEF Inv, Types
<1>4. Waits'
  BY <1>1, <1>2 DEF Inv, Waits, UnderWay, Calls
<1>5. Aged'
  BY <1>1, <1>2, SameCalls DEF UnderWay
<1> QED
  BY <1>1, <1>3, <1>4, <1>5, LaterFits DEF Inv

LEMMA TickInv ==
  ASSUME RateLimitAssumption, Inv, Tick
  PROVE  Inv'
<1>1. /\ clock' = clock + 1 /\ UNCHANGED <<rotated, buckets, call, granted>> /\ clock \in Nat
      /\ \A c \in Callers : UnderWay(c) => clock < call[c].since + MaxWait
  BY DEF Tick, Inv, Types, UnderWay
<1>2. \A c \in Callers : call[c] \in Calls
  BY DEF Inv, Types
<1>3. Types'
  BY <1>1 DEF Inv, Types
<1>4. Waits'
  BY <1>1, <1>2 DEF Inv, Waits, UnderWay, Calls, RateLimitAssumption
<1>5. Aged'
  BY <1>1, SameCalls DEF UnderWay
<1> QED
  BY <1>1, <1>3, <1>4, <1>5, LaterFits DEF Inv

-----------------------------------------------------------------------------
(* Counting. *)

LEMMA GrantIs ==
  ASSUME Inv
  PROVE  /\ clock \in Nat
         /\ \A i \in DOMAIN granted : /\ granted[i] \in Grants /\ granted[i].network \in Networks
                                       /\ granted[i].salt \in Nat /\ granted[i].started \in Nat
                                       /\ granted[i].nth \in 1 .. Requests /\ granted[i].at \in Nat
<1>1. clock \in Nat /\ \A i \in DOMAIN granted : granted[i] \in Grants
  BY DEF Inv, Types
<1> QED
  BY <1>1 DEF Grants

(* What is swept is over.                                                  *)
LEMMA SweptIs ==
  ASSUME RateLimitAssumption, Inv, NEW now \in Nat, now <= clock
  PROVE  /\ Table(Swept(now)) /\ Fits(Swept(now))
         /\ \A k \in DOMAIN Swept(now) : k \in DOMAIN buckets /\ Swept(now)[k] = buckets[k]
<1> DEFINE t == Swept(now)
<1>1. \A k \in DOMAIN buckets : k \in DOMAIN t \/ buckets[k].started + Window <= now
  <2>1. \A k \in DOMAIN buckets : buckets[k].started \in Nat
    BY DEF Inv, Table, Buckets
  <2> QED
    BY <2>1 DEF Swept, Elapsed, RateLimitAssumption
<1>2. \A k \in DOMAIN t : k \in DOMAIN buckets /\ t[k] = buckets[k]
  BY DEF Swept
<1> HIDE DEF t
<1>3. Table(t)
  <2>1. DOMAIN t \in SUBSET DOMAIN buckets
    BY <1>2
  <2>2. /\ IsFiniteSet(DOMAIN t) /\ Cardinality(DOMAIN t) <= Cardinality(DOMAIN buckets)
        /\ Cardinality(DOMAIN t) \in Nat /\ Cardinality(DOMAIN buckets) \in Nat
    BY <2>1, FS_Subset, FS_CardinalityType DEF Inv, Table
  <2>3. Cardinality(DOMAIN t) <= MaxBuckets
    BY <2>2 DEF Inv, Table, RateLimitAssumption
  <2> QED
    BY <1>2, <2>2, <2>3 DEF Inv, Table
<1>4. Fits(t)
  <2> SUFFICES ASSUME NEW i \in DOMAIN granted
               PROVE  \/ /\ Key(i) \in DOMAIN t
                         /\ granted[i].started = t[Key(i)].started /\ granted[i].nth <= t[Key(i)].count
                      \/ /\ granted[i].started + Window <= clock
                         /\ Key(i) \in DOMAIN t => /\ granted[i].started < t[Key(i)].started
                                                   /\ granted[i].started + Window <= t[Key(i)].started + MaxWait
    BY DEF Fits
  <2>1. granted[i].started \in Nat /\ clock \in Nat
    BY GrantIs
  <2>2. CASE Key(i) \in DOMAIN t
    BY <1>2, <2>2 DEF Inv, Fits
  <2>3. CASE Key(i) \notin DOMAIN t /\ Key(i) \in DOMAIN buckets
    <3>1. /\ buckets[Key(i)].started + Window <= now /\ buckets[Key(i)].started \in Nat
          /\ granted[i].started = buckets[Key(i)].started \/ granted[i].started + Window <= clock
      BY <1>1, <2>3 DEF Inv, Table, Buckets, Fits
    <3> QED
      BY <2>1, <2>3, <3>1 DEF RateLimitAssumption
  <2>4. CASE Key(i) \notin DOMAIN buckets
    BY <1>2, <2>4 DEF Inv, Fits
  <2> QED
    BY <2>2, <2>3, <2>4
<1> QED
  BY <1>2, <1>3, <1>4 DEF t

(* Where a request is counted: in the window its bucket is in, or in a new *)
(* one; and what was let through before either is of that window and came  *)
(* before it, or is of one that is over.                                   *)
LEMMA CountedIs ==
  ASSUME RateLimitAssumption, Inv, NEW t, Table(t), Fits(t),
         NEW n \in Networks, NEW salt \in Nat, NEW now \in Nat,
         salt <= now, now <= clock, clock <= now + MaxWait
  PROVE  LET b == Counted(t, <<n, salt>>, now)
         IN  /\ b \in Buckets /\ salt <= b.started /\ b.started <= clock
             /\ clock < b.started + Window + MaxWait
             /\ b.count = 1 => clock <= b.started + MaxWait
             /\ \A i \in DOMAIN granted : Key(i) = <<n, salt>> =>
                  \/ granted[i].started = b.started /\ granted[i].nth < b.count
                  \/ /\ granted[i].started < b.started
                     /\ granted[i].started + Window <= clock
                     /\ granted[i].started + Window <= b.started + MaxWait
<1> DEFINE key == <<n, salt>>
           b   == Counted(t, key, now)
<1>1. /\ Requests \in Nat \ {0} /\ Window \in Nat /\ MaxWait \in Nat /\ MaxWait < Window /\ clock \in Nat
      /\ \A i \in DOMAIN granted : granted[i].started \in Nat /\ granted[i].nth \in 1 .. Requests
  BY GrantIs DEF RateLimitAssumption, Inv, Types
<1>2. key[2] = salt
  OBVIOUS
<1> HIDE DEF key
<1>3. CASE key \in DOMAIN t /\ ~ (Elapsed(t[key], now) >= Window)
  <2>1. t[key] \in Buckets /\ salt <= t[key].started /\ t[key].started <= clock
    BY <1>2, <1>3 DEF Table
  <2>2. /\ b.count = (IF t[key].count > Requests THEN t[key].count ELSE t[key].count + 1) /\ b.started = t[key].started
        /\ b = [count |-> b.count, started |-> b.started]
    BY <1>3 DEF Counted, Renewed
  <2>3. b \in Buckets /\ b.count # 1 /\ b.count \in Nat /\ b.started \in Nat
    BY <1>1, <2>1, <2>2 DEF Buckets
  <2>4. now < t[key].started + Window
    BY <1>1, <1>3, <2>1 DEF Elapsed, Buckets
  <2>5. ASSUME NEW i \in DOMAIN granted, Key(i) = key
        PROVE  \/ granted[i].started = b.started /\ granted[i].nth < b.count
               \/ /\ granted[i].started < b.started
                  /\ granted[i].started + Window <= clock
                  /\ granted[i].started + Window <= b.started + MaxWait
    <3>1. \/ granted[i].started = t[key].started /\ granted[i].nth <= t[key].count
          \/ /\ granted[i].started < t[key].started
             /\ granted[i].started + Window <= clock
             /\ granted[i].started + Window <= t[key].started + MaxWait
      BY <1>3, <2>5 DEF Fits
    <3>2. granted[i].nth <= t[key].count => granted[i].nth < b.count
      BY <1>1, <2>1, <2>2 DEF Buckets
    <3> QED
      BY <2>2, <3>1, <3>2
  <2> HIDE DEF b
  <2>6. clock < b.started + Window + MaxWait
    BY <1>1, <2>2, <2>3, <2>4
  <2> QED
    BY <2>1, <2>2, <2>3, <2>5, <2>6 DEF b, key
<1>4. CASE key \notin DOMAIN t \/ Elapsed(t[key], now) >= Window
  <2>1. b = [count |-> 1, started |-> now]
    <3>1. CASE key \notin DOMAIN t
      BY <1>1, <3>1 DEF Counted, Renewed, Elapsed
    <3>2. CASE key \in DOMAIN t
      BY <1>1, <1>4, <3>2 DEF Counted, Renewed
    <3> QED
      BY <3>1, <3>2
  <2> HIDE DEF b
  <2>2. b \in Buckets /\ b.count = 1 /\ b.started = now
    BY <1>1, <2>1 DEF Buckets
  <2>3. key \in DOMAIN t => t[key].started \in Nat /\ t[key].started + Window <= now
    BY <1>1, <1>4 DEF Elapsed, Table, Buckets
  <2>4. ASSUME NEW i \in DOMAIN granted, Key(i) = key
        PROVE  /\ granted[i].started < now
               /\ granted[i].started + Window <= clock
               /\ granted[i].started + Window <= now + MaxWait
    <3>1. CASE key \in DOMAIN t
      BY <1>1, <2>3, <2>4, <3>1 DEF Fits
    <3>2. CASE key \notin DOMAIN t
      BY <1>1, <2>4, <3>2 DEF Fits
    <3> QED
      BY <3>1, <3>2
  <2> QED
    BY <1>1, <2>2, <2>4 DEF b, key
<1> QED
  BY <1>3, <1>4

LEMMA CountInv ==
  ASSUME RateLimitAssumption, Inv, NEW c \in Callers, Count(c)
  PROVE  Inv'
<1> DEFINE t == Swept(call[c].now)
<1>1. /\ call[c].at = "count" /\ UnderWay(c) /\ call[c] \in Calls
      /\ call' = [call EXCEPT ![c] = NoCall] /\ UNCHANGED <<clock, rotated>> /\ clock \in Nat
      /\ \/ Full(t) /\ buckets' = t /\ UNCHANGED granted
         \/ /\ ~ Full(t)
            /\ \E n \in call[c].network :
                 LET key    == <<n, call[c].salt>>
                     bucket == Counted(t, key, call[c].now)
                 IN  /\ buckets' = [k \in DOMAIN t \cup {key} |-> IF k = key THEN bucket ELSE t[k]]
                     /\ granted' = IF bucket.count <= Requests THEN Append(granted, Grant(key, bucket)) ELSE granted
  BY DEF Count, UnderWay, Inv, Types
<1>2. PICK n \in Networks : call[c].network = {n}
  BY <1>1 DEF Inv, Waits
<1>3. /\ call[c].salt \in Nat /\ call[c].since \in Nat /\ call[c].now \in Nat
      /\ call[c].salt <= call[c].since /\ call[c].since <= call[c].now /\ call[c].now <= clock
      /\ clock <= call[c].now + MaxWait /\ clock <= call[c].since + MaxWait
  BY <1>1, SMTT(60) DEF Inv, Waits, Calls, RateLimitAssumption
<1>4. Table(t) /\ Fits(t)
  BY <1>3, SweptIs
<1> HIDE DEF t
<1>5. /\ \A d \in Callers \ {c} : call'[d] = call[d]
      /\ call'[c] = NoCall /\ call' \in [Callers -> Calls] /\ ~ UnderWay(c)'
  BY <1>1 DEF NoCall, Calls, UnderWay, Inv, Types
<1>6. Waits'
  BY <1>1, <1>5 DEF Inv, Waits, UnderWay
<1>7. CASE buckets' = t /\ UNCHANGED granted
  <2>1. Aged'
    BY <1>1, <1>5, <1>7, SameCalls DEF UnderWay
  <2>2. Types' /\ Timed' /\ Parted'
    BY <1>1, <1>5, <1>7 DEF Inv, Types, Timed, Parted, Key
  <2>3. Table(buckets)' /\ Fits(buckets)'
    BY <1>1, <1>4, <1>7 DEF Table, Fits, Key
  <2> QED
    BY <1>6, <2>1, <2>2, <2>3 DEF Inv
<1> DEFINE key == <<n, call[c].salt>>
           b   == Counted(t, key, call[c].now)
           g   == Grant(key, b)
<1>8. CASE /\ ~ Full(t) /\ buckets' = [k \in DOMAIN t \cup {key} |-> IF k = key THEN b ELSE t[k]]
           /\ granted' = IF b.count <= Requests THEN Append(granted, g) ELSE granted
  <2>1. /\ b \in Buckets /\ call[c].salt <= b.started /\ b.started <= clock
        /\ clock < b.started + Window + MaxWait
        /\ b.count = 1 => clock <= b.started + MaxWait
        /\ \A i \in DOMAIN granted : Key(i) = key =>
             \/ granted[i].started = b.started /\ granted[i].nth < b.count
             \/ /\ granted[i].started < b.started
                /\ granted[i].started + Window <= clock
                /\ granted[i].started + Window <= b.started + MaxWait
    BY <1>3, <1>4, CountedIs
  <2>2. /\ g.network = n /\ g.salt = call[c].salt /\ g.started = b.started /\ g.nth = b.count /\ g.at = clock
        /\ b.count <= Requests => g \in Grants
        /\ b.count \in Nat /\ b.count > 0 /\ b.started \in Nat
    BY <1>1, <1>3, <2>1, SMTT(60) DEF Grant, Grants, Buckets, RateLimitAssumption
  <2>3. key \in Networks \X Nat /\ key[2] = call[c].salt
    BY <1>3
  <2>4. Table(buckets)'
    <3>1. DOMAIN buckets' = DOMAIN t \cup {key} /\ IsFiniteSet(DOMAIN buckets') /\ Cardinality(DOMAIN t) \in Nat
      BY <1>4, <1>8, FS_AddElement, FS_CardinalityType DEF Table
    <3>2. Cardinality(DOMAIN buckets') <= Cardinality(DOMAIN t) + 1
      <4>1. IsFiniteSet(DOMAIN t)
        BY <1>4 DEF Table
      <4>2. \A x : Cardinality(DOMAIN t \cup {x}) = IF x \in DOMAIN t THEN Cardinality(DOMAIN t) ELSE Cardinality(DOMAIN t) + 1
        BY <4>1, FS_AddElement
      <4>3. \A x : Cardinality(DOMAIN t \cup {x}) <= Cardinality(DOMAIN t) + 1
        BY <3>1, <4>2
      <4> HIDE DEF key
      <4> QED
        BY <3>1, <4>3
    <3>3. Cardinality(DOMAIN t) < MaxBuckets
      BY <1>8, <3>1 DEF Full, RateLimitAssumption
    <3>4. Cardinality(DOMAIN buckets') \in Nat
      BY <3>1, FS_CardinalityType
    <3>5. Cardinality(DOMAIN buckets') <= MaxBuckets
      BY <3>1, <3>2, <3>3, <3>4 DEF RateLimitAssumption
    <3>6. ASSUME NEW k \in DOMAIN buckets'
          PROVE  k \in Networks \X Nat /\ buckets'[k] \in Buckets /\ k[2] <= buckets'[k].started /\ buckets'[k].started <= clock
      BY <1>4, <1>8, <2>1, <2>3, <3>1 DEF Table
    <3> QED
      BY <1>1, <3>1, <3>5, <3>6 DEF Table
  <2> HIDE DEF b, g, key
  <2>5. CASE ~ (b.count <= Requests)
    <3>1. granted' = granted
      BY <1>8, <2>5
    <3>2. Aged'
      BY <1>1, <1>5, <3>1, SameCalls DEF UnderWay
    <3>3. Types' /\ Timed' /\ Parted'
      BY <1>1, <1>5, <3>1 DEF Inv, Types, Timed, Parted, Key
    <3>4. ASSUME NEW i \in DOMAIN granted
          PROVE  \/ /\ Key(i) \in DOMAIN buckets'
                    /\ granted[i].started = buckets'[Key(i)].started /\ granted[i].nth <= buckets'[Key(i)].count
                 \/ /\ granted[i].started + Window <= clock
                    /\ Key(i) \in DOMAIN buckets' => /\ granted[i].started < buckets'[Key(i)].started
                                                     /\ granted[i].started + Window <= buckets'[Key(i)].started + MaxWait
      <4>1. CASE Key(i) = key
        <5>1. granted[i].nth \in Nat /\ granted[i].started \in Nat
          BY GrantIs
        <5>2. key \in DOMAIN buckets' /\ buckets'[key] = b
          BY <1>8
        <5> QED
          BY <2>1, <2>2, <4>1, <5>1, <5>2
      <4>2. CASE Key(i) # key
        <5>1. Key(i) \in DOMAIN buckets' <=> Key(i) \in DOMAIN t
          BY <1>8, <4>2
        <5>2. Key(i) \in DOMAIN t => buckets'[Key(i)] = t[Key(i)]
          BY <1>8, <4>2
        <5> QED
          BY <1>4, <5>1, <5>2 DEF Fits
      <4> QED
        BY <4>1, <4>2
    <3>5. Fits(buckets)'
      BY <1>1, <3>1, <3>4 DEF Fits, Key
    <3> QED
      BY <1>6, <2>4, <3>2, <3>3, <3>5 DEF Inv
  <2>6. CASE b.count <= Requests
    <3>1. /\ granted' = Append(granted, g) /\ granted \in Seq(Grants) /\ g \in Grants
          /\ granted' \in Seq(Grants) /\ Len(granted) \in Nat /\ DOMAIN granted = 1 .. Len(granted)
          /\ DOMAIN granted' = 1 .. Len(granted) + 1
          /\ granted'[Len(granted) + 1] = g /\ \A i \in DOMAIN granted : granted'[i] = granted[i]
      BY <1>8, <2>2, <2>6 DEF Inv, Types
    <3> PICK new \in Nat : new = Len(granted) + 1
      BY <3>1
    <3>2. \A i \in DOMAIN granted' : i = new \/ (i # new /\ i \in DOMAIN granted /\ granted'[i] = granted[i] /\ Key(i)' = Key(i))
      BY <3>1 DEF Key
    <3>3. new \notin DOMAIN granted /\ new \in DOMAIN granted' /\ granted'[new] = g /\ Key(new)' = key
      BY <2>2, <3>1, SMTT(60) DEF Key, key
    <3>4. Types'
      BY <1>1, <1>5, <3>1 DEF Inv, Types
    <3>5. Timed'
      BY <1>1, <1>3, <2>1, <2>2, <3>2, <3>3 DEF Inv, Timed
    <3>6. Aged'
      <4>1. Salts' \subseteq Salts /\ call[c].salt \in Salts
        BY <1>1, <1>5, <2>2, <3>2, <3>3 DEF Salts, UnderWay
      <4>2. \A d \in Callers : UnderWay(d)' => UnderWay(d) /\ call'[d] = call[d]
        BY <1>5 DEF UnderWay
      <4>3. ASSUME NEW x \in Salts', g.salt < x
            PROVE  g.at <= x + MaxWait
        <5>1. call[c].since <= x /\ x \in Nat
          BY <1>1, <2>2, <4>1, <4>3 DEF Inv, Aged
        <5> QED
          BY <1>1, <1>3, <2>2, <5>1, SMTT(60) DEF RateLimitAssumption
      <4> QED
        BY <1>1, <3>2, <3>3, <4>1, <4>2, <4>3 DEF Inv, Aged
    <3>7. Parted'
      <4> SUFFICES ASSUME NEW i \in DOMAIN granted', NEW j \in DOMAIN granted', Key(i)' = Key(j)'
                   PROVE  /\ i # j => granted'[i].started # granted'[j].started \/ granted'[i].nth # granted'[j].nth
                          /\ granted'[i].started < granted'[j].started =>
                               /\ granted'[i].started + Window <= granted'[j].at
                               /\ granted'[i].started + Window <= granted'[j].started + MaxWait
        BY DEF Parted
      <4>1. CASE i # new /\ j # new
        BY <3>2, <4>1 DEF Inv, Parted
      <4>2. CASE i # new /\ j = new
        <5>1. i \in DOMAIN granted /\ Key(i) = key /\ granted'[i] = granted[i] /\ granted'[j] = g
          BY <3>2, <3>3, <4>2
        <5>2. granted[i].nth \in Nat /\ granted[i].started \in Nat
          BY <5>1, GrantIs
        <5> QED
          BY <2>1, <2>2, <5>1, <5>2
      <4>3. CASE i = new /\ j # new
        <5>1. j \in DOMAIN granted /\ Key(j) = key /\ granted'[j] = granted[j] /\ granted'[i] = g
          BY <3>2, <3>3, <4>3
        <5>2. granted[j].nth \in Nat /\ granted[j].started \in Nat
          BY <5>1, GrantIs
        <5> QED
          BY <2>1, <2>2, <5>1, <5>2
      <4>4. CASE i = new /\ j = new
        BY <2>2, <3>3, <4>4
      <4> QED
        BY <4>1, <4>2, <4>3, <4>4
    <3>8. Fits(buckets)'
      <4> SUFFICES ASSUME NEW i \in DOMAIN granted'
                   PROVE  \/ /\ Key(i)' \in DOMAIN buckets'
                             /\ granted'[i].started = buckets'[Key(i)'].started /\ granted'[i].nth <= buckets'[Key(i)'].count
                          \/ /\ granted'[i].started + Window <= clock
                             /\ Key(i)' \in DOMAIN buckets' => /\ granted'[i].started < buckets'[Key(i)'].started
                                                               /\ granted'[i].started + Window <= buckets'[Key(i)'].started + MaxWait
        BY <1>1 DEF Fits
      <4>1. CASE i = new
        <5>1. key \in DOMAIN buckets' /\ buckets'[key] = b
          BY <1>8
        <5> QED
          BY <2>2, <3>3, <4>1, <5>1
      <4>2. CASE i # new /\ Key(i) = key
        <5>1. granted[i].nth \in Nat /\ granted[i].started \in Nat
          BY <3>2, <4>2, GrantIs
        <5> QED
          BY <1>8, <2>1, <2>2, <3>2, <4>2, <5>1
      <4>3. CASE i # new /\ Key(i) # key
        BY <1>4, <1>8, <3>2, <4>3 DEF Fits
      <4> QED
        BY <4>1, <4>2, <4>3
    <3> QED
      BY <1>6, <2>4, <3>4, <3>5, <3>6, <3>7, <3>8 DEF Inv
  <2> QED
    BY <2>5, <2>6
<1> QED
  BY <1>1, <1>2, <1>7, <1>8

LEMMA NextInv == RateLimitAssumption /\ Inv /\ [Next]_vars => Inv'
<1> SUFFICES ASSUME RateLimitAssumption, Inv, [Next]_vars PROVE Inv'
  OBVIOUS
<1>1. CASE UNCHANGED vars
  <2>1. UNCHANGED <<clock, rotated, buckets, call, granted>>
    BY <1>1 DEF vars
  <2>2. Aged'
    BY <2>1, SameCalls DEF UnderWay
  <2> QED
    BY <2>1, <2>2, LaterFits DEF Inv, Types, Waits, UnderWay
<1> QED
  BY <1>1, TakeKeyInv, ReadClockInv, CountInv, TickInv DEF Next

-----------------------------------------------------------------------------
(* How many of one network come in the time of a window. *)

Near(A) ==
  /\ A \subseteq DOMAIN granted
  /\ \A i, j \in A : granted[i].network = granted[j].network /\ granted[j].at <= granted[i].at + Span

SameSalt(A) == \A i, j \in A : granted[i].salt = granted[j].salt

LEMMA SpanIs ==
  RateLimitAssumption => /\ Span \in Int /\ Span < Window /\ Span < Window - MaxWait
                         /\ MaxWait > 0 => Span <= Window - 2 * MaxWait
                         /\ MaxWait \in Nat /\ Window \in Nat /\ Requests \in Nat \ {0}
BY DEF Span, RateLimitAssumption

(* Those of one window have a place each; without the first of them they   *)
(* are one fewer.                                                          *)
LEMMA OneWindow ==
  ASSUME RateLimitAssumption, Inv, NEW A, A \subseteq DOMAIN granted,
         \A i, j \in A : Key(i) = Key(j) /\ granted[i].started = granted[j].started
  PROVE  /\ IsFiniteSet(A) /\ Cardinality(A) \in Nat /\ Cardinality(A) <= Requests
         /\ (\A i \in A : granted[i].nth # 1) => Cardinality(A) <= Requests - 1
<1> DEFINE f == [i \in A |-> granted[i].nth]
<1>1. \A i, j \in A : f[i] = f[j] => i = j
  BY DEF Inv, Parted
<1>2. \A i \in A : granted[i].nth \in 1 .. Requests
  BY GrantIs
<1>3. Requests \in Nat \ {0}
  BY DEF RateLimitAssumption
<1>4. ASSUME NEW a \in {1, 2}, \A i \in A : granted[i].nth >= a
      PROVE  IsFiniteSet(A) /\ Cardinality(A) \in Nat /\ Cardinality(A) <= Requests - a + 1
  <2>1. f \in [A -> a .. Requests]
    BY <1>2, <1>3, <1>4
  <2>2. f \in Injection(A, a .. Requests)
    BY <1>1, <2>1 DEF Injection, IsInjective
  <2>3. /\ IsFiniteSet(a .. Requests)
        /\ Cardinality(a .. Requests) = IF a > Requests THEN 0 ELSE Requests - a + 1
    BY <1>3, FS_Interval, SMTT(60)
  <2>4. IsFiniteSet(A) /\ Cardinality(A) <= Cardinality(a .. Requests)
    BY <2>2, <2>3, FS_Injection
  <2>5. Cardinality(A) \in Nat
    BY <2>4, FS_CardinalityType
  <2> QED
    BY <1>3, <2>3, <2>4, <2>5
<1>5. IsFiniteSet(A) /\ Cardinality(A) \in Nat /\ Cardinality(A) <= Requests
  <2>1. \A i \in A : granted[i].nth >= 1
    BY <1>2
  <2> QED
    BY <1>3, <1>4, <2>1
<1>6. ASSUME \A i \in A : granted[i].nth # 1
      PROVE  Cardinality(A) <= Requests - 1
  <2>1. \A i \in A : granted[i].nth >= 2
    BY <1>2, <1>3, <1>6
  <2> QED
    BY <1>3, <1>4, <2>1
<1> QED
  BY <1>5, <1>6

(* Of two windows of one salt, the earlier one's first request is too early. *)
LEMMA FirstIsGone ==
  ASSUME RateLimitAssumption, Inv, NEW A, Near(A), SameSalt(A),
         NEW i \in A, NEW j \in A, granted[i].started < granted[j].started
  PROVE  granted[i].nth # 1
<1>1. Key(i) = Key(j) /\ i \in DOMAIN granted /\ j \in DOMAIN granted /\ granted[j].at <= granted[i].at + Span
  BY DEF Near, SameSalt, Key
<1>2. granted[i].at \in Nat /\ granted[j].at \in Nat /\ granted[i].started \in Nat
  BY <1>1, GrantIs
<1>3. granted[i].started + Window <= granted[j].at /\ (granted[i].nth = 1 => granted[i].at <= granted[i].started + MaxWait)
  BY <1>1 DEF Inv, Parted, Timed
<1> QED
  BY <1>1, <1>2, <1>3, SpanIs

(* And there are no three. *)
LEMMA TwoWindows ==
  ASSUME RateLimitAssumption, Inv, NEW A, Near(A), SameSalt(A), NEW i \in A, NEW j \in A, NEW k \in A,
         granted[i].started < granted[j].started, granted[j].started < granted[k].started
  PROVE  FALSE
<1>1. /\ Key(i) = Key(j) /\ Key(j) = Key(k) /\ i \in DOMAIN granted /\ j \in DOMAIN granted /\ k \in DOMAIN granted
      /\ granted[k].at <= granted[i].at + Span
  BY DEF Near, SameSalt, Key
<1>2. /\ granted[i].at \in Nat /\ granted[k].at \in Nat /\ granted[i].started \in Nat /\ granted[j].started \in Nat
  BY <1>1, GrantIs
<1>3. /\ granted[i].started + Window <= granted[j].started + MaxWait
      /\ granted[j].started + Window <= granted[k].at
      /\ granted[i].at < granted[i].started + Window + MaxWait
  BY <1>1 DEF Inv, Parted, Timed
<1> QED
  BY <1>1, <1>2, <1>3, SpanIs

LEMMA OneSalt ==
  ASSUME RateLimitAssumption, Inv, NEW A, Near(A), SameSalt(A)
  PROVE  IsFiniteSet(A) /\ Cardinality(A) \in Nat /\ Cardinality(A) < 2 * Requests
<1>1. /\ \A i, j \in A : Key(i) = Key(j)
      /\ A \subseteq DOMAIN granted /\ \A i \in A : granted[i].started \in Nat
      /\ Requests \in Nat \ {0}
  BY GrantIs DEF Near, SameSalt, Key, RateLimitAssumption
<1>2. CASE \A i, j \in A : granted[i].started = granted[j].started
  <2>1. IsFiniteSet(A) /\ Cardinality(A) \in Nat /\ Cardinality(A) <= Requests
    BY <1>1, <1>2, OneWindow
  <2> QED
    BY <1>1, <2>1
<1>3. CASE ~ \A i, j \in A : granted[i].started = granted[j].started
  <2>1. PICK i \in A, j \in A : granted[i].started < granted[j].started
    BY <1>1, <1>3
  <2> DEFINE B == {k \in A : granted[k].started = granted[i].started}
             C == {k \in A : granted[k].started = granted[j].started}
  <2>2. A = B \cup C
    <3>1. ASSUME NEW k \in A, granted[k].started # granted[i].started, granted[k].started # granted[j].started
          PROVE  FALSE
      <4>1. \/ granted[k].started < granted[i].started
            \/ granted[i].started < granted[k].started /\ granted[k].started < granted[j].started
            \/ granted[j].started < granted[k].started
        BY <1>1, <3>1
      <4> QED
        BY <2>1, <4>1, TwoWindows
    <3> QED
      BY <3>1
  <2>3. IsFiniteSet(B) /\ Cardinality(B) \in Nat /\ Cardinality(B) <= Requests - 1
    <3>1. B \subseteq A /\ \A k \in B : granted[k].nth # 1
      BY <2>1, FirstIsGone
    <3> QED
      BY <1>1, <3>1, OneWindow
  <2>4. IsFiniteSet(C) /\ Cardinality(C) \in Nat /\ Cardinality(C) <= Requests
    <3>1. C \subseteq A
      OBVIOUS
    <3> QED
      BY <1>1, <3>1, OneWindow
  <2> HIDE DEF B, C
  <2>5. IsFiniteSet(A) /\ Cardinality(A) = Cardinality(B) + Cardinality(C) - Cardinality(B \cap C)
    BY <2>2, <2>3, <2>4, FS_Union
  <2>6. Cardinality(B \cap C) \in Nat /\ Cardinality(A) \in Nat
    BY <2>3, <2>5, FS_Intersection, FS_CardinalityType
  <2> QED
    BY <1>1, <2>3, <2>4, <2>5, <2>6
<1> QED
  BY <1>2, <1>3

(* Once a salt is followed by another, it is too late for what comes a     *)
(* window after that.                                                      *)
LEMMA OlderSalt ==
  ASSUME RateLimitAssumption, Inv, NEW A, Near(A), NEW i \in A, NEW j \in A, granted[i].salt < granted[j].salt,
         NEW k \in A, granted[k].at >= granted[j].salt + Window
  PROVE  FALSE
<1>1. /\ i \in DOMAIN granted /\ j \in DOMAIN granted /\ k \in DOMAIN granted
      /\ granted[k].at <= granted[i].at + Span
  BY DEF Near
<1>2. granted[i].at \in Nat /\ granted[k].at \in Nat /\ granted[j].salt \in Nat
  BY <1>1, GrantIs
<1>3. granted[i].at <= granted[j].salt + MaxWait
  BY <1>1 DEF Inv, Aged, Salts
<1> QED
  BY <1>1, <1>2, <1>3, SpanIs

LEMMA TwoSalts ==
  ASSUME RateLimitAssumption, Inv, NEW A, Near(A), NEW i \in A, NEW j \in A, NEW k \in A,
         granted[i].salt < granted[j].salt, granted[j].salt < granted[k].salt
  PROVE  FALSE
<1>1. i \in DOMAIN granted /\ j \in DOMAIN granted /\ k \in DOMAIN granted
  BY DEF Near
<1>2. granted[j].salt \in Nat /\ granted[k].salt \in Nat /\ granted[k].started \in Nat /\ granted[k].at \in Nat
  BY <1>1, GrantIs
<1>3. granted[j].salt \in Salts /\ granted[k].salt \in Salts
  BY <1>1 DEF Salts
<1>4. granted[j].salt + SaltTtl <= granted[k].salt
  BY <1>3 DEF Inv, Aged
<1>5. granted[k].salt <= granted[k].started /\ granted[k].started <= granted[k].at
  BY <1>1 DEF Inv, Timed
<1>6. granted[k].at >= granted[j].salt + Window
  BY <1>2, <1>4, <1>5 DEF RateLimitAssumption
<1> QED
  BY <1>6, OlderSalt

LEMMA NewerSalt ==
  ASSUME RateLimitAssumption, Inv, NEW A, Near(A), NEW i \in A, NEW j \in A, NEW k \in A,
         granted[i].salt < granted[j].salt, granted[j].salt = granted[k].salt
  PROVE  granted[j].started = granted[k].started
<1>1. SUFFICES ASSUME NEW x \in {j, k}, NEW y \in {j, k}, granted[x].started < granted[y].started
               PROVE  FALSE
  <2>1. granted[j].started \in Nat /\ granted[k].started \in Nat
    BY GrantIs DEF Near
  <2> QED
    BY <1>1, <2>1
<1>2. /\ x \in A /\ y \in A /\ x \in DOMAIN granted /\ y \in DOMAIN granted
      /\ Key(x) = Key(y) /\ granted[x].salt = granted[j].salt
  BY DEF Near, Key
<1>3. granted[x].salt \in Nat /\ granted[x].started \in Nat /\ granted[y].at \in Nat
  BY <1>2, GrantIs
<1>4. granted[x].salt <= granted[x].started /\ granted[x].started + Window <= granted[y].at
  BY <1>1, <1>2 DEF Inv, Timed, Parted
<1>5. granted[y].at >= granted[j].salt + Window
  BY <1>2, <1>3, <1>4 DEF RateLimitAssumption
<1> QED
  BY <1>2, <1>5, OlderSalt

LEMMA SaltsHold ==
  ASSUME RateLimitAssumption, Inv, NEW A, Near(A)
  PROVE  Cardinality(A) < 3 * Requests /\ (SameSalt(A) => Cardinality(A) < 2 * Requests)
<1>1. Requests \in Nat \ {0} /\ A \subseteq DOMAIN granted /\ \A i \in A : granted[i].salt \in Nat
  BY GrantIs DEF RateLimitAssumption, Near
<1>2. CASE SameSalt(A)
  <2>1. Cardinality(A) \in Nat /\ Cardinality(A) < 2 * Requests
    BY <1>2, OneSalt
  <2> QED
    BY <1>1, <2>1
<1>3. CASE ~ SameSalt(A)
  <2>1. PICK i \in A, j \in A : granted[i].salt < granted[j].salt
    BY <1>1, <1>3 DEF SameSalt
  <2> DEFINE B == {k \in A : granted[k].salt = granted[i].salt}
             C == {k \in A : granted[k].salt = granted[j].salt}
  <2>2. A = B \cup C
    <3>1. ASSUME NEW k \in A, granted[k].salt # granted[i].salt, granted[k].salt # granted[j].salt
          PROVE  FALSE
      <4>1. \/ granted[k].salt < granted[i].salt
            \/ granted[i].salt < granted[k].salt /\ granted[k].salt < granted[j].salt
            \/ granted[j].salt < granted[k].salt
        BY <1>1, <3>1
      <4> QED
        BY <2>1, <4>1, TwoSalts
    <3> QED
      BY <3>1
  <2>3. IsFiniteSet(B) /\ Cardinality(B) \in Nat /\ Cardinality(B) < 2 * Requests
    <3>1. Near(B) /\ SameSalt(B)
      BY DEF Near, SameSalt
    <3> HIDE DEF B
    <3> QED
      BY <3>1, OneSalt
  <2>4. IsFiniteSet(C) /\ Cardinality(C) \in Nat /\ Cardinality(C) <= Requests
    <3>1. \A x, y \in C : Key(x) = Key(y) /\ granted[x].started = granted[y].started
      <4> SUFFICES ASSUME NEW x \in C, NEW y \in C PROVE Key(x) = Key(y) /\ granted[x].started = granted[y].started
        OBVIOUS
      <4>1. x \in A /\ y \in A /\ granted[i].salt < granted[x].salt /\ granted[x].salt = granted[y].salt
        BY <2>1
      <4> QED
        BY <4>1, NewerSalt DEF Near, Key
    <3>2. C \subseteq DOMAIN granted
      BY <1>1
    <3> HIDE DEF C
    <3> QED
      BY <3>1, <3>2, OneWindow
  <2> HIDE DEF B, C
  <2>5. IsFiniteSet(A) /\ Cardinality(A) = Cardinality(B) + Cardinality(C) - Cardinality(B \cap C)
    BY <2>2, <2>3, <2>4, FS_Union
  <2>6. Cardinality(B \cap C) \in Nat /\ Cardinality(A) \in Nat
    BY <2>3, <2>5, FS_Intersection, FS_CardinalityType
  <2> QED
    BY <1>1, <1>3, <2>3, <2>4, <2>5, <2>6
<1> QED
  BY <1>2, <1>3

LEMMA InvHolds == RateLimitAssumption /\ Inv => WindowsHold
<1> SUFFICES ASSUME RateLimitAssumption, Inv, NEW n \in Networks, NEW from \in 0 .. clock
             PROVE  /\ Cardinality(During(n, from)) < 3 * Requests
                    /\ SameSalt(During(n, from)) => Cardinality(During(n, from)) < 2 * Requests
  BY DEF WindowsHold, SameSalt, Inv, Table
<1>1. /\ Span \in Int /\ from \in Nat /\ \A i \in DOMAIN granted : granted[i].at \in Nat
  BY SpanIs, GrantIs
<1>2. Near(During(n, from))
  BY <1>1 DEF During, Near
<1> QED
  BY <1>2, SaltsHold

(* A network is let through for less than two windows' requests in the     *)
(* time of one, for less than three where the salt changed, and the table  *)
(* stays within its cap, whoever asks, however late (RateLimiter::check,   *)
(* client_key).                                                            *)
THEOREM RequestsAreLimited ==
  ASSUME RateLimitAssumption
  PROVE  Spec => []WindowsHold
<1>1. Init => Inv
  BY InitInv
<1>2. Inv /\ [Next]_vars => Inv'
  BY NextInv
<1>3. Inv => WindowsHold
  BY InvHolds
<1> QED
  BY <1>1, <1>2, <1>3, PTL DEF Spec
=============================================================================
