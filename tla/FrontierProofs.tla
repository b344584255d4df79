--------------------------- MODULE FrontierProofs ---------------------------
(***************************************************************************)
(* Proofs about Frontier, for every set of hosts, URLs, workers, consoles  *)
(* and pollers and every value of the delays and limits.                   *)
(***************************************************************************)
EXTENDS Frontier, TLAPS

(* What the commands of RedisMaps do to a map's domain and values, for      *)
(* proofs to cite instead of expanding the definitions.                     *)

(* Writing one member of the right type keeps a map's type. *)
LEMMA PutIsMap ==
  ASSUME NEW D, NEW R, NEW f, IsMap(f, D, R), NEW m \in D, NEW s \in R
  PROVE  IsMap(Put(f, m, s), D, R)
BY DEF IsMap, Put

(* What a map holds once a member has been written. *)
LEMMA PutApply ==
  ASSUME NEW f, NEW m, NEW s
  PROVE  /\ DOMAIN Put(f, m, s) = DOMAIN f \cup {m}
         /\ Put(f, m, s)[m] = s
         /\ \A x \in DOMAIN f : x # m => Put(f, m, s)[x] = f[x]
BY DEF Put

(* ZADD NX keeps a map's type. *)
LEMMA PutNewIsMap ==
  ASSUME NEW D, NEW R, NEW f, IsMap(f, D, R), NEW m \in D, NEW s \in R
  PROVE  IsMap(PutNew(f, m, s), D, R)
BY PutIsMap DEF PutNew

(* ZADD NX adds the member if need be and changes no other, nor its score if it had one. *)
LEMMA PutNewApply ==
  ASSUME NEW f, NEW m, NEW s
  PROVE  /\ DOMAIN PutNew(f, m, s) = DOMAIN f \cup {m}
         /\ \A x \in DOMAIN f : PutNew(f, m, s)[x] = f[x]
BY DEF PutNew, Put

(* ZADD XX keeps a map's type ... *)
LEMMA PutOldIsMap ==
  ASSUME NEW D, NEW R, NEW f, IsMap(f, D, R), NEW m \in D, NEW s \in R
  PROVE  IsMap(PutOld(f, m, s), D, R)
BY PutIsMap DEF PutOld

(* ... and its members. *)
LEMMA PutOldDomain ==
  ASSUME NEW f, NEW m, NEW s
  PROVE  DOMAIN PutOld(f, m, s) = DOMAIN f
BY DEF PutOld, Put

(* Removing members keeps a map's type. *)
LEMMA RemoveIsMap ==
  ASSUME NEW D, NEW R, NEW f, IsMap(f, D, R), NEW S
  PROVE  IsMap(Remove(f, S), D, R)
BY DEF IsMap, Remove

(* Removing members leaves the others as they were. *)
LEMMA RemoveApply ==
  ASSUME NEW f, NEW S
  PROVE  /\ DOMAIN Remove(f, S) = DOMAIN f \ S
         /\ \A x \in DOMAIN f \ S : Remove(f, S)[x] = f[x]
BY DEF Remove

(* A member's value has the map's type. *)
LEMMA MapApply ==
  ASSUME NEW D, NEW R, NEW f, IsMap(f, D, R), NEW m \in DOMAIN f
  PROVE  m \in D /\ f[m] \in R
BY DEF IsMap

(* The map without members has every type. *)
LEMMA EmptyIsMap ==
  ASSUME NEW D, NEW R
  PROVE  IsMap(EmptyMap, D, R) /\ DOMAIN EmptyMap = {}
BY DEF IsMap, EmptyMap

-----------------------------------------------------------------------------

(* FrontierAssumption, one fact at a time. *)
LEMMA Assumptions ==
  /\ HostOf \in [Urls -> Hosts]
  /\ Seeds \subseteq Urls /\ Sources \subseteq Urls
  /\ Links \in [Urls -> SUBSET Urls]
  /\ MaxDepth \in Nat /\ Delay \in Nat /\ ClaimTTL \in Nat /\ MaxLag \in Nat
  /\ Intervals \subseteq Nat /\ Credits \subseteq {0, 2}
  /\ \A x : ~ (x \in Workers /\ x \in Consoles)
  /\ \A x : ~ (x \in Workers /\ x \in Pollers)
BY FrontierAssumption

-----------------------------------------------------------------------------
(* What a client's program counter says of its locals.  A worker past its   *)
(* claim holds a page until it has completed it, a client in the middle of  *)
(* writing an entry knows which, and a worker that still has links to add   *)
(* holds a page whose links are not too deep to follow.                     *)
Holding == {"fetch", "links", "defer meta", "defer due", "complete", "forget"} \cup Adding
Writing == {"front", "defer meta", "defer due", "promote host", "promote done"} \cup Adding

Shape ==
  /\ \A w \in Workers : pc[w] \in Holding => w \in DOMAIN held
  /\ \A c \in Clients : pc[c] \in Writing => c \in DOMAIN arg
  /\ \A w \in Workers : links[w] # {} => /\ pc[w] \in {"links"} \cup Adding
                                         /\ held[w].depth < MaxDepth
  /\ \A w \in Workers : pc[w] # "front"

(* The types of what is read out of the maps in the middle of a step. *)
LEMMA ArgType ==
  ASSUME TypeOK, Shape, NEW c \in Clients, pc[c] \in Writing
  PROVE  /\ c \in DOMAIN arg /\ arg[c] \in Pending
         /\ arg[c].url \in Urls /\ arg[c].depth \in Depths
         /\ HostOf[arg[c].url] \in Hosts
<1>1. c \in DOMAIN arg
  BY DEF Shape
<1>2. arg[c] \in Pending
  BY <1>1, MapApply DEF TypeOK, LocalOK
<1> QED
  BY <1>1, <1>2, Assumptions DEF Pending

LEMMA HeldType ==
  ASSUME TypeOK, Shape, NEW w \in Workers, pc[w] \in Holding
  PROVE  /\ w \in DOMAIN held /\ held[w] \in Claimed
         /\ held[w].url \in Urls /\ held[w].depth \in Depths
<1>1. w \in DOMAIN held
  BY DEF Shape
<1>2. held[w] \in Claimed
  BY <1>1, MapApply DEF TypeOK, LocalOK
<1> QED
  BY <1>1, <1>2 DEF Claimed

LEMMA PriorityType ==
  ASSUME NEW e \in Pending
  PROVE  Priority(e) \in Nat
BY Assumptions DEF Pending, Priority, Depths

LEMMA DepthType ==
  ASSUME TypeOK, Shape, NEW c \in Workers \cup Consoles, pc[c] = "links", links[c] # {}
  PROVE  DepthOf(c) \in Depths
<1>1. CASE c \in Workers
  <2>1. held[c].depth \in Depths
    BY <1>1, HeldType DEF Holding
  <2>2. held[c].depth < MaxDepth
    BY <1>1 DEF Shape
  <2> QED
    BY <1>1, <2>1, <2>2, Assumptions DEF DepthOf, Depths
<1>2. CASE c \notin Workers
  BY <1>2, Assumptions DEF DepthOf, Depths
<1> QED BY <1>1, <1>2

LEMMA DiscoveryType ==
  ASSUME NEW u \in Urls, NEW d \in Depths
  PROVE  Discovery(u, d) \in Pending
BY DEF Discovery, Pending

LEMMA ClaimedUrl ==
  ASSUME TypeOK, NEW t, NEW h \in DueHosts(t), NEW u \in Lowest(queue, QueueOf(h))
  PROVE  /\ h \in Hosts /\ h \in DOMAIN hosts /\ hosts[h] <= t
         /\ u \in Urls /\ u \in DOMAIN queue /\ HostOf[u] = h
BY DEF TypeOK, StoreOK, IsMap, DueHosts, Lowest, UpTo, QueueOf

LEMMA DecodeType ==
  ASSUME TypeOK, NEW u \in Urls
  PROVE  [url |-> u, depth |-> DecodeMeta(u)] \in Claimed
<1>1. DecodeMeta(u) \in Depths
  BY MapApply, Assumptions DEF TypeOK, StoreOK, DecodeMeta, Depths
<1> QED BY <1>1 DEF Claimed

(* What the parts that actions share do to the types. *)
LEMMA GotoType ==
  ASSUME LocalOK, NEW c \in Clients, NEW l \in Labels, Goto(c, l)
  PROVE  pc' \in [Clients -> Labels]
BY DEF LocalOK, Goto

LEMMA WriteType ==
  ASSUME HistoryOK, NEW ok, Write(ok)
  PROVE  errors' \in Nat
BY DEF HistoryOK, Write

LEMMA ScheduleType ==
  ASSUME TypeOK, NEW h \in Hosts, NEW ok, ScheduleHost(h, ok)
  PROVE  IsMap(hosts', Hosts, Nat) /\ torn' \subseteq Hosts
<1>1. IsMap(PutNew(hosts, h, 0), Hosts, Nat)
  BY PutNewIsMap DEF TypeOK, StoreOK
<1> QED
  BY <1>1 DEF ScheduleHost, TypeOK, StoreOK, HistoryOK

-----------------------------------------------------------------------------
LEMMA TypeInit == Init => TypeOK
<1> SUFFICES ASSUME Init PROVE TypeOK
    OBVIOUS
<1>1. IsMap(hosts, Hosts, Nat) /\ IsMap(queue, Urls, Nat) /\ IsMap(meta, Urls, Depths)
  BY Assumptions DEF Init, IsMap, Priority, Discovery, Depths
<1>2. /\ IsMap(inflight, Urls, Nat) /\ IsMap(deferred, Pending, Nat)
      /\ IsMap(held, Workers, Claimed) /\ IsMap(arg, Clients, Pending)
      /\ IsMap(lastClaim, Hosts, Nat) /\ IsMap(fate, Urls, Fates)
  BY EmptyIsMap DEF Init
<1>3. StoreOK
  BY <1>1, <1>2, Assumptions DEF Init, StoreOK
<1>4. LocalOK
  BY <1>2 DEF Init, LocalOK, Labels
<1>5. HistoryOK
  BY <1>2 DEF Init, HistoryOK
<1> QED
  BY <1>3, <1>4, <1>5 DEF Init, TypeOK

LEMMA TypeNext == TypeOK /\ Shape /\ [Next]_vars => TypeOK'
<1> SUFFICES ASSUME TypeOK, Shape, [Next]_vars PROVE TypeOK'
    OBVIOUS
<1> USE DEF TypeOK, Holding, Writing
<1>1. CASE Tick
  BY <1>1 DEF Tick, StoreOK, LocalOK, HistoryOK, store, local, history
<1>2. ASSUME NEW w \in Workers, BeginStep(w) PROVE TypeOK'
  <2>1. w \in Clients
    BY <1>2 DEF Clients
  <2>2. StoreOK' /\ clock' \in Nat
    BY <1>2, <2>1
    DEF BeginStep, StoreOK, store
  <2>3. LocalOK'
    BY <1>2, <2>1, GotoType
    DEF BeginStep, LocalOK, local, Labels, Sweeping, Adding
  <2>4. HistoryOK'
    BY <1>2, <2>1
    DEF BeginStep, HistoryOK, history
  <2> QED BY <2>2, <2>3, <2>4
<1>3. ASSUME NEW w \in Workers, Reclaim(w) PROVE TypeOK'
  <2>1. w \in Clients
    BY <1>3 DEF Clients
  <2>2. StoreOK' /\ clock' \in Nat
    BY <1>3, <2>1, RemoveIsMap
    DEF Reclaim, StoreOK, store
  <2>3. LocalOK'
    BY <1>3, <2>1, GotoType
    DEF Reclaim, LocalOK, local, Labels, Sweeping, Adding
  <2>4. HistoryOK'
    BY <1>3, <2>1
    DEF Reclaim, HistoryOK, history, Fates, Expired, StoreOK, IsMap
  <2> QED BY <2>2, <2>3, <2>4
<1>4. ASSUME NEW w \in Workers, ReadDue(w) PROVE TypeOK'
  <2>1. w \in Clients
    BY <1>4 DEF Clients
  <2>2. UpTo(deferred, now[w]) \subseteq Pending
    BY <1>4 DEF UpTo, StoreOK, IsMap
  <2>3. StoreOK' /\ clock' \in Nat
    BY <1>4, <2>1, <2>2
    DEF ReadDue, StoreOK, store
  <2>4. LocalOK'
    BY <1>4, <2>1, <2>2, GotoType
    DEF ReadDue, LocalOK, local, Labels, Sweeping, Adding
  <2>5. HistoryOK'
    BY <1>4, <2>1, <2>2
    DEF ReadDue, HistoryOK, history
  <2> QED BY <2>3, <2>4, <2>5
<1>5. ASSUME NEW w \in Workers, NEW ok \in BOOLEAN, PromoteQueue(w, ok) PROVE TypeOK'
  <2>1. w \in Clients
    BY <1>5 DEF Clients
  <2>2. \A e \in todo[w] : e \in Pending /\ e.url \in Urls /\ Priority(e) \in Nat
    BY <1>5, PriorityType DEF LocalOK, Pending
  <2>3. StoreOK' /\ clock' \in Nat
    BY <1>5, <2>1, <2>2, PutIsMap
    DEF PromoteQueue, StoreOK, store, Write
  <2>4. pc' \in [Clients -> Labels]
    BY <1>5, <2>1, GotoType
    DEF PromoteQueue, LocalOK, Labels, Sweeping, Adding
  <2>5. IsMap(arg', Clients, Pending)
    <3>1. PICK e \in todo[w] : arg' = Put(arg, w, e)
      BY <1>5 DEF PromoteQueue
    <3> QED
      BY <3>1, <2>1, <2>2, PutIsMap DEF LocalOK
  <2>6. LocalOK'
    BY <1>5, <2>1, <2>2, <2>4, <2>5
    DEF PromoteQueue, LocalOK
  <2>7. HistoryOK'
    BY <1>5, <2>1, <2>2, RemoveIsMap, WriteType
    DEF PromoteQueue, HistoryOK, history
  <2> QED BY <2>3, <2>6, <2>7
<1>6. ASSUME NEW w \in Workers, NEW ok \in BOOLEAN, PromoteHost(w, ok) PROVE TypeOK'
  <2>1. /\ w \in Clients /\ arg[w] \in Pending /\ arg[w].url \in Urls
          /\ arg[w].depth \in Depths /\ HostOf[arg[w].url] \in Hosts
    BY <1>6, ArgType DEF PromoteHost, Adding, At, Clients
  <2>2. StoreOK' /\ clock' \in Nat
    BY <1>6, <2>1, ScheduleType
    DEF PromoteHost, StoreOK, store
  <2>3. LocalOK'
    BY <1>6, <2>1, GotoType
    DEF PromoteHost, LocalOK, local, Labels, Sweeping, Adding
  <2>4. HistoryOK'
    BY <1>6, <2>1, ScheduleType, WriteType
    DEF PromoteHost, HistoryOK, history
  <2> QED BY <2>2, <2>3, <2>4
<1>7. ASSUME NEW w \in Workers, NEW ok \in BOOLEAN, PromoteDone(w, ok) PROVE TypeOK'
  <2>1. /\ w \in Clients /\ arg[w] \in Pending /\ arg[w].url \in Urls
          /\ arg[w].depth \in Depths /\ HostOf[arg[w].url] \in Hosts
    BY <1>7, ArgType DEF PromoteDone, Adding, At, Clients
  <2>2. StoreOK' /\ clock' \in Nat
    BY <1>7, <2>1, RemoveIsMap
    DEF PromoteDone, StoreOK, store
  <2>3. LocalOK'
    BY <1>7, <2>1, RemoveIsMap, GotoType
    DEF PromoteDone, LocalOK, local, Labels, Sweeping, Adding
  <2>4. HistoryOK'
    BY <1>7, <2>1, PutIsMap, WriteType
    DEF PromoteDone, HistoryOK, history, Fates
  <2> QED BY <2>2, <2>3, <2>4
<1>8. ASSUME NEW w \in Workers, ClaimNothing(w) PROVE TypeOK'
  <2>1. w \in Clients
    BY <1>8 DEF Clients
  <2>2. StoreOK' /\ clock' \in Nat
    BY <1>8, <2>1
    DEF ClaimNothing, StoreOK, store
  <2>3. LocalOK'
    BY <1>8, <2>1, GotoType
    DEF ClaimNothing, LocalOK, local, Labels, Sweeping, Adding
  <2>4. HistoryOK'
    BY <1>8, <2>1, WriteType
    DEF ClaimNothing, HistoryOK, history
  <2> QED BY <2>2, <2>3, <2>4
<1>9. ASSUME NEW w \in Workers, ClaimEmptyHost(w) PROVE TypeOK'
  <2>1. w \in Clients
    BY <1>9 DEF Clients
  <2>2. StoreOK' /\ clock' \in Nat
    BY <1>9, <2>1, RemoveIsMap
    DEF ClaimEmptyHost, StoreOK, store
  <2>3. LocalOK'
    BY <1>9, <2>1, GotoType
    DEF ClaimEmptyHost, LocalOK, local, Labels, Sweeping, Adding
  <2>4. HistoryOK'
    BY <1>9, <2>1
    DEF ClaimEmptyHost, HistoryOK, history
  <2> QED BY <2>2, <2>3, <2>4
<1>10. ASSUME NEW w \in Workers, ClaimUrl(w) PROVE TypeOK'
  <2>1. w \in Clients
    BY <1>10 DEF Clients
  <2>2. now[w] \in Nat /\ now[w] + Delay \in Nat /\ now[w] + ClaimTTL \in Nat
    BY <1>10, Assumptions DEF LocalOK
  <2>3. StoreOK' /\ clock' \in Nat
    BY <1>10, <2>1, <2>2, RemoveIsMap, PutIsMap, ClaimedUrl
    DEF ClaimUrl, StoreOK, store
  <2>4. pc' \in [Clients -> Labels]
    BY <1>10, <2>1, GotoType
    DEF ClaimUrl, LocalOK, Labels, Sweeping, Adding
  <2>5. IsMap(held', Workers, Claimed)
    BY <1>10, <2>1, <2>2, PutIsMap, ClaimedUrl, DecodeType
    DEF ClaimUrl, LocalOK
  <2>6. LocalOK'
    BY <1>10, <2>1, <2>2, <2>4, <2>5
    DEF ClaimUrl, LocalOK
  <2>7. HistoryOK'
    BY <1>10, <2>1, <2>2, PutIsMap, ClaimedUrl
    DEF ClaimUrl, HistoryOK, history
  <2> QED BY <2>3, <2>6, <2>7
<1>11. ASSUME NEW w \in Workers, Fetch(w) PROVE TypeOK'
  <2>1. w \in Clients
    BY <1>11 DEF Clients
  <2>2. held[w].url \in Urls /\ held[w].depth \in Depths /\ held[w] \in Claimed
    BY <1>11, HeldType DEF Fetch, Adding, At
  <2>3. Links[held[w].url] \subseteq Urls
    BY <1>11, <2>2, Assumptions
  <2>4. StoreOK' /\ clock' \in Nat
    BY <1>11, <2>1, <2>2, <2>3
    DEF Fetch, StoreOK, store
  <2>5. LocalOK'
    BY <1>11, <2>1, <2>2, <2>3, GotoType
    DEF Fetch, LocalOK, local, Labels, Sweeping, Adding
  <2>6. HistoryOK'
    BY <1>11, <2>1, <2>2, <2>3
    DEF Fetch, HistoryOK, history
  <2> QED BY <2>4, <2>5, <2>6
<1>12. ASSUME NEW c \in Workers \cup Consoles, AddKnown(c) PROVE TypeOK'
  <2>1. c \in Clients
    BY <1>12 DEF Clients
  <2>2. \A u \in links[c] : u \in Urls
    BY <1>12 DEF LocalOK, Clients
  <2>3. 0 \in Depths
    BY <1>12, Assumptions DEF Depths
  <2>4. StoreOK' /\ clock' \in Nat
    BY <1>12, <2>1, <2>2, <2>3
    DEF AddKnown, StoreOK, store
  <2>5. pc' \in [Clients -> Labels]
    BY <1>12, <2>1, GotoType
    DEF AddKnown, LocalOK, Labels, Sweeping, Adding, NotAdded
  <2>6. IsMap(arg', Clients, Pending)
    BY <1>12, <2>1, <2>2, <2>3, PutIsMap, DiscoveryType
    DEF AddKnown, LocalOK, NotAdded
  <2>7. LocalOK'
    BY <1>12, <2>1, <2>2, <2>3, <2>5, <2>6
    DEF AddKnown, LocalOK, NotAdded
  <2>8. HistoryOK'
    BY <1>12, <2>1, <2>2, <2>3, WriteType
    DEF AddKnown, HistoryOK, history
  <2> QED BY <2>4, <2>7, <2>8
<1>13. ASSUME NEW c \in Workers \cup Consoles, AddFull(c) PROVE TypeOK'
  <2>1. c \in Clients
    BY <1>13 DEF Clients
  <2>2. \A u \in links[c] : u \in Urls
    BY <1>13 DEF LocalOK, Clients
  <2>3. 0 \in Depths
    BY <1>13, Assumptions DEF Depths
  <2>4. StoreOK' /\ clock' \in Nat
    BY <1>13, <2>1, <2>2, <2>3
    DEF AddFull, StoreOK, store
  <2>5. pc' \in [Clients -> Labels]
    BY <1>13, <2>1, GotoType
    DEF AddFull, LocalOK, Labels, Sweeping, Adding, NotAdded
  <2>6. IsMap(arg', Clients, Pending)
    BY <1>13, <2>1, <2>2, <2>3, PutIsMap, DiscoveryType
    DEF AddFull, LocalOK, NotAdded
  <2>7. LocalOK'
    BY <1>13, <2>1, <2>2, <2>3, <2>5, <2>6
    DEF AddFull, LocalOK, NotAdded
  <2>8. IsMap(fate', Urls, Fates)
    <3>1. PICK u \in links[c] \ seen : fate' = Put(fate, u, "full")
      BY <1>13 DEF AddFull
    <3> QED
      BY <3>1, <2>2, PutIsMap DEF HistoryOK, Fates
  <2>9. HistoryOK'
    BY <1>13, <2>8
    DEF AddFull, HistoryOK, history
  <2> QED BY <2>4, <2>7, <2>9
<1>14. ASSUME NEW c \in Workers \cup Consoles, AddNew(c) PROVE TypeOK'
  <2>1. c \in Clients
    BY <1>14 DEF Clients
  <2>2. \A u \in links[c] : u \in Urls
    BY <1>14 DEF LocalOK, Clients
  <2>3. links[c] # {} /\ DepthOf(c) \in Depths
    BY <1>14, DepthType DEF AddNew, At
  <2>4. StoreOK' /\ clock' \in Nat
    BY <1>14, <2>1, <2>2, <2>3
    DEF AddNew, StoreOK, store
  <2>5. pc' \in [Clients -> Labels]
    BY <1>14, <2>1, GotoType
    DEF AddNew, LocalOK, Labels, Sweeping, Adding
  <2>6. IsMap(arg', Clients, Pending)
    BY <1>14, <2>1, <2>2, <2>3, PutIsMap, DiscoveryType
    DEF AddNew, LocalOK
  <2>7. LocalOK'
    BY <1>14, <2>1, <2>2, <2>3, <2>5, <2>6
    DEF AddNew, LocalOK
  <2>8. HistoryOK'
    BY <1>14, <2>1, <2>2, <2>3
    DEF AddNew, HistoryOK, history
  <2> QED BY <2>4, <2>7, <2>8
<1>15. ASSUME NEW c \in Workers \cup Consoles, NEW ok \in BOOLEAN, AddQueue(c, ok) PROVE TypeOK'
  <2>1. /\ c \in Clients /\ arg[c] \in Pending /\ arg[c].url \in Urls
          /\ arg[c].depth \in Depths /\ HostOf[arg[c].url] \in Hosts
    BY <1>15, ArgType DEF AddQueue, Adding, At, Clients
  <2>2. Priority(arg[c]) \in Nat
    BY <1>15, <2>1, PriorityType
  <2>3. StoreOK' /\ clock' \in Nat
    BY <1>15, <2>1, <2>2, PutIsMap
    DEF AddQueue, StoreOK, store
  <2>4. LocalOK'
    BY <1>15, <2>1, <2>2, GotoType
    DEF AddQueue, LocalOK, local, Labels, Sweeping, Adding
  <2>5. HistoryOK'
    BY <1>15, <2>1, <2>2, RemoveIsMap, WriteType
    DEF AddQueue, HistoryOK, history
  <2> QED BY <2>3, <2>4, <2>5
<1>16. ASSUME NEW c \in Workers \cup Consoles, NEW ok \in BOOLEAN, AddMeta(c, ok) PROVE TypeOK'
  <2>1. /\ c \in Clients /\ arg[c] \in Pending /\ arg[c].url \in Urls
          /\ arg[c].depth \in Depths /\ HostOf[arg[c].url] \in Hosts
    BY <1>16, ArgType DEF AddMeta, Adding, At, Clients
  <2>2. StoreOK' /\ clock' \in Nat
    BY <1>16, <2>1, PutIsMap
    DEF AddMeta, StoreOK, store
  <2>3. LocalOK'
    BY <1>16, <2>1, GotoType
    DEF AddMeta, LocalOK, local, Labels, Sweeping, Adding
  <2>4. HistoryOK'
    BY <1>16, <2>1, WriteType
    DEF AddMeta, HistoryOK, history
  <2> QED BY <2>2, <2>3, <2>4
<1>17. ASSUME NEW c \in Workers \cup Consoles, NEW ok \in BOOLEAN, AddHost(c, ok) PROVE TypeOK'
  <2>1. /\ c \in Clients /\ arg[c] \in Pending /\ arg[c].url \in Urls
          /\ arg[c].depth \in Depths /\ HostOf[arg[c].url] \in Hosts
    BY <1>17, ArgType DEF AddHost, Adding, At, Clients
  <2>2. StoreOK' /\ clock' \in Nat
    BY <1>17, <2>1, ScheduleType
    DEF AddHost, StoreOK, store
  <2>3. pc' \in [Clients -> Labels]
    BY <1>17, <2>1, GotoType
    DEF AddHost, LocalOK, Labels, Sweeping, Adding, AfterAdd
  <2>4. IsMap(arg', Clients, Pending)
    <3>1. arg' = Remove(arg, {c}) \/ arg' = arg
      BY <1>17 DEF AddHost
    <3> QED
      BY <3>1, RemoveIsMap DEF LocalOK
  <2>5. LocalOK'
    BY <1>17, <2>1, <2>3, <2>4
    DEF AddHost, LocalOK, AfterAdd
  <2>6. HistoryOK'
    BY <1>17, <2>1, ScheduleType, WriteType
    DEF AddHost, HistoryOK, history
  <2> QED BY <2>2, <2>5, <2>6
<1>18. ASSUME NEW c \in Workers \cup Consoles, NEW ok \in BOOLEAN, UndoSeen(c, ok) PROVE TypeOK'
  <2>1. /\ c \in Clients /\ arg[c] \in Pending /\ arg[c].url \in Urls
          /\ arg[c].depth \in Depths /\ HostOf[arg[c].url] \in Hosts
    BY <1>18, ArgType DEF UndoSeen, Adding, At, Clients
  <2>2. StoreOK' /\ clock' \in Nat
    BY <1>18, <2>1
    DEF UndoSeen, StoreOK, store
  <2>3. LocalOK'
    BY <1>18, <2>1, GotoType
    DEF UndoSeen, LocalOK, local, Labels, Sweeping, Adding
  <2>4. HistoryOK'
    BY <1>18, <2>1, PutIsMap, WriteType
    DEF UndoSeen, HistoryOK, history, Fates
  <2> QED BY <2>2, <2>3, <2>4
<1>19. ASSUME NEW c \in Workers \cup Consoles, NEW ok \in BOOLEAN, UndoMeta(c, ok) PROVE TypeOK'
  <2>1. /\ c \in Clients /\ arg[c] \in Pending /\ arg[c].url \in Urls
          /\ arg[c].depth \in Depths /\ HostOf[arg[c].url] \in Hosts
    BY <1>19, ArgType DEF UndoMeta, Adding, At, Clients
  <2>2. StoreOK' /\ clock' \in Nat
    BY <1>19, <2>1, RemoveIsMap
    DEF UndoMeta, StoreOK, store
  <2>3. LocalOK'
    BY <1>19, <2>1, RemoveIsMap, GotoType
    DEF UndoMeta, LocalOK, local, Labels, Sweeping, Adding, AfterAdd
  <2>4. HistoryOK'
    BY <1>19, <2>1, WriteType
    DEF UndoMeta, HistoryOK, history
  <2> QED BY <2>2, <2>3, <2>4
<1>20. ASSUME NEW c \in Consoles, Submit(c) PROVE TypeOK'
  <2>1. c \in Clients
    BY <1>20 DEF Clients
  <2>2. \A u \in Sources : u \in Urls
    BY <1>20, Assumptions
  <2>3. StoreOK' /\ clock' \in Nat
    BY <1>20, <2>1, <2>2
    DEF Submit, StoreOK, store
  <2>4. LocalOK'
    BY <1>20, <2>1, <2>2, GotoType
    DEF Submit, LocalOK, local, Labels, Sweeping, Adding
  <2>5. HistoryOK'
    BY <1>20, <2>1, <2>2
    DEF Submit, HistoryOK, history
  <2> QED BY <2>3, <2>4, <2>5
<1>21. ASSUME NEW c \in Consoles, MoveToFront(c) PROVE TypeOK'
  <2>1. /\ c \in Clients /\ arg[c] \in Pending /\ arg[c].url \in Urls
          /\ arg[c].depth \in Depths /\ HostOf[arg[c].url] \in Hosts
    BY <1>21, ArgType DEF MoveToFront, Adding, At, Clients
  <2>2. Front \in Nat
    BY <1>21 DEF Front
  <2>3. StoreOK' /\ clock' \in Nat
    BY <1>21, <2>1, <2>2, PutOldIsMap
    DEF MoveToFront, StoreOK, store
  <2>4. LocalOK'
    BY <1>21, <2>1, <2>2, RemoveIsMap, GotoType
    DEF MoveToFront, LocalOK, local, Labels, Sweeping, Adding
  <2>5. HistoryOK'
    BY <1>21, <2>1, <2>2
    DEF MoveToFront, HistoryOK, history
  <2> QED BY <2>3, <2>4, <2>5
<1>22. ASSUME NEW w \in Workers, Book(w) PROVE TypeOK'
  <2>1. w \in Clients
    BY <1>22 DEF Clients
  <2>2. held[w].url \in Urls /\ held[w].depth \in Depths /\ held[w] \in Claimed
    BY <1>22, HeldType DEF Book, Adding, At
  <2>3. \A k \in Credits : [url |-> held[w].url, depth |-> held[w].depth, credit |-> k] \in Pending
    BY <1>22, <2>2, Assumptions DEF Pending
  <2>4. StoreOK' /\ clock' \in Nat
    BY <1>22, <2>1, <2>2, <2>3
    DEF Book, StoreOK, store
  <2>5. pc' \in [Clients -> Labels]
    BY <1>22, <2>1, GotoType
    DEF Book, LocalOK, Labels, Sweeping, Adding
  <2>6. IsMap(arg', Clients, Pending)
    <3>1. PICK k \in Credits :
            arg' = Put(arg, w, [url |-> held[w].url, depth |-> held[w].depth, credit |-> k])
      BY <1>22 DEF Book
    <3> QED
      BY <3>1, <2>1, <2>3, PutIsMap DEF LocalOK
  <2>7. LocalOK'
    BY <1>22, <2>1, <2>2, <2>3, <2>5, <2>6
    DEF Book, LocalOK
  <2>8. HistoryOK'
    BY <1>22, <2>1, <2>2, <2>3
    DEF Book, HistoryOK, history
  <2> QED BY <2>4, <2>7, <2>8
<1>23. ASSUME NEW p \in Pollers, SitemapChanged(p) PROVE TypeOK'
  <2>1. p \in Clients
    BY <1>23 DEF Clients
  <2>2. \A u \in visited : [url |-> u, depth |-> 1, credit |-> SitemapCredit] \in Pending
    BY <1>23, Assumptions DEF Pending, Depths, SitemapCredit, StoreOK
  <2>3. StoreOK' /\ clock' \in Nat
    BY <1>23, <2>1, <2>2
    DEF SitemapChanged, StoreOK, store
  <2>4. pc' \in [Clients -> Labels]
    BY <1>23, <2>1, GotoType
    DEF SitemapChanged, LocalOK, Labels, Sweeping, Adding
  <2>5. IsMap(arg', Clients, Pending)
    <3>1. PICK u \in visited :
            arg' = Put(arg, p, [url |-> u, depth |-> 1, credit |-> SitemapCredit])
      BY <1>23 DEF SitemapChanged
    <3> QED
      BY <3>1, <2>1, <2>2, PutIsMap DEF LocalOK
  <2>6. LocalOK'
    BY <1>23, <2>1, <2>2, <2>4, <2>5
    DEF SitemapChanged, LocalOK
  <2>7. HistoryOK'
    <3>1. /\ requests' = requests + 1
          /\ UNCHANGED <<lastClaim, torn, rebooked, fate, crashes, errors>>
      BY <1>23 DEF SitemapChanged
    <3> QED
      BY <3>1 DEF HistoryOK
  <2> QED BY <2>3, <2>6, <2>7
<1>24. ASSUME NEW c \in Workers \cup Pollers, NEW ok \in BOOLEAN, DeferMeta(c, ok) PROVE TypeOK'
  <2>1. /\ c \in Clients /\ arg[c] \in Pending /\ arg[c].url \in Urls
          /\ arg[c].depth \in Depths /\ HostOf[arg[c].url] \in Hosts
    BY <1>24, ArgType DEF DeferMeta, Adding, At, Clients
  <2>2. StoreOK' /\ clock' \in Nat
    BY <1>24, <2>1, PutIsMap
    DEF DeferMeta, StoreOK, store
  <2>3. LocalOK'
    BY <1>24, <2>1, GotoType
    DEF DeferMeta, LocalOK, local, Labels, Sweeping, Adding
  <2>4. HistoryOK'
    BY <1>24, <2>1, WriteType
    DEF DeferMeta, HistoryOK, history
  <2> QED BY <2>2, <2>3, <2>4
<1>25. ASSUME NEW c \in Workers \cup Pollers, NEW ok \in BOOLEAN, DeferDue(c, ok) PROVE TypeOK'
  <2>1. /\ c \in Clients /\ arg[c] \in Pending /\ arg[c].url \in Urls
          /\ arg[c].depth \in Depths /\ HostOf[arg[c].url] \in Hosts
    BY <1>25, ArgType DEF DeferDue, Adding, At, Clients
  <2>2. PICK due \in Nat : deferred' = IF ok THEN Put(deferred, arg[c], due) ELSE deferred
    <3>1. PICK i \in IF c \in Workers THEN Intervals ELSE {0} :
            deferred' = IF ok THEN Put(deferred, arg[c], clock + i) ELSE deferred
      BY <1>25 DEF DeferDue
    <3>2. clock + i \in Nat
      BY Assumptions
    <3> QED BY <3>1, <3>2
  <2>3. StoreOK' /\ clock' \in Nat
    <3>1. UNCHANGED <<clock, hosts, queue, seen, inflight, meta, visited>>
      BY <1>25 DEF DeferDue
    <3>2. IsMap(Put(deferred, arg[c], due), Pending, Nat)
      BY <2>1, PutIsMap DEF StoreOK
    <3>3. IsMap(deferred', Pending, Nat)
      BY <2>2, <3>2 DEF StoreOK
    <3> QED BY <3>1, <3>3 DEF StoreOK
  <2>4. LocalOK'
    BY <1>25, <2>1, RemoveIsMap, GotoType
    DEF DeferDue, LocalOK, local, Labels, Sweeping, Adding
  <2>5. HistoryOK'
    BY <1>25, <2>1, PutIsMap, RemoveIsMap, WriteType
    DEF DeferDue, HistoryOK, history, Fates
  <2> QED BY <2>3, <2>4, <2>5
<1>26. ASSUME NEW w \in Workers, NEW ok \in BOOLEAN, CompleteClaim(w, ok) PROVE TypeOK'
  <2>1. w \in Clients
    BY <1>26 DEF Clients
  <2>2. held[w].url \in Urls /\ held[w].depth \in Depths /\ held[w] \in Claimed
    BY <1>26, HeldType DEF CompleteClaim, Adding, At
  <2>3. StoreOK' /\ clock' \in Nat
    BY <1>26, <2>1, <2>2, RemoveIsMap
    DEF CompleteClaim, StoreOK, store
  <2>4. LocalOK'
    BY <1>26, <2>1, <2>2, GotoType
    DEF CompleteClaim, LocalOK, local, Labels, Sweeping, Adding
  <2>5. HistoryOK'
    BY <1>26, <2>1, <2>2, PutIsMap, WriteType
    DEF CompleteClaim, HistoryOK, history, Fates
  <2> QED BY <2>3, <2>4, <2>5
<1>27. ASSUME NEW w \in Workers, NEW ok \in BOOLEAN, CompleteMeta(w, ok) PROVE TypeOK'
  <2>1. w \in Clients
    BY <1>27 DEF Clients
  <2>2. StoreOK' /\ clock' \in Nat
    BY <1>27, <2>1, RemoveIsMap
    DEF CompleteMeta, StoreOK, store
  <2>3. LocalOK'
    BY <1>27, <2>1, RemoveIsMap, GotoType
    DEF CompleteMeta, LocalOK, local, Labels, Sweeping, Adding
  <2>4. HistoryOK'
    BY <1>27, <2>1, WriteType
    DEF CompleteMeta, HistoryOK, history
  <2> QED BY <2>2, <2>3, <2>4
<1>28. ASSUME NEW c \in Clients, Crash(c) PROVE TypeOK'
  <2>1. pc[c] \in Writing => arg[c].url \in Urls /\ HostOf[arg[c].url] \in Hosts
    BY <1>28, ArgType
  <2>2. c \in DOMAIN held => c \in Workers /\ held[c] \in Claimed
    BY <1>28, MapApply DEF LocalOK
  <2>3. c \in DOMAIN held => held[c].url \in Urls
    BY <1>28, <2>2 DEF Claimed
  <2>4. StoreOK' /\ clock' \in Nat
    BY <1>28, <2>1, <2>2, <2>3
    DEF Crash, StoreOK, store
  <2>5. LocalOK'
    <3>1. /\ pc' = [pc EXCEPT ![c] = "idle"] /\ links' = [links EXCEPT ![c] = {}]
          /\ held' = Remove(held, {c}) /\ arg' = Remove(arg, {c})
          /\ failed' = failed \ {c} /\ booking' = booking \ {c}
      BY <1>28 DEF Crash
    <3>2. now' \in [Workers -> Nat] /\ todo' \in [Workers -> SUBSET Pending]
      <4>1. \/ now' = [now EXCEPT ![c] = 0] /\ todo' = [todo EXCEPT ![c] = {}]
            \/ now' = now /\ todo' = todo
        BY <1>28 DEF Crash
      <4> QED BY <4>1 DEF LocalOK
    <3>3. IsMap(held', Workers, Claimed) /\ IsMap(arg', Clients, Pending)
      BY <3>1, RemoveIsMap DEF LocalOK
    <3> QED
      BY <3>1, <3>2, <3>3 DEF LocalOK, Labels
  <2>6. HistoryOK'
    <3> DEFINE dropped == (IF pc[c] \in Adding THEN {arg[c].url} ELSE {})
                            \cup (IF c \in DOMAIN held THEN {held[c].url} ELSE {})
    <3>1. dropped \subseteq Urls
      BY <2>1, <2>3
    <3>2. fate' = [u \in DOMAIN fate \cup dropped |-> IF u \in dropped THEN "crashed" ELSE fate[u]]
      BY <1>28 DEF Crash
    <3>3. IsMap(fate', Urls, Fates)
      <4> HIDE DEF dropped
      <4> QED BY <3>1, <3>2 DEF HistoryOK, IsMap, Fates
    <3>4. torn' \subseteq Hosts
      BY <1>28, <2>1 DEF Crash, HistoryOK, Adding
    <3>5. crashes' = crashes + 1 /\ UNCHANGED <<lastClaim, rebooked, errors, requests>>
      BY <1>28 DEF Crash
    <3> QED
      BY <3>3, <3>4, <3>5 DEF HistoryOK
  <2> QED BY <2>4, <2>5, <2>6
<1>29. CASE UNCHANGED vars
  BY <1>29 DEF vars, store, local, history, StoreOK, LocalOK, HistoryOK
<1> QED
  BY <1>1, <1>2, <1>3, <1>4, <1>5, <1>6, <1>7, <1>8, <1>9, <1>10, <1>11, <1>12, <1>13, <1>14, <1>15, <1>16, <1>17, <1>18, <1>19, <1>20, <1>21, <1>22, <1>23, <1>24, <1>25, <1>26, <1>27, <1>28, <1>29
  DEF Next, WorkerStep, ConsoleStep, PollerStep, Sweep, Claim, Add, Defer, Complete

-----------------------------------------------------------------------------
LEMMA ShapeInit == Init => Shape
BY EmptyIsMap DEF Init, Shape, Holding, Writing, Adding, Clients

(* The step of one client leaves every other client's locals alone, and     *)
(* Shape speaks of one client at a time.                                    *)
ShapeOf(c) ==
  /\ c \in Workers /\ pc[c] \in Holding => c \in DOMAIN held
  /\ pc[c] \in Writing => c \in DOMAIN arg
  /\ c \in Workers /\ links[c] # {} => /\ pc[c] \in {"links"} \cup Adding
                                       /\ held[c].depth < MaxDepth
  /\ c \in Workers => pc[c] # "front"

LEMMA ShapeIsEach == Shape <=> \A c \in Clients : ShapeOf(c)
BY DEF Shape, ShapeOf, Clients

(* One client steps: the others keep their program counter, their links,    *)
(* and what they hold and write.                                            *)
OnlyOf(f, g, c) == \/ g = f
                   \/ \E x : g = [f EXCEPT ![c] = x]
OnlyIn(f, g, c) == \/ g = f
                   \/ \E x : g = Put(f, c, x)
                   \/ g = Remove(f, {c})
OnlyStep(c) == /\ OnlyOf(pc, pc', c)    /\ OnlyOf(links, links', c)
               /\ OnlyIn(held, held', c) /\ OnlyIn(arg, arg', c)

LEMMA OnlyOfApply ==
  ASSUME NEW f, NEW g, NEW c, OnlyOf(f, g, c), NEW d \in DOMAIN f, d # c
  PROVE  g[d] = f[d]
BY DEF OnlyOf

LEMMA OnlyInApply ==
  ASSUME NEW f, NEW g, NEW c, OnlyIn(f, g, c), NEW d, d # c
  PROVE  /\ d \in DOMAIN f <=> d \in DOMAIN g
         /\ d \in DOMAIN f => g[d] = f[d]
BY DEF OnlyIn, Put, Remove

LEMMA ShapeStep ==
  ASSUME TypeOK, Shape, NEW c \in Clients, OnlyStep(c), ShapeOf(c)'
  PROVE  Shape'
<1>1. ASSUME NEW d \in Clients, d # c PROVE ShapeOf(d)'
  <2>1. ShapeOf(d)
    BY <1>1, ShapeIsEach
  <2>2. pc'[d] = pc[d]
    BY <1>1, OnlyOfApply DEF OnlyStep, TypeOK, LocalOK
  <2>3. links'[d] = links[d]
    BY <1>1, OnlyOfApply DEF OnlyStep, TypeOK, LocalOK
  <2>4. /\ d \in DOMAIN held => d \in DOMAIN held' /\ held'[d] = held[d]
        /\ d \in DOMAIN arg => d \in DOMAIN arg'
    BY <1>1, OnlyInApply DEF OnlyStep
  <2> QED
    BY <2>1, <2>2, <2>3, <2>4 DEF ShapeOf, Holding
<1>2. \A d \in Clients : ShapeOf(d)'
  BY <1>1
<1> QED BY <1>2 DEF Shape, ShapeOf, Clients

LEMMA ShapeNext == TypeOK /\ Shape /\ [Next]_vars => Shape'
<1> SUFFICES ASSUME TypeOK, Shape, [Next]_vars PROVE Shape'
    OBVIOUS
<1> USE DEF At, Goto
<1>0. \A c \in Clients : ShapeOf(c)
  BY ShapeIsEach
<1>1. CASE Tick \/ UNCHANGED vars
  BY <1>1 DEF Tick, vars, local, Shape
<1>2. ASSUME NEW w \in Workers, BeginStep(w) \/ Reclaim(w) \/ ReadDue(w) \/ ClaimNothing(w) \/ ClaimEmptyHost(w)
      PROVE  Shape'
  <2>1. OnlyStep(w)
    BY <1>2 DEF OnlyStep, OnlyOf, OnlyIn, BeginStep, Reclaim, ReadDue, ClaimNothing, ClaimEmptyHost
  <2>2. ShapeOf(w)'
    BY <1>2, <1>0 DEF ShapeOf, Clients, BeginStep, Reclaim, ReadDue, ClaimNothing, ClaimEmptyHost, TypeOK, LocalOK, Holding, Writing, Adding
  <2> QED BY <2>1, <2>2, ShapeStep DEF Clients
<1>3. ASSUME NEW w \in Workers, NEW ok \in BOOLEAN, PromoteQueue(w, ok) \/ PromoteHost(w, ok)
      PROVE  Shape'
  <2>1. OnlyStep(w)
    BY <1>3 DEF OnlyStep, OnlyOf, OnlyIn, PromoteQueue, PromoteHost
  <2>2. ShapeOf(w)'
    BY <1>3, <1>0 DEF ShapeOf, Put, Clients, PromoteQueue, PromoteHost, TypeOK, LocalOK, Holding, Writing, Adding
  <2> QED BY <2>1, <2>2, ShapeStep DEF Clients
<1>4. ASSUME NEW w \in Workers, NEW ok \in BOOLEAN, PromoteDone(w, ok)
      PROVE  Shape'
  <2>1. OnlyStep(w)
    BY <1>4 DEF OnlyStep, OnlyOf, OnlyIn, PromoteDone
  <2>2. ShapeOf(w)'
    BY <1>4, <1>0, RemoveApply DEF ShapeOf, Clients, PromoteDone, TypeOK, LocalOK, Holding, Writing, Adding
  <2> QED BY <2>1, <2>2, ShapeStep DEF Clients
<1>5. ASSUME NEW w \in Workers, ClaimUrl(w)
      PROVE  Shape'
  <2>1. OnlyStep(w)
    BY <1>5 DEF OnlyStep, OnlyOf, OnlyIn, ClaimUrl
  <2>2. ShapeOf(w)'
    BY <1>5, <1>0 DEF ShapeOf, Put, Clients, ClaimUrl, TypeOK, LocalOK, Holding, Writing, Adding
  <2> QED BY <2>1, <2>2, ShapeStep DEF Clients
<1>6. ASSUME NEW w \in Workers, Fetch(w)
      PROVE  Shape'
  <2>1. OnlyStep(w)
    BY <1>6 DEF OnlyStep, OnlyOf, OnlyIn, Fetch
  <2>2. ShapeOf(w)'
    BY <1>6, <1>0 DEF ShapeOf, Clients, Fetch, TypeOK, LocalOK, Holding, Writing, Adding
  <2> QED BY <2>1, <2>2, ShapeStep DEF Clients
<1>7. ASSUME NEW c \in Workers \cup Consoles, AddKnown(c) \/ AddFull(c)
      PROVE  Shape'
  <2>1. OnlyStep(c)
    BY <1>7 DEF OnlyStep, OnlyOf, OnlyIn, NotAdded, AddKnown, AddFull
  <2>2. PICK u \in links[c] : NotAdded(c, u)
    BY <1>7 DEF AddKnown, AddFull
  <2>3. pc[c] = "links" /\ held' = held
    BY <1>7 DEF AddKnown, AddFull, local
  <2>4. ASSUME c \in Workers PROVE ShapeOf(c)'
    BY <2>2, <2>3, <2>4, <1>0 DEF NotAdded, ShapeOf, Clients, TypeOK, LocalOK, Holding, Writing, Adding
  <2>5. ASSUME c \notin Workers PROVE ShapeOf(c)'
    BY <2>2, <2>3, <2>5 DEF NotAdded, ShapeOf, Put, Clients, TypeOK, LocalOK
  <2>6. ShapeOf(c)'
    BY <2>4, <2>5
  <2> QED BY <2>1, <2>6, ShapeStep DEF Clients
<1>8. ASSUME NEW c \in Workers \cup Consoles, AddNew(c)
      PROVE  Shape'
  <2>1. OnlyStep(c)
    BY <1>8 DEF OnlyStep, OnlyOf, OnlyIn, AddNew
  <2>2. ShapeOf(c)'
    BY <1>8, <1>0 DEF ShapeOf, Put, Clients, AddNew, TypeOK, LocalOK, Holding, Writing, Adding
  <2> QED BY <2>1, <2>2, ShapeStep DEF Clients
<1>9. ASSUME NEW c \in Workers \cup Consoles, NEW ok \in BOOLEAN, AddQueue(c, ok) \/ AddMeta(c, ok) \/ UndoSeen(c, ok)
      PROVE  Shape'
  <2>1. OnlyStep(c)
    BY <1>9 DEF OnlyStep, OnlyOf, OnlyIn, AddQueue, AddMeta, UndoSeen
  <2>2. ShapeOf(c)'
    BY <1>9, <1>0 DEF ShapeOf, Clients, AddQueue, AddMeta, UndoSeen, TypeOK, LocalOK, Holding, Writing, Adding
  <2> QED BY <2>1, <2>2, ShapeStep DEF Clients
<1>10. ASSUME NEW c \in Workers \cup Consoles, NEW ok \in BOOLEAN, AddHost(c, ok) \/ UndoMeta(c, ok)
      PROVE  Shape'
  <2>1. OnlyStep(c)
    BY <1>10 DEF OnlyStep, OnlyOf, OnlyIn, AfterAdd, AddHost, UndoMeta
  <2>2. ShapeOf(c)'
    BY <1>10, <1>0, RemoveApply DEF ShapeOf, Clients, AfterAdd, AddHost, UndoMeta, TypeOK, LocalOK, Holding, Writing, Adding
  <2> QED BY <2>1, <2>2, ShapeStep DEF Clients
<1>11. ASSUME NEW c \in Consoles, Submit(c) \/ MoveToFront(c)
      PROVE  Shape'
  <2>1. OnlyStep(c)
    BY <1>11 DEF OnlyStep, OnlyOf, OnlyIn, Submit, MoveToFront
  <2>2. ShapeOf(c)'
    BY <1>11, <1>0, RemoveApply, Assumptions DEF ShapeOf, Clients, Submit, MoveToFront, TypeOK, LocalOK, Holding, Writing, Adding
  <2> QED BY <2>1, <2>2, ShapeStep DEF Clients
<1>12. ASSUME NEW w \in Workers, Book(w)
      PROVE  Shape'
  <2>1. OnlyStep(w)
    BY <1>12 DEF OnlyStep, OnlyOf, OnlyIn, Book
  <2>2. ShapeOf(w)'
    BY <1>12, <1>0 DEF ShapeOf, Put, Clients, Book, TypeOK, LocalOK, Holding, Writing, Adding
  <2> QED BY <2>1, <2>2, ShapeStep DEF Clients
<1>13. ASSUME NEW p \in Pollers, SitemapChanged(p)
      PROVE  Shape'
  <2>1. OnlyStep(p)
    BY <1>13 DEF OnlyStep, OnlyOf, OnlyIn, SitemapChanged
  <2>2. ShapeOf(p)'
    BY <1>13, <1>0, Assumptions DEF ShapeOf, Put, Clients, SitemapChanged, TypeOK, LocalOK, Holding, Writing, Adding
  <2> QED BY <2>1, <2>2, ShapeStep DEF Clients
<1>14. ASSUME NEW c \in Workers \cup Pollers, NEW ok \in BOOLEAN, DeferMeta(c, ok)
      PROVE  Shape'
  <2>1. OnlyStep(c)
    BY <1>14 DEF OnlyStep, OnlyOf, OnlyIn, DeferMeta
  <2>2. ShapeOf(c)'
    BY <1>14, <1>0 DEF ShapeOf, Clients, DeferMeta, TypeOK, LocalOK, Holding, Writing, Adding
  <2> QED BY <2>1, <2>2, ShapeStep DEF Clients
<1>15. ASSUME NEW c \in Workers \cup Pollers, NEW ok \in BOOLEAN, DeferDue(c, ok)
      PROVE  Shape'
  <2>1. OnlyStep(c)
    BY <1>15 DEF OnlyStep, OnlyOf, OnlyIn, DeferDue
  <2>2. ShapeOf(c)'
    BY <1>15, <1>0, RemoveApply DEF ShapeOf, Clients, DeferDue, TypeOK, LocalOK, Holding, Writing, Adding
  <2> QED BY <2>1, <2>2, ShapeStep DEF Clients
<1>16. ASSUME NEW w \in Workers, NEW ok \in BOOLEAN, CompleteClaim(w, ok)
      PROVE  Shape'
  <2>1. OnlyStep(w)
    BY <1>16 DEF OnlyStep, OnlyOf, OnlyIn, CompleteClaim
  <2>2. ShapeOf(w)'
    BY <1>16, <1>0 DEF ShapeOf, Clients, CompleteClaim, TypeOK, LocalOK, Holding, Writing, Adding
  <2> QED BY <2>1, <2>2, ShapeStep DEF Clients
<1>17. ASSUME NEW w \in Workers, NEW ok \in BOOLEAN, CompleteMeta(w, ok)
      PROVE  Shape'
  <2>1. OnlyStep(w)
    BY <1>17 DEF OnlyStep, OnlyOf, OnlyIn, CompleteMeta
  <2>2. ShapeOf(w)'
    BY <1>17, <1>0, RemoveApply DEF ShapeOf, Clients, CompleteMeta, TypeOK, LocalOK, Holding, Writing, Adding
  <2> QED BY <2>1, <2>2, ShapeStep DEF Clients
<1>18. ASSUME NEW c \in Clients, Crash(c)
      PROVE  Shape'
  <2>1. OnlyStep(c)
    BY <1>18 DEF OnlyStep, OnlyOf, OnlyIn, Crash
  <2>2. ShapeOf(c)'
    BY <1>18, <1>0, RemoveApply DEF ShapeOf, Clients, Crash, TypeOK, LocalOK, Holding, Writing, Adding
  <2> QED BY <2>1, <2>2, ShapeStep DEF Clients
<1> QED
  BY <1>1, <1>2, <1>3, <1>4, <1>5, <1>6, <1>7, <1>8, <1>9, <1>10, <1>11, <1>12, <1>13, <1>14, <1>15, <1>16, <1>17, <1>18
  DEF Next, WorkerStep, ConsoleStep, PollerStep, Sweep, Claim, Add, Defer, Complete

(* Every variable is always of its type, and a client always holds what its *)
(* program counter says (CLAIM_SCRIPT, add, defer, promote_due, complete).  *)
THEOREM TypeCorrect == Spec => [](TypeOK /\ Shape)
<1>1. Init => TypeOK /\ Shape
  BY TypeInit, ShapeInit
<1>2. TypeOK /\ Shape /\ [Next]_vars => TypeOK' /\ Shape'
  BY TypeNext, ShapeNext
<1> QED BY <1>1, <1>2, PTL DEF Spec

-----------------------------------------------------------------------------
(* Pacing.  A worker never lags more than MaxLag behind the clock while it  *)
(* sweeps, and a host that has been claimed from is scheduled no sooner     *)
(* than its delay after that claim, unless the delay is over.               *)
Timely ==
  \A w \in Workers : pc[w] \in Sweeping => now[w] <= clock /\ clock <= now[w] + MaxLag

RestOver(h)  == clock + MaxLag >= lastClaim[h] + Delay
Rests(h)     == h \in DOMAIN hosts /\ hosts[h] + MaxLag >= lastClaim[h] + Delay
Resting      == \A h \in DOMAIN lastClaim : RestOver(h) \/ Rests(h)

LEMMA TimelyKeep ==
  ASSUME TypeOK, Timely, clock' = clock, now' = now, NEW c \in Clients,
         OnlyOf(pc, pc', c), pc'[c] \in Sweeping => pc[c] \in Sweeping
  PROVE  Timely'
<1>1. ASSUME NEW w \in Workers, pc'[w] \in Sweeping PROVE pc[w] \in Sweeping
  <2>1. w \in DOMAIN pc
    BY DEF TypeOK, LocalOK, Clients
  <2> QED BY <1>1, <2>1, OnlyOfApply
<1> QED BY <1>1 DEF Timely

(* The actions that do not belong to the sweeps and the claim. *)
Elsewhere(c) ==
  \/ c \in Workers \cup Consoles /\ Add(c)
  \/ c \in Consoles /\ (Submit(c) \/ MoveToFront(c))
  \/ c \in Workers /\ (Fetch(c) \/ Book(c) \/ Complete(c))
  \/ c \in Pollers /\ SitemapChanged(c)
  \/ c \in Workers \cup Pollers /\ Defer(c)

LEMMA NextCases ==
  ASSUME Next
  PROVE  \/ Tick
         \/ \E w \in Workers : Sweep(w) \/ Claim(w)
         \/ \E c \in Clients : Elsewhere(c)
         \/ \E c \in Clients : Crash(c)
BY DEF Next, WorkerStep, ConsoleStep, PollerStep, Elsewhere, Clients

(* None of them begins a step, reads the clock, or claims. *)
Aside(c) == /\ clock' = clock /\ now' = now /\ lastClaim' = lastClaim
            /\ OnlyOf(pc, pc', c) /\ pc'[c] \notin Sweeping
            /\ DOMAIN held' \subseteq DOMAIN held

LEMMA ElsewhereAside ==
  ASSUME TypeOK, NEW c \in Clients, Elsewhere(c)
  PROVE  Aside(c)
<1> USE DEF Aside, OnlyOf, Goto, At, Sweeping, history, local, TypeOK, LocalOK
<1>1. CASE AddKnown(c) \/ AddFull(c)
  BY <1>1 DEF AddKnown, AddFull, NotAdded
<1>2. CASE AddNew(c)
  BY <1>2 DEF AddNew
<1>3. ASSUME NEW ok \in BOOLEAN, AddQueue(c, ok) \/ AddMeta(c, ok) PROVE Aside(c)
  BY <1>3 DEF AddQueue, AddMeta
<1>4. ASSUME NEW ok \in BOOLEAN, AddHost(c, ok) PROVE Aside(c)
  <2>1. PICK l \in {"links", "front", "undo seen"} : pc' = [pc EXCEPT ![c] = l]
    BY <1>4 DEF AddHost, AfterAdd
  <2>2. clock' = clock /\ now' = now /\ lastClaim' = lastClaim /\ held' = held
    BY <1>4 DEF AddHost
  <2> QED BY <2>1, <2>2
<1>5. ASSUME NEW ok \in BOOLEAN, UndoSeen(c, ok) \/ UndoMeta(c, ok) PROVE Aside(c)
  BY <1>5 DEF UndoSeen, UndoMeta, AfterAdd
<1>6. CASE Submit(c) \/ MoveToFront(c)
  BY <1>6 DEF Submit, MoveToFront
<1>7. CASE Fetch(c) \/ Book(c) \/ SitemapChanged(c)
  BY <1>7 DEF Fetch, Book, SitemapChanged
<1>8. ASSUME NEW ok \in BOOLEAN, CompleteClaim(c, ok) PROVE Aside(c)
  BY <1>8 DEF CompleteClaim
<1>9. ASSUME NEW ok \in BOOLEAN, CompleteMeta(c, ok) PROVE Aside(c)
  <2>1. DOMAIN held' = DOMAIN held \ {c}
    BY <1>9, RemoveApply DEF CompleteMeta
  <2> QED BY <1>9, <2>1 DEF CompleteMeta
<1>10. ASSUME NEW ok \in BOOLEAN, DeferMeta(c, ok) \/ DeferDue(c, ok) PROVE Aside(c)
  BY <1>10 DEF DeferMeta, DeferDue
<1> QED
  BY <1>1, <1>2, <1>3, <1>4, <1>5, <1>6, <1>7, <1>8, <1>9, <1>10
  DEF Elsewhere, Add, Complete, Defer

LEMMA TimelyNext == TypeOK /\ Timely /\ [Next]_vars => Timely'
<1> SUFFICES ASSUME TypeOK, Timely, [Next]_vars PROVE Timely'
    OBVIOUS
<1>1. CASE Tick
  BY <1>1, Assumptions DEF Timely, Tick, local, TypeOK, LocalOK
<1>2. ASSUME NEW c \in Clients, Elsewhere(c) PROVE Timely'
  BY <1>2, ElsewhereAside, TimelyKeep DEF Aside
<1>3. ASSUME NEW c \in Clients, Crash(c) PROVE Timely'
  BY <1>3 DEF Crash, Timely, Sweeping, TypeOK, LocalOK, Clients
<1>4. ASSUME NEW w \in Workers, BeginStep(w) PROVE Timely'
  <2>1. PICK l : pc' = [pc EXCEPT ![w] = l]
    BY <1>4 DEF BeginStep, Goto
  <2>2. now' = [now EXCEPT ![w] = clock] /\ clock' = clock
    BY <1>4 DEF BeginStep
  <2>3. now'[w] <= clock' /\ clock' <= now'[w] + MaxLag
    BY <2>2, Assumptions DEF TypeOK, LocalOK
  <2>4. \A v \in Workers : v # w => pc'[v] = pc[v] /\ now'[v] = now[v]
    BY <2>1, <2>2 DEF TypeOK, LocalOK, Clients
  <2> QED BY <2>2, <2>3, <2>4 DEF Timely
<1>5. ASSUME NEW w \in Workers, Claim(w) PROVE Timely'
  BY <1>5 DEF Claim, ClaimNothing, ClaimEmptyHost, ClaimUrl, Timely, Goto, At, Sweeping, TypeOK, LocalOK, Clients
<1>6. ASSUME NEW w \in Workers, Sweep(w), ~BeginStep(w) PROVE Timely'
  <2>1. /\ clock' = clock /\ now' = now /\ pc[w] \in Sweeping
        /\ \E l : pc' = [pc EXCEPT ![w] = l]
    BY <1>6 DEF Sweep, Reclaim, ReadDue, PromoteQueue, PromoteHost, PromoteDone, Goto, At, Sweeping
  <2> QED BY <2>1, TimelyKeep DEF OnlyOf, Clients
<1>7. CASE UNCHANGED vars
  BY <1>7 DEF Timely, vars, local
<1> QED
  BY <1>1, <1>2, <1>3, <1>4, <1>5, <1>6, <1>7, NextCases

-----------------------------------------------------------------------------
(* The due host a worker claims from is one whose rest is over. *)
LEMMA DueHasRested ==
  ASSUME TypeOK, Timely, Resting, NEW w \in Workers, pc[w] = "claim",
         NEW h \in Hosts, h \in DOMAIN hosts, hosts[h] <= now[w], h \in DOMAIN lastClaim
  PROVE  RestOver(h)
<1>1. now[w] \in Nat /\ now[w] <= clock /\ hosts[h] \in Nat /\ lastClaim[h] \in Nat /\ clock \in Nat
  BY MapApply DEF Timely, Sweeping, TypeOK, StoreOK, LocalOK, HistoryOK
<1>2. CASE Rests(h)
  BY <1>1, <1>2, Assumptions DEF Rests, RestOver
<1> QED BY <1>2 DEF Resting

LEMMA ScheduleKeepsRest ==
  ASSUME TypeOK, Resting, NEW h, NEW ok, ScheduleHost(h, ok), lastClaim' = lastClaim, clock' = clock
  PROVE  Resting'
<1>1. hosts' = hosts \/ hosts' = PutNew(hosts, h, 0)
  BY DEF ScheduleHost
<1>2. \A g \in DOMAIN hosts : g \in DOMAIN hosts' /\ hosts'[g] = hosts[g]
  <2>1. CASE hosts' = hosts
    BY <2>1
  <2>2. CASE hosts' = PutNew(hosts, h, 0)
    BY <2>2 DEF PutNew, Put
  <2> QED BY <1>1, <2>1, <2>2
<1> QED BY <1>2 DEF Resting, RestOver, Rests

LEMMA RestingNext == TypeOK /\ Timely /\ Resting /\ [Next]_vars => Resting'
<1> SUFFICES ASSUME TypeOK, Timely, Resting, [Next]_vars PROVE Resting'
    OBVIOUS
<1>1. CASE Tick
  <2>1. ASSUME NEW h \in DOMAIN lastClaim, RestOver(h) PROVE RestOver(h)'
    BY <1>1, <2>1, MapApply, Assumptions DEF Tick, history, RestOver, TypeOK, HistoryOK
  <2>2. ASSUME NEW h \in DOMAIN lastClaim, Rests(h) PROVE Rests(h)'
    BY <1>1, <2>2 DEF Tick, history, store, Rests
  <2> QED BY <1>1, <2>1, <2>2 DEF Resting, Tick, history
<1>2. ASSUME NEW c \in Clients, Elsewhere(c) PROVE Resting'
  <2>1. clock' = clock /\ lastClaim' = lastClaim
    BY <1>2, ElsewhereAside DEF Aside
  <2>2. hosts' = hosts \/ \E h, ok : ScheduleHost(h, ok)
    BY <1>2 DEF Elsewhere, Add, AddKnown, AddFull, AddNew, AddQueue, AddMeta, AddHost, UndoSeen, UndoMeta,
      Submit, MoveToFront, Fetch, Book, Complete, CompleteClaim, CompleteMeta, SitemapChanged,
      Defer, DeferMeta, DeferDue, store
  <2> QED BY <2>1, <2>2, ScheduleKeepsRest DEF Resting, RestOver, Rests
<1>3. ASSUME NEW c \in Clients, Crash(c) PROVE Resting'
  BY <1>3 DEF Crash, store, Resting, RestOver, Rests
<1>4. ASSUME NEW w \in Workers, Sweep(w) PROVE Resting'
  <2>1. clock' = clock /\ lastClaim' = lastClaim
    BY <1>4 DEF Sweep, BeginStep, Reclaim, ReadDue, PromoteQueue, PromoteHost, PromoteDone, history
  <2>2. hosts' = hosts \/ \E h, ok : ScheduleHost(h, ok)
    BY <1>4 DEF Sweep, BeginStep, Reclaim, ReadDue, PromoteQueue, PromoteHost, PromoteDone, store
  <2> QED BY <2>1, <2>2, ScheduleKeepsRest DEF Resting, RestOver, Rests
<1>5. ASSUME NEW w \in Workers, ClaimNothing(w) PROVE Resting'
  BY <1>5 DEF ClaimNothing, store, Resting, RestOver, Rests
<1>6. ASSUME NEW w \in Workers, ClaimEmptyHost(w) PROVE Resting'
  <2>1. PICK h \in DueHosts(now[w]) : hosts' = Remove(hosts, {h})
    BY <1>6 DEF ClaimEmptyHost
  <2>2. h \in Hosts /\ h \in DOMAIN hosts /\ hosts[h] <= now[w]
    BY <2>1 DEF DueHosts, Lowest, UpTo, TypeOK, StoreOK, IsMap
  <2>3. pc[w] = "claim" /\ lastClaim' = lastClaim /\ clock' = clock
    BY <1>6 DEF ClaimEmptyHost, At, history
  <2>4. h \in DOMAIN lastClaim => RestOver(h)
    BY <2>2, <2>3, DueHasRested
  <2>5. \A g \in DOMAIN hosts \ {h} : g \in DOMAIN hosts' /\ hosts'[g] = hosts[g]
    BY <2>1, RemoveApply
  <2> QED BY <2>3, <2>4, <2>5 DEF Resting, RestOver, Rests
<1>7. ASSUME NEW w \in Workers, ClaimUrl(w) PROVE Resting'
  <2>1. PICK h \in DueHosts(now[w]) : /\ hosts' = Put(hosts, h, now[w] + Delay)
                                      /\ lastClaim' = Put(lastClaim, h, clock)
    BY <1>7 DEF ClaimUrl
  <2>2. clock' = clock /\ clock \in Nat /\ now[w] \in Nat /\ clock <= now[w] + MaxLag
    BY <1>7 DEF ClaimUrl, At, Timely, Sweeping, TypeOK, LocalOK
  <2>6. /\ h \in DOMAIN hosts' /\ hosts'[h] = now[w] + Delay
        /\ \A g \in DOMAIN hosts : g # h => g \in DOMAIN hosts' /\ hosts'[g] = hosts[g]
    BY <2>1 DEF Put
  <2>7. /\ DOMAIN lastClaim' = DOMAIN lastClaim \cup {h} /\ lastClaim'[h] = clock
        /\ \A g \in DOMAIN lastClaim : g # h => lastClaim'[g] = lastClaim[g]
    BY <2>1 DEF Put
  <2>3. /\ h \in DOMAIN hosts' /\ hosts'[h] = now[w] + Delay /\ lastClaim'[h] = clock
        /\ DOMAIN lastClaim' = DOMAIN lastClaim \cup {h}
        /\ \A g \in DOMAIN hosts : g # h => g \in DOMAIN hosts' /\ hosts'[g] = hosts[g]
        /\ \A g \in DOMAIN lastClaim : g # h => lastClaim'[g] = lastClaim[g]
    BY <2>6, <2>7
  <2>4. Rests(h)'
    BY <2>2, <2>3, Assumptions DEF Rests
  <2>5. ASSUME NEW g \in DOMAIN lastClaim', g # h PROVE (RestOver(g) \/ Rests(g))'
    BY <2>2, <2>3, <2>5 DEF Resting, RestOver, Rests
  <2> QED BY <2>4, <2>5 DEF Resting
<1>8. CASE UNCHANGED vars
  BY <1>8 DEF vars, store, history, Resting, RestOver, Rests
<1> QED
  BY <1>1, <1>2, <1>3, <1>4, <1>5, <1>6, <1>7, <1>8, NextCases DEF Claim

(* Two claims of one host are Delay apart, less the lag of the time a       *)
(* worker calls the script with, whatever the number of workers, however    *)
(* their round trips interleave and wherever they stop (CLAIM_SCRIPT, and   *)
(* the NX of add and promote_due).                                          *)
THEOREM HostsArePaced == Spec => HostPaced
<1>1. Init => Timely /\ Resting
  BY EmptyIsMap DEF Init, Timely, Resting, Sweeping, Clients
<1>2. TypeOK /\ Timely /\ Resting /\ [Next]_vars => [ClaimIsPaced]_vars
  <2> SUFFICES ASSUME TypeOK, Timely, Resting, Next PROVE ClaimIsPaced
    OBVIOUS
  <2>1. ASSUME NEW w \in Workers, ClaimUrl(w) PROVE ClaimIsPaced
    <3>5. PICK h \in DueHosts(now[w]) : \E u \in Lowest(queue, QueueOf(h)) :
            held' = Put(held, w, [url |-> u, depth |-> DecodeMeta(u)])
      BY <2>1 DEF ClaimUrl
    <3>1. PICK u \in Lowest(queue, QueueOf(h)) :
            held' = Put(held, w, [url |-> u, depth |-> DecodeMeta(u)])
      BY <3>5
    <3>2. h \in Hosts /\ h \in DOMAIN hosts /\ hosts[h] <= now[w] /\ HostOf[u] = h
      BY <3>1, ClaimedUrl
    <3>3. h \in DOMAIN lastClaim => RestOver(h)
      BY <2>1, <3>2, DueHasRested DEF ClaimUrl, At
    <3>6. \A v \in DOMAIN held' \ DOMAIN held : v = w
      BY <3>1 DEF Put
    <3>7. held'[w].url = u
      BY <3>1 DEF Put
    <3>4. \A v \in DOMAIN held' \ DOMAIN held : HostOf[held'[v].url] = h
      BY <3>6, <3>7, <3>2
    <3> QED BY <3>3, <3>4 DEF ClaimIsPaced, RestOver
  <2>2. ASSUME DOMAIN held' \subseteq DOMAIN held PROVE ClaimIsPaced
    BY <2>2 DEF ClaimIsPaced
  <2>3. CASE Tick
    BY <2>2, <2>3 DEF Tick, local
  <2>4. ASSUME NEW c \in Clients, Elsewhere(c) PROVE ClaimIsPaced
    BY <2>2, <2>4, ElsewhereAside DEF Aside
  <2>5. ASSUME NEW c \in Clients, Crash(c) PROVE ClaimIsPaced
    <3>1. held' = Remove(held, {c})
      BY <2>5 DEF Crash
    <3>2. DOMAIN held' \subseteq DOMAIN held
      BY <3>1 DEF Remove
    <3> QED BY <2>2, <3>2
  <2>6. ASSUME NEW w \in Workers, Sweep(w) \/ ClaimNothing(w) \/ ClaimEmptyHost(w) PROVE ClaimIsPaced
    BY <2>2, <2>6 DEF Sweep, BeginStep, Reclaim, ReadDue, PromoteQueue, PromoteHost, PromoteDone,
      ClaimNothing, ClaimEmptyHost
  <2> QED BY <2>1, <2>3, <2>4, <2>5, <2>6, NextCases DEF Claim
<1>3. TypeOK /\ Shape /\ Timely /\ Resting /\ [Next]_vars
        => TypeOK' /\ Shape' /\ Timely' /\ Resting'
  BY TypeNext, ShapeNext, TimelyNext, RestingNext
<1> QED
  BY <1>1, <1>2, <1>3, TypeInit, ShapeInit, PTL DEF Spec, HostPaced

-----------------------------------------------------------------------------
(* Scheduling.  A host is served if something will have it claimed from; a  *)
(* client's step serves every host it found served unless it drops it.      *)
Between   == {"meta", "host", "promote host"}
Served(h) == h \in DOMAIN hosts \/ h \in torn \/ Scheduling(h)

LEMMA ServedKeep ==
  ASSUME TypeOK, NEW c \in Clients, OnlyStep(c),
         torn \subseteq torn' \cup DOMAIN hosts',
         pc[c] \in Between /\ c \in DOMAIN arg =>
           \/ pc'[c] \in Between /\ arg' = arg
           \/ HostOf[arg[c].url] \in torn' \cup DOMAIN hosts',
         NEW h, Served(h), h \in DOMAIN hosts => h \in DOMAIN hosts'
  PROVE  Served(h)'
<1>1. CASE h \in DOMAIN hosts \/ h \in torn
  BY <1>1 DEF Served
<1>2. CASE Scheduling(h)
  <2>1. PICK d \in DOMAIN arg : pc[d] \in Between /\ HostOf[arg[d].url] = h
    BY <1>2 DEF Scheduling, Between
  <2>2. CASE d = c
    BY <2>1, <2>2 DEF Served, Scheduling, Between
  <2>3. CASE d # c
    <3>1. d \in DOMAIN pc
      BY <2>1 DEF TypeOK, LocalOK, IsMap
    <3>2. pc'[d] = pc[d]
      BY <2>3, <3>1, OnlyOfApply DEF OnlyStep
    <3>3. d \in DOMAIN arg' /\ arg'[d] = arg[d]
      BY <2>1, <2>3, OnlyInApply DEF OnlyStep
    <3> QED
      BY <2>1, <3>2, <3>3 DEF Served, Scheduling, Between
  <2> QED BY <2>2, <2>3
<1> QED BY <1>1, <1>2 DEF Served

LEMMA StrandedKeep ==
  ASSUME NothingStranded, \A h : Served(h) => Served(h)', DOMAIN queue' \subseteq DOMAIN queue
  PROVE  NothingStranded'
BY DEF NothingStranded, Served, Scheduling

(* A step that touches neither the hosts nor torn and takes the client out  *)
(* of none of the places between its queue and its host write.              *)
LEMMA StrandedAside ==
  ASSUME TypeOK, NothingStranded, NEW c \in Clients, OnlyStep(c), hosts' = hosts, torn' = torn,
         pc[c] \in Between => pc'[c] \in Between /\ arg' = arg,
         DOMAIN queue' \subseteq DOMAIN queue
  PROVE  NothingStranded'
<1>1. ASSUME NEW h, Served(h) PROVE Served(h)'
  BY <1>1, ServedKeep
<1> QED BY <1>1, StrandedKeep

(* Between the two writes a client has queued a URL whose host it is to     *)
(* schedule.                                                                *)
LEMMA StrandedQueue ==
  ASSUME TypeOK, NothingStranded, NEW c \in Clients, OnlyStep(c), hosts' = hosts, torn' = torn,
         pc[c] \notin Between, pc'[c] \in Between, c \in DOMAIN arg',
         NEW e, arg'[c] = e, DOMAIN queue' \subseteq DOMAIN queue \cup {e.url}
  PROVE  NothingStranded'
<1>1. ASSUME NEW h, Served(h) PROVE Served(h)'
  BY <1>1, ServedKeep
<1>2. Served(HostOf[e.url])'
  BY DEF Served, Scheduling, Between
<1>3. \A u \in DOMAIN queue : Served(HostOf[u])
  BY DEF NothingStranded, Served
<1>4. ASSUME NEW u \in DOMAIN queue' PROVE Served(HostOf[u])'
  BY <1>1, <1>2, <1>3
<1> QED BY <1>4 DEF NothingStranded, Served

(* The host write leaves its host scheduled or torn. *)
LEMMA StrandedHost ==
  ASSUME TypeOK, NothingStranded, NEW c \in Clients, OnlyStep(c), queue' = queue,
         NEW ok \in BOOLEAN, ScheduleHost(HostOf[arg[c].url], ok)
  PROVE  NothingStranded'
<1>1. /\ DOMAIN hosts \subseteq DOMAIN hosts' /\ torn \subseteq torn' \cup DOMAIN hosts'
      /\ HostOf[arg[c].url] \in torn' \cup DOMAIN hosts'
  BY DEF ScheduleHost, PutNew, Put
<1>2. ASSUME NEW h, Served(h) PROVE Served(h)'
  BY <1>1, <1>2, ServedKeep
<1> QED BY <1>2, StrandedKeep

LEMMA StrandedNext == TypeOK /\ Shape /\ NothingStranded /\ [Next]_vars => NothingStranded'
<1> SUFFICES ASSUME TypeOK, Shape, NothingStranded, [Next]_vars PROVE NothingStranded'
    OBVIOUS
<1> USE DEF At, Goto
<1>1. CASE Tick \/ UNCHANGED vars
  BY <1>1 DEF Tick, vars, store, local, history, NothingStranded, Scheduling
<1>2. ASSUME NEW w \in Workers, NEW ok \in BOOLEAN,
             \/ BeginStep(w) \/ Reclaim(w) \/ ReadDue(w) \/ PromoteDone(w, ok) \/ ClaimNothing(w)
             \/ Fetch(w) \/ Book(w) \/ CompleteClaim(w, ok) \/ CompleteMeta(w, ok)
      PROVE  NothingStranded'
  <2>1. OnlyStep(w) /\ hosts' = hosts /\ torn' = torn /\ queue' = queue /\ pc[w] \notin Between
    BY <1>2 DEF OnlyStep, OnlyOf, OnlyIn, Between, store, history, BeginStep, Reclaim, ReadDue, PromoteDone,
      ClaimNothing, Fetch, Book, CompleteClaim, CompleteMeta
  <2> QED BY <2>1, StrandedAside DEF Clients
<1>3. ASSUME NEW c \in Workers \cup Consoles, NEW ok \in BOOLEAN,
             AddKnown(c) \/ AddFull(c) \/ AddNew(c) \/ UndoSeen(c, ok) \/ UndoMeta(c, ok)
      PROVE  NothingStranded'
  <2>1. OnlyStep(c) /\ hosts' = hosts /\ torn' = torn /\ queue' = queue /\ pc[c] \notin Between
    BY <1>3 DEF OnlyStep, OnlyOf, OnlyIn, Between, store, history, AddKnown, AddFull, AddNew, NotAdded,
      UndoSeen, UndoMeta, AfterAdd
  <2> QED BY <2>1, StrandedAside DEF Clients
<1>4. ASSUME NEW c \in Consoles, Submit(c) \/ MoveToFront(c) PROVE NothingStranded'
  <2>1. OnlyStep(c) /\ hosts' = hosts /\ torn' = torn /\ pc[c] \notin Between
    BY <1>4 DEF OnlyStep, OnlyOf, OnlyIn, Between, store, history, Submit, MoveToFront
  <2>2. queue' = queue \/ queue' = PutOld(queue, arg[c].url, Front)
    BY <1>4 DEF Submit, MoveToFront, store
  <2>3. DOMAIN queue' \subseteq DOMAIN queue
    BY <2>2, PutOldDomain
  <2> QED BY <2>1, <2>3, StrandedAside DEF Clients
<1>5. ASSUME NEW c \in Workers \cup Pollers, NEW ok \in BOOLEAN, DeferMeta(c, ok) \/ DeferDue(c, ok)
      PROVE  NothingStranded'
  <2>1. OnlyStep(c) /\ hosts' = hosts /\ torn' = torn /\ queue' = queue /\ pc[c] \notin Between
    BY <1>5 DEF OnlyStep, OnlyOf, OnlyIn, Between, DeferMeta, DeferDue
  <2> QED BY <2>1, StrandedAside DEF Clients
<1>6. ASSUME NEW p \in Pollers, SitemapChanged(p) PROVE NothingStranded'
  <2>1. OnlyStep(p) /\ hosts' = hosts /\ torn' = torn /\ queue' = queue /\ pc[p] \notin Between
    BY <1>6 DEF OnlyStep, OnlyOf, OnlyIn, Between, SitemapChanged, store
  <2> QED BY <2>1, StrandedAside DEF Clients
<1>7. ASSUME NEW c \in Workers \cup Consoles, NEW ok \in BOOLEAN, AddMeta(c, ok) PROVE NothingStranded'
  <2>1. /\ OnlyStep(c) /\ hosts' = hosts /\ torn' = torn /\ queue' = queue
        /\ arg' = arg /\ pc' = [pc EXCEPT ![c] = "host"]
    BY <1>7 DEF OnlyStep, OnlyOf, OnlyIn, AddMeta
  <2>2. pc'[c] \in Between
    BY <2>1 DEF Between, TypeOK, LocalOK, Clients
  <2> QED BY <2>1, <2>2, StrandedAside DEF Clients
<1>8. ASSUME NEW c \in Workers \cup Consoles, NEW ok \in BOOLEAN, AddQueue(c, ok) PROVE NothingStranded'
  <2>1. /\ OnlyStep(c) /\ hosts' = hosts /\ torn' = torn /\ pc[c] = "queue"
        /\ arg' = arg /\ pc' = [pc EXCEPT ![c] = "meta"]
        /\ queue' = queue \/ queue' = Put(queue, arg[c].url, Priority(arg[c]))
    BY <1>8 DEF OnlyStep, OnlyOf, OnlyIn, AddQueue
  <2>2. pc[c] \notin Between /\ pc'[c] \in Between /\ c \in DOMAIN arg'
    BY <2>1 DEF Between, TypeOK, LocalOK, Clients, Shape, Writing, Adding
  <2>3. DOMAIN queue' \subseteq DOMAIN queue \cup {arg'[c].url}
    BY <2>1 DEF Put
  <2> QED BY <2>1, <2>2, <2>3, StrandedQueue DEF Clients
<1>9. ASSUME NEW w \in Workers, NEW ok \in BOOLEAN, PromoteQueue(w, ok) PROVE NothingStranded'
  <2>1. PICK e \in todo[w] : /\ arg' = Put(arg, w, e)
                             /\ queue' = queue \/ queue' = Put(queue, e.url, Priority(e))
    BY <1>9 DEF PromoteQueue
  <2>2. /\ OnlyStep(w) /\ hosts' = hosts /\ torn' = torn /\ pc[w] = "promote"
        /\ pc' = [pc EXCEPT ![w] = "promote host"]
    BY <1>9 DEF OnlyStep, OnlyOf, OnlyIn, PromoteQueue
  <2>3. pc[w] \notin Between /\ pc'[w] \in Between
    BY <2>2 DEF Between, TypeOK, LocalOK, Clients
  <2>4. w \in DOMAIN arg' /\ arg'[w] = e
    BY <2>1 DEF Put
  <2>5. DOMAIN queue' \subseteq DOMAIN queue \cup {arg'[w].url}
    BY <2>1, <2>4 DEF Put
  <2> QED BY <2>2, <2>3, <2>4, <2>5, StrandedQueue DEF Clients
<1>10. ASSUME NEW c \in Workers \cup Consoles, NEW ok \in BOOLEAN, AddHost(c, ok) PROVE NothingStranded'
  <2>1. OnlyStep(c) /\ queue' = queue /\ ScheduleHost(HostOf[arg[c].url], ok)
    BY <1>10 DEF OnlyStep, OnlyOf, OnlyIn, AddHost, AfterAdd
  <2> QED BY <2>1, StrandedHost DEF Clients
<1>11. ASSUME NEW w \in Workers, NEW ok \in BOOLEAN, PromoteHost(w, ok) PROVE NothingStranded'
  <2>1. OnlyStep(w) /\ queue' = queue /\ ScheduleHost(HostOf[arg[w].url], ok)
    BY <1>11 DEF OnlyStep, OnlyOf, OnlyIn, PromoteHost
  <2> QED BY <2>1, StrandedHost DEF Clients
<1>12. ASSUME NEW w \in Workers, ClaimEmptyHost(w) PROVE NothingStranded'
  <2>1. PICK h \in DueHosts(now[w]) : QueueOf(h) = {} /\ hosts' = Remove(hosts, {h})
    BY <1>12 DEF ClaimEmptyHost
  <2>2. OnlyStep(w) /\ torn' = torn /\ queue' = queue /\ pc[w] \notin Between
    BY <1>12 DEF OnlyStep, OnlyOf, OnlyIn, Between, ClaimEmptyHost, history
  <2>3. ASSUME NEW g, g # h, Served(g) PROVE Served(g)'
    <3>1. g \in DOMAIN hosts => g \in DOMAIN hosts'
      BY <2>1, <2>3 DEF Remove
    <3> QED BY <2>2, <2>3, <3>1, ServedKeep DEF Clients
  <2>4. \A u \in DOMAIN queue : HostOf[u] # h
    BY <2>1 DEF QueueOf
  <2> QED BY <2>2, <2>3, <2>4 DEF NothingStranded, Served
<1>13. ASSUME NEW w \in Workers, ClaimUrl(w) PROVE NothingStranded'
  <2>1. PICK h \in DueHosts(now[w]) : \E u : queue' = Remove(queue, {u}) /\ hosts' = Put(hosts, h, now[w] + Delay)
    BY <1>13 DEF ClaimUrl
  <2>2. OnlyStep(w) /\ torn' = torn /\ pc[w] \notin Between
    BY <1>13 DEF OnlyStep, OnlyOf, OnlyIn, Between, ClaimUrl
  <2>3. DOMAIN hosts \subseteq DOMAIN hosts' /\ DOMAIN queue' \subseteq DOMAIN queue
    BY <2>1 DEF Put, Remove
  <2>4. ASSUME NEW g, Served(g) PROVE Served(g)'
    BY <2>2, <2>3, <2>4, ServedKeep DEF Clients
  <2> QED BY <2>3, <2>4, StrandedKeep
<1>14. ASSUME NEW c \in Clients, Crash(c) PROVE NothingStranded'
  <2>1. /\ OnlyStep(c) /\ hosts' = hosts /\ queue' = queue /\ torn \subseteq torn'
        /\ pc[c] \in Between => HostOf[arg[c].url] \in torn'
    BY <1>14 DEF OnlyStep, OnlyOf, OnlyIn, Between, Crash, store
  <2>2. ASSUME NEW h, Served(h) PROVE Served(h)'
    BY <2>1, <2>2, ServedKeep
  <2> QED BY <2>1, <2>2, StrandedKeep
<1> QED
  BY <1>1, <1>2, <1>3, <1>4, <1>5, <1>6, <1>7, <1>8, <1>9, <1>10, <1>11, <1>12, <1>13, <1>14
  DEF Next, WorkerStep, ConsoleStep, PollerStep, Sweep, Claim, Add, Defer, Complete

(* No queued URL waits at a host that nobody will ever claim from, unless   *)
(* the client that was to schedule the host stopped, or was refused, between *)
(* its two writes (add, promote_due and the host that CLAIM_SCRIPT drops).  *)
THEOREM NoneStranded == Spec => []NothingStranded
<1>1. Init => NothingStranded
  BY DEF Init, NothingStranded
<1>2. TypeOK /\ Shape /\ NothingStranded /\ [Next]_vars => TypeOK' /\ Shape' /\ NothingStranded'
  BY TypeNext, ShapeNext, StrandedNext
<1> QED
  BY <1>1, <1>2, TypeInit, ShapeInit, PTL DEF Spec

-----------------------------------------------------------------------------
(* Discovery.  As long as no write has failed, whoever is told by SADD that *)
(* a page is new is alone with it until it is visited: it is in one         *)
(* client's add, or in the queue, or with one worker.                      *)
Queueing(c, u) == pc[c] = "queue" /\ arg[c].url = u
Holds(w, u)    == w \in DOMAIN held /\ held[w].url = u

Single(u) ==
  /\ u \in DOMAIN queue => u \in seen
  /\ \A w \in Workers : Holds(w, u) => /\ u \in seen /\ u \notin DOMAIN queue
                                       /\ \A v \in Workers : Holds(v, u) => v = w
  /\ \A c \in Clients : Queueing(c, u) => /\ u \in seen /\ u \notin DOMAIN queue
                                          /\ \A w \in Workers : ~Holds(w, u)
                                          /\ \A d \in Clients : Queueing(d, u) => d = c
Singly == \A u \in Urls \ visited : Single(u)

(* Only a page that was visited is booked, and promoted; and an add is      *)
(* undone only where a write failed.                                       *)
BookedOf(c) == /\ pc[c] \notin {"undo seen", "undo meta"}
               /\ pc[c] \in {"defer meta", "defer due"} => arg[c].url \in visited
Booked == /\ failed = {}
          /\ \A e \in DOMAIN deferred : e.url \in visited
          /\ \A w \in Workers : \A e \in todo[w] : e.url \in visited
          /\ \A c \in Clients : BookedOf(c)

Once == errors = 0 => Singly /\ Booked

LEMMA NoError ==
  ASSUME TypeOK, NEW ok \in BOOLEAN, Write(ok), errors' = 0
  PROVE  ok /\ errors = 0
BY DEF Write, TypeOK, HistoryOK

(* A client's step that puts no new page into the queue, claims none and    *)
(* does not begin an add leaves everybody alone with what they have.        *)
LEMMA SinglyStep ==
  ASSUME TypeOK, Shape, Singly, NEW c \in Clients, OnlyStep(c), visited \subseteq visited', seen \subseteq seen',
         DOMAIN queue' \subseteq DOMAIN queue \cup visited,
         c \in DOMAIN held' => c \in DOMAIN held /\ held'[c] = held[c],
         pc'[c] = "queue" => pc[c] = "queue" /\ arg'[c] = arg[c]
  PROVE  Singly'
<1>1. ASSUME NEW w \in Workers, NEW u, Holds(w, u)' PROVE Holds(w, u)
  <2>1. CASE w = c
    BY <1>1, <2>1 DEF Holds
  <2>2. CASE w # c
    <3>1. w \in DOMAIN held /\ held'[w] = held[w]
      BY <1>1, <2>2, OnlyInApply DEF OnlyStep, Holds
    <3> QED BY <1>1, <3>1 DEF Holds
  <2> QED BY <2>1, <2>2
<1>2. ASSUME NEW d \in Clients, NEW u, Queueing(d, u)' PROVE Queueing(d, u)
  <2>1. CASE d = c
    BY <1>2, <2>1 DEF Queueing
  <2>2. CASE d # c
    <3>1. pc'[d] = pc[d]
      BY <2>2, OnlyOfApply DEF OnlyStep, TypeOK, LocalOK
    <3>2. d \in DOMAIN arg
      BY <1>2, <3>1 DEF Queueing, Shape, Writing, Adding
    <3>3. arg'[d] = arg[d]
      BY <2>2, <3>2, OnlyInApply DEF OnlyStep
    <3> QED BY <1>2, <3>1, <3>3 DEF Queueing
  <2> QED BY <2>1, <2>2
<1>3. ASSUME NEW u \in Urls \ visited' PROVE Single(u)'
  <2>1. Single(u) /\ u \notin visited
    BY DEF Singly
  <2>2. /\ u \in DOMAIN queue' => u \in DOMAIN queue
        /\ u \in seen => u \in seen'
    BY <2>1
  <2> QED BY <1>1, <1>2, <2>1, <2>2 DEF Single
<1> QED BY <1>3 DEF Singly

LEMMA BookedStep ==
  ASSUME TypeOK, Shape, Booked, NEW c \in Clients, OnlyStep(c), visited \subseteq visited', failed' = {},
         \A e \in DOMAIN deferred' : e \in DOMAIN deferred \/ e.url \in visited',
         \A w \in Workers : todo'[w] \subseteq todo[w] \cup DOMAIN deferred,
         BookedOf(c)'
  PROVE  Booked'
<1>1. ASSUME NEW d \in Clients, d # c PROVE BookedOf(d)'
  <2>1. BookedOf(d)
    BY DEF Booked
  <2>2. pc'[d] = pc[d]
    BY <1>1, OnlyOfApply DEF OnlyStep, TypeOK, LocalOK
  <2>3. ASSUME pc[d] \in {"defer meta", "defer due"} PROVE arg'[d] = arg[d]
    <3>1. d \in DOMAIN arg
      BY <2>3 DEF Shape, Writing
    <3> QED BY <1>1, <3>1, OnlyInApply DEF OnlyStep
  <2> QED BY <2>1, <2>2, <2>3 DEF BookedOf
<1>2. \A d \in Clients : BookedOf(d)'
  BY <1>1
<1>3. /\ \A e \in DOMAIN deferred' : e.url \in visited'
      /\ \A w \in Workers : \A e \in todo'[w] : e.url \in visited'
  BY DEF Booked
<1> QED BY <1>2, <1>3 DEF Booked

(* The two together, for the steps that take nothing and give nothing. *)
Idles(c) ==
  /\ OnlyStep(c) /\ visited \subseteq visited' /\ seen \subseteq seen' /\ DOMAIN queue' \subseteq DOMAIN queue
  /\ c \in DOMAIN held' => c \in DOMAIN held /\ held'[c] = held[c]
  /\ pc'[c] \notin {"queue", "undo seen", "undo meta"}
  /\ pc'[c] \in {"defer meta", "defer due"} => arg'[c].url \in visited'
  /\ failed' = failed \/ failed' = failed \ {c}
  /\ DOMAIN deferred' \subseteq DOMAIN deferred
  /\ \A w \in Workers : todo'[w] \subseteq todo[w] \cup DOMAIN deferred

LEMMA IdlesKeeps ==
  ASSUME TypeOK, Shape, Singly, Booked, NEW c \in Clients, Idles(c)
  PROVE  Singly' /\ Booked'
<1>1. Singly'
  BY SinglyStep DEF Idles
<1>2. failed' = {}
  BY DEF Idles, Booked
<1>3. Booked'
  BY <1>2, BookedStep DEF Idles, BookedOf
<1> QED BY <1>1, <1>3

(* A worker claims a page: it is in the queue, hence with nobody else. *)
LEMMA SinglyClaim ==
  ASSUME TypeOK, Shape, Singly, NEW w \in Workers, ClaimUrl(w)
  PROVE  Singly'
<1>1. PICK h \in DueHosts(now[w]) : \E u \in Lowest(queue, QueueOf(h)) :
        queue' = Remove(queue, {u}) /\ held' = Put(held, w, [url |-> u, depth |-> DecodeMeta(u)])
  BY DEF ClaimUrl
<1>2. PICK u \in Lowest(queue, QueueOf(h)) :
        queue' = Remove(queue, {u}) /\ held' = Put(held, w, [url |-> u, depth |-> DecodeMeta(u)])
  BY <1>1
<1>3. u \in Urls /\ u \in DOMAIN queue
  BY <1>2, ClaimedUrl
<1>4. DOMAIN queue' = DOMAIN queue \ {u}
  BY <1>2, RemoveApply
<1>5. /\ DOMAIN held' = DOMAIN held \cup {w} /\ held'[w].url = u
      /\ \A v \in DOMAIN held : v # w => held'[v] = held[v]
  BY <1>2 DEF Put
<1>6. seen' = seen /\ visited' = visited /\ arg' = arg /\ pc' = [pc EXCEPT ![w] = "fetch"]
  BY DEF ClaimUrl, Goto
<1>7. \A d \in Clients : pc'[d] = "queue" => pc[d] = "queue"
  BY <1>6 DEF TypeOK, LocalOK
<1>8. ASSUME NEW x \in Urls \ visited PROVE Single(x)'
  <2>1. Single(x)
    BY DEF Singly
  <2>2. \A v \in Workers : Holds(v, x)' => v = w \/ Holds(v, x)
    BY <1>5 DEF Holds
  <2>3. \A d \in Clients : Queueing(d, x)' => Queueing(d, x)
    BY <1>6, <1>7 DEF Queueing
  <2>4. CASE x = u
    <3>1. x \in seen /\ x \notin DOMAIN queue'
      BY <1>3, <1>4, <2>1, <2>4 DEF Single
    <3>2. \A v \in Workers : Holds(v, x)' => v = w
      BY <1>3, <2>1, <2>2, <2>4 DEF Single
    <3>3. \A d \in Clients : ~Queueing(d, x)'
      BY <1>3, <2>1, <2>3, <2>4 DEF Single
    <3> QED BY <1>6, <3>1, <3>2, <3>3 DEF Single
  <2>5. CASE x # u
    <3>1. ~Holds(w, x)'
      BY <1>5, <2>5 DEF Holds
    <3>2. \A v \in Workers : Holds(v, x)' => Holds(v, x)
      BY <2>2, <3>1
    <3> QED BY <1>4, <1>6, <2>1, <2>3, <3>2 DEF Single
  <2> QED BY <2>4, <2>5
<1> QED BY <1>6, <1>8 DEF Singly

(* SADD tells one client that the page is new: nobody has it. *)
LEMMA SinglyNew ==
  ASSUME TypeOK, Shape, Singly, NEW c \in Workers \cup Consoles, AddNew(c)
  PROVE  Singly'
<1>1. PICK u \in links[c] \ seen : seen' = seen \cup {u} /\ arg' = Put(arg, c, Discovery(u, DepthOf(c)))
  BY DEF AddNew
<1>2. queue' = queue /\ held' = held /\ visited' = visited /\ pc[c] = "links" /\ pc' = [pc EXCEPT ![c] = "queue"]
  BY DEF AddNew, Goto, At
<1>3. arg'[c].url = u /\ \A d \in DOMAIN arg : d # c => arg'[d] = arg[d]
  BY <1>1 DEF Put, Discovery
<1>4. ASSUME NEW d \in Clients, d # c, NEW x, Queueing(d, x)' PROVE Queueing(d, x)
  <2>1. pc[d] = "queue"
    BY <1>2, <1>4 DEF Queueing, TypeOK, LocalOK
  <2>2. d \in DOMAIN arg
    BY <2>1 DEF Shape, Writing, Adding
  <2> QED BY <1>3, <1>4, <2>1, <2>2 DEF Queueing
<1>5. ASSUME NEW x \in Urls \ visited PROVE Single(x)'
  <2>1. Single(x)
    BY DEF Singly
  <2>2. CASE x = u
    <3>1. x \notin DOMAIN queue /\ \A w \in Workers : ~Holds(w, x)
      BY <1>1, <2>1, <2>2 DEF Single
    <3>2. \A d \in Clients : Queueing(d, x)' => d = c
      BY <1>1, <1>4, <2>1, <2>2 DEF Single
    <3>3. \A w \in Workers : ~Holds(w, x)'
      BY <1>2, <3>1 DEF Holds
    <3> QED BY <1>1, <1>2, <2>2, <3>1, <3>2, <3>3 DEF Single
  <2>3. CASE x # u
    <3>1. ~Queueing(c, x)'
      BY <1>3, <2>3 DEF Queueing
    <3>2. \A d \in Clients : Queueing(d, x)' => Queueing(d, x)
      BY <1>4, <3>1
    <3>3. \A w \in Workers : Holds(w, x)' <=> Holds(w, x)
      BY <1>2 DEF Holds
    <3> QED BY <1>1, <1>2, <2>1, <3>2, <3>3 DEF Single
  <2> QED BY <2>2, <2>3
<1> QED BY <1>2, <1>5 DEF Singly

(* The page goes from the add it is in to the queue. *)
LEMMA SinglyQueued ==
  ASSUME TypeOK, Shape, Singly, NEW c \in Workers \cup Consoles, AddQueue(c, TRUE)
  PROVE  Singly'
<1>1. queue' = Put(queue, arg[c].url, Priority(arg[c]))
  BY DEF AddQueue
<1>2. /\ held' = held /\ visited' = visited /\ seen' = seen /\ arg' = arg
      /\ pc[c] = "queue" /\ pc' = [pc EXCEPT ![c] = "meta"]
  BY DEF AddQueue, Goto, At
<1>3. DOMAIN queue' = DOMAIN queue \cup {arg[c].url}
  BY <1>1 DEF Put
<1>4. \A d \in Clients : pc'[d] = "queue" => d # c /\ pc[d] = "queue"
  BY <1>2 DEF TypeOK, LocalOK
<1>5. ASSUME NEW x \in Urls \ visited PROVE Single(x)'
  <2>1. Single(x)
    BY DEF Singly
  <2>2. \A d \in Clients : Queueing(d, x)' => d # c /\ Queueing(d, x)
    BY <1>2, <1>4 DEF Queueing
  <2>3. \A w \in Workers : Holds(w, x)' <=> Holds(w, x)
    BY <1>2 DEF Holds
  <2>4. CASE x = arg[c].url
    <3>1. Queueing(c, x) /\ c \in Clients
      BY <1>2, <2>4 DEF Queueing, Clients
    <3>2. x \in seen /\ \A w \in Workers : ~Holds(w, x)
      BY <2>1, <3>1 DEF Single
    <3>3. \A d \in Clients : ~Queueing(d, x)'
      BY <2>1, <2>2, <3>1 DEF Single
    <3> QED BY <1>2, <2>3, <3>2, <3>3 DEF Single
  <2>5. CASE x # arg[c].url
    BY <1>2, <1>3, <2>1, <2>2, <2>3, <2>5 DEF Single
  <2> QED BY <2>4, <2>5
<1> QED BY <1>2, <1>5 DEF Singly

LEMMA OnceNext == TypeOK /\ Shape /\ Once /\ [Next]_vars => Once'
<1> SUFFICES ASSUME TypeOK, Shape, Once, [Next]_vars, errors' = 0 PROVE Singly' /\ Booked'
    BY DEF Once
<1> USE DEF At, Goto
<1>1. errors = 0
  <2> DEFINE Counted == errors' \in {errors, errors + 1}
  <2>1. ASSUME NEW w \in Workers, Sweep(w) \/ Claim(w) PROVE Counted
    BY <2>1 DEF Sweep, Claim, BeginStep, Reclaim, ReadDue, PromoteQueue, PromoteHost, PromoteDone,
      ClaimNothing, ClaimEmptyHost, ClaimUrl, Write, history
  <2>2. ASSUME NEW c \in Clients, Elsewhere(c) PROVE Counted
    BY <2>2 DEF Elsewhere, Add, AddKnown, AddFull, AddNew, AddQueue, AddMeta, AddHost, UndoSeen, UndoMeta,
      Submit, MoveToFront, Fetch, Book, Complete, CompleteClaim, CompleteMeta, SitemapChanged,
      Defer, DeferMeta, DeferDue, Write, history
  <2>3. ASSUME Tick \/ UNCHANGED vars \/ \E c \in Clients : Crash(c) PROVE Counted
    BY <2>3 DEF Tick, Crash, vars, history
  <2> QED BY <2>1, <2>2, <2>3, NextCases DEF TypeOK, HistoryOK
<1>2. Singly /\ Booked
  BY <1>1 DEF Once
<1>3. CASE Tick \/ UNCHANGED vars
  BY <1>2, <1>3 DEF Tick, vars, store, local, Singly, Single, Holds, Queueing, Booked, BookedOf
<1>4. ASSUME NEW w \in Workers, BeginStep(w) \/ Reclaim(w) \/ ReadDue(w) PROVE Singly' /\ Booked'
  <2>1. Idles(w)
    BY <1>4 DEF Idles, OnlyStep, OnlyOf, OnlyIn, BeginStep, Reclaim, ReadDue, UpTo, store, TypeOK, LocalOK, Clients
  <2> QED BY <1>2, <2>1, IdlesKeeps DEF Clients
<1>5. ASSUME NEW w \in Workers, NEW ok \in BOOLEAN, PromoteQueue(w, ok) PROVE Singly' /\ Booked'
  <2>1. ok
    BY <1>5, NoError DEF PromoteQueue
  <2>2. PICK e \in todo[w] : queue' = Put(queue, e.url, Priority(e)) /\ arg' = Put(arg, w, e)
    BY <1>5, <2>1 DEF PromoteQueue
  <2>3. DOMAIN queue' \subseteq DOMAIN queue \cup visited
    BY <1>2, <2>2 DEF Put, Booked
  <2>4. /\ pc' = [pc EXCEPT ![w] = "promote host"] /\ failed' = failed
        /\ visited' = visited /\ seen' = seen /\ deferred' = deferred /\ todo' = todo /\ held' = held /\ links' = links
    BY <1>5, <2>1 DEF PromoteQueue
  <2>5. OnlyStep(w) /\ pc'[w] = "promote host"
    BY <2>2, <2>4 DEF OnlyStep, OnlyOf, OnlyIn, TypeOK, LocalOK, Clients
  <2>6. Singly'
    BY <1>2, <2>3, <2>4, <2>5, SinglyStep DEF Clients
  <2>7. BookedOf(w)' /\ failed' = {}
    BY <1>2, <2>4, <2>5 DEF BookedOf, Booked
  <2>8. Booked'
    BY <1>2, <2>4, <2>5, <2>7, BookedStep DEF Clients, Booked
  <2> QED BY <2>6, <2>8
<1>6. ASSUME NEW w \in Workers, NEW ok \in BOOLEAN, PromoteHost(w, ok) PROVE Singly' /\ Booked'
  <2>1. ok
    BY <1>6, NoError DEF PromoteHost
  <2>2. Idles(w)
    BY <1>6, <2>1 DEF Idles, OnlyStep, OnlyOf, OnlyIn, PromoteHost, TypeOK, LocalOK, Clients
  <2> QED BY <1>2, <2>2, IdlesKeeps DEF Clients
<1>7. ASSUME NEW w \in Workers, NEW ok \in BOOLEAN, PromoteDone(w, ok) PROVE Singly' /\ Booked'
  <2>1. DOMAIN deferred' \subseteq DOMAIN deferred
    BY <1>7 DEF PromoteDone, Remove
  <2>2. PICK l \in {"claim", "promote"} : pc' = [pc EXCEPT ![w] = l]
    BY <1>7 DEF PromoteDone
  <2>3. /\ todo' = [todo EXCEPT ![w] = @ \ {arg[w]}] /\ arg' = Remove(arg, {w}) /\ failed' = failed \ {w}
        /\ queue' = queue /\ seen' = seen /\ visited' = visited /\ held' = held /\ links' = links
    BY <1>7 DEF PromoteDone
  <2>4. OnlyStep(w) /\ pc'[w] = l
    BY <2>2, <2>3 DEF OnlyStep, OnlyOf, OnlyIn, TypeOK, LocalOK, Clients
  <2>5. \A v \in Workers : todo'[v] \subseteq todo[v]
    BY <2>3 DEF TypeOK, LocalOK
  <2>6. Idles(w)
    BY <2>1, <2>3, <2>4, <2>5 DEF Idles
  <2> QED BY <1>2, <2>6, IdlesKeeps DEF Clients
<1>8. ASSUME NEW w \in Workers, ClaimNothing(w) \/ ClaimEmptyHost(w) PROVE Singly' /\ Booked'
  <2>1. Idles(w)
    BY <1>8 DEF Idles, OnlyStep, OnlyOf, OnlyIn, ClaimNothing, ClaimEmptyHost, store, TypeOK, LocalOK, Clients
  <2> QED BY <1>2, <2>1, IdlesKeeps DEF Clients
<1>9. ASSUME NEW w \in Workers, ClaimUrl(w) PROVE Singly' /\ Booked'
  <2>1. Singly'
    BY <1>2, <1>9, SinglyClaim
  <2>2. /\ pc' = [pc EXCEPT ![w] = "fetch"] /\ arg' = arg /\ links' = links
        /\ failed' = failed /\ visited' = visited /\ deferred' = deferred /\ todo' = todo
    BY <1>9 DEF ClaimUrl
  <2>3. OnlyStep(w) /\ pc'[w] = "fetch"
    BY <1>9, <2>2 DEF ClaimUrl, OnlyStep, OnlyOf, OnlyIn, TypeOK, LocalOK, Clients
  <2>4. Booked'
    BY <1>2, <2>2, <2>3, BookedStep DEF Booked, BookedOf, Clients
  <2> QED BY <2>1, <2>4
<1>10. ASSUME NEW w \in Workers, Fetch(w) PROVE Singly' /\ Booked'
  <2>1. Idles(w)
    BY <1>10 DEF Idles, OnlyStep, OnlyOf, OnlyIn, Fetch, store, TypeOK, LocalOK, Clients
  <2> QED BY <1>2, <2>1, IdlesKeeps DEF Clients
<1>11. ASSUME NEW c \in Workers \cup Consoles, AddKnown(c) \/ AddFull(c) PROVE Singly' /\ Booked'
  <2>1. PICK u : NotAdded(c, u)
    BY <1>11 DEF AddKnown, AddFull
  <2>2. pc' = pc \/ pc' = [pc EXCEPT ![c] = "front"]
    BY <2>1 DEF NotAdded
  <2>3. OnlyStep(c)
    BY <1>11 DEF OnlyStep, OnlyOf, OnlyIn, AddKnown, AddFull, NotAdded
  <2>4. /\ pc[c] = "links" /\ visited' = visited /\ seen \subseteq seen' /\ queue' = queue /\ held' = held
        /\ failed' = failed /\ deferred' = deferred /\ todo' = todo
    BY <1>11 DEF AddKnown, AddFull, store
  <2>5. Idles(c)
    BY <2>2, <2>3, <2>4 DEF Idles, TypeOK, LocalOK, Clients
  <2> QED BY <1>2, <2>5, IdlesKeeps DEF Clients
<1>12. ASSUME NEW c \in Workers \cup Consoles, AddNew(c) PROVE Singly' /\ Booked'
  <2>1. Singly'
    BY <1>2, <1>12, SinglyNew
  <2>2. /\ pc' = [pc EXCEPT ![c] = "queue"] /\ held' = held
        /\ failed' = failed /\ visited' = visited /\ deferred' = deferred /\ todo' = todo
    BY <1>12 DEF AddNew
  <2>3. OnlyStep(c) /\ pc'[c] = "queue"
    BY <1>12, <2>2 DEF AddNew, OnlyStep, OnlyOf, OnlyIn, TypeOK, LocalOK, Clients
  <2>4. Booked'
    BY <1>2, <2>2, <2>3, BookedStep DEF Booked, BookedOf, Clients
  <2> QED BY <2>1, <2>4
<1>13. ASSUME NEW c \in Workers \cup Consoles, NEW ok \in BOOLEAN, AddQueue(c, ok) PROVE Singly' /\ Booked'
  <2>1. ok = TRUE
    BY <1>13, NoError DEF AddQueue
  <2>2. Singly'
    BY <1>2, <1>13, <2>1, SinglyQueued
  <2>3. /\ pc' = [pc EXCEPT ![c] = "meta"] /\ arg' = arg /\ held' = held /\ links' = links
        /\ failed' = failed /\ visited' = visited /\ deferred' = deferred /\ todo' = todo
    BY <1>13, <2>1 DEF AddQueue
  <2>4. OnlyStep(c) /\ pc'[c] = "meta"
    BY <2>3 DEF OnlyStep, OnlyOf, OnlyIn, TypeOK, LocalOK, Clients
  <2>5. Booked'
    BY <1>2, <2>3, <2>4, BookedStep DEF Booked, BookedOf, Clients
  <2> QED BY <2>2, <2>5
<1>14. ASSUME NEW c \in Workers \cup Consoles, NEW ok \in BOOLEAN, AddMeta(c, ok) PROVE Singly' /\ Booked'
  <2>1. ok
    BY <1>14, NoError DEF AddMeta
  <2>2. Idles(c)
    BY <1>14, <2>1 DEF Idles, OnlyStep, OnlyOf, OnlyIn, AddMeta, TypeOK, LocalOK, Clients
  <2> QED BY <1>2, <2>2, IdlesKeeps DEF Clients
<1>15. ASSUME NEW c \in Workers \cup Consoles, NEW ok \in BOOLEAN, AddHost(c, ok) PROVE Singly' /\ Booked'
  <2>1. ok /\ c \notin failed
    BY <1>2, <1>15, NoError DEF AddHost, Booked
  <2>2. PICK l \in {"links", "front"} : pc' = [pc EXCEPT ![c] = l]
    BY <1>15, <2>1 DEF AddHost, AfterAdd
  <2>3. /\ arg' = arg \/ arg' = Remove(arg, {c})
        /\ failed' = failed \ {c} /\ visited' = visited /\ seen' = seen /\ queue' = queue /\ held' = held
        /\ deferred' = deferred /\ todo' = todo /\ links' = links
    BY <1>15, <2>1 DEF AddHost
  <2>4. OnlyStep(c) /\ pc'[c] = l
    BY <2>2, <2>3 DEF OnlyStep, OnlyOf, OnlyIn, TypeOK, LocalOK, Clients
  <2>5. Idles(c)
    BY <2>3, <2>4 DEF Idles
  <2> QED BY <1>2, <2>5, IdlesKeeps DEF Clients
<1>16. ASSUME NEW c \in Workers \cup Consoles, NEW ok \in BOOLEAN, UndoSeen(c, ok) \/ UndoMeta(c, ok) PROVE FALSE
  BY <1>2, <1>16 DEF UndoSeen, UndoMeta, Booked, BookedOf, Clients
<1>17. ASSUME NEW c \in Consoles, Submit(c) \/ MoveToFront(c) PROVE Singly' /\ Booked'
  <2>1. queue' = queue \/ queue' = PutOld(queue, arg[c].url, Front)
    BY <1>17 DEF Submit, MoveToFront, store
  <2>2. DOMAIN queue' = DOMAIN queue
    BY <2>1, PutOldDomain
  <2>3. PICK l \in {"links", "idle"} : pc' = [pc EXCEPT ![c] = l]
    BY <1>17 DEF Submit, MoveToFront
  <2>4. OnlyStep(c) /\ pc'[c] = l
    BY <1>17, <2>3 DEF OnlyStep, OnlyOf, OnlyIn, Submit, MoveToFront, TypeOK, LocalOK, Clients
  <2>5. /\ failed' = failed /\ visited' = visited /\ seen' = seen /\ held' = held
        /\ deferred' = deferred /\ todo' = todo
    BY <1>17 DEF Submit, MoveToFront, store
  <2>6. Idles(c)
    BY <2>2, <2>4, <2>5 DEF Idles
  <2> QED BY <1>2, <2>6, IdlesKeeps DEF Clients
<1>18. ASSUME NEW w \in Workers, Book(w) PROVE Singly' /\ Booked'
  <2>1. PICK credit \in Credits :
          arg' = Put(arg, w, [url |-> held[w].url, depth |-> held[w].depth, credit |-> credit])
    BY <1>18 DEF Book
  <2>2. arg'[w].url \in visited'
    <3>1. arg'[w].url = held[w].url
      BY <2>1 DEF Put
    <3> QED BY <1>18, <3>1 DEF Book
  <2>3. Idles(w)
    BY <1>18, <2>1, <2>2 DEF Idles, OnlyStep, OnlyOf, OnlyIn, Book, TypeOK, LocalOK, Clients
  <2> QED BY <1>2, <2>3, IdlesKeeps DEF Clients
<1>19. ASSUME NEW p \in Pollers, SitemapChanged(p) PROVE Singly' /\ Booked'
  <2>1. PICK u \in visited : arg' = Put(arg, p, [url |-> u, depth |-> 1, credit |-> SitemapCredit])
    BY <1>19 DEF SitemapChanged
  <2>2. arg'[p].url \in visited'
    BY <1>19, <2>1 DEF SitemapChanged, Put, store
  <2>3. Idles(p)
    BY <1>19, <2>1, <2>2 DEF Idles, OnlyStep, OnlyOf, OnlyIn, SitemapChanged, store, TypeOK, LocalOK, Clients
  <2> QED BY <1>2, <2>3, IdlesKeeps DEF Clients
<1>20. ASSUME NEW c \in Workers \cup Pollers, NEW ok \in BOOLEAN, DeferMeta(c, ok) PROVE Singly' /\ Booked'
  <2>1. arg[c].url \in visited
    BY <1>2, <1>20 DEF DeferMeta, Booked, BookedOf, Clients
  <2>2. Idles(c)
    BY <1>20, <2>1 DEF Idles, OnlyStep, OnlyOf, OnlyIn, DeferMeta, TypeOK, LocalOK, Clients
  <2> QED BY <1>2, <2>2, IdlesKeeps DEF Clients
<1>21. ASSUME NEW c \in Workers \cup Pollers, NEW ok \in BOOLEAN, DeferDue(c, ok) PROVE Singly' /\ Booked'
  <2>1. arg[c].url \in visited
    BY <1>2, <1>21 DEF DeferDue, Booked, BookedOf, Clients
  <2>2. deferred' = deferred \/ \E t : deferred' = Put(deferred, arg[c], t)
    BY <1>21 DEF DeferDue
  <2>3. \A e \in DOMAIN deferred' : e \in DOMAIN deferred \/ e = arg[c]
    BY <2>2 DEF Put
  <2>4. PICK l \in {"complete", "idle"} : pc' = [pc EXCEPT ![c] = l]
    BY <1>21 DEF DeferDue
  <2>5. /\ arg' = Remove(arg, {c}) /\ failed' = failed /\ visited' = visited /\ seen' = seen /\ queue' = queue
        /\ held' = held /\ links' = links /\ todo' = todo
    BY <1>21 DEF DeferDue
  <2>6. OnlyStep(c) /\ pc'[c] = l
    BY <2>4, <2>5 DEF OnlyStep, OnlyOf, OnlyIn, TypeOK, LocalOK, Clients
  <2>7. Singly'
    BY <1>2, <2>5, <2>6, SinglyStep DEF Clients
  <2>8. BookedOf(c)' /\ failed' = {}
    BY <1>2, <2>5, <2>6 DEF BookedOf, Booked
  <2>9. Booked'
    BY <1>2, <2>1, <2>3, <2>5, <2>6, <2>8, BookedStep DEF Clients
  <2> QED BY <2>7, <2>9
<1>22. ASSUME NEW w \in Workers, NEW ok \in BOOLEAN, CompleteClaim(w, ok) PROVE Singly' /\ Booked'
  <2>1. Idles(w)
    BY <1>22 DEF Idles, OnlyStep, OnlyOf, OnlyIn, CompleteClaim, TypeOK, LocalOK, Clients
  <2> QED BY <1>2, <2>1, IdlesKeeps DEF Clients
<1>23. ASSUME NEW w \in Workers, NEW ok \in BOOLEAN, CompleteMeta(w, ok) PROVE Singly' /\ Booked'
  <2>1. held' = Remove(held, {w})
    BY <1>23 DEF CompleteMeta
  <2>2. w \notin DOMAIN held'
    BY <2>1 DEF Remove
  <2>3. Idles(w)
    BY <1>23, <2>1, <2>2 DEF Idles, OnlyStep, OnlyOf, OnlyIn, CompleteMeta, TypeOK, LocalOK, Clients
  <2> QED BY <1>2, <2>3, IdlesKeeps DEF Clients
<1>24. ASSUME NEW c \in Clients, Crash(c) PROVE Singly' /\ Booked'
  <2>1. held' = Remove(held, {c}) /\ pc' = [pc EXCEPT ![c] = "idle"]
    BY <1>24 DEF Crash
  <2>2. c \notin DOMAIN held' /\ pc'[c] = "idle"
    BY <2>1 DEF Remove, TypeOK, LocalOK
  <2>3. OnlyStep(c)
    BY <1>24 DEF OnlyStep, OnlyOf, OnlyIn, Crash
  <2>4. \A w \in Workers : todo'[w] \subseteq todo[w]
    BY <1>24 DEF Crash, TypeOK, LocalOK
  <2>5. failed' = failed \ {c} /\ visited' = visited /\ seen' = seen /\ queue' = queue /\ deferred' = deferred
    BY <1>24 DEF Crash, store
  <2>6. Idles(c)
    BY <2>2, <2>3, <2>4, <2>5 DEF Idles
  <2> QED BY <1>2, <2>6, IdlesKeeps
<1> QED
  BY <1>3, <1>4, <1>5, <1>6, <1>7, <1>8, <1>9, <1>10, <1>11, <1>12, <1>13, <1>14, <1>15, <1>16, <1>17, <1>18, <1>19,
     <1>20, <1>21, <1>22, <1>23, <1>24
  DEF Next, WorkerStep, ConsoleStep, PollerStep, Sweep, Claim, Add, Defer, Complete

(* A page that several workers find at once is queued and fetched by one of *)
(* them, until it is visited and as long as no write fails: the answer of   *)
(* SADD decides, with any number of workers, consoles and crashes between   *)
(* it and the write to the queue (add, CLAIM_SCRIPT).                      *)
THEOREM FoundOnce == Spec => []DiscoveredOnce
<1>1. Init => Once
  BY EmptyIsMap DEF Init, Once, Singly, Single, Holds, Queueing, Booked, BookedOf
<1>2. TypeOK /\ Shape /\ Once /\ [Next]_vars => TypeOK' /\ Shape' /\ Once'
  BY TypeNext, ShapeNext, OnceNext
<1>3. TypeOK /\ Once => DiscoveredOnce
  <2> SUFFICES ASSUME TypeOK, Once, errors = 0, NEW w \in DOMAIN held, held[w].url \notin visited
               PROVE  /\ held[w].url \notin DOMAIN queue
                      /\ \A v \in DOMAIN held : held[v].url = held[w].url => v = w
    BY DEF DiscoveredOnce
  <2>1. w \in Workers /\ held[w] \in Claimed
    BY MapApply DEF TypeOK, LocalOK
  <2>2. Single(held[w].url)
    BY <2>1 DEF Once, Singly, Claimed
  <2>3. DOMAIN held \subseteq Workers
    BY DEF TypeOK, LocalOK, IsMap
  <2> QED BY <2>1, <2>2, <2>3 DEF Single, Holds
<1> QED
  BY <1>1, <1>2, <1>3, TypeInit, ShapeInit, PTL DEF Spec

-----------------------------------------------------------------------------
(* Accounting.  A URL that is known is in the queue, or its end is known,  *)
(* or it is due (as an entry that nobody is about to take away because it   *)
(* has been queued), or a worker has still to complete it, or a client has  *)
(* still to write it or to undo what it wrote.                             *)
Promoting(w) == pc[w] \in {"promote host", "promote done"}
Removable    == {arg[w] : w \in {v \in Workers : Promoting(v) /\ v \notin failed}} \ rebooked

AddsIt(c, u)  == /\ pc[c] \in {"queue", "undo seen"} \/ (pc[c] \in {"meta", "host"} /\ c \in failed)
                 /\ arg[c].url = u
HoldsIt(w, u) == pc[w] \in Holding \ {"complete", "forget"} /\ held[w].url = u

Kept(u) ==
  \/ u \in DOMAIN queue \cup DOMAIN fate
  \/ \E e \in DOMAIN deferred \ Removable : e.url = u
  \/ \E w \in Workers : HoldsIt(w, u)
  \/ \E c \in Clients : AddsIt(c, u)

Tracked == \A u \in seen : Kept(u)

(* A worker promotes what it read to be due, and books what it holds.      *)
Promises(w) == /\ Promoting(w) => arg[w] \in todo[w]
               /\ pc[w] \in {"defer meta", "defer due"} => arg[w].url = held[w].url

Accounting == Tracked /\ \A w \in Workers : Promises(w)

(* What the others hold and write is as it was. *)
LEMMA OthersKeep ==
  ASSUME TypeOK, Shape, NEW c \in Clients, OnlyStep(c), NEW d \in Clients \ {c}
  PROVE  /\ pc'[d] = pc[d]
         /\ pc[d] \in Writing => arg'[d] = arg[d]
         /\ d \in Workers /\ pc[d] \in Holding => held'[d] = held[d]
<1>1. pc'[d] = pc[d]
  BY OnlyOfApply DEF OnlyStep, TypeOK, LocalOK
<1>2. pc[d] \in Writing => arg'[d] = arg[d]
  BY OnlyInApply DEF OnlyStep, Shape
<1>3. d \in Workers /\ pc[d] \in Holding => held'[d] = held[d]
  BY OnlyInApply DEF OnlyStep, Shape
<1> QED BY <1>1, <1>2, <1>3

(* Nothing but what c is about to take away becomes removable.             *)
LEMMA RemovableStep ==
  ASSUME TypeOK, Shape, Accounting, NEW c \in Clients, OnlyStep(c),
         \A d \in Clients \ {c} : d \in failed' <=> d \in failed,
         \A v \in Workers \ {c} : todo'[v] = todo[v],
         rebooked \cap UNION {todo'[v] : v \in Workers} \subseteq rebooked'
  PROVE  \A e \in Removable' : \/ e \in Removable
                               \/ c \in Workers /\ Promoting(c)' /\ c \notin failed' /\ e = arg'[c] /\ e \notin rebooked'
<1> SUFFICES ASSUME NEW v \in Workers, Promoting(v)', v \notin failed', arg'[v] \notin rebooked', v # c
             PROVE  arg'[v] \in Removable
  BY DEF Removable
<1>1. v \in Clients \ {c}
  BY DEF Clients
<1>2. Promoting(v) /\ arg'[v] = arg[v]
  BY <1>1, OthersKeep DEF Promoting, Writing
<1>3. v \notin failed /\ arg[v] \in todo'[v]
  BY <1>1, <1>2 DEF Accounting, Promises
<1>4. arg[v] \notin rebooked
  BY <1>2, <1>3
<1> QED BY <1>2, <1>3, <1>4 DEF Removable

(* What a step has to see to: what it takes away, and its own client.      *)
LEMMA AccountStep ==
  ASSUME TypeOK, Shape, Accounting, NEW c \in Clients, OnlyStep(c),
         \A d \in Clients \ {c} : d \in failed' <=> d \in failed,
         \A v \in Workers \ {c} : todo'[v] = todo[v],
         rebooked \cap UNION {todo'[v] : v \in Workers} \subseteq rebooked',
         c \in Workers => Promises(c)',
         c \in Workers /\ Promoting(c)' /\ c \notin failed' =>
           arg'[c] \in Removable \cup rebooked' \/ arg'[c].url \in DOMAIN queue',
         \A e \in DOMAIN deferred \ Removable : e \in DOMAIN deferred' \/ e.url \in DOMAIN queue' \cup DOMAIN fate',
         \A u \in DOMAIN queue \cup DOMAIN fate : Kept(u)',
         \A u \in seen' : u \notin seen \/ (c \in Workers /\ HoldsIt(c, u)) \/ AddsIt(c, u) => Kept(u)'
  PROVE  Accounting'
<1>1. ASSUME NEW w \in Workers PROVE Promises(w)'
  <2>1. CASE w = c
    BY <2>1
  <2>2. CASE w # c
    <3>1. w \in Clients \ {c}
      BY <2>2 DEF Clients
    <3>2. pc'[w] = pc[w] /\ todo'[w] = todo[w] /\ Promises(w)
      BY <2>2, <3>1, OthersKeep DEF Accounting
    <3>3. Promoting(w) \/ pc[w] \in {"defer meta", "defer due"} => arg'[w] = arg[w]
      BY <3>1, OthersKeep DEF Promoting, Writing
    <3>4. pc[w] \in {"defer meta", "defer due"} => held'[w] = held[w]
      BY <3>1, OthersKeep DEF Holding
    <3> QED BY <3>2, <3>3, <3>4 DEF Promises, Promoting
  <2> QED BY <2>1, <2>2
<1>2. ASSUME NEW u \in seen' PROVE Kept(u)'
  <2>1. CASE u \notin seen
    BY <2>1
  <2>2. CASE u \in seen
    <3>1. Kept(u)
      BY <2>2 DEF Accounting, Tracked
    <3>2. CASE u \in DOMAIN queue \cup DOMAIN fate
      BY <3>2
    <3>3. CASE \E e \in DOMAIN deferred \ Removable : e.url = u
      <4>1. PICK e \in DOMAIN deferred \ Removable : e.url = u
        BY <3>3
      <4>2. e \in DOMAIN deferred' \/ u \in DOMAIN queue' \cup DOMAIN fate'
        BY <4>1
      <4>3. e \in Removable' => u \in DOMAIN queue'
        BY <4>1, RemovableStep
      <4> QED BY <4>1, <4>2, <4>3 DEF Kept
    <3>4. CASE \E w \in Workers : HoldsIt(w, u)
      <4>1. PICK w \in Workers : HoldsIt(w, u)
        BY <3>4
      <4>2. CASE w # c
        <5>1. w \in Clients \ {c} /\ pc[w] \in Holding
          BY <4>1, <4>2 DEF Clients, HoldsIt
        <5>2. pc'[w] = pc[w] /\ held'[w] = held[w]
          BY <5>1, OthersKeep
        <5> QED BY <4>1, <5>2 DEF HoldsIt, Kept
      <4> QED BY <4>1, <4>2
    <3>5. CASE \E d \in Clients : AddsIt(d, u)
      <4>1. PICK d \in Clients : AddsIt(d, u)
        BY <3>5
      <4>2. CASE d # c
        <5>1. pc[d] \in Writing /\ d \in Clients \ {c}
          BY <4>1, <4>2 DEF AddsIt, Writing, Adding
        <5>2. pc'[d] = pc[d] /\ arg'[d] = arg[d] /\ (d \in failed' <=> d \in failed)
          BY <5>1, OthersKeep
        <5>3. AddsIt(d, u)'
          BY <4>1, <5>2 DEF AddsIt
        <5> QED BY <5>3 DEF Kept
      <4> QED BY <4>1, <4>2
    <3> QED BY <3>1, <3>2, <3>3, <3>4, <3>5 DEF Kept
  <2> QED BY <2>1, <2>2
<1> QED BY <1>1, <1>2 DEF Accounting, Tracked

(* A step that takes nothing away and begins no promotion. *)
Gives(c) ==
  /\ OnlyStep(c) /\ rebooked' = rebooked
  /\ \A d \in Clients \ {c} : d \in failed' <=> d \in failed
  /\ \A v \in Workers \ {c} : todo'[v] = todo[v]
  /\ c \in Workers => Promises(c)' /\ ~ Promoting(c)'
  /\ DOMAIN deferred \subseteq DOMAIN deferred'
  /\ DOMAIN queue \cup DOMAIN fate \subseteq DOMAIN queue' \cup DOMAIN fate'

LEMMA GivesKeeps ==
  ASSUME TypeOK, Shape, Accounting, NEW c \in Clients, Gives(c),
         \A u \in seen' : u \notin seen \/ (c \in Workers /\ HoldsIt(c, u)) \/ AddsIt(c, u) => Kept(u)'
  PROVE  Accounting'
<1>1. rebooked \cap UNION {todo'[v] : v \in Workers} \subseteq rebooked'
  BY DEF Gives
<1>2. c \in Workers => Promises(c)' /\ ~ Promoting(c)'
  BY DEF Gives
<1>3. \A u \in DOMAIN queue \cup DOMAIN fate : Kept(u)'
  BY DEF Gives, Kept
<1>4. \A e \in DOMAIN deferred \ Removable : e \in DOMAIN deferred'
  BY DEF Gives
<1> QED BY <1>1, <1>2, <1>3, <1>4, AccountStep DEF Gives

LEMMA AccountSweep ==
  ASSUME TypeOK, Shape, Accounting, NEW w \in Workers,
         BeginStep(w) \/ Reclaim(w) \/ ReadDue(w) \/ ClaimNothing(w) \/ ClaimEmptyHost(w)
  PROVE  Accounting'
<1> USE DEF At, Goto
<1>1. w \in Clients
  BY DEF Clients
<1>2. pc[w] \in {"idle", "sweep", "due", "claim"}
  BY DEF BeginStep, Reclaim, ReadDue, ClaimNothing, ClaimEmptyHost
<1>3. PICK l \in {"idle", "sweep", "due", "promote", "claim"} : pc' = [pc EXCEPT ![w] = l]
  BY DEF BeginStep, Reclaim, ReadDue, ClaimNothing, ClaimEmptyHost
<1>4. /\ rebooked' = rebooked /\ failed' = failed /\ deferred' = deferred /\ queue' = queue /\ seen' = seen
      /\ held' = held /\ arg' = arg /\ links' = links
      /\ DOMAIN fate \subseteq DOMAIN fate'
      /\ \A v \in Workers \ {w} : todo'[v] = todo[v]
  BY DEF BeginStep, Reclaim, ReadDue, ClaimNothing, ClaimEmptyHost, store, local, history, TypeOK, LocalOK
<1>5. OnlyStep(w) /\ pc'[w] = l
  BY <1>1, <1>3, <1>4 DEF OnlyStep, OnlyOf, OnlyIn, TypeOK, LocalOK
<1>6. Gives(w)
  BY <1>4, <1>5 DEF Gives, Promises, Promoting
<1>7. \A u : ~ HoldsIt(w, u) /\ ~ AddsIt(w, u)
  BY <1>2 DEF HoldsIt, AddsIt, Holding, Adding
<1> QED BY <1>1, <1>4, <1>6, <1>7, GivesKeeps

(* What is queued by a promotion may be taken off the due set.             *)
LEMMA AccountPromoteQueue ==
  ASSUME TypeOK, Shape, Accounting, NEW w \in Workers, NEW ok \in BOOLEAN, PromoteQueue(w, ok)
  PROVE  Accounting'
<1> USE DEF At, Goto
<1>1. PICK e \in todo[w] :
        /\ arg' = Put(arg, w, e)
        /\ queue' = IF ok THEN Put(queue, e.url, Priority(e)) ELSE queue
        /\ fate' = IF ok THEN Remove(fate, {e.url}) ELSE fate
  BY DEF PromoteQueue
<1>2. /\ w \in Clients /\ pc[w] = "promote" /\ pc' = [pc EXCEPT ![w] = "promote host"]
      /\ rebooked' = rebooked /\ deferred' = deferred /\ seen' = seen
      /\ held' = held /\ links' = links /\ todo' = todo
      /\ failed' = IF ok THEN failed ELSE failed \cup {w}
  BY DEF PromoteQueue, Clients
<1>3. OnlyStep(w) /\ pc'[w] = "promote host" /\ arg'[w] = e
  <2>1. OnlyStep(w) /\ pc'[w] = "promote host"
    BY <1>1, <1>2 DEF OnlyStep, OnlyOf, OnlyIn, TypeOK, LocalOK
  <2>2. arg'[w] = e
    BY <1>1 DEF Put
  <2> QED BY <2>1, <2>2
<1>4. Promises(w)'
  BY <1>1, <1>2, <1>3 DEF Promises, Promoting
<1>5. w \notin failed' => e.url \in DOMAIN queue'
  BY <1>1, <1>2 DEF Put
<1>6. \A u \in DOMAIN queue \cup DOMAIN fate : u \in DOMAIN queue' \cup DOMAIN fate'
  <2>1. CASE ok
    <3>1. DOMAIN queue' = DOMAIN queue \cup {e.url} /\ DOMAIN fate' = DOMAIN fate \ {e.url}
      BY <1>1, <2>1, PutApply, RemoveApply, ZenonT(60)
    <3> QED BY <3>1
  <2>2. CASE ~ ok
    BY <1>1, <2>2
  <2> QED BY <2>1, <2>2
<1>7. \A u : ~ HoldsIt(w, u) /\ ~ AddsIt(w, u)
  BY <1>2 DEF HoldsIt, AddsIt, Holding, Adding
<1>8. \A u \in DOMAIN queue \cup DOMAIN fate : Kept(u)'
  BY <1>6 DEF Kept
<1>9. /\ \A d \in Clients \ {w} : d \in failed' <=> d \in failed
      /\ \A v \in Workers \ {w} : todo'[v] = todo[v]
      /\ rebooked \cap UNION {todo'[v] : v \in Workers} \subseteq rebooked'
  BY <1>2
<1> QED BY <1>2, <1>3, <1>4, <1>5, <1>7, <1>8, <1>9, AccountStep

LEMMA AccountPromoteHost ==
  ASSUME TypeOK, Shape, Accounting, NEW w \in Workers, NEW ok \in BOOLEAN, PromoteHost(w, ok)
  PROVE  Accounting'
<1> USE DEF At, Goto
<1>1. /\ w \in Clients /\ pc[w] = "promote host" /\ pc' = [pc EXCEPT ![w] = "promote done"]
      /\ rebooked' = rebooked /\ deferred' = deferred /\ seen' = seen /\ queue' = queue /\ fate' = fate
      /\ held' = held /\ links' = links /\ todo' = todo /\ arg' = arg
      /\ failed' = IF ok THEN failed ELSE failed \cup {w}
  BY DEF PromoteHost, Clients
<1>2. OnlyStep(w) /\ pc'[w] = "promote done"
  BY <1>1 DEF OnlyStep, OnlyOf, OnlyIn, TypeOK, LocalOK
<1>3. Promises(w)'
  BY <1>1, <1>2 DEF Accounting, Promises, Promoting
<1>4. w \notin failed' => arg'[w] \in Removable \cup rebooked'
  BY <1>1 DEF Removable, Promoting
<1>5. \A u : ~ HoldsIt(w, u) /\ ~ AddsIt(w, u)
  BY <1>1 DEF HoldsIt, AddsIt, Holding, Adding
<1>6. \A u \in DOMAIN queue \cup DOMAIN fate : Kept(u)'
  BY <1>1 DEF Kept
<1>7. /\ \A d \in Clients \ {w} : d \in failed' <=> d \in failed
      /\ \A v \in Workers \ {w} : todo'[v] = todo[v]
      /\ rebooked \cap UNION {todo'[v] : v \in Workers} \subseteq rebooked'
  BY <1>1
<1> QED BY <1>1, <1>2, <1>3, <1>4, <1>5, <1>6, <1>7, AccountStep

LEMMA AccountPromoteDone ==
  ASSUME TypeOK, Shape, Accounting, NEW w \in Workers, NEW ok \in BOOLEAN, PromoteDone(w, ok)
  PROVE  Accounting'
<1> USE DEF At, Goto
<1>1. /\ w \in Clients /\ pc[w] = "promote done" /\ seen' = seen /\ queue' = queue
      /\ held' = held /\ links' = links /\ arg' = Remove(arg, {w}) /\ failed' = failed \ {w}
      /\ todo' = [todo EXCEPT ![w] = @ \ {arg[w]}]
      /\ rebooked' = rebooked \cap UNION {todo'[v] : v \in Workers}
  BY DEF PromoteDone, Clients
<1>2. PICK l \in {"claim", "promote"} : pc' = [pc EXCEPT ![w] = l]
  BY DEF PromoteDone
<1>3. OnlyStep(w) /\ pc'[w] = l
  BY <1>1, <1>2 DEF OnlyStep, OnlyOf, OnlyIn, TypeOK, LocalOK
<1>4. Promises(w)' /\ ~ Promoting(w)'
  BY <1>3 DEF Promises, Promoting
<1>5. \A u : ~ HoldsIt(w, u) /\ ~ AddsIt(w, u)
  BY <1>1 DEF HoldsIt, AddsIt, Holding, Adding
<1>6. DOMAIN fate \subseteq DOMAIN fate'
  BY DEF PromoteDone, Put
<1>7. \A u \in DOMAIN queue \cup DOMAIN fate : Kept(u)'
  BY <1>1, <1>6 DEF Kept
<1>8. /\ \A d \in Clients \ {w} : d \in failed' <=> d \in failed
      /\ \A v \in Workers \ {w} : todo'[v] = todo[v]
      /\ rebooked \cap UNION {todo'[v] : v \in Workers} \subseteq rebooked'
  BY <1>1 DEF TypeOK, LocalOK
<1>9. \A e \in DOMAIN deferred \ Removable : e \in DOMAIN deferred' \/ e.url \in DOMAIN fate'
  <2>1. CASE ok /\ w \notin failed
    <3>1. deferred' = Remove(deferred, {arg[w]}) /\ (arg[w] \in rebooked => fate' = Put(fate, arg[w].url, "unscheduled"))
      BY <2>1 DEF PromoteDone
    <3>2. DOMAIN deferred' = DOMAIN deferred \ {arg[w]}
      BY <3>1, RemoveApply
    <3>3. arg[w] \in Removable \/ arg[w] \in rebooked
      BY <1>1, <2>1 DEF Removable, Promoting
    <3>4. arg[w] \in rebooked => arg[w].url \in DOMAIN fate'
      BY <3>1 DEF Put
    <3> QED BY <3>2, <3>3, <3>4
  <2>2. CASE ~ (ok /\ w \notin failed)
    BY <2>2 DEF PromoteDone
  <2> QED BY <2>1, <2>2
<1> QED BY <1>1, <1>3, <1>4, <1>5, <1>7, <1>8, <1>9, AccountStep

LEMMA AccountClaim ==
  ASSUME TypeOK, Shape, Accounting, NEW w \in Workers, ClaimUrl(w)
  PROVE  Accounting'
<1> USE DEF At, Goto
<1>1. PICK x : queue' = Remove(queue, {x}) /\ held' = Put(held, w, [url |-> x, depth |-> DecodeMeta(x)])
  BY DEF ClaimUrl
<1>2. /\ w \in Clients /\ pc[w] = "claim" /\ pc' = [pc EXCEPT ![w] = "fetch"]
      /\ rebooked' = rebooked /\ deferred' = deferred /\ seen' = seen /\ fate' = fate
      /\ links' = links /\ todo' = todo /\ arg' = arg /\ failed' = failed
  BY DEF ClaimUrl, Clients
<1>3. OnlyStep(w) /\ pc'[w] = "fetch"
  BY <1>1, <1>2 DEF OnlyStep, OnlyOf, OnlyIn, TypeOK, LocalOK
<1>4. Promises(w)' /\ ~ Promoting(w)'
  BY <1>3 DEF Promises, Promoting
<1>5. HoldsIt(w, x)'
  <2>1. held'[w].url = x
    BY <1>1 DEF Put
  <2> QED BY <1>3, <2>1 DEF HoldsIt, Holding
<1>6. \A u \in DOMAIN queue \cup DOMAIN fate : Kept(u)'
  <2>1. DOMAIN queue' = DOMAIN queue \ {x}
    BY <1>1, RemoveApply
  <2> QED BY <1>2, <1>5, <2>1 DEF Kept
<1>7. \A u : ~ HoldsIt(w, u) /\ ~ AddsIt(w, u)
  BY <1>2 DEF HoldsIt, AddsIt, Holding, Adding
<1>8. /\ \A d \in Clients \ {w} : d \in failed' <=> d \in failed
      /\ \A v \in Workers \ {w} : todo'[v] = todo[v]
      /\ rebooked \cap UNION {todo'[v] : v \in Workers} \subseteq rebooked'
  BY <1>2
<1> QED BY <1>2, <1>3, <1>4, <1>6, <1>7, <1>8, AccountStep

(* A worker goes on holding its page while it adds links and books it.     *)
LEMMA AccountHold ==
  ASSUME TypeOK, Shape, Accounting, NEW w \in Workers, Fetch(w) \/ Book(w)
  PROVE  Accounting'
<1> USE DEF At, Goto
<1>1. /\ w \in Clients /\ pc[w] \in {"fetch", "links"}
      /\ rebooked' = rebooked /\ deferred' = deferred /\ seen' = seen /\ fate' = fate /\ queue' = queue
      /\ held' = held /\ todo' = todo /\ failed' = failed
  BY DEF Fetch, Book, Clients, store, history
<1>2. PICK l \in {"links", "defer meta"} : pc' = [pc EXCEPT ![w] = l]
  BY DEF Fetch, Book
<1>3. OnlyStep(w) /\ pc'[w] = l
  BY <1>1, <1>2 DEF Fetch, Book, OnlyStep, OnlyOf, OnlyIn, TypeOK, LocalOK
<1>4. Promises(w)' /\ ~ Promoting(w)'
  <2>1. CASE Fetch(w)
    BY <1>1, <2>1 DEF Fetch, Promises, Promoting, TypeOK, LocalOK
  <2>2. CASE Book(w)
    <3>1. arg'[w].url = held[w].url
      <4>1. PICK credit \in Credits :
              arg' = Put(arg, w, [url |-> held[w].url, depth |-> held[w].depth, credit |-> credit])
        BY <2>2 DEF Book
      <4> QED BY <4>1 DEF Put
    <3> QED BY <1>1, <1>3, <3>1 DEF Promises, Promoting
  <2> QED BY <2>1, <2>2
<1>5. Gives(w)
  BY <1>1, <1>3, <1>4 DEF Gives
<1>6. \A u : ~ AddsIt(w, u) /\ (HoldsIt(w, u) => HoldsIt(w, u)')
  BY <1>1, <1>3 DEF HoldsIt, AddsIt, Holding, Adding
<1> QED BY <1>1, <1>5, <1>6, GivesKeeps DEF Kept

(* What add leaves out is known already, or marked as refused. *)
LEMMA AccountNotAdded ==
  ASSUME TypeOK, Shape, Accounting, NEW c \in Workers \cup Consoles, AddKnown(c) \/ AddFull(c)
  PROVE  Accounting'
<1> USE DEF At, Goto
<1>1. PICK u \in links[c] : /\ NotAdded(c, u)
                           /\ \/ seen' = seen /\ fate' = fate
                              \/ seen' = seen \cup {u} /\ fate' = Put(fate, u, "full")
  BY DEF AddKnown, AddFull, store
<1>2. /\ c \in Clients /\ pc[c] = "links"
      /\ rebooked' = rebooked /\ deferred' = deferred /\ queue' = queue
      /\ held' = held /\ todo' = todo /\ failed' = failed
  BY DEF AddKnown, AddFull, Clients, store
<1>3. OnlyStep(c) /\ pc'[c] \in {"links", "front"} /\ (c \in Workers => pc' = pc)
  BY <1>1, <1>2 DEF NotAdded, OnlyStep, OnlyOf, OnlyIn, TypeOK, LocalOK
<1>4. DOMAIN fate \subseteq DOMAIN fate' /\ (u \in seen' \ seen => u \in DOMAIN fate') /\ seen' \subseteq seen \cup {u}
  BY <1>1 DEF Put
<1>5. Gives(c)
  BY <1>2, <1>3, <1>4 DEF Gives, Promises, Promoting
<1>6. \A x : ~ AddsIt(c, x) /\ (c \in Workers /\ HoldsIt(c, x) => HoldsIt(c, x)')
  BY <1>2, <1>3 DEF HoldsIt, AddsIt, Holding, Adding
<1> QED BY <1>2, <1>4, <1>5, <1>6, GivesKeeps DEF Kept

(* What add takes up is in its hands until it is queued, or, where a write  *)
(* fails, until it is undone.                                              *)
LEMMA AccountAdd ==
  ASSUME TypeOK, Shape, Accounting, NEW c \in Workers \cup Consoles, NEW ok \in BOOLEAN,
         AddNew(c) \/ AddQueue(c, ok) \/ AddMeta(c, ok) \/ UndoSeen(c, ok)
  PROVE  Accounting'
<1> USE DEF At, Goto
<1>1. /\ c \in Clients /\ pc[c] \in {"links", "queue", "meta", "undo seen"}
      /\ rebooked' = rebooked /\ deferred' = deferred
      /\ held' = held /\ todo' = todo
      /\ failed' = failed \/ failed' = failed \cup {c}
  <2>1. CASE AddNew(c)
    BY <2>1 DEF AddNew, Clients, history
  <2>2. CASE AddQueue(c, ok)
    BY <2>2 DEF AddQueue, Clients
  <2>3. CASE AddMeta(c, ok)
    BY <2>3 DEF AddMeta, Clients
  <2>4. CASE UndoSeen(c, ok)
    BY <2>4 DEF UndoSeen, Clients
  <2> QED BY <2>1, <2>2, <2>3, <2>4
<1>2. PICK l \in {"queue", "meta", "host", "undo meta"} : pc' = [pc EXCEPT ![c] = l]
  BY DEF AddNew, AddQueue, AddMeta, UndoSeen
<1>3. OnlyStep(c) /\ pc'[c] = l
  BY <1>1, <1>2 DEF AddNew, AddQueue, AddMeta, UndoSeen, OnlyStep, OnlyOf, OnlyIn, TypeOK, LocalOK
<1>4. DOMAIN queue \cup DOMAIN fate \subseteq DOMAIN queue' \cup DOMAIN fate'
  <2>1. CASE AddNew(c) \/ AddMeta(c, ok)
    BY <2>1 DEF AddNew, AddMeta, history
  <2>2. CASE AddQueue(c, ok)
    <3>1. CASE ok
      <4>1. queue' = Put(queue, arg[c].url, Priority(arg[c])) /\ fate' = Remove(fate, {arg[c].url})
        BY <2>2, <3>1 DEF AddQueue
      <4>2. DOMAIN queue' = DOMAIN queue \cup {arg[c].url} /\ DOMAIN fate' = DOMAIN fate \ {arg[c].url}
        BY <4>1 DEF Put, Remove
      <4> QED BY <4>2
    <3>2. CASE ~ ok
      BY <2>2, <3>2 DEF AddQueue
    <3> QED BY <3>1, <3>2
  <2>3. CASE UndoSeen(c, ok)
    BY <2>3 DEF UndoSeen, Put
  <2> QED BY <2>1, <2>2, <2>3
<1>5. Gives(c)
  BY <1>1, <1>3, <1>4 DEF Gives, Promises, Promoting
<1>6. \A u : c \in Workers /\ HoldsIt(c, u) => HoldsIt(c, u)'
  BY <1>1, <1>3 DEF HoldsIt, Holding, Adding
<1>7. CASE AddNew(c)
  <2>1. PICK u : seen' = seen \cup {u} /\ arg' = Put(arg, c, Discovery(u, DepthOf(c))) /\ pc[c] = "links" /\ pc'[c] = "queue"
    BY <1>1, <1>7 DEF AddNew, TypeOK, LocalOK
  <2>2. arg'[c].url = u
    BY <2>1 DEF Put, Discovery
  <2>3. AddsIt(c, u)'
    BY <2>1, <2>2 DEF AddsIt
  <2>4. \A x : ~ AddsIt(c, x)
    BY <2>1 DEF AddsIt
  <2> QED BY <1>1, <1>5, <1>6, <2>1, <2>3, <2>4, GivesKeeps DEF Kept
<1>8. CASE AddQueue(c, ok)
  <2>1. /\ seen' = seen /\ arg' = arg /\ pc'[c] = "meta" /\ queue' = (IF ok THEN Put(queue, arg[c].url, Priority(arg[c])) ELSE queue)
        /\ failed' = IF ok THEN failed ELSE failed \cup {c}
    BY <1>1, <1>8 DEF AddQueue, TypeOK, LocalOK
  <2>2. \A u : AddsIt(c, u) => u \in DOMAIN queue' \/ AddsIt(c, u)'
    BY <2>1 DEF AddsIt, Put
  <2> QED BY <1>1, <1>5, <1>6, <2>1, <2>2, GivesKeeps DEF Kept
<1>9. CASE AddMeta(c, ok)
  <2>1. /\ seen' = seen /\ arg' = arg /\ pc[c] = "meta" /\ pc'[c] = "host"
    BY <1>1, <1>9 DEF AddMeta, TypeOK, LocalOK
  <2>2. \A u : AddsIt(c, u) => AddsIt(c, u)'
    BY <1>1, <2>1 DEF AddsIt
  <2> QED BY <1>1, <1>5, <1>6, <2>1, <2>2, GivesKeeps DEF Kept
<1>10. CASE UndoSeen(c, ok)
  <2>1. /\ seen' = (IF ok THEN seen \ {arg[c].url} ELSE seen)
        /\ fate' = IF ok THEN fate ELSE Put(fate, arg[c].url, "not undone")
    BY <1>10 DEF UndoSeen
  <2>2. \A u \in seen' : u \in seen /\ (AddsIt(c, u) => u \in DOMAIN fate')
    BY <2>1 DEF AddsIt, Put
  <2> QED BY <1>1, <1>5, <1>6, <2>2, GivesKeeps DEF Kept
<1> QED BY <1>7, <1>8, <1>9, <1>10

LEMMA AccountAddEnd ==
  ASSUME TypeOK, Shape, Accounting, NEW c \in Workers \cup Consoles, NEW ok \in BOOLEAN, AddHost(c, ok) \/ UndoMeta(c, ok)
  PROVE  Accounting'
<1> USE DEF At, Goto
<1>1. /\ c \in Clients /\ pc[c] \in {"host", "undo meta"}
      /\ rebooked' = rebooked /\ deferred' = deferred /\ queue' = queue /\ fate' = fate /\ seen' = seen
      /\ held' = held /\ todo' = todo /\ (failed' = failed \/ failed' = failed \ {c})
  <2>1. CASE AddHost(c, ok)
    BY <2>1 DEF AddHost, Clients
  <2>2. CASE UndoMeta(c, ok)
    BY <2>2 DEF UndoMeta, Clients
  <2> QED BY <2>1, <2>2
<1>2. PICK l \in {"links", "front", "undo seen"} :
        /\ pc' = [pc EXCEPT ![c] = l]
        /\ l = "front" => c \notin Workers
        /\ pc[c] = "host" /\ c \in failed => l = "undo seen" /\ arg' = arg
  <2>1. AfterAdd(c) \in {"links", "front"} /\ (AfterAdd(c) = "front" => c \notin Workers)
    BY DEF AfterAdd
  <2>2. CASE AddHost(c, ok)
    BY <2>1, <2>2 DEF AddHost
  <2>3. CASE UndoMeta(c, ok)
    BY <2>1, <2>3 DEF UndoMeta
  <2> QED BY <2>2, <2>3
<1>3. OnlyStep(c) /\ pc'[c] = l
  <2>1. arg' = arg \/ arg' = Remove(arg, {c})
    BY DEF AddHost, UndoMeta
  <2>2. links' = links
    BY DEF AddHost, UndoMeta
  <2> QED BY <1>1, <1>2, <2>1, <2>2 DEF OnlyStep, OnlyOf, OnlyIn, TypeOK, LocalOK
<1>4. Gives(c)
  BY <1>1, <1>3 DEF Gives, Promises, Promoting
<1>5. \A u : /\ AddsIt(c, u) => AddsIt(c, u)'
             /\ c \in Workers /\ HoldsIt(c, u) => HoldsIt(c, u)'
  BY <1>1, <1>2, <1>3 DEF HoldsIt, AddsIt, Holding, Adding
<1> QED BY <1>1, <1>4, <1>5, GivesKeeps DEF Kept

LEMMA AccountAside ==
  ASSUME TypeOK, Shape, Accounting, NEW c \in Consoles \cup Pollers,
         (c \in Consoles /\ (Submit(c) \/ MoveToFront(c))) \/ (c \in Pollers /\ SitemapChanged(c))
  PROVE  Accounting'
<1> USE DEF At, Goto
<1>1. /\ c \in Clients /\ c \notin Workers /\ pc[c] \in {"idle", "front"}
      /\ rebooked' = rebooked /\ deferred' = deferred /\ fate' = fate /\ seen' = seen
      /\ held' = held /\ todo' = todo /\ failed' = failed
  <2>1. c \in Clients /\ c \notin Workers
    BY Assumptions DEF Clients
  <2>2. CASE Submit(c)
    BY <2>1, <2>2 DEF Submit, store
  <2>3. CASE MoveToFront(c)
    BY <2>1, <2>3 DEF MoveToFront, history
  <2>4. CASE SitemapChanged(c)
    BY <2>1, <2>4 DEF SitemapChanged, store
  <2> QED BY <2>2, <2>3, <2>4
<1>2. DOMAIN queue' = DOMAIN queue
  <2>1. queue' = queue \/ queue' = PutOld(queue, arg[c].url, Front)
    BY DEF Submit, MoveToFront, SitemapChanged, store
  <2> QED BY <2>1, PutOldDomain
<1>3. OnlyStep(c)
  BY DEF Submit, MoveToFront, SitemapChanged, OnlyStep, OnlyOf, OnlyIn
<1>4. Gives(c)
  BY <1>1, <1>2, <1>3 DEF Gives
<1>5. \A u : ~ AddsIt(c, u)
  BY <1>1 DEF AddsIt
<1> QED BY <1>1, <1>4, <1>5, GivesKeeps

LEMMA AccountDeferMeta ==
  ASSUME TypeOK, Shape, Accounting, NEW c \in Workers \cup Pollers, NEW ok \in BOOLEAN, DeferMeta(c, ok)
  PROVE  Accounting'
<1> USE DEF At, Goto
<1>1. /\ c \in Clients /\ pc[c] = "defer meta" /\ pc' = [pc EXCEPT ![c] = "defer due"]
      /\ rebooked' = rebooked /\ deferred' = deferred /\ fate' = fate /\ seen' = seen /\ queue' = queue
      /\ held' = held /\ todo' = todo /\ failed' = failed /\ arg' = arg /\ links' = links
  BY DEF DeferMeta, Clients
<1>2. OnlyStep(c) /\ pc'[c] = "defer due"
  BY <1>1 DEF OnlyStep, OnlyOf, OnlyIn, TypeOK, LocalOK
<1>3. Gives(c)
  BY <1>1, <1>2 DEF Gives, Accounting, Promises, Promoting
<1>4. \A u : ~ AddsIt(c, u) /\ (c \in Workers /\ HoldsIt(c, u) => HoldsIt(c, u)')
  BY <1>1, <1>2 DEF HoldsIt, AddsIt, Holding, Adding
<1> QED BY <1>1, <1>3, <1>4, GivesKeeps DEF Kept

(* A page booked while its last booking is promoted is not taken away      *)
(* unnoticed.                                                              *)
LEMMA AccountDeferDue ==
  ASSUME TypeOK, Shape, Accounting, NEW c \in Workers \cup Pollers, NEW ok \in BOOLEAN, DeferDue(c, ok)
  PROVE  Accounting'
<1> USE DEF At, Goto
<1>0. PICK e : e = arg[c]
  OBVIOUS
<1>1. /\ c \in Clients /\ pc[c] = "defer due" /\ seen' = seen /\ queue' = queue
      /\ held' = held /\ todo' = todo /\ failed' = failed /\ arg' = Remove(arg, {c}) /\ links' = links
      /\ rebooked' = IF ok /\ (\E w \in Workers : e \in todo[w]) THEN rebooked \cup {e} ELSE rebooked
      /\ fate' = IF ok THEN Remove(fate, {e.url}) ELSE IF c \in Workers THEN Put(fate, e.url, "unbooked") ELSE fate
  BY <1>0 DEF DeferDue, Clients
<1>2. PICK l \in {"complete", "idle"} : pc' = [pc EXCEPT ![c] = l]
  BY DEF DeferDue
<1>3. OnlyStep(c) /\ pc'[c] = l
  BY <1>1, <1>2 DEF OnlyStep, OnlyOf, OnlyIn, TypeOK, LocalOK
<1>4. Promises(c)' /\ ~ Promoting(c)'
  BY <1>3 DEF Promises, Promoting
<1>5. \E t : deferred' = IF ok THEN Put(deferred, e, t) ELSE deferred
  BY <1>0 DEF DeferDue
<1>6. DOMAIN deferred \subseteq DOMAIN deferred' /\ (ok => e \in DOMAIN deferred')
  BY <1>5 DEF Put
<1>7. ok => e \notin Removable'
  <2> SUFFICES ASSUME ok, NEW v \in Workers, Promoting(v)', arg'[v] = e
               PROVE  e \in rebooked'
    BY DEF Removable
  <2>1. v \in Clients \ {c}
    BY <1>4 DEF Clients
  <2>2. Promoting(v) /\ arg'[v] = arg[v]
    <3>1. c \in Clients /\ OnlyStep(c)
      BY <1>1, <1>3
    <3> QED BY <2>1, <3>1, OthersKeep DEF Promoting, Writing
  <2>3. e \in todo[v]
    BY <2>2 DEF Accounting, Promises
  <2> QED BY <1>1, <2>3
<1>8. Kept(e.url)' \/ (~ ok /\ c \notin Workers)
  <2>1. CASE ok
    BY <1>6, <1>7, <2>1 DEF Kept
  <2>2. CASE ~ ok /\ c \in Workers
    <3>1. e.url \in DOMAIN fate'
      BY <1>1, <2>2 DEF Put
    <3> QED BY <3>1 DEF Kept
  <2> QED BY <2>1, <2>2
<1>9. \A u \in DOMAIN queue \cup DOMAIN fate : Kept(u)'
  <2> SUFFICES ASSUME NEW u \in DOMAIN queue \cup DOMAIN fate PROVE Kept(u)'
    OBVIOUS
  <2>1. u \in DOMAIN queue' \cup DOMAIN fate' \/ (ok /\ u = e.url)
    BY <1>1 DEF Put, Remove
  <2> QED BY <1>8, <2>1 DEF Kept
<1>10. \A u : ~ AddsIt(c, u) /\ (c \in Workers /\ HoldsIt(c, u) => u = e.url)
  <2>1. c \in Workers => e.url = held[c].url
    BY <1>0, <1>1 DEF Accounting, Promises
  <2> QED BY <1>1, <2>1 DEF AddsIt, HoldsIt
<1>11. /\ \A d \in Clients \ {c} : d \in failed' <=> d \in failed
       /\ \A v \in Workers \ {c} : todo'[v] = todo[v]
       /\ rebooked \cap UNION {todo'[v] : v \in Workers} \subseteq rebooked'
  BY <1>1
<1>12. \A u \in seen' : u \notin seen \/ (c \in Workers /\ HoldsIt(c, u)) \/ AddsIt(c, u) => Kept(u)'
  BY <1>1, <1>8, <1>10
<1> QED BY <1>1, <1>3, <1>4, <1>6, <1>9, <1>11, <1>12, AccountStep

LEMMA AccountComplete ==
  ASSUME TypeOK, Shape, Accounting, NEW w \in Workers, NEW ok \in BOOLEAN, CompleteClaim(w, ok) \/ CompleteMeta(w, ok)
  PROVE  Accounting'
<1> USE DEF At, Goto
<1>1. /\ w \in Clients /\ pc[w] \in {"links", "complete", "forget"}
      /\ rebooked' = rebooked /\ deferred' = deferred /\ queue' = queue /\ seen' = seen
      /\ todo' = todo /\ failed' = failed /\ arg' = arg /\ links' = links
      /\ held' = held \/ held' = Remove(held, {w})
      /\ \/ fate' = fate /\ pc[w] # "links"
         \/ fate' = Put(fate, held[w].url, "finished")
  BY DEF CompleteClaim, CompleteMeta, Clients
<1>2. PICK l \in {"forget", "idle"} : pc' = [pc EXCEPT ![w] = l]
  BY DEF CompleteClaim, CompleteMeta
<1>3. OnlyStep(w) /\ pc'[w] = l
  BY <1>1, <1>2 DEF OnlyStep, OnlyOf, OnlyIn, TypeOK, LocalOK
<1>4. DOMAIN fate \subseteq DOMAIN fate' /\ (pc[w] = "links" => held[w].url \in DOMAIN fate')
  BY <1>1 DEF Put
<1>5. Gives(w)
  BY <1>1, <1>3, <1>4 DEF Gives, Promises, Promoting
<1>6. \A u : ~ AddsIt(w, u) /\ (HoldsIt(w, u) => u \in DOMAIN fate')
  BY <1>1, <1>4 DEF HoldsIt, AddsIt
<1> QED BY <1>1, <1>5, <1>6, GivesKeeps DEF Kept

LEMMA AccountCrash ==
  ASSUME TypeOK, Shape, Accounting, NEW c \in Clients, Crash(c)
  PROVE  Accounting'
<1> USE DEF At, Goto
<1>1. /\ pc' = [pc EXCEPT ![c] = "idle"] /\ held' = Remove(held, {c}) /\ arg' = Remove(arg, {c})
      /\ links' = [links EXCEPT ![c] = {}] /\ failed' = failed \ {c}
      /\ rebooked' = rebooked /\ deferred' = deferred /\ queue' = queue /\ seen' = seen
      /\ \A v \in Workers \ {c} : todo'[v] = todo[v]
  BY DEF Crash, store, TypeOK, LocalOK
<1>2. OnlyStep(c) /\ pc'[c] = "idle"
  BY <1>1 DEF OnlyStep, OnlyOf, OnlyIn, TypeOK, LocalOK
<1>3. DOMAIN fate' = DOMAIN fate \cup (IF pc[c] \in Adding THEN {arg[c].url} ELSE {})
                                 \cup (IF c \in DOMAIN held THEN {held[c].url} ELSE {})
  BY DEF Crash
<1>4. Gives(c)
  BY <1>1, <1>2, <1>3 DEF Gives, Promises, Promoting
<1>5. \A u : AddsIt(c, u) => u \in DOMAIN fate'
  BY <1>3 DEF AddsIt, Adding
<1>6. c \in Workers => \A u : HoldsIt(c, u) => u \in DOMAIN fate'
  BY <1>3 DEF HoldsIt, Shape
<1> QED BY <1>1, <1>4, <1>5, <1>6, GivesKeeps DEF Kept

LEMMA AccountingNext == TypeOK /\ Shape /\ Accounting /\ [Next]_vars => Accounting'
<1> SUFFICES ASSUME TypeOK, Shape, Accounting, [Next]_vars PROVE Accounting'
    OBVIOUS
<1>1. CASE Tick \/ UNCHANGED vars
  <2>1. UNCHANGED <<hosts, queue, seen, inflight, meta, deferred, visited, pc, now, held, links, arg, todo, failed, booking,
                    lastClaim, torn, rebooked, fate>>
    BY <1>1 DEF Tick, vars, store, local, history
  <2>2. Removable' = Removable
    BY <2>1 DEF Removable, Promoting
  <2>3. \A u : Kept(u) => Kept(u)'
    BY <2>1, <2>2 DEF Kept, AddsIt, HoldsIt
  <2>4. \A w \in Workers : Promises(w) => Promises(w)'
    BY <2>1 DEF Promises, Promoting
  <2> QED BY <2>1, <2>3, <2>4 DEF Accounting, Tracked
<1>2. ASSUME NEW w \in Workers, Sweep(w) \/ Claim(w) PROVE Accounting'
  BY <1>2, AccountSweep, AccountPromoteQueue, AccountPromoteHost, AccountPromoteDone, AccountClaim DEF Sweep, Claim
<1>3. ASSUME NEW w \in Workers, Fetch(w) \/ Book(w) \/ Complete(w) PROVE Accounting'
  BY <1>3, AccountHold, AccountComplete DEF Complete
<1>4. ASSUME NEW c \in Workers \cup Consoles, Add(c) PROVE Accounting'
  BY <1>4, AccountNotAdded, AccountAdd, AccountAddEnd DEF Add
<1>5. ASSUME NEW c \in Workers \cup Pollers, Defer(c) PROVE Accounting'
  BY <1>5, AccountDeferMeta, AccountDeferDue DEF Defer
<1>6. ASSUME NEW c \in Consoles, Submit(c) \/ MoveToFront(c) PROVE Accounting'
  BY <1>6, AccountAside
<1>7. ASSUME NEW p \in Pollers, SitemapChanged(p) PROVE Accounting'
  BY <1>7, AccountAside
<1> QED
  BY <1>1, <1>2, <1>3, <1>4, <1>5, <1>6, <1>7, AccountCrash DEF Next, WorkerStep, ConsoleStep, PollerStep

(* A URL that is known is never lost unnoticed, with any number of workers, *)
(* consoles and pollers, crashes and failed writes between any two of their *)
(* round trips: what promote_due takes off the due set it has queued, or    *)
(* the booking it removes is told of (add, promote_due, defer, complete).  *)
THEOREM NothingIsLost == Spec => []Accounted
<1>1. Init => Accounting
  <2> SUFFICES ASSUME Init PROVE Accounting
    OBVIOUS
  <2>1. Tracked
    BY DEF Init, Tracked, Kept
  <2>2. \A w \in Workers : Promises(w)
    BY DEF Init, Promises, Promoting, Clients
  <2> QED BY <2>1, <2>2 DEF Accounting
<1>2. TypeOK /\ Shape /\ Accounting /\ [Next]_vars => TypeOK' /\ Shape' /\ Accounting'
  BY TypeNext, ShapeNext, AccountingNext
<1>3. Shape /\ Accounting => Accounted
  <2> SUFFICES ASSUME Shape, Accounting, NEW u \in seen
               PROVE  \/ u \in DOMAIN queue \cup DOMAIN inflight \cup DOMAIN fate
                      \/ \E e \in DOMAIN deferred : e.url = u
                      \/ InHand(u)
    BY DEF Accounted
  <2>1. \A w \in Workers : HoldsIt(w, u) => w \in DOMAIN held /\ held[w].url = u
    BY DEF HoldsIt, Shape
  <2>2. \A c \in Clients : AddsIt(c, u) => c \in DOMAIN arg /\ arg[c].url = u
    BY DEF AddsIt, Shape, Writing, Adding
  <2> QED BY <2>1, <2>2 DEF Accounting, Tracked, Kept, InHand
<1> QED
  BY <1>1, <1>2, <1>3, TypeInit, ShapeInit, PTL DEF Spec
=============================================================================
