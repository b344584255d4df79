--------------------------- MODULE PipelineProofs ---------------------------
(***************************************************************************)
(* Proofs about CrawlPipeline, for any number of workers, pages and bodies *)
(* a page may have, any budget and any crashes and failures; and of what   *)
(* the algorithms do with a page in one step: when it is visited again, if *)
(* its story is known, which copy is kept, and what its date is.           *)
(***************************************************************************)
EXTENDS CrawlPipeline, FiniteSetTheorems, TLAPS

Labels == {"top", "fetch", "get again", "put visit", "dedup", "produce", "done"}
Hash   == Bodies \cup {NoHash}
Hold   == [page : Pages \cup {NoHash}, body : Hash, hash : Hash]

StoreOK ==
  /\ site \in [Pages -> Bodies] /\ visits \in [Pages -> Hash]
  /\ budget \in Nat \cup {NoBudget} /\ produced \in Nat

(* A worker between claim and the end holds a page, and a body from when it *)
(* has read one until it is queued or dropped.                              *)
WorkerOK(w) ==
  /\ pc[w] \notin {"top", "done"} => held[w].page \in Pages
  /\ pc[w] \in {"top", "fetch", "done"} => held[w].body = NoHash
  /\ pc[w] \in {"dedup", "produce"} => held[w].body # NoHash
TasksOK ==
  /\ pc \in [Workers -> Labels] /\ held \in [Workers -> Hold]
  /\ \A w \in Workers : WorkerOK(w)
  /\ copy \in [page : Pages \cup {NoHash}, hash : Hash]
  /\ poller = "put" => copy.page \in Pages
  /\ targets \subseteq Pages

TypeOK == StoreOK /\ TasksOK

(* The step of one worker. *)
OnlyOf(w) == /\ pc' \in [Workers -> Labels] /\ held' \in [Workers -> Hold]
             /\ \A v \in Workers : v # w => pc'[v] = pc[v] /\ held'[v] = held[v]

LEMMA Assumptions ==
  /\ Front \in Bodies /\ Front # NoHash /\ NoHash \notin Bodies /\ NoHash \notin Pages
  /\ Documents \subseteq Bodies /\ Listed \subseteq Pages
  /\ IsFiniteSet(Workers) /\ Workers # {} /\ Cardinality(Workers) \in Nat
  /\ Budgets \subseteq Nat \cup {NoBudget}
BY PipelineAssumption, FS_CardinalityType

LEMMA IdleIsHold == Idle \in Hold /\ Idle.page = NoHash /\ Idle.body = NoHash /\ Idle.hash = NoHash
BY DEF Idle, Hold, Hash

LEMMA NoCopyType == NoCopy \in [page : Pages \cup {NoHash}, hash : Hash] /\ NoCopy.hash = NoHash
BY DEF NoCopy, Hash

LEMMA OnlyOfKeeps ==
  ASSUME TypeOK, NEW w \in Workers, OnlyOf(w), WorkerOK(w)', UNCHANGED <<copy, poller, targets>>
  PROVE  TasksOK'
<1>1. ASSUME NEW v \in Workers PROVE WorkerOK(v)'
  <2>1. CASE v = w
    BY <2>1
  <2>2. CASE v # w
    BY <2>2 DEF OnlyOf, TypeOK, TasksOK, WorkerOK
  <2> QED BY <2>1, <2>2
<1> QED BY <1>1 DEF TypeOK, TasksOK, OnlyOf

(* What each step of a worker does to what it holds. *)
LEMMA GoIs ==
  ASSUME TypeOK, NEW w \in Workers, NEW from, NEW to \in Labels, Go(w, from, to)
  PROVE  /\ pc[w] = from /\ pc'[w] = to /\ pc' \in [Workers -> Labels]
         /\ \A v \in Workers : v # w => pc'[v] = pc[v]
BY DEF Go, TypeOK, TasksOK

LEMMA HoldIs ==
  ASSUME TypeOK, NEW w \in Workers, NEW h \in Hold, held' = [held EXCEPT ![w] = h]
  PROVE  /\ held'[w] = h /\ held' \in [Workers -> Hold]
         /\ \A v \in Workers : v # w => held'[v] = held[v]
BY DEF TypeOK, TasksOK

(* One summary of each step: labels, what is held before and after. *)
Moves(w, from, to, h) ==
  /\ pc[w] = from /\ pc'[w] = to /\ held'[w] = h /\ OnlyOf(w) /\ WorkerOK(w)'
  /\ UNCHANGED <<copy, poller, targets>>

LEMMA MovesIf ==
  ASSUME TypeOK, NEW w \in Workers, NEW from, NEW to \in Labels, NEW h \in Hold,
         Go(w, from, to), held' = [held EXCEPT ![w] = h], UNCHANGED <<copy, poller, targets>>,
         to \notin {"top", "done"} => h.page \in Pages,
         to \in {"top", "fetch", "done"} => h.body = NoHash,
         to \in {"dedup", "produce"} => h.body # NoHash
  PROVE  Moves(w, from, to, h)
<1>1. /\ pc[w] = from /\ pc'[w] = to /\ pc' \in [Workers -> Labels]
      /\ \A v \in Workers : v # w => pc'[v] = pc[v]
  BY GoIs
<1>2. /\ held'[w] = h /\ held' \in [Workers -> Hold]
      /\ \A v \in Workers : v # w => held'[v] = held[v]
  BY HoldIs
<1> QED BY <1>1, <1>2 DEF Moves, OnlyOf, WorkerOK

(* What a worker holds. *)
LEMMA HeldIs ==
  ASSUME TypeOK, NEW w \in Workers
  PROVE  /\ held[w] \in Hold /\ WorkerOK(w)
         /\ held' = held => held' = [held EXCEPT ![w] = held[w]]
         /\ \A hash \in Hash : LET h == [held[w] EXCEPT !.hash = hash]
                               IN  h \in Hold /\ h.page = held[w].page /\ h.body = held[w].body /\ h.hash = hash
<1>1. held[w] \in Hold /\ WorkerOK(w) /\ held \in [Workers -> Hold]
  BY DEF TypeOK, TasksOK
<1> QED BY <1>1 DEF Hold

LEMMA LeaveIs ==
  ASSUME TypeOK, NEW w \in Workers, Leave(w)
  PROVE  Moves(w, "top", "done", held[w])
<1>1. Go(w, "top", "done") /\ held' = [held EXCEPT ![w] = held[w]] /\ UNCHANGED <<copy, poller, targets>>
  BY HeldIs DEF Leave
<1>2. held[w] \in Hold /\ held[w].body = NoHash
  BY <1>1, HeldIs DEF Go, WorkerOK
<1> QED BY <1>1, <1>2, MovesIf DEF Labels

LEMMA ClaimIs ==
  ASSUME TypeOK, NEW w \in Workers, NEW p \in Pages, Claim(w, p)
  PROVE  \E h \in Hold : /\ Moves(w, "top", "fetch", h) /\ h.page = p /\ h.body = NoHash
                         /\ h.hash \in {visits[p], NoHash}
<1>1. Go(w, "top", "fetch") /\ UNCHANGED <<copy, poller, targets>>
  BY DEF Claim
<1>2. PICK hash \in {visits[p], NoHash} :
        held' = [held EXCEPT ![w] = [Idle EXCEPT !.page = p, !.hash = hash]]
  BY DEF Claim
<1> DEFINE h == [Idle EXCEPT !.page = p, !.hash = hash]
<1>3. h \in Hold /\ h.page = p /\ h.body = NoHash /\ h.hash = hash
  <2>1. hash \in Hash
    BY DEF TypeOK, StoreOK, Hash
  <2> QED BY <2>1 DEF Idle, Hold, Hash
<1>4. held' = [held EXCEPT ![w] = h]
  BY <1>2
<1> HIDE DEF h
<1>5. Moves(w, "top", "fetch", h)
  BY <1>1, <1>3, <1>4, MovesIf DEF Labels
<1> QED BY <1>3, <1>5

LEMMA FetchNotModifiedIs ==
  ASSUME TypeOK, NEW w \in Workers, FetchNotModified(w)
  PROVE  \E h \in Hold : /\ Moves(w, "fetch", "get again", h)
                         /\ h.page = held[w].page /\ h.body = held[w].body /\ h.hash = NoHash
<1> DEFINE h == [held[w] EXCEPT !.hash = NoHash]
<1>1. Go(w, "fetch", "get again") /\ held' = [held EXCEPT ![w] = h] /\ UNCHANGED <<copy, poller, targets>>
  BY DEF FetchNotModified
<1>2. h \in Hold /\ h.page = held[w].page /\ h.body = held[w].body /\ h.hash = NoHash
  BY HeldIs DEF Hash
<1> HIDE DEF h
<1>3. held[w].page \in Pages
  BY <1>1, HeldIs DEF Go, WorkerOK
<1>4. Moves(w, "fetch", "get again", h)
  BY <1>1, <1>2, <1>3, MovesIf DEF Labels
<1> QED BY <1>2, <1>4

LEMMA FetchDocumentIs ==
  ASSUME TypeOK, NEW w \in Workers, FetchDocument(w)
  PROVE  /\ held[w].body = NoHash
         /\ \E h \in Hold : Moves(w, "fetch", "get again", h) /\ h.page = held[w].page /\ h.hash = NoHash
<1> DEFINE h == [held[w] EXCEPT !.body = site[held[w].page], !.hash = NoHash]
<1>1. Go(w, "fetch", "get again") /\ held' = [held EXCEPT ![w] = h] /\ UNCHANGED <<copy, poller, targets>>
  BY DEF FetchDocument
<1>2. held[w] \in Hold /\ held[w].page \in Pages /\ held[w].body = NoHash
  BY <1>1, HeldIs DEF Go, WorkerOK
<1>3. site[held[w].page] \in Hash
  BY <1>2 DEF TypeOK, StoreOK, Hash
<1>4. h \in Hold /\ h.page = held[w].page /\ h.hash = NoHash
  BY <1>2, <1>3 DEF Hold, Hash
<1> HIDE DEF h
<1>5. Moves(w, "fetch", "get again", h)
  BY <1>1, <1>2, <1>4, MovesIf DEF Labels
<1> QED BY <1>2, <1>4, <1>5

LEMMA FetchNothingIs ==
  ASSUME TypeOK, NEW w \in Workers, FetchNothing(w)
  PROVE  held[w].body = NoHash /\ Moves(w, "fetch", "top", Idle)
<1>1. Go(w, "fetch", "top") /\ held' = [held EXCEPT ![w] = Idle] /\ UNCHANGED <<copy, poller, targets>>
  BY DEF FetchNothing
<1>2. held[w].body = NoHash
  BY <1>1, HeldIs DEF Go, WorkerOK
<1> QED BY <1>1, <1>2, IdleIsHold, MovesIf DEF Labels

LEMMA GetAgainIs ==
  ASSUME TypeOK, NEW w \in Workers, GetAgain(w)
  PROVE  \E h \in Hold : /\ Moves(w, "get again", "put visit", h)
                         /\ h.page = held[w].page /\ h.body = held[w].body
                         /\ h.hash \in {visits[held[w].page], NoHash, held[w].body}
                         /\ held[w].page \in Pages
<1>1. Go(w, "get again", "put visit") /\ UNCHANGED <<copy, poller, targets>>
  BY DEF GetAgain
<1>2. held[w].page \in Pages /\ held[w].body \in Hash
  BY <1>1, HeldIs DEF Go, WorkerOK, Hold
<1>3. PICK hash \in {visits[held[w].page], NoHash, held[w].body} :
        held' = [held EXCEPT ![w] = [held[w] EXCEPT !.hash = hash]]
  BY DEF GetAgain
<1> DEFINE h == [held[w] EXCEPT !.hash = hash]
<1>4. hash \in Hash
  BY <1>2 DEF TypeOK, StoreOK, Hash
<1>5. h \in Hold /\ h.page = held[w].page /\ h.body = held[w].body /\ h.hash = hash
  BY <1>4, HeldIs
<1>6. held' = [held EXCEPT ![w] = h]
  BY <1>3
<1> HIDE DEF h
<1>7. Moves(w, "get again", "put visit", h)
  BY <1>1, <1>2, <1>5, <1>6, MovesIf DEF Labels
<1> QED BY <1>2, <1>5, <1>7

LEMMA PutVisitIs ==
  ASSUME TypeOK, NEW w \in Workers, PutVisit(w)
  PROVE  /\ held[w].page \in Pages /\ held[w].hash \in Hash
         /\ visits' \in {visits, [visits EXCEPT ![held[w].page] = held[w].hash]}
         /\ \E to \in {"top", "dedup"}, h \in Hold :
              Moves(w, "put visit", to, h) /\ h.body = held[w].body /\ h.hash = NoHash
<1>1. /\ pc[w] = "put visit" /\ UNCHANGED <<copy, poller, targets>>
      /\ visits' \in {visits, [visits EXCEPT ![held[w].page] = held[w].hash]}
  BY DEF PutVisit, Go
<1>2. held[w].page \in Pages /\ held[w].hash \in Hash /\ held[w] \in Hold
  BY <1>1, HeldIs DEF WorkerOK, Hold
<1>3. CASE held[w].body = NoHash
  <2>1. Go(w, "put visit", "top") /\ held' = [held EXCEPT ![w] = Idle]
    BY <1>3 DEF PutVisit
  <2>2. Moves(w, "put visit", "top", Idle)
    BY <1>1, <2>1, IdleIsHold, MovesIf DEF Labels
  <2> QED BY <1>1, <1>2, <1>3, <2>2, IdleIsHold
<1>4. CASE held[w].body # NoHash
  <2> DEFINE h == [held[w] EXCEPT !.hash = NoHash]
  <2>1. Go(w, "put visit", "dedup") /\ held' = [held EXCEPT ![w] = h]
    BY <1>4 DEF PutVisit
  <2>2. h \in Hold /\ h.page = held[w].page /\ h.body = held[w].body /\ h.hash = NoHash
    BY HeldIs DEF Hash
  <2> HIDE DEF h
  <2>3. Moves(w, "put visit", "dedup", h)
    BY <1>1, <1>2, <1>4, <2>1, <2>2, MovesIf DEF Labels
  <2> QED BY <1>1, <1>2, <2>2, <2>3
<1> QED BY <1>3, <1>4

LEMMA IsNewIs ==
  ASSUME TypeOK, NEW w \in Workers, IsNew(w)
  PROVE  \/ /\ Moves(w, "dedup", "top", Idle)
            /\ held[w].body \in hashes /\ hashes' = hashes
         \/ /\ Moves(w, "dedup", "produce", held[w])
            /\ hashes' \in {hashes, hashes \cup {held[w].body}}
<1>1. pc[w] = "dedup" /\ UNCHANGED <<copy, poller, targets>>
  BY DEF IsNew, Go
<1>2. held[w] \in Hold /\ held[w].page \in Pages /\ held[w].body # NoHash
  BY <1>1, HeldIs DEF WorkerOK
<1>3. CASE /\ held[w].body \in hashes /\ hashes' = hashes \cup {held[w].body}
           /\ Go(w, "dedup", "top") /\ held' = [held EXCEPT ![w] = Idle]
  <2>1. Moves(w, "dedup", "top", Idle)
    BY <1>1, <1>3, IdleIsHold, MovesIf DEF Labels
  <2> QED BY <1>3, <2>1
<1>4. CASE /\ hashes' \in {hashes, hashes \cup {held[w].body}}
           /\ Go(w, "dedup", "produce") /\ held' = held
  <2>1. held' = [held EXCEPT ![w] = held[w]]
    BY <1>4, HeldIs
  <2>2. Moves(w, "dedup", "produce", held[w])
    BY <1>1, <1>2, <1>4, <2>1, MovesIf DEF Labels
  <2> QED BY <1>4, <2>2
<1> QED BY <1>3, <1>4 DEF IsNew

LEMMA ProduceIs ==
  ASSUME TypeOK, NEW w \in Workers, Produce(w)
  PROVE  /\ Moves(w, "produce", "top", Idle)
         /\ held[w].body \in stream' \cup lost' /\ stream \subseteq stream' /\ lost \subseteq lost'
         /\ produced' \in {produced, produced + 1, 0}
<1>1. Go(w, "produce", "top") /\ held' = [held EXCEPT ![w] = Idle] /\ UNCHANGED <<copy, poller, targets>>
  BY DEF Produce
<1>2. Moves(w, "produce", "top", Idle)
  BY <1>1, IdleIsHold, MovesIf DEF Labels
<1> QED BY <1>2 DEF Produce

(* Every step of a worker is of this form. *)
LEMMA WorkingMoves ==
  ASSUME TypeOK, NEW w \in Workers, Working(w)
  PROVE  \E from, to \in Labels, h \in Hold : Moves(w, from, to, h)
<1>1. held[w] \in Hold
  BY HeldIs
<1>2. CASE Leave(w)
  BY <1>1, <1>2, LeaveIs DEF Labels
<1>3. ASSUME NEW p \in Pages, Claim(w, p) PROVE \E h \in Hold : Moves(w, "top", "fetch", h)
  BY <1>3, ClaimIs
<1>4. CASE FetchNotModified(w)
  BY <1>4, FetchNotModifiedIs DEF Labels
<1>5. CASE FetchDocument(w)
  BY <1>5, FetchDocumentIs DEF Labels
<1>6. CASE FetchNothing(w)
  BY <1>6, FetchNothingIs, IdleIsHold DEF Labels
<1>7. CASE GetAgain(w)
  BY <1>7, GetAgainIs DEF Labels
<1>8. CASE PutVisit(w)
  <2>1. PICK to \in {"top", "dedup"}, h \in Hold : Moves(w, "put visit", to, h)
    BY <1>8, PutVisitIs
  <2>2. {"put visit", to} \subseteq Labels
    BY DEF Labels
  <2> QED BY <2>1, <2>2
<1>9. CASE IsNew(w)
  BY <1>1, <1>9, IsNewIs, IdleIsHold DEF Labels
<1>10. CASE Produce(w)
  BY <1>10, ProduceIs, IdleIsHold DEF Labels
<1> QED
  BY <1>2, <1>3, <1>4, <1>5, <1>6, <1>7, <1>8, <1>9, <1>10 DEF Working, Labels

LEMMA TypeInit == Init => TypeOK
<1> SUFFICES ASSUME Init PROVE TypeOK
  OBVIOUS
<1>1. StoreOK
  BY Assumptions DEF Init, StoreOK, Hash
<1>2. TasksOK
  BY IdleIsHold, NoCopyType DEF Init, TasksOK, WorkerOK, Labels
<1> QED BY <1>1, <1>2 DEF TypeOK

LEMMA StoreNext == TypeOK /\ [Next]_vars => StoreOK'
<1> SUFFICES ASSUME TypeOK, [Next]_vars PROVE StoreOK'
  OBVIOUS
<1> USE DEF TypeOK, StoreOK
<1>1. ASSUME NEW w \in Workers, PutVisit(w) PROVE StoreOK'
  <2>1. visits' \in [Pages -> Hash]
    BY <1>1, PutVisitIs
  <2> QED BY <1>1, <2>1 DEF PutVisit
<1>2. ASSUME NEW w \in Workers, Produce(w) PROVE StoreOK'
  <2>1. produced' \in Nat
    BY <1>2, ProduceIs, SMTT(60)
  <2> QED BY <1>2, <2>1 DEF Produce
<1>3. ASSUME NEW w \in Workers,
             \/ Leave(w) \/ (\E p \in Pages : Claim(w, p)) \/ FetchNotModified(w) \/ FetchDocument(w)
             \/ FetchNothing(w) \/ GetAgain(w) \/ IsNew(w)
      PROVE  StoreOK'
  BY <1>3 DEF Leave, Claim, FetchNotModified, FetchDocument, FetchNothing, GetAgain, IsNew, shared
<1>4. CASE PollerPut
  <2>1. copy.page \in Pages /\ copy.hash \in Hash
    BY <1>4 DEF PollerPut, PollerGo, TasksOK
  <2>2. visits' \in [Pages -> Hash]
    BY <1>4, <2>1 DEF PollerPut
  <2> QED BY <1>4, <2>2 DEF PollerPut
<1>5. CASE Publish
  <2>1. site' \in [Pages -> Bodies]
    BY <1>5 DEF Publish
  <2> QED BY <1>5, <2>1 DEF Publish
<1>6. CASE Tick \/ NextSitemap \/ Signal \/ Heartbeat \/ Drain \/ Crash \/ UNCHANGED vars
  BY <1>6 DEF Tick, NextSitemap, Signal, Heartbeat, Drain, Crash, shared, vars
<1> QED BY <1>1, <1>2, <1>3, <1>4, <1>5, <1>6 DEF Next, Working, Polling

LEMMA TasksNext == TypeOK /\ [Next]_vars => TasksOK'
<1> SUFFICES ASSUME TypeOK, [Next]_vars PROVE TasksOK'
  OBVIOUS
<1>1. ASSUME NEW w \in Workers, Working(w) PROVE TasksOK'
  <2>1. OnlyOf(w) /\ WorkerOK(w)' /\ UNCHANGED <<copy, poller, targets>>
    BY <1>1, WorkingMoves DEF Moves
  <2> QED BY <2>1, OnlyOfKeeps
<1>2. ASSUME UNCHANGED <<pc, held>>, copy' \in [page : Pages \cup {NoHash}, hash : Hash],
             poller' = "put" => copy'.page \in Pages, targets' \subseteq Pages
      PROVE  TasksOK'
  BY <1>2 DEF TypeOK, TasksOK, WorkerOK
<1>3. CASE Tick
  BY <1>2, <1>3, Assumptions DEF Tick, PollerGo, TypeOK, TasksOK
<1>4. CASE NextSitemap
  <2>1. \A p \in Pages : [page |-> p, hash |-> visits[p]] \in [page : Pages \cup {NoHash}, hash : Hash]
    BY DEF TypeOK, StoreOK
  <2> QED BY <1>2, <1>4, <2>1 DEF NextSitemap, PollerGo, TypeOK, TasksOK
<1>5. CASE PollerPut
  BY <1>2, <1>5, NoCopyType DEF PollerPut, PollerGo, TypeOK, TasksOK
<1>6. CASE Signal \/ Heartbeat \/ Drain \/ Publish \/ UNCHANGED vars
  BY <1>2, <1>6 DEF Signal, Heartbeat, Drain, Publish, tasks, vars, TypeOK, TasksOK
<1>7. CASE Crash
  <2>1. /\ pc' = [w \in Workers |-> "top"] /\ held' = [w \in Workers |-> Idle]
        /\ poller' = "wait" /\ targets' = {} /\ copy' = NoCopy
    BY <1>7 DEF Crash
  <2> QED BY <2>1, IdleIsHold, NoCopyType DEF TasksOK, WorkerOK, Labels
<1> QED BY <1>1, <1>3, <1>4, <1>5, <1>6, <1>7 DEF Next, Polling

LEMMA TypeNext == TypeOK /\ [Next]_vars => TypeOK'
BY StoreNext, TasksNext DEF TypeOK

-----------------------------------------------------------------------------
(* What is remembered.  A hash that is recorded as queued was queued, or    *)
(* lost, or its worker is at the write.  So dropping a body that is         *)
(* recorded loses nothing, and what a visit record, a worker's or the       *)
(* poller's copy of one says stays covered.                                 *)
Cover    == stream \cup lost \cup InHand \cup {NoHash}
Queueing == {held[w].body : w \in {v \in Workers : pc[v] = "produce"}}

Recorded == hashes \subseteq stream \cup lost \cup Queueing
Covered  == /\ \A p \in Pages : visits[p] \in Cover
            /\ \A w \in Workers : held[w].hash \in Cover
            /\ copy.hash \in Cover
Mem == Recorded /\ Covered

LEMMA CoverGrows ==
  ASSUME TypeOK, NEW w \in Workers, NEW from, NEW to, NEW h, Moves(w, from, to, h),
         stream \subseteq stream', lost \subseteq lost',
         \/ held[w].body \in stream' \cup lost' \cup {NoHash, h.body}
         \/ \E v \in Workers \ {w} : held[w].body = held[v].body
  PROVE  Cover \subseteq Cover'
<1>1. ASSUME NEW v \in Workers PROVE held[v].body \in Cover'
  <2>1. \A u \in Workers : u # w => held'[u] = held[u]
    BY DEF Moves, OnlyOf
  <2>2. h.body \in Cover' /\ \A u \in Workers : u # w => held[u].body \in Cover'
    BY <2>1 DEF Moves, Cover, InHand
  <2>3. CASE v # w
    BY <2>2, <2>3
  <2>4. CASE v = w
    BY <2>2, <2>4 DEF Cover
  <2> QED BY <2>3, <2>4
<1> QED BY <1>1 DEF Cover, InHand

LEMMA RecordedStep ==
  ASSUME TypeOK, Recorded, NEW w \in Workers, NEW from, NEW to, NEW h, Moves(w, from, to, h),
         stream \subseteq stream', lost \subseteq lost',
         from = "produce" => held[w].body \in stream' \cup lost',
         \/ hashes' = hashes
         \/ to = "produce" /\ hashes' = hashes \cup {h.body}
  PROVE  Recorded'
<1>1. \A v \in Workers : v # w => pc'[v] = pc[v] /\ held'[v] = held[v]
  BY DEF Moves, OnlyOf
<1>2. ASSUME NEW v \in Workers, pc[v] = "produce"
      PROVE  held[v].body \in stream' \cup lost' \cup Queueing'
  <2>1. CASE v = w
    BY <1>2, <2>1 DEF Moves
  <2>2. CASE v # w
    BY <1>1, <1>2, <2>2 DEF Queueing
  <2> QED BY <2>1, <2>2
<1>3. to = "produce" => h.body \in Queueing'
  BY DEF Moves, Queueing
<1> QED BY <1>2, <1>3 DEF Recorded, Queueing

LEMMA CoveredStep ==
  ASSUME TypeOK, Covered, NEW w \in Workers, NEW from, NEW to, NEW h, Moves(w, from, to, h),
         Cover \subseteq Cover', h.hash \in Cover',
         visits' = visits
           \/ \E p \in Pages : visits' = [visits EXCEPT ![p] = held[w].hash]
  PROVE  Covered'
<1>1. \A p \in Pages : visits'[p] \in Cover'
  BY DEF Covered, TypeOK, StoreOK
<1>2. ASSUME NEW v \in Workers PROVE held'[v].hash \in Cover'
  <2>1. CASE v = w
    BY <2>1 DEF Moves
  <2>2. CASE v # w
    BY <2>2 DEF Moves, OnlyOf, Covered
  <2> QED BY <2>1, <2>2
<1>3. copy'.hash \in Cover'
  BY DEF Moves, Covered
<1> QED BY <1>1, <1>2, <1>3 DEF Covered

LEMMA WorkingKeeps ==
  ASSUME TypeOK, Mem, NEW w \in Workers, Working(w)
  PROVE  Mem'
<1> USE DEF Mem
<1>0. /\ NoHash \in Cover /\ NoHash \in Cover'
      /\ held[w].hash \in Cover /\ held[w].body \in Cover
      /\ \A p \in Pages : visits[p] \in Cover
  BY DEF Cover, InHand, Covered
<1>1. CASE Leave(w)
  <2>1. Moves(w, "top", "done", held[w]) /\ UNCHANGED <<stream, lost, hashes, visits>>
    BY <1>1, LeaveIs DEF Leave, shared
  <2>2. Cover \subseteq Cover'
    BY <2>1, CoverGrows
  <2>3. Recorded'
    BY <2>1, RecordedStep
  <2>4. Covered'
    BY <1>0, <2>1, <2>2, CoveredStep
  <2> QED BY <2>3, <2>4
<1>2. ASSUME NEW p \in Pages, Claim(w, p) PROVE Mem'
  <2>1. PICK h \in Hold : Moves(w, "top", "fetch", h) /\ h.body = NoHash /\ h.hash \in {visits[p], NoHash}
    BY <1>2, ClaimIs
  <2>2. UNCHANGED <<stream, lost, hashes, visits>> /\ held[w].body = NoHash
    BY <1>2, <2>1, HeldIs DEF Claim, Moves, WorkerOK
  <2>3. Cover \subseteq Cover'
    BY <2>1, <2>2, CoverGrows
  <2>4. Recorded'
    BY <2>1, <2>2, RecordedStep
  <2>5. Covered'
    BY <1>0, <2>1, <2>2, <2>3, CoveredStep
  <2> QED BY <2>4, <2>5
<1>3. CASE FetchNotModified(w) \/ FetchDocument(w)
  <2>1. PICK h \in Hold : /\ Moves(w, "fetch", "get again", h) /\ h.hash = NoHash
                          /\ held[w].body \in {NoHash, h.body}
    BY <1>3, FetchNotModifiedIs, FetchDocumentIs
  <2>2. UNCHANGED <<stream, lost, hashes, visits>>
    BY <1>3 DEF FetchNotModified, FetchDocument, shared
  <2>3. Cover \subseteq Cover'
    BY <2>1, <2>2, CoverGrows
  <2>4. Recorded'
    BY <2>1, <2>2, RecordedStep
  <2>5. Covered'
    BY <1>0, <2>1, <2>2, <2>3, CoveredStep
  <2> QED BY <2>4, <2>5
<1>4. CASE FetchNothing(w)
  <2>1. /\ Moves(w, "fetch", "top", Idle) /\ held[w].body = NoHash
        /\ UNCHANGED <<stream, lost, hashes, visits>>
    BY <1>4, FetchNothingIs DEF FetchNothing, shared
  <2>2. Cover \subseteq Cover'
    BY <2>1, CoverGrows
  <2>3. Recorded'
    BY <2>1, RecordedStep
  <2>4. Covered'
    BY <1>0, <2>1, <2>2, IdleIsHold, CoveredStep
  <2> QED BY <2>3, <2>4
<1>5. CASE GetAgain(w)
  <2>1. PICK h \in Hold : /\ Moves(w, "get again", "put visit", h) /\ h.body = held[w].body
                          /\ h.hash \in {visits[held[w].page], NoHash, held[w].body}
                          /\ held[w].page \in Pages
    BY <1>5, GetAgainIs
  <2>2. UNCHANGED <<stream, lost, hashes, visits>>
    BY <1>5 DEF GetAgain, shared
  <2>3. Cover \subseteq Cover'
    BY <2>1, <2>2, CoverGrows
  <2>4. Recorded'
    BY <2>1, <2>2, RecordedStep
  <2>5. h.hash \in Cover'
    BY <1>0, <2>1, <2>3
  <2>6. Covered'
    BY <2>1, <2>2, <2>3, <2>5, CoveredStep
  <2> QED BY <2>4, <2>6
<1>6. CASE PutVisit(w)
  <2>1. PICK to \in {"top", "dedup"}, h \in Hold :
          Moves(w, "put visit", to, h) /\ h.body = held[w].body /\ h.hash = NoHash
    BY <1>6, PutVisitIs
  <2>2. UNCHANGED <<stream, lost, hashes>>
    BY <1>6 DEF PutVisit
  <2>3. visits' = visits \/ \E p \in Pages : visits' = [visits EXCEPT ![p] = held[w].hash]
    BY <1>6, PutVisitIs
  <2>4. Cover \subseteq Cover'
    BY <2>1, <2>2, CoverGrows
  <2>5. Recorded'
    BY <2>1, <2>2, RecordedStep
  <2>6. Covered'
    BY <1>0, <2>1, <2>3, <2>4, CoveredStep
  <2> QED BY <2>5, <2>6
<1>7. CASE IsNew(w)
  <2>1. UNCHANGED <<stream, lost, visits>>
    BY <1>7 DEF IsNew
  <2>2. CASE /\ Moves(w, "dedup", "top", Idle)
             /\ held[w].body \in hashes /\ hashes' = hashes
    <3>1. pc[w] = "dedup"
      BY <2>2 DEF Moves
    <3>2. \/ held[w].body \in stream' \cup lost'
          \/ \E v \in Workers \ {w} : held[w].body = held[v].body
      BY <2>1, <2>2, <3>1 DEF Recorded, Queueing
    <3>3. Cover \subseteq Cover'
      BY <2>1, <2>2, <3>2, CoverGrows
    <3>4. Recorded'
      BY <2>1, <2>2, RecordedStep
    <3>5. Covered'
      BY <1>0, <2>1, <2>2, <3>3, IdleIsHold, CoveredStep
    <3> QED BY <3>4, <3>5
  <2>3. CASE /\ Moves(w, "dedup", "produce", held[w])
             /\ hashes' \in {hashes, hashes \cup {held[w].body}}
    <3>1. Cover \subseteq Cover'
      BY <2>1, <2>3, CoverGrows
    <3>2. Recorded'
      BY <2>1, <2>3, RecordedStep
    <3>3. Covered'
      BY <1>0, <2>1, <2>3, <3>1, CoveredStep
    <3> QED BY <3>2, <3>3
  <2> QED BY <1>7, <2>2, <2>3, IsNewIs
<1>8. CASE Produce(w)
  <2>1. /\ Moves(w, "produce", "top", Idle) /\ held[w].body \in stream' \cup lost'
        /\ stream \subseteq stream' /\ lost \subseteq lost'
        /\ UNCHANGED <<hashes, visits>>
    BY <1>8, ProduceIs DEF Produce
  <2>2. Cover \subseteq Cover'
    BY <2>1, CoverGrows
  <2>3. Recorded'
    BY <2>1, RecordedStep
  <2>4. Covered'
    BY <1>0, <2>1, <2>2, IdleIsHold, CoveredStep
  <2> QED BY <2>3, <2>4
<1> QED BY <1>1, <1>2, <1>3, <1>4, <1>5, <1>6, <1>7, <1>8 DEF Working

LEMMA MemNext == TypeOK /\ Mem /\ [Next]_vars => Mem'
<1> SUFFICES ASSUME TypeOK, Mem, [Next]_vars PROVE Mem'
  OBVIOUS
<1>1. ASSUME NEW w \in Workers, Working(w) PROVE Mem'
  BY <1>1, WorkingKeeps
<1>2. ASSUME UNCHANGED <<pc, held, stream, lost, hashes>>,
             \A p \in Pages : visits'[p] \in {visits[p], copy.hash},
             copy'.hash \in {copy.hash, NoHash} \cup {visits[p] : p \in Pages}
      PROVE  Mem'
  <2>1. Cover' = Cover /\ Queueing' = Queueing /\ NoHash \in Cover
    BY <1>2 DEF Cover, InHand, Queueing
  <2>2. Recorded'
    BY <1>2, <2>1 DEF Mem, Recorded
  <2>3. Covered'
    BY <1>2, <2>1 DEF Mem, Covered
  <2> QED BY <2>2, <2>3 DEF Mem
<1>3. CASE Tick \/ Signal \/ Heartbeat \/ Drain \/ Publish \/ UNCHANGED vars
  BY <1>2, <1>3 DEF Tick, Signal, Heartbeat, Drain, Publish, shared, tasks, vars
<1>4. CASE NextSitemap
  <2>1. copy' = copy \/ \E p \in Pages : copy'.hash = visits[p]
    BY <1>4 DEF NextSitemap, TypeOK, TasksOK
  <2>2. UNCHANGED <<pc, held, stream, lost, hashes, visits>>
    BY <1>4 DEF NextSitemap, shared
  <2> QED BY <1>2, <2>1, <2>2
<1>5. CASE PollerPut
  <2>1. /\ UNCHANGED <<pc, held, stream, lost, hashes>> /\ copy'.hash = NoHash
    BY <1>5, NoCopyType DEF PollerPut
  <2>2. visits' = visits \/ visits' = [visits EXCEPT ![copy.page] = copy.hash]
    BY <1>5 DEF PollerPut
  <2>3. \A p \in Pages : visits'[p] \in {visits[p], copy.hash}
    BY <2>2 DEF TypeOK, StoreOK
  <2> QED BY <1>2, <2>1, <2>3
<1>6. CASE Crash
  <2>1. /\ held' = [w \in Workers |-> Idle] /\ copy' = NoCopy
        /\ UNCHANGED <<stream, hashes, visits>> /\ lost \subseteq lost'
        /\ lost' = lost \cup {held[w].body : w \in {v \in Held : held[v].body # NoHash}}
    BY <1>6 DEF Crash, shared
  <2>2. ASSUME NEW w \in Workers, held[w].body # NoHash PROVE held[w].body \in lost'
    <3>1. held[w].page \in Pages
      BY <2>2, HeldIs DEF WorkerOK
    <3>2. w \in Held
      BY <3>1, Assumptions DEF Held
    <3> QED BY <2>1, <2>2, <3>2
  <2>3. Cover \subseteq stream' \cup lost' \cup {NoHash}
    BY <2>1, <2>2 DEF Cover, InHand
  <2>4. ASSUME NEW w \in Workers, pc[w] = "produce" PROVE held[w].body \in lost'
    <3>1. held[w].body # NoHash
      BY <2>4, HeldIs DEF WorkerOK
    <3> QED BY <2>2, <3>1
  <2>5. Recorded'
    BY <2>1, <2>4 DEF Mem, Recorded, Queueing
  <2>6. Covered'
    <3>1. Cover \subseteq Cover' /\ NoHash \in Cover'
      BY <2>3 DEF Cover
    <3> QED BY <2>1, <3>1, IdleIsHold, NoCopyType DEF Mem, Covered
  <2> QED BY <2>5, <2>6 DEF Mem
<1> QED BY <1>1, <1>3, <1>4, <1>5, <1>6 DEF Next, Polling

(* A body whose hash is remembered, in a page's visit record or among those *)
(* recorded as queued, was queued, or is with a worker, or its queueing is  *)
(* a recorded loss; whatever workers, the poller and crashes overwrite      *)
(* (schedule_revisit, is_new, apply_sitemap).                               *)
THEOREM NothingForgotten == Spec => []RememberedIsQueued
<1>1. Init => Mem
  BY IdleIsHold, NoCopyType DEF Init, Mem, Recorded, Covered, Cover
<1>2. TypeOK /\ Mem /\ [Next]_vars => TypeOK' /\ Mem'
  BY TypeNext, MemNext
<1>3. TypeOK /\ Mem => RememberedIsQueued
  BY DEF Mem, Recorded, Covered, Cover, Queueing, InHand, RememberedIsQueued, Remembered
<1> QED BY <1>1, <1>2, <1>3, TypeInit, PTL DEF Spec

-----------------------------------------------------------------------------
(* What the crawl has to do.  A step of a worker can take from it only what *)
(* that worker has, or what it takes off the book.                          *)
LEMMA PageLeaves ==
  ASSUME NEW w \in Workers, NEW from, NEW to, NEW h, Moves(w, from, to, h), NEW p \in Crawled \ Crawled'
  PROVE  /\ p \notin booked' /\ ~ (to \in Busy /\ h.page = p)
         /\ p \in booked \/ (from \in Busy /\ held[w].page = p)
<1>1. /\ pc[w] = from /\ pc'[w] = to /\ held'[w] = h
      /\ \A v \in Workers : v # w => pc'[v] = pc[v] /\ held'[v] = held[v]
  BY DEF Moves, OnlyOf
<1>2. p \notin booked' /\ \A v \in Workers : pc'[v] \in Busy => held'[v].page # p
  BY DEF Crawled, Busy
<1>3. p \in booked \/ \E v \in Workers : pc[v] \in Busy /\ held[v].page = p
  BY DEF Crawled, Busy
<1> QED BY <1>1, <1>2, <1>3

LEMMA PageStays ==
  ASSUME NEW w \in Workers, NEW from, NEW to, NEW h, Moves(w, from, to, h), booked' = booked,
         from \notin Busy \/ (to \in Busy /\ h.page = held[w].page)
  PROVE  Crawled \subseteq Crawled'
<1>1. SUFFICES ASSUME NEW p \in Crawled \ Crawled' PROVE FALSE
  OBVIOUS
<1>2. /\ p \notin booked' /\ ~ (to \in Busy /\ h.page = p)
      /\ p \in booked \/ (from \in Busy /\ held[w].page = p)
  BY <1>1, PageLeaves
<1> QED BY <1>2

LEMMA DocumentLeaves ==
  ASSUME NEW w \in Workers, NEW from, NEW to, NEW h, Moves(w, from, to, h), NEW b \in Owed \ Owed'
  PROVE  /\ b = held[w].body /\ b \notin {h.body, NoHash}
         /\ \A v \in Workers \ {w} : held[v].body # b
<1>1. held'[w] = h /\ \A v \in Workers : v # w => held'[v] = held[v]
  BY DEF Moves, OnlyOf
<1>2. b # NoHash /\ \A v \in Workers : held'[v].body # b
  BY DEF Owed, InHand
<1>3. PICK v \in Workers : held[v].body = b
  BY DEF Owed, InHand
<1> QED BY <1>1, <1>2, <1>3

LEMMA WorkerKeepsPages ==
  ASSUME TypeOK, faults \in Nat, NEW w \in Workers, Working(w)
  PROVE  PageIsKept
<1> SUFFICES ASSUME NEW p \in Crawled \ Crawled' PROVE p \in gone' /\ (faults' > faults \/ site[p] \notin Documents)
  BY DEF PageIsKept
<1>1. CASE Leave(w)
  <2>1. Moves(w, "top", "done", held[w]) /\ booked' = booked
    BY <1>1, LeaveIs DEF Leave, shared
  <2> QED BY <2>1, PageStays DEF Busy
<1>2. ASSUME NEW q \in Pages, Claim(w, q) PROVE FALSE
  <2>1. PICK h \in Hold : Moves(w, "top", "fetch", h) /\ h.page = q
    BY <1>2, ClaimIs
  <2>2. booked' = booked \ {q}
    BY <1>2 DEF Claim
  <2>3. /\ p \notin booked' /\ ~ ("fetch" \in Busy /\ h.page = p)
        /\ p \in booked \/ ("top" \in Busy /\ held[w].page = p)
    BY <2>1, PageLeaves
  <2>4. "fetch" \in Busy /\ "top" \notin Busy
    BY DEF Busy
  <2> QED BY <2>1, <2>2, <2>3, <2>4
<1>3. CASE FetchNotModified(w) \/ FetchDocument(w)
  <2>1. PICK h \in Hold : Moves(w, "fetch", "get again", h) /\ h.page = held[w].page
    BY <1>3, FetchNotModifiedIs, FetchDocumentIs
  <2>2. booked' = booked
    BY <1>3 DEF FetchNotModified, FetchDocument, shared
  <2> QED BY <2>1, <2>2, PageStays DEF Busy
<1>4. CASE FetchNothing(w)
  <2>1. Moves(w, "fetch", "top", Idle) /\ booked' = booked
    BY <1>4, FetchNothingIs DEF FetchNothing, shared
  <2>2. p = held[w].page
    BY <2>1, PageLeaves
  <2> QED BY <1>4, <2>2 DEF FetchNothing, Fault
<1>5. CASE GetAgain(w)
  <2>1. PICK h \in Hold : Moves(w, "get again", "put visit", h) /\ h.page = held[w].page
    BY <1>5, GetAgainIs
  <2>2. booked' = booked
    BY <1>5 DEF GetAgain, shared
  <2> QED BY <2>1, <2>2, PageStays DEF Busy
<1>6. CASE PutVisit(w)
  <2>1. PICK to \in {"top", "dedup"}, h \in Hold : Moves(w, "put visit", to, h)
    BY <1>6, PutVisitIs
  <2>2. booked' = booked \cup {held[w].page}
    BY <1>6 DEF PutVisit, Booked
  <2> QED BY <2>1, <2>2, PageLeaves
<1>7. CASE IsNew(w)
  <2>1. PICK to \in {"top", "produce"}, h \in Hold : Moves(w, "dedup", to, h)
    BY <1>7, IsNewIs, IdleIsHold, HeldIs
  <2>2. booked' = booked
    BY <1>7 DEF IsNew
  <2> QED BY <2>1, <2>2, PageStays DEF Busy
<1>8. CASE Produce(w)
  <2>1. Moves(w, "produce", "top", Idle) /\ booked' = booked
    BY <1>8, ProduceIs DEF Produce
  <2> QED BY <2>1, PageStays DEF Busy
<1> QED BY <1>1, <1>2, <1>3, <1>4, <1>5, <1>6, <1>7, <1>8 DEF Working

(* Here what is remembered matters: a worker drops what it read because the *)
(* set of hashes has it, and what the set has was queued, was lost, or is   *)
(* another worker's to queue.                                               *)
LEMMA WorkerKeepsDocuments ==
  ASSUME TypeOK, Mem, NEW w \in Workers, Working(w)
  PROVE  DocumentIsKept
<1> SUFFICES ASSUME NEW b \in Owed \ Owed' PROVE b \in stream' \cup lost'
  BY DEF DocumentIsKept
<1>1. CASE \/ Leave(w) \/ (\E p \in Pages : Claim(w, p)) \/ FetchNotModified(w) \/ FetchDocument(w)
           \/ FetchNothing(w) \/ GetAgain(w) \/ PutVisit(w)
  <2>1. \E from, to, h : Moves(w, from, to, h) /\ held[w].body \in {NoHash, h.body}
    <3>1. ASSUME NEW p \in Pages, Claim(w, p) PROVE \E h \in Hold : Moves(w, "top", "fetch", h) /\ held[w].body = NoHash
      BY <3>1, ClaimIs, HeldIs DEF Moves, WorkerOK
    <3>2. CASE Leave(w)
      BY <3>2, LeaveIs
    <3>3. CASE FetchNotModified(w) \/ FetchDocument(w)
      BY <3>3, FetchNotModifiedIs, FetchDocumentIs, ZenonT(60)
    <3>4. CASE FetchNothing(w)
      BY <3>4, FetchNothingIs
    <3>5. CASE GetAgain(w)
      BY <3>5, GetAgainIs, ZenonT(60)
    <3>6. CASE PutVisit(w)
      BY <3>6, PutVisitIs
    <3> QED BY <1>1, <3>1, <3>2, <3>3, <3>4, <3>5, <3>6
  <2> QED BY <2>1, DocumentLeaves
<1>2. CASE IsNew(w)
  <2>1. stream' = stream /\ lost' = lost
    BY <1>2 DEF IsNew
  <2>2. CASE Moves(w, "dedup", "top", Idle) /\ held[w].body \in hashes
    <3>1. b \in hashes /\ \A v \in Workers \ {w} : held[v].body # b
      BY <2>2, DocumentLeaves
    <3>2. pc[w] = "dedup"
      BY <2>2 DEF Moves
    <3>3. b \notin Queueing
      BY <3>1, <3>2 DEF Queueing
    <3> QED BY <2>1, <3>1, <3>3 DEF Mem, Recorded
  <2>3. CASE Moves(w, "dedup", "produce", held[w])
    BY <2>3, DocumentLeaves
  <2> QED BY <1>2, <2>2, <2>3, IsNewIs
<1>3. CASE Produce(w)
  <2>1. Moves(w, "produce", "top", Idle) /\ held[w].body \in stream' \cup lost'
    BY <1>3, ProduceIs
  <2> QED BY <2>1, DocumentLeaves
<1> QED BY <1>1, <1>2, <1>3 DEF Working

LEMMA CrashKeeps ==
  ASSUME TypeOK, faults \in Nat, Crash
  PROVE  PageIsKept /\ DocumentIsKept
<1>1. /\ faults' = faults + 1 /\ booked' = booked
      /\ gone' = gone \cup {held[w].page : w \in {v \in Held : held[v].page \notin booked}}
      /\ lost' = lost \cup {held[w].body : w \in {v \in Held : held[v].body # NoHash}}
  BY DEF Crash, Fault, shared
<1>2. ASSUME NEW p \in Crawled \ Crawled' PROVE p \in gone'
  <2>1. p \notin booked
    BY <1>1, <1>2 DEF Crawled
  <2>2. PICK w \in Workers : pc[w] \in Busy /\ held[w].page = p
    BY <2>1 DEF Crawled, Busy
  <2>3. w \in Held
    BY <2>2, Assumptions, HeldIs, ZenonT(60) DEF Busy, WorkerOK, Held
  <2> QED BY <1>1, <2>1, <2>2, <2>3
<1>3. ASSUME NEW b \in Owed PROVE b \in lost'
  <2>1. PICK w \in Workers : held[w].body = b /\ b # NoHash
    BY DEF Owed, InHand
  <2>2. pc[w] \notin {"top", "done"}
    BY <2>1, HeldIs DEF WorkerOK
  <2>3. w \in Held
    BY <2>2, Assumptions, HeldIs DEF WorkerOK, Held
  <2> QED BY <1>1, <2>1, <2>3
<1> QED BY <1>1, <1>2, <1>3 DEF PageIsKept, DocumentIsKept

LEMMA FaultsNext == faults \in Nat /\ [Next]_vars => faults' \in Nat
<1> SUFFICES ASSUME faults \in Nat, [Next]_vars PROVE faults' \in {faults, faults + 1}
  OBVIOUS
<1>1. ASSUME NEW w \in Workers, Working(w) PROVE faults' \in {faults, faults + 1}
  BY <1>1 DEF Working, Leave, Claim, FetchNotModified, FetchDocument, FetchNothing, GetAgain, PutVisit,
              IsNew, Produce, ReadOf, Fault, NoFault
<1>2. CASE Polling \/ Signal \/ Heartbeat \/ Drain \/ Crash \/ Publish \/ UNCHANGED vars
  BY <1>2 DEF Polling, Tick, NextSitemap, PollerPut, Signal, Heartbeat, Drain, Crash, Publish, Fault, vars
<1> QED BY <1>1, <1>2 DEF Next

(* A page leaves the crawl only by a fault or for being no document, and    *)
(* what was read of a page leaves its worker only for the queue, unless     *)
(* another has it to queue or its loss is recorded; whatever the workers    *)
(* and the poller do between each other's steps (orchestrator.rs:271,       *)
(* crawld.rs:277).                                                          *)
THEOREM NothingIsDropped == Spec => NothingDropped
<1>1. Init => TypeOK /\ Mem /\ faults \in Nat
  BY TypeInit, IdleIsHold, NoCopyType DEF Init, Mem, Recorded, Covered, Cover
<1>2. TypeOK /\ Mem /\ faults \in Nat /\ [Next]_vars => TypeOK' /\ Mem' /\ (faults \in Nat)'
  BY TypeNext, MemNext, FaultsNext
<1>3. TypeOK /\ Mem /\ faults \in Nat /\ [Next]_vars => PageIsKept /\ DocumentIsKept
  <2> SUFFICES ASSUME TypeOK, Mem, faults \in Nat, [Next]_vars PROVE PageIsKept /\ DocumentIsKept
    OBVIOUS
  <2>1. ASSUME NEW w \in Workers, Working(w) PROVE PageIsKept /\ DocumentIsKept
    BY <2>1, WorkerKeepsPages, WorkerKeepsDocuments
  <2>2. CASE Polling \/ Signal \/ Heartbeat \/ Drain \/ Publish \/ UNCHANGED vars
    <3>1. UNCHANGED <<pc, held>> /\ booked \subseteq booked'
      BY <2>2 DEF Polling, Tick, NextSitemap, PollerPut, Signal, Heartbeat, Drain, Publish, shared, tasks, vars
    <3>2. Crawled \subseteq Crawled' /\ Owed' = Owed
      BY <3>1 DEF Crawled, Owed, InHand
    <3> QED BY <3>2 DEF PageIsKept, DocumentIsKept
  <2> QED BY <2>1, <2>2, CrashKeeps DEF Next
<1> QED BY <1>1, <1>2, <1>3, PTL DEF Spec, NothingDropped

-----------------------------------------------------------------------------
(* The budget.  Every worker past its look at it will queue one page more   *)
(* at most.                                                                 *)
Past(at) == {w \in Workers : at[w] \notin {"top", "done"}}
Spent    == budget # NoBudget =>
              produced + Cardinality(Past(pc)) < budget + Cardinality(Workers)

LEMMA PastIs ==
  ASSUME NEW at
  PROVE  /\ IsFiniteSet(Past(at)) /\ Cardinality(Past(at)) \in Nat
         /\ Cardinality(Past(at)) <= Cardinality(Workers)
<1>1. Past(at) \in SUBSET Workers
  BY DEF Past
<1> QED BY <1>1, Assumptions, FS_Subset, FS_CardinalityType

LEMMA SpentNext == TypeOK /\ Spent /\ [Next]_vars => Spent'
<1> SUFFICES ASSUME TypeOK, Spent, [Next]_vars, budget' # NoBudget
             PROVE  produced' + Cardinality(Past(pc')) < budget' + Cardinality(Workers)
  BY SMTT(60) DEF Spent
<1>1. /\ budget' = budget
  BY DEF Next, Working, Leave, Claim, FetchNotModified, FetchDocument, FetchNothing, GetAgain, PutVisit,
         IsNew, Produce, Polling, Tick, NextSitemap, PollerPut, Signal, Heartbeat, Drain, Crash, Publish,
         shared, vars
<1>2. /\ budget \in Nat /\ produced \in Nat /\ Cardinality(Workers) \in Nat
      /\ produced + Cardinality(Past(pc)) < budget + Cardinality(Workers)
  BY <1>1, Assumptions DEF TypeOK, StoreOK, Spent
<1>3. /\ IsFiniteSet(Past(pc)) /\ Cardinality(Past(pc)) \in Nat /\ Cardinality(Past(pc')) \in Nat
      /\ Cardinality(Past(pc)) <= Cardinality(Workers) /\ Cardinality(Past(pc')) <= Cardinality(Workers)
  BY PastIs
<1>4. ASSUME NEW w \in Workers, NEW from, NEW to, NEW h, Moves(w, from, to, h), from \notin {"top", "done"},
             produced' = produced
      PROVE  produced' + Cardinality(Past(pc')) < budget' + Cardinality(Workers)
  <2>1. Past(pc') \in SUBSET Past(pc)
    BY <1>4 DEF Moves, OnlyOf, Past
  <2>2. Cardinality(Past(pc')) <= Cardinality(Past(pc))
    BY <1>3, <2>1, FS_Subset
  <2> QED BY <1>1, <1>2, <1>3, <1>4, <2>2
<1>5. ASSUME NEW w \in Workers, Leave(w) PROVE produced' + Cardinality(Past(pc')) < budget' + Cardinality(Workers)
  <2>1. Moves(w, "top", "done", held[w]) /\ produced' = produced
    BY <1>5, LeaveIs DEF Leave
  <2>2. Past(pc') = Past(pc)
    BY <2>1 DEF Moves, OnlyOf, Past
  <2> QED BY <1>1, <1>2, <2>1, <2>2
<1>6. ASSUME NEW w \in Workers, NEW p \in Pages, Claim(w, p)
      PROVE  produced' + Cardinality(Past(pc')) < budget' + Cardinality(Workers)
  <2>1. produced < budget /\ produced' = produced
    BY <1>1, <1>2, <1>6 DEF Claim, MayGoOn, BudgetSpent
  <2> QED BY <1>1, <1>2, <1>3, <2>1
<1>7. ASSUME NEW w \in Workers, Produce(w)
      PROVE  produced' + Cardinality(Past(pc')) < budget' + Cardinality(Workers)
  <2>1. Moves(w, "produce", "top", Idle) /\ produced' \in {produced, produced + 1}
    BY <1>1, <1>7, ProduceIs DEF Produce
  <2>2. w \in Past(pc) /\ Past(pc') = Past(pc) \ {w}
    BY <2>1 DEF Moves, OnlyOf, Past
  <2>3. Cardinality(Past(pc')) = Cardinality(Past(pc)) - 1
    BY <1>3, <2>2, FS_RemoveElement
  <2> QED BY <1>1, <1>2, <1>3, <2>1, <2>3
<1>8. ASSUME NEW w \in Workers,
             \/ FetchNotModified(w) \/ FetchDocument(w) \/ FetchNothing(w) \/ GetAgain(w) \/ PutVisit(w) \/ IsNew(w)
      PROVE  produced' + Cardinality(Past(pc')) < budget' + Cardinality(Workers)
  <2>1. PICK from, to \in Labels, h \in Hold : Moves(w, from, to, h)
    BY <1>8, WorkingMoves DEF Working
  <2>2. from \notin {"top", "done"} /\ produced' = produced
    BY <1>8, <2>1 DEF Moves, Go, FetchNotModified, FetchDocument, FetchNothing, GetAgain, PutVisit, IsNew
  <2> QED BY <1>4, <2>1, <2>2
<1>9. CASE Crash
  <2>1. produced' = 0 /\ Past(pc') = {}
    BY <1>9 DEF Crash, Past
  <2>2. Cardinality(Workers) # 0
    BY Assumptions, FS_EmptySet
  <2> QED BY <1>1, <1>2, <2>1, <2>2, FS_EmptySet
<1>10. CASE Polling \/ Signal \/ Heartbeat \/ Drain \/ Publish \/ UNCHANGED vars
  <2>1. UNCHANGED <<pc, produced>>
    BY <1>10 DEF Polling, Tick, NextSitemap, PollerPut, Signal, Heartbeat, Drain, Publish, tasks, vars
  <2> QED BY <1>1, <1>2, <2>1
<1> QED
  BY <1>5, <1>6, <1>7, <1>8, <1>9, <1>10 DEF Next, Working

(* The page budget is overshot by less than the number of workers, however  *)
(* many of them look at it before any has queued (crawld.rs:263).           *)
THEOREM BudgetHolds == Spec => []Overshoot
<1>1. Init => Spent
  <2> SUFFICES ASSUME Init, budget # NoBudget PROVE produced + Cardinality(Past(pc)) < budget + Cardinality(Workers)
    BY DEF Spent
  <2>1. produced = 0 /\ Past(pc) = {} /\ budget \in Nat
    BY Assumptions DEF Init, Past
  <2>2. Cardinality(Workers) # 0 /\ Cardinality(Workers) \in Nat
    BY Assumptions, FS_EmptySet
  <2> QED BY <2>1, <2>2, FS_EmptySet
<1>2. TypeOK /\ Spent /\ [Next]_vars => TypeOK' /\ Spent'
  BY TypeNext, SpentNext
<1>3. TypeOK /\ Spent => Overshoot
  <2> SUFFICES ASSUME TypeOK, Spent, budget # NoBudget PROVE produced < budget + Cardinality(Workers)
    BY DEF Overshoot
  <2>1. budget \in Nat /\ produced \in Nat
    BY DEF TypeOK, StoreOK
  <2> QED BY <2>1, Assumptions, PastIs DEF Spent
<1> QED BY <1>1, <1>2, <1>3, TypeInit, PTL DEF Spec

-----------------------------------------------------------------------------
(* The interval of a page, of which CrawlPipeline keeps nothing but that it *)
(* ends: whatever was recorded before, one visit brings it into the tier.   *)
Visit == [interval : Nat, changes : Nat, hash : Hash, etag : Hash, fetched : Nat, volatile : BOOLEAN]

LEMMA TierIs ==
  ASSUME NEW trust \in Int
  PROVE  LET tier == ForTrust(trust)
         IN  tier.floor \in Nat \ {0} /\ tier.ceiling \in Nat /\ tier.floor < tier.ceiling
BY DEF ForTrust, Hour, Day

LEMMA ClampIs ==
  ASSUME NEW x \in Int, NEW tier, tier.floor \in Nat, tier.ceiling \in Nat, tier.floor < tier.ceiling
  PROVE  /\ Clamp(x, tier) \in tier.floor .. tier.ceiling
         /\ x >= tier.floor => Clamp(x, tier) <= x
         /\ x <= tier.ceiling => x <= Clamp(x, tier)
BY DEF Clamp

(* Whatever a visit finds and whatever its record said, even of a page that *)
(* has since changed its tier: the next visit is no sooner than the floor   *)
(* and no later than the ceiling; a quiet visit brings it no nearer, and a  *)
(* changed one no farther unless the page is parked at the ceiling, after   *)
(* VolatileAfter changes (Schedule::observe, Visit::record).                *)
THEOREM IntervalsFit ==
  ASSUME NEW visit \in Visit, NEW observation \in Observations, NEW trust \in 0 .. 100,
         NEW hash \in Hash, NEW now \in Nat
  PROVE  LET tier == ForTrust(trust)
             next == Record(visit, observation, tier, hash, now)
         IN  /\ DueAt(next) \in now + tier.floor .. now + tier.ceiling
             /\ observation # "changed" /\ visit.interval <= tier.ceiling => next.interval >= visit.interval
             /\ observation = "changed" /\ visit.interval >= tier.floor =>
                  \/ next.interval <= visit.interval
                  \/ next.interval = tier.ceiling /\ next.changes >= VolatileAfter
<1> DEFINE tier     == ForTrust(trust)
           next     == Record(visit, observation, tier, hash, now)
           current  == IF visit.interval = 0 THEN tier.floor ELSE visit.interval
           changes  == CountChanges(visit.changes, observation, current <= tier.floor)
           volatile == changes >= VolatileAfter
<1>1. tier.floor \in Nat \ {0} /\ tier.ceiling \in Nat /\ tier.floor < tier.ceiling
  BY TierIs
<1>2. visit.interval \in Nat /\ visit.changes \in Nat
  BY DEF Visit
<1>3. /\ next.interval = IF volatile THEN tier.ceiling ELSE NextInterval(current, observation, tier)
      /\ next.fetched = now /\ next.changes = changes
  BY DEF Record, Visit
<1>4. observation # "changed" => ~ volatile
  <2>1. observation # "changed" => changes = 0
    BY DEF CountChanges
  <2> QED BY <2>1 DEF VolatileAfter
<1> HIDE DEF next, changes, volatile, tier
<1>5. current \in Nat /\ current \div 2 \in Nat /\ current \div 2 <= current /\ current + tier.floor \in Nat
  BY <1>1, <1>2
<1>6. CASE volatile
  <2>1. next.interval = tier.ceiling /\ observation = "changed"
    BY <1>3, <1>4, <1>6
  <2> QED BY <1>1, <1>3, <1>6, <2>1 DEF DueAt, volatile, changes, next, tier
<1>7. CASE ~ volatile /\ observation = "changed"
  <2>1. next.interval = Clamp(current \div 2, tier)
    BY <1>3, <1>7 DEF NextInterval
  <2>2. next.interval \in tier.floor .. tier.ceiling
    BY <1>1, <1>5, <2>1, ClampIs
  <2>3. visit.interval >= tier.floor => next.interval <= visit.interval
    BY <1>1, <1>2, <1>5, <2>1 DEF Clamp
  <2>4. DueAt(next) \in now + tier.floor .. now + tier.ceiling
    BY <1>1, <1>3, <2>2 DEF DueAt
  <2> QED BY <1>7, <2>3, <2>4 DEF next, tier
<1>8. CASE ~ volatile /\ observation # "changed"
  <2>1. next.interval = Clamp(current + tier.floor, tier)
    BY <1>3, <1>8 DEF NextInterval
  <2>2. next.interval \in tier.floor .. tier.ceiling
    BY <1>1, <1>5, <2>1, ClampIs
  <2>3. visit.interval <= tier.ceiling => next.interval >= visit.interval
    BY <1>1, <1>2, <1>5, <2>1 DEF Clamp
  <2> QED BY <1>1, <1>3, <1>8, <2>2, <2>3 DEF DueAt, next, tier
<1> QED BY <1>6, <1>7, <1>8

-----------------------------------------------------------------------------
(* The index of similarity hashes, of four bands of any width.              *)
CONSTANTS HashOf(_), Width, MinTokens, Shingle

Stories == INSTANCE Duplicates

(* An instance has its own copy of Cardinality.                             *)
LEMMA SameCardinality == \A S : Stories!Cardinality(S) = Cardinality(S)
BY DEF Stories!Cardinality, Stories!IsFiniteSet, Cardinality, IsFiniteSet

(* Each band's bits are bits of the hash.                                   *)
LEMMA Places ==
  ASSUME Width \in Nat \ {0}, NEW i \in 1 .. Stories!Bands, NEW n \in 0 .. Width - 1
  PROVE  (i - 1) * Width + n \in ((i - 1) * Width) .. (i * Width - 1) /\ (i - 1) * Width + n \in 0 .. Stories!Bits - 1
<1>1. i = 1 \/ i = 2 \/ i = 3 \/ i = 4
  BY DEF Stories!Bands
<1> QED BY <1>1 DEF Stories!Bits, Stories!Bands

(* The index looks only among hashes that share a band with the one it is   *)
(* asked for, and misses none by that: two hashes that differ in at most    *)
(* three bits agree in at least one of four bands.                          *)
THEOREM NearSharesBand ==
  ASSUME Width \in Nat \ {0}, NEW a \in Stories!Hash, NEW b \in Stories!Hash, Stories!IsNear(a, b)
  PROVE  \E i \in 1 .. Stories!Bands : Stories!BandsOf(a)[i] = Stories!BandsOf(b)[i]
<1> DEFINE Differ == {n \in 0 .. Stories!Bits - 1 : a[n] # b[n]}
<1>1. SUFFICES ASSUME \A i \in 1 .. Stories!Bands : Stories!BandsOf(a)[i] # Stories!BandsOf(b)[i]
               PROVE  FALSE
  OBVIOUS
<1>2. ASSUME NEW i \in 1 .. Stories!Bands
      PROVE  \E m \in Differ : m \in ((i - 1) * Width) .. (i * Width - 1)
  <2>1. \E n \in 0 .. Width - 1 : a[(i - 1) * Width + n] # b[(i - 1) * Width + n]
    BY <1>1 DEF Stories!BandsOf
  <2> QED BY <2>1, Places
<1>3. 1 \in 1 .. Stories!Bands /\ 2 \in 1 .. Stories!Bands /\ 3 \in 1 .. Stories!Bands /\ 4 \in 1 .. Stories!Bands
  BY DEF Stories!Bands
<1>4. PICK m1 \in Differ : m1 \in 0 .. Width - 1
  BY <1>2, <1>3
<1>5. PICK m2 \in Differ : m2 \in Width .. 2 * Width - 1
  BY <1>2, <1>3
<1>6. PICK m3 \in Differ : m3 \in 2 * Width .. 3 * Width - 1
  BY <1>2, <1>3
<1>7. PICK m4 \in Differ : m4 \in 3 * Width .. 4 * Width - 1
  BY <1>2, <1>3
<1>8. m1 # m2 /\ m1 # m3 /\ m1 # m4 /\ m2 # m3 /\ m2 # m4 /\ m3 # m4
  BY <1>4, <1>5, <1>6, <1>7
<1>9. IsFiniteSet(Differ)
  <2>1. Stories!Bits \in Int
    BY DEF Stories!Bits, Stories!Bands
  <2>2. IsFiniteSet(0 .. Stories!Bits - 1)
    BY <2>1, FS_Interval
  <2> QED BY <2>2, FS_Subset
<1>10. Cardinality({m1, m2, m3, m4}) = 4
  <2>1. IsFiniteSet({m1}) /\ Cardinality({m1}) = 1
    BY FS_Singleton
  <2> DEFINE two == {m1} \cup {m2}
             three == two \cup {m3}
             four == three \cup {m4}
  <2>2. m2 \notin {m1} /\ m3 \notin two /\ m4 \notin three
    BY <1>8
  <2>3. IsFiniteSet(two) /\ Cardinality(two) = 2
    BY <2>1, <2>2, FS_AddElement
  <2> HIDE DEF two
  <2>4. IsFiniteSet(three) /\ Cardinality(three) = 3
    BY <2>2, <2>3, FS_AddElement
  <2> HIDE DEF three
  <2>5. IsFiniteSet(four) /\ Cardinality(four) = 4
    BY <2>2, <2>4, FS_AddElement
  <2>6. {m1, m2, m3, m4} = four
    BY DEF two, three
  <2> QED BY <2>5, <2>6
<1>11. Cardinality({m1, m2, m3, m4}) <= Cardinality(Differ)
  <2>1. {m1, m2, m3, m4} \subseteq Differ
    OBVIOUS
  <2> QED BY <1>9, <2>1, FS_Subset
<1>12. Cardinality(Differ) <= 3
  BY SameCardinality DEF Stories!IsNear, Stories!Hamming, Stories!NearDistance
<1> QED BY <1>9, <1>10, <1>11, <1>12, FS_CardinalityType

(* A document is found by its hash from when it is in the index if its hash *)
(* is near the one asked for, and only then, whatever else the index holds. *)
THEOREM FoundExactly ==
  ASSUME Width \in Nat \ {0}, NEW index, NEW stored \in Stories!Hash, NEW id, NEW hash \in Stories!Hash
  PROVE  Stories!FindNear(Stories!Insert(index, stored, id), hash) =
           Stories!FindNear(index, hash) \cup (IF Stories!IsNear(stored, hash) THEN {id} ELSE {})
<1> DEFINE New == {[band |-> i, value |-> Stories!BandsOf(stored)[i], hash |-> stored, id |-> id] :
                     i \in 1 .. Stories!Bands}
           Found(I) == {e.id : e \in {m \in I : /\ m.value = Stories!BandsOf(hash)[m.band]
                                                /\ Stories!IsNear(m.hash, hash)}}
<1>1. Found(New) = IF Stories!IsNear(stored, hash) THEN {id} ELSE {}
  <2>1. \A e \in New : e.id = id /\ e.hash = stored
    OBVIOUS
  <2>2. ASSUME Stories!IsNear(stored, hash) PROVE id \in Found(New)
    <3>1. PICK i \in 1 .. Stories!Bands : Stories!BandsOf(stored)[i] = Stories!BandsOf(hash)[i]
      BY <2>2, NearSharesBand
    <3>2. PICK e \in New : e = [band |-> i, value |-> Stories!BandsOf(stored)[i], hash |-> stored, id |-> id]
      OBVIOUS
    <3>3. e.value = Stories!BandsOf(hash)[e.band] /\ Stories!IsNear(e.hash, hash) /\ e.id = id
      BY <2>2, <3>1, <3>2
    <3> QED BY <3>3
  <2> QED BY <2>1, <2>2
<1>2. Stories!FindNear(index \cup New, hash) = Found(index) \cup Found(New)
  BY DEF Stories!FindNear
<1>3. Stories!FindNear(index, hash) = Found(index) /\ Stories!Insert(index, stored, id) = index \cup New
  BY DEF Stories!FindNear, Stories!Insert
<1> QED BY <1>1, <1>2, <1>3

-----------------------------------------------------------------------------
(* What copies are compared by, the first difference deciding.              *)
Copy == [dated : BOOLEAN, published : Int, trust : Int, length : Int, id : Int, engagement : Int]
Key(c) == <<IF c.dated THEN 0 ELSE 1, c.published, 0 - c.trust, 0 - c.length, c.id>>

(* A key is five numbers, the last of them the id.                          *)
LEMMA KeyIs ==
  ASSUME NEW c \in Copy
  PROVE  Key(c) \in [1 .. 5 -> Int] /\ Key(c)[5] = c.id
<1>1. /\ (IF c.dated THEN 0 ELSE 1) \in Int /\ c.published \in Int /\ 0 - c.trust \in Int
      /\ 0 - c.length \in Int /\ c.id \in Int
  BY DEF Copy
<1> QED BY <1>1 DEF Key

(* Some of up to five places have a first.                                  *)
LEMMA LeastIs ==
  ASSUME NEW S \in SUBSET (1 .. 5), S # {}
  PROVE  Stories!Min(S) \in S /\ \A n \in S : Stories!Min(S) <= n
<1>1. \E m \in S : \A n \in S : m <= n
  <2>1. CASE 1 \in S
    BY <2>1
  <2>2. CASE 1 \notin S /\ 2 \in S
    BY <2>2
  <2>3. CASE 1 \notin S /\ 2 \notin S /\ 3 \in S
    BY <2>3
  <2>4. CASE 1 \notin S /\ 2 \notin S /\ 3 \notin S /\ 4 \in S
    BY <2>4
  <2>5. CASE 1 \notin S /\ 2 \notin S /\ 3 \notin S /\ 4 \notin S
    <3>1. ASSUME NEW n \in S PROVE n = 5
      <4>1. n \in 1 .. 5 /\ n # 1 /\ n # 2 /\ n # 3 /\ n # 4
        BY <2>5
      <4> QED BY <4>1
    <3>2. 5 \in S
      BY <3>1
    <3>3. \A n \in S : 5 <= n
      BY <3>1
    <3> QED BY <3>2, <3>3
  <2> QED BY <2>1, <2>2, <2>3, <2>4, <2>5
<1> QED BY <1>1 DEF Stories!Min

(* A copy is better by the first thing it differs in.                       *)
LEMMA BetterIs ==
  ASSUME NEW a \in Copy, NEW b \in Copy
  PROVE  Stories!Better(a, b) <=>
           \E m \in 1 .. 5 : Key(a)[m] < Key(b)[m] /\ \A j \in 1 .. 5 : j < m => Key(a)[j] = Key(b)[j]
<1> DEFINE differ == {i \in 1 .. 5 : Key(a)[i] # Key(b)[i]}
           least == Stories!Min(differ)
<1>1. Stories!Better(a, b) <=> differ # {} /\ Key(a)[least] < Key(b)[least]
  BY Zenon DEF Stories!Better, Key
<1>2. \A i \in 1 .. 5 : Key(a)[i] \in Int /\ Key(b)[i] \in Int
  BY KeyIs
<1>3. differ # {} => least \in differ /\ \A n \in differ : least <= n
  <2> HIDE DEF least
  <2>1. differ \in SUBSET (1 .. 5)
    OBVIOUS
  <2> HIDE DEF differ
  <2> QED BY <2>1, LeastIs DEF least
<1>4. ASSUME NEW m \in 1 .. 5, Key(a)[m] < Key(b)[m], \A j \in 1 .. 5 : j < m => Key(a)[j] = Key(b)[j]
      PROVE  differ # {} /\ least = m
  <2>1. m \in differ
    BY <1>2, <1>4
  <2> HIDE DEF least
  <2>2. least \in 1 .. 5 /\ least <= m /\ Key(a)[least] # Key(b)[least]
    BY <1>3, <2>1
  <2> QED BY <1>4, <2>1, <2>2
<1>5. ASSUME differ # {}, Key(a)[least] < Key(b)[least]
      PROVE  \E m \in 1 .. 5 : Key(a)[m] < Key(b)[m] /\ \A j \in 1 .. 5 : j < m => Key(a)[j] = Key(b)[j]
  <2> HIDE DEF least
  <2>1. least \in 1 .. 5
    BY <1>3, <1>5
  <2>2. \A j \in 1 .. 5 : j < least => Key(a)[j] = Key(b)[j]
    BY <1>3, <1>5, <2>1
  <2> QED BY <1>5, <2>1, <2>2
<1> HIDE DEF differ, least
<1> QED BY <1>1, <1>4, <1>5

(* select_winner's comparison puts the copies of a story in one order: of   *)
(* two with different ids exactly one is better, and what is better than a  *)
(* better one is better.                                                    *)
THEOREM CopiesAreOrdered ==
  /\ \A a, b \in Copy : Stories!Better(a, b) => ~Stories!Better(b, a)
  /\ \A a, b \in Copy : a.id # b.id => Stories!Better(a, b) \/ Stories!Better(b, a)
  /\ \A a, b, c \in Copy : Stories!Better(a, b) /\ Stories!Better(b, c) => Stories!Better(a, c)
<1>1. ASSUME NEW a \in Copy, NEW b \in Copy, Stories!Better(a, b), Stories!Better(b, a) PROVE FALSE
  <2>1. PICK m \in 1 .. 5 : Key(a)[m] < Key(b)[m] /\ \A j \in 1 .. 5 : j < m => Key(a)[j] = Key(b)[j]
    BY <1>1, BetterIs
  <2>2. PICK n \in 1 .. 5 : Key(b)[n] < Key(a)[n] /\ \A j \in 1 .. 5 : j < n => Key(b)[j] = Key(a)[j]
    BY <1>1, BetterIs
  <2>3. \A i \in 1 .. 5 : Key(a)[i] \in Int /\ Key(b)[i] \in Int
    BY KeyIs
  <2> QED BY <2>1, <2>2, <2>3
<1>2. ASSUME NEW a \in Copy, NEW b \in Copy, a.id # b.id PROVE Stories!Better(a, b) \/ Stories!Better(b, a)
  <2> DEFINE differ == {i \in 1 .. 5 : Key(a)[i] # Key(b)[i]}
             m == Stories!Min(differ)
  <2>1. differ \in SUBSET (1 .. 5) /\ 5 \in differ
    BY <1>2, KeyIs
  <2> HIDE DEF differ
  <2>2. m \in differ /\ \A n \in differ : m <= n
    BY <2>1, LeastIs
  <2> HIDE DEF m
  <2>3. m \in 1 .. 5 /\ Key(a)[m] # Key(b)[m] /\ \A j \in 1 .. 5 : j < m => Key(a)[j] = Key(b)[j]
    BY <2>2 DEF differ
  <2>4. Key(a)[m] \in Int /\ Key(b)[m] \in Int
    BY <2>3, KeyIs
  <2>5. CASE Key(a)[m] < Key(b)[m]
    BY <2>3, <2>5, BetterIs
  <2>6. CASE Key(b)[m] < Key(a)[m]
    <3>1. \A j \in 1 .. 5 : j < m => Key(b)[j] = Key(a)[j]
      BY <2>3
    <3> QED BY <2>3, <2>6, <3>1, BetterIs
  <2> QED BY <2>3, <2>4, <2>5, <2>6
<1>3. ASSUME NEW a \in Copy, NEW b \in Copy, NEW c \in Copy, Stories!Better(a, b), Stories!Better(b, c)
      PROVE  Stories!Better(a, c)
  <2>1. PICK m \in 1 .. 5 : Key(a)[m] < Key(b)[m] /\ \A j \in 1 .. 5 : j < m => Key(a)[j] = Key(b)[j]
    BY <1>3, BetterIs
  <2>2. PICK n \in 1 .. 5 : Key(b)[n] < Key(c)[n] /\ \A j \in 1 .. 5 : j < n => Key(b)[j] = Key(c)[j]
    BY <1>3, BetterIs
  <2>3. \A i \in 1 .. 5 : Key(a)[i] \in Int /\ Key(b)[i] \in Int /\ Key(c)[i] \in Int
    BY KeyIs
  <2> DEFINE k == IF m < n THEN m ELSE n
  <2>4. k \in 1 .. 5 /\ Key(a)[k] < Key(c)[k] /\ \A j \in 1 .. 5 : j < k => Key(a)[j] = Key(c)[j]
    BY <2>1, <2>2, <2>3
  <2> HIDE DEF k
  <2> QED BY <2>4, BetterIs
<1> QED BY <1>1, <1>2, <1>3

(* The copy that is kept is the best of them, whatever the order they are   *)
(* looked at: the choice is of no other.                                    *)
THEOREM WinnerIsBest ==
  ASSUME NEW copies \in SUBSET Copy, NEW best \in copies,
         \A d \in copies \ {best} : Stories!Better(best, d)
  PROVE  Stories!Winner(copies).id = best.id
<1> DEFINE kept == CHOOSE c \in copies : \A d \in copies \ {c} : Stories!Better(c, d)
<1>1. kept \in copies /\ \A d \in copies \ {kept} : Stories!Better(kept, d)
  OBVIOUS
<1> HIDE DEF kept
<1>2. kept = best
  BY <1>1, CopiesAreOrdered
<1> QED BY <1>2, Zenon DEF Stories!Winner, kept

-----------------------------------------------------------------------------
(* The calendar.  What a page says of its date is kept as a number of days  *)
(* and shown again as a date, by code of two crates.                        *)
Read == INSTANCE Dates
Show == INSTANCE Summaries WITH
  MaxPassages <- 1, MaxContext <- 1, Around <- 1, MaxPassageChars <- 1, SnapChars <- 1, MaxChars <- 1,
  MaxSentences <- 1, RefusalChars <- 1, PhoneDigits <- 1, MaxInput <- 1

LeapYear(year) == year % 4 = 0 /\ (year % 100 # 0 \/ year % 400 = 0)
MonthLength(year, month) ==
  IF month = 2 THEN IF LeapYear(year) THEN 29 ELSE 28 ELSE IF month \in {4, 6, 9, 11} THEN 30 ELSE 31

LEMMA Division ==
  ASSUME NEW a \in Int, NEW d \in Nat \ {0}
  PROVE  /\ a \div d \in Int /\ (a \div d) * d <= a /\ a < (a \div d) * d + d
         /\ a = (a \div d) * d + (a % d) /\ a % d \in Int
BY SMTT(30)

LEMMA QuotientIs ==
  ASSUME NEW a \in Int, NEW d \in Nat \ {0}, NEW q \in Int, q * d <= a, a < q * d + d
  PROVE  a \div d = q
BY SMTT(30)

LEMMA DividedIs ==
  ASSUME NEW d \in Nat \ {0}, NEW q \in Int, NEW r \in 0 .. d - 1
  PROVE  (q * d + r) \div d = q /\ (q * d + r) % d = r
<1> DEFINE x == q * d + r
<1>1. q * d \in Int /\ x \in Int
  OBVIOUS
<1>2. q * d <= x /\ x < q * d + d
  BY <1>1
<1> HIDE DEF x
<1>3. x \div d = q
  BY <1>1, <1>2, QuotientIs
<1>4. x = q * d + (x % d) /\ x % d \in Int
  BY <1>1, <1>3, Division
<1>5. x = q * d + r
  BY DEF x
<1>6. x % d = r
  BY <1>1, <1>4, <1>5
<1> QED BY <1>3, <1>6 DEF x

LEMMA Within ==
  ASSUME NEW n \in Int, NEW m \in Int, 0 <= n, n < m
  PROVE  n \in 0 .. m - 1
OBVIOUS

(* A year of an era by its centuries, their fours of years and the rest.    *)
LEMMA YearParts ==
  ASSUME NEW yoe \in 0 .. 399
  PROVE  \E c \in 0 .. 3, q \in 0 .. 24, r \in 0 .. 3 :
           yoe = 100 * c + 4 * q + r /\ yoe \div 100 = c /\ yoe \div 4 = 25 * c + q
<1> DEFINE c == yoe \div 100
           t == yoe - 100 * c
           q == t \div 4
<1>1. c \in 0 .. 3 /\ t \in 0 .. 99
  BY SMT
<1>2. q \in 0 .. 24 /\ t - 4 * q \in 0 .. 3
  BY <1>1, SMT
<1>3. yoe = 100 * c + 4 * q + (t - 4 * q)
  BY <1>1, <1>2
<1>4. yoe \div 4 = 25 * c + q
  BY <1>1, <1>2, <1>3
<1> HIDE DEF q
<1> QED BY <1>1, <1>2, <1>3, <1>4

(* Only a leap year has a day 365, in its February.                         *)
LEMMA LeapParts ==
  ASSUME NEW era \in Int, NEW c \in 0 .. 3, NEW q \in 0 .. 24, NEW r \in 0 .. 3, NEW year \in Int,
         year = era * 400 + 100 * c + 4 * q + r + 1, LeapYear(year)
  PROVE  r = 3 /\ (q # 24 \/ c = 3)
<1>1. r = 3
  <2>1. year % 4 = 0
    BY DEF LeapYear
  <2> QED BY <2>1
<1>2. ASSUME q = 24, c # 3 PROVE FALSE
  <2>1. year = (4 * era + c + 1) * 100
    BY <1>1, <1>2
  <2>2. year % 100 = 0
    BY <2>1
  <2>3. year % 400 = 0
    BY <2>2 DEF LeapYear
  <2>4. (c + 1) * 100 \in 0 .. 400 - 1 /\ year = era * 400 + (c + 1) * 100
    BY <2>1, <1>2
  <2>5. year % 400 = (c + 1) * 100
    BY <2>4, DividedIs
  <2> QED BY <2>3, <2>5
<1> QED BY <1>1, <1>2

(* A day of an era by the parts of its year, and the year as it is found    *)
(* from the day.                                                            *)
DayAt(c, q, r, doy) == c * 36524 + q * 1461 + r * 365 + doy
YearAt(doe) == (doe - doe \div 1460 + doe \div 36524 - doe \div 146096) \div 365

LEMMA YearIs ==
  ASSUME NEW c \in 0 .. 3, NEW q \in 0 .. 24, NEW r \in 0 .. 3, NEW doy \in 0 .. 365,
         doy = 365 => r = 3 /\ (q # 24 \/ c = 3)
  PROVE  /\ YearAt(DayAt(c, q, r, doy)) = 100 * c + 4 * q + r
         /\ DayAt(c, q, r, doy) \in 0 .. Read!EraDays - 1
<1> DEFINE doe == DayAt(c, q, r, doy)
           t == 24 * c + q + 365 * r + doy
           e == IF t >= 1460 THEN 1 ELSE 0
           yoe == 100 * c + 4 * q + r
           n == doy - e
<1>0. doe \in Int /\ doe = c * 36524 + q * 1461 + r * 365 + doy
  BY DEF DayAt
<1> HIDE DEF doe
<1>1. doe \div 36524 - doe \div 146096 = c
  <2>1. CASE doe = 146096
    <3>1. doe \div 36524 = 4 /\ doe \div 146096 = 1
      BY <2>1
    <3>2. c = 3
      BY <1>0, <2>1
    <3> QED BY <3>1, <3>2
  <2>2. CASE doe # 146096
    <3>1. c * 36524 <= doe /\ doe < c * 36524 + 36524 /\ doe < 146096 /\ 0 <= doe
      BY <1>0, <2>2
    <3>2. doe \div 36524 = c
      BY <1>0, <3>1, QuotientIs
    <3>3. doe \div 146096 = 0
      BY <1>0, <3>1
    <3> QED BY <3>2, <3>3
  <2> QED BY <2>1, <2>2
<1>2. doe \div 1460 = 25 * c + q + e
  <2>1. (25 * c + q + e) * 1460 <= doe /\ doe < (25 * c + q + e) * 1460 + 1460
    BY <1>0
  <2> QED BY <1>0, <2>1, QuotientIs
<1>3. n \in 0 .. 365 - 1 /\ yoe \in Int
  OBVIOUS
<1>4. doe - doe \div 1460 + doe \div 36524 - doe \div 146096 = yoe * 365 + n
  BY <1>0, <1>1, <1>2
<1>5. doe \in 0 .. Read!EraDays - 1
  <2>1. 0 <= doe /\ doe < 146097
    BY <1>0
  <2>2. Read!EraDays = 146097
    BY DEF Read!EraDays
  <2>3. doe < Read!EraDays /\ Read!EraDays \in Int
    BY ONLY <2>1, <2>2
  <2> QED BY ONLY <1>0, <2>1, <2>3, Within
<1> HIDE DEF yoe, n
<1>6. (yoe * 365 + n) \div 365 = yoe
  <2>1. 365 \in Nat \ {0}
    OBVIOUS
  <2> QED BY ONLY <1>3, <2>1, DividedIs
<1>7. YearAt(doe) = yoe
  BY ONLY <1>4, <1>6, SMTT(60) DEF YearAt
<1> QED BY <1>5, <1>7 DEF doe, yoe

(* A date written as a day and read back is the same date: what the parser  *)
(* keeps of a page is what the summary of it says.                          *)
THEOREM DateComesBack ==
  ASSUME NEW year \in Int, NEW month \in 1 .. 12, NEW day \in 1 .. MonthLength(year, month)
  PROVE  Show!CivilFromDays(Read!DaysFromCivil(year, month, day)) = [year |-> year, month |-> month, day |-> day]
<1> DEFINE y   == IF month <= 2 THEN year - 1 ELSE year
           era == y \div 400
           yoe == y - era * 400
           mp  == IF month > 2 THEN month - 3 ELSE month + 9
           doy == Read!DayOfYear(month, day)
           doe == Read!DayOfEra(yoe, doy)
           z   == era * Read!EraDays + doe
<1>1. y \in Int /\ era \in Int /\ yoe \in 0 .. 399 /\ y = era * 400 + yoe
  <2>1. y \in Int /\ 400 \in Nat \ {0}
    OBVIOUS
  <2> HIDE DEF y
  <2>2. era \in Int /\ era * 400 <= y /\ y < era * 400 + 400
    BY <2>1, Division
  <2> HIDE DEF era
  <2> QED BY <2>1, <2>2
<1>2. /\ doy \in 0 .. 365 /\ (doy = 365 => month = 2 /\ LeapYear(year))
      /\ mp \in 0 .. 11 /\ day \in 1 .. 31 /\ (mp \in {1, 3, 6, 8} => day <= 30) /\ (mp = 11 => day <= 29)
      /\ doy = (153 * mp + 2) \div 5 + day - 1
  <2>1. /\ mp \in 0 .. 11 /\ day \in 1 .. 31 /\ (mp \in {1, 3, 6, 8} => day <= 30) /\ (mp = 11 => day <= 29)
        /\ doy = (153 * mp + 2) \div 5 + day - 1 /\ doy \in Int
    BY DEF MonthLength, Read!DayOfYear
  <2>2. mp = 11 /\ day = 29 => month = 2 /\ LeapYear(year)
    BY DEF MonthLength
  <2> HIDE DEF mp, doy
  <2>3. doy \in 0 .. 365 /\ (doy = 365 => mp = 11 /\ day = 29)
    BY ONLY <2>1, SMTT(60)
  <2> QED BY ONLY <2>1, <2>2, <2>3, SMTT(60)
<1>3. month = (IF mp < 10 THEN mp + 3 ELSE mp - 9) /\ year = y + (IF month <= 2 THEN 1 ELSE 0)
  OBVIOUS
<1> HIDE DEF y, era, yoe, mp, doy
<1>4. PICK c \in 0 .. 3, q \in 0 .. 24, r \in 0 .. 3 :
        yoe = 100 * c + 4 * q + r /\ yoe \div 100 = c /\ yoe \div 4 = 25 * c + q
  BY <1>1, YearParts
<1>5. doy = 365 => r = 3 /\ (q # 24 \/ c = 3)
  <2>1. doy = 365 => year = era * 400 + 100 * c + 4 * q + r + 1 /\ LeapYear(year)
    BY <1>1, <1>2, <1>3, <1>4
  <2> QED BY <1>1, <2>1, LeapParts
<1>6. doe = DayAt(c, q, r, doy)
  BY <1>2, <1>4 DEF Read!DayOfEra, DayAt
<1>7. YearAt(doe) = yoe /\ doe \in 0 .. Read!EraDays - 1
  <2> HIDE DEF doe
  <2>1. doy \in 0 .. 365
    BY ONLY <1>2, SMTT(60)
  <2>2. /\ YearAt(DayAt(c, q, r, doy)) = 100 * c + 4 * q + r
        /\ DayAt(c, q, r, doy) \in 0 .. Read!EraDays - 1
    BY <1>5, <2>1, YearIs
  <2> QED BY <1>4, <1>6, <2>2
<1>8. z \div Show!EraDays = era /\ z % Show!EraDays = doe
  <2>1. Read!EraDays = Show!EraDays /\ Read!EraDays \in Nat \ {0}
    BY DEF Read!EraDays, Show!EraDays
  <2> HIDE DEF doe
  <2>2. z \div Read!EraDays = era /\ z % Read!EraDays = doe
    BY <1>1, <1>7, <2>1, DividedIs, ZenonT(60)
  <2> QED BY <2>1, <2>2
<1>9. doe - (365 * yoe + yoe \div 4 - yoe \div 100) = doy
  BY <1>2, <1>4 DEF Read!DayOfEra
<1>10. Read!DaysFromCivil(year, month, day) + Show!EpochDays = z
  <2> DEFINE start == era * Read!EraDays
             shift == Read!EpochDays
  <2>1. Read!DaysFromCivil(year, month, day) = start + (doe - shift) /\ z = start + doe
    BY Zenon DEF Read!DaysFromCivil, y, era, yoe, doy
  <2>2. shift = Show!EpochDays /\ shift \in Int /\ Read!EraDays \in Int
    BY DEF Read!EpochDays, Show!EpochDays, Read!EraDays
  <2> HIDE DEF doe, z, shift
  <2>3. doe \in Int /\ start \in Int
    BY <1>1, <1>7, <2>2
  <2> HIDE DEF start
  <2> QED BY ONLY <2>1, <2>2, <2>3
<1> HIDE DEF z, doe
<1>11. (5 * doy + 2) \div 153 = mp /\ doy - (153 * mp + 2) \div 5 + 1 = day
  BY ONLY <1>2, SMTT(60)
<1>12. yoe + era * 400 + (IF month <= 2 THEN 1 ELSE 0) = year
  BY <1>1, <1>3
<1> QED BY ONLY <1>3, <1>7, <1>8, <1>9, <1>10, <1>11, <1>12, SMTT(60) DEF Show!CivilFromDays, YearAt

(* Days are counted from the start of a year in March.                      *)
DayOf(y, doy) ==
  (y \div 400) * Read!EraDays + Read!DayOfEra(y - (y \div 400) * 400, doy) - Read!EpochDays

LEMMA DayIs ==
  ASSUME NEW year, NEW month, NEW day
  PROVE  Read!DaysFromCivil(year, month, day) =
           DayOf(IF month <= 2 THEN year - 1 ELSE year, Read!DayOfYear(month, day))
BY Zenon DEF Read!DaysFromCivil, DayOf

LEMMA YearOfEra ==
  ASSUME NEW y \in Int
  PROVE  y \div 400 \in Int /\ y - (y \div 400) * 400 \in 0 .. 399
<1>1. 400 \in Nat \ {0}
  OBVIOUS
<1>2. y \div 400 \in Int /\ (y \div 400) * 400 <= y /\ y < (y \div 400) * 400 + 400
  BY <1>1, Division
<1> DEFINE era == y \div 400
<1> HIDE DEF era
<1>3. era \in Int /\ era * 400 <= y /\ y < era * 400 + 400
  BY <1>2 DEF era
<1>4. y - era * 400 \in 0 .. 399
  BY <1>3
<1> QED BY <1>3, <1>4 DEF era

LEMMA ConstantsAre == Read!EraDays \in Int /\ Read!EpochDays \in Int
BY DEF Read!EraDays, Read!EpochDays

(* Within a year the next day is one day later.                             *)
LEMMA NextInYear ==
  ASSUME NEW y \in Int, NEW doy \in Int
  PROVE  DayOf(y, doy + 1) = DayOf(y, doy) + 1
<1> DEFINE era == y \div 400
           yoe == y - era * 400
           start == era * Read!EraDays
           shift == Read!EpochDays
<1>1. era \in Int /\ yoe \in 0 .. 399 /\ shift \in Int
  BY YearOfEra, ConstantsAre
<1>2. start \in Int
  <2> HIDE DEF era
  <2> QED BY <1>1, ConstantsAre
<1>3. DayOf(y, doy) = start + (Read!DayOfEra(yoe, doy) - shift)
      /\ DayOf(y, doy + 1) = start + (Read!DayOfEra(yoe, doy + 1) - shift)
  BY Zenon DEF DayOf
<1> HIDE DEF era, yoe, start, shift
<1>4. Read!DayOfEra(yoe, doy + 1) = Read!DayOfEra(yoe, doy) + 1 /\ Read!DayOfEra(yoe, doy) \in Int
  BY <1>1 DEF Read!DayOfEra
<1> QED BY <1>1, <1>2, <1>3, <1>4

(* The first of March follows the last of February.                         *)
LEMMA NextYear ==
  ASSUME NEW y \in Int
  PROVE  DayOf(y + 1, 0) = DayOf(y, IF LeapYear(y + 1) THEN 365 ELSE 364) + 1
<1> DEFINE era == y \div 400
           yoe == y - era * 400
           last == IF LeapYear(y + 1) THEN 365 ELSE 364
           start == era * Read!EraDays
           shift == Read!EpochDays
<1>1. era \in Int /\ yoe \in 0 .. 399 /\ shift \in Int /\ y = era * 400 + yoe /\ Read!EraDays \in Int
  BY YearOfEra, ConstantsAre
<1>2. start \in Int
  <2> HIDE DEF era
  <2> QED BY <1>1
<1>3. DayOf(y, last) = start + (Read!DayOfEra(yoe, last) - shift)
  BY Zenon DEF DayOf
<1>4. last \in {364, 365} /\ (last = 365 <=> LeapYear(y + 1))
  OBVIOUS
<1> HIDE DEF era, yoe, last
<1>5. CASE yoe < 399
  <2>1. (y + 1) \div 400 = era
    <3>1. 400 \in Nat \ {0} /\ yoe + 1 \in 0 .. 400 - 1 /\ y + 1 = era * 400 + (yoe + 1)
      BY <1>1, <1>5
    <3> QED BY <1>1, <3>1, DividedIs
  <2>2. (y + 1) - ((y + 1) \div 400) * 400 = yoe + 1
    BY <1>1, <2>1
  <2>3. DayOf(y + 1, 0) = start + (Read!DayOfEra(yoe + 1, 0) - shift)
    BY <2>1, <2>2, Zenon DEF DayOf
  <2>4. Read!DayOfEra(yoe + 1, 0) = Read!DayOfEra(yoe, last) + 1 /\ Read!DayOfEra(yoe, last) \in Int
    <3>1. LeapYear(y + 1) <=> (yoe + 1) % 4 = 0 /\ (yoe + 1) % 100 # 0
      BY <1>1, <1>5 DEF LeapYear
    <3>2. yoe + 1 \in 1 .. 399
      BY <1>1, <1>5
    <3>3. (yoe + 1) \div 4 = yoe \div 4 + (IF (yoe + 1) % 4 = 0 THEN 1 ELSE 0)
          /\ (yoe + 1) \div 100 = yoe \div 100 + (IF (yoe + 1) % 100 = 0 THEN 1 ELSE 0)
      BY <1>1
    <3>4. (yoe + 1) % 100 = 0 => (yoe + 1) % 4 = 0
      BY <1>1
    <3> QED BY <1>1, <1>4, <3>1, <3>3, <3>4 DEF Read!DayOfEra
  <2> HIDE DEF start, shift
  <2> QED BY <1>1, <1>2, <1>3, <2>3, <2>4 DEF last
<1>6. CASE yoe = 399
  <2>1. (y + 1) \div 400 = era + 1
    <3>1. 400 \in Nat \ {0} /\ 0 \in 0 .. 400 - 1 /\ y + 1 = (era + 1) * 400 + 0 /\ era + 1 \in Int
      BY <1>1, <1>6
    <3> QED BY <3>1, DividedIs
  <2>2. (y + 1) - ((y + 1) \div 400) * 400 = 0
    BY <1>1, <1>6, <2>1
  <2>3. DayOf(y + 1, 0) = (era + 1) * Read!EraDays + (Read!DayOfEra(0, 0) - shift)
    BY <2>1, <2>2, Zenon DEF DayOf
  <2>4. last = 365
    <3>1. LeapYear(y + 1)
      BY <1>1, <1>6 DEF LeapYear
    <3> QED BY <1>4, <3>1
  <2>5. Read!DayOfEra(yoe, last) = 146096 /\ Read!DayOfEra(0, 0) = 0
    BY <1>6, <2>4 DEF Read!DayOfEra
  <2>6. Read!EraDays = 146096 + 1
    BY DEF Read!EraDays
  <2>7. (era + 1) * Read!EraDays = start + Read!EraDays
    BY <1>1
  <2> HIDE DEF start, shift
  <2> QED BY <1>1, <1>2, <1>3, <2>3, <2>5, <2>6, <2>7 DEF last
<1> QED BY <1>1, <1>5, <1>6 DEF last

(* Days of the year, from March.                                            *)
LEMMA DayAfter ==
  ASSUME NEW month \in 1 .. 12, NEW day \in Int
  PROVE  /\ Read!DayOfYear(month, day) \in Int
         /\ Read!DayOfYear(month, day + 1) = Read!DayOfYear(month, day) + 1
<1> DEFINE before == (153 * (IF month > 2 THEN month - 3 ELSE month + 9) + 2) \div 5
<1>1. before \in Int
  OBVIOUS
<1>2. /\ Read!DayOfYear(month, day) = before + (day - 1)
      /\ Read!DayOfYear(month, day + 1) = before + ((day + 1) - 1)
  BY Zenon DEF Read!DayOfYear
<1> HIDE DEF before
<1> QED BY <1>1, <1>2

LEMMA WinterDays ==
  ASSUME NEW day \in Int
  PROVE  Read!DayOfYear(2, day) = 336 + day /\ Read!DayOfYear(3, day) = day - 1
BY SMTT(30) DEF Read!DayOfYear

LEMMA NextMonth ==
  ASSUME NEW month \in 1 .. 12
  PROVE  /\ month \notin {2, 12} => Read!DayOfYear(month + 1, 1) =
              Read!DayOfYear(month, IF month \in {4, 6, 9, 11} THEN 30 ELSE 31) + 1
         /\ month = 12 => Read!DayOfYear(1, 1) = Read!DayOfYear(month, 31) + 1
<1>1. /\ month = 1 \/ month = 2 \/ month = 3 \/ month = 4 \/ month = 5 \/ month = 6
         \/ month = 7 \/ month = 8 \/ month = 9 \/ month = 10 \/ month = 11 \/ month = 12
  OBVIOUS
<1> QED BY <1>1 DEF Read!DayOfYear

NextDate(year, month, day) ==
  IF day < MonthLength(year, month) THEN <<year, month, day + 1>>
  ELSE IF month < 12 THEN <<year, month + 1, 1>> ELSE <<year + 1, 1, 1>>

(* The days are counted as the calendar has them: the first of January 1970 *)
(* is day 0, and the date after a date is a day later, in every year.       *)
THEOREM DaysAreCounted ==
  /\ Read!DaysFromCivil(1970, 1, 1) = 0
  /\ \A year \in Int, month \in 1 .. 12 : \A day \in 1 .. MonthLength(year, month) :
       LET next == NextDate(year, month, day)
       IN  Read!DaysFromCivil(next[1], next[2], next[3]) = Read!DaysFromCivil(year, month, day) + 1
<1>1. Read!DaysFromCivil(1970, 1, 1) = 0
  BY SMT DEF Read!DaysFromCivil, Read!DayOfYear, Read!DayOfEra, Read!EraDays, Read!EpochDays
<1>2. ASSUME NEW year \in Int, NEW month \in 1 .. 12, NEW day \in 1 .. MonthLength(year, month)
      PROVE  LET next == NextDate(year, month, day)
             IN  Read!DaysFromCivil(next[1], next[2], next[3]) = Read!DaysFromCivil(year, month, day) + 1
  <2> DEFINE y == IF month <= 2 THEN year - 1 ELSE year
             doy == Read!DayOfYear(month, day)
  <2>1. y \in Int /\ doy \in Int /\ day \in Int
    <3>1. MonthLength(year, month) \in Int
      BY DEF MonthLength
    <3>2. day \in Int
      BY <3>1
    <3>3. doy \in Int
      BY <3>2, DayAfter
    <3> QED BY <3>2, <3>3
  <2>2. Read!DaysFromCivil(year, month, day) = DayOf(y, doy)
    BY DayIs, Zenon
  <2>3. CASE day < MonthLength(year, month)
    <3>1. Read!DaysFromCivil(year, month, day + 1) = DayOf(y, doy + 1)
      <4>1. Read!DayOfYear(month, day + 1) = doy + 1
        BY <2>1, DayAfter, ZenonT(30)
      <4> QED BY <4>1, DayIs, Zenon
    <3> HIDE DEF y, doy
    <3>2. DayOf(y, doy + 1) = DayOf(y, doy) + 1
      BY <2>1, NextInYear
    <3>3. NextDate(year, month, day) = <<year, month, day + 1>>
      BY <2>3 DEF NextDate
    <3> QED BY <2>2, <3>1, <3>2, <3>3
  <2>4. CASE day = MonthLength(year, month) /\ month \notin {2, 12}
    <3>1. doy = Read!DayOfYear(month, IF month \in {4, 6, 9, 11} THEN 30 ELSE 31)
      BY <2>4 DEF MonthLength
    <3>2. Read!DayOfYear(month + 1, 1) = doy + 1
      BY <2>4, <3>1, NextMonth
    <3>3. (IF month + 1 <= 2 THEN year - 1 ELSE year) = y
      BY <2>4
    <3>4. Read!DaysFromCivil(year, month + 1, 1) = DayOf(y, doy + 1)
      BY <3>2, <3>3, DayIs, Zenon
    <3>5. NextDate(year, month, day) = <<year, month + 1, 1>>
      BY <2>4 DEF NextDate, MonthLength
    <3> HIDE DEF y, doy
    <3>6. DayOf(y, doy + 1) = DayOf(y, doy) + 1
      BY <2>1, NextInYear
    <3> QED BY <2>2, <3>4, <3>5, <3>6
  <2>5. CASE day = MonthLength(year, month) /\ month = 12
    <3>1. doy = Read!DayOfYear(month, 31) /\ y = year
      BY <2>5 DEF MonthLength
    <3>2. Read!DayOfYear(1, 1) = doy + 1
      BY <2>5, <3>1, NextMonth
    <3>3. (IF 1 <= 2 THEN (year + 1) - 1 ELSE year + 1) = y
      BY <3>1
    <3>4. Read!DaysFromCivil(year + 1, 1, 1) = DayOf(y, doy + 1)
      BY <3>2, <3>3, DayIs, Zenon
    <3>5. NextDate(year, month, day) = <<year + 1, 1, 1>>
      BY <2>5 DEF NextDate, MonthLength
    <3> HIDE DEF y, doy
    <3>6. DayOf(y, doy + 1) = DayOf(y, doy) + 1
      BY <2>1, NextInYear
    <3> QED BY <2>2, <3>4, <3>5, <3>6
  <2>6. CASE day = MonthLength(year, month) /\ month = 2
    <3>1. y \in Int /\ y + 1 = year /\ doy = 336 + day /\ (IF month + 1 <= 2 THEN year - 1 ELSE year) = y + 1
      BY <2>1, <2>6, WinterDays
    <3>2. doy = IF LeapYear(y + 1) THEN 365 ELSE 364
      BY <2>6, <3>1 DEF MonthLength
    <3>3. Read!DayOfYear(month + 1, 1) = 0
      <4>1. month + 1 = 3
        BY <2>6
      <4>2. Read!DayOfYear(3, 1) = 1 - 1
        BY WinterDays
      <4> QED BY <4>1, <4>2
    <3>4. Read!DaysFromCivil(year, month + 1, 1) = DayOf(y + 1, 0)
      BY <3>1, <3>3, DayIs, Zenon
    <3>5. NextDate(year, month, day) = <<year, month + 1, 1>>
      BY <2>6 DEF NextDate, MonthLength
    <3> HIDE DEF y, doy
    <3>6. DayOf(y + 1, 0) = DayOf(y, doy) + 1
      BY <3>1, <3>2, NextYear
    <3> QED BY <2>2, <3>4, <3>5, <3>6
  <2> QED
    <3>1. MonthLength(year, month) \in Int
      BY DEF MonthLength
    <3> QED BY <2>3, <2>4, <2>5, <2>6, <3>1
<1> QED BY <1>1, <1>2
=============================================================================
