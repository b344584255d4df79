-------------------------- MODULE IndexQueueProofs --------------------------
(***************************************************************************)
(* Proofs about IndexQueue, for every finite set of documents of whatever  *)
(* nature, every set of crawl workers and indexers and every limit.        *)
(***************************************************************************)
EXTENDS IndexQueue, FiniteSetTheorems, SequenceTheorems, TLAPS

(* The assumptions on the constants, one fact at a time. *)
LEMMA Assumptions ==
  /\ Nature \in [Docs -> {"sound", "refused", "rejected"}]
  /\ MaxBatch \in Nat /\ MaxAttempts \in Nat /\ MaxLen \in Nat
  /\ MaxAttempts > 1 /\ MaxLen > 0
  /\ ReplayLimit \in Nat /\ CountTo \in Nat /\ MaxFaults \in Nat
  /\ \A c : ~ (c \in Producers /\ c \in Indexers)
  /\ Nobody \notin Indexers /\ IsFiniteSet(Docs)
BY IndexQueueAssumption, AttemptsAssumption DEF Nobody

-----------------------------------------------------------------------------
(* The operations on the stream. *)
Slot == Entry \cup {Acked}

LEMMA SlotType ==
  /\ \A e \in Slot : e # Acked => e \in Entry
  /\ \A e \in Slot : e.status \in {"new", "pending", "idle"} => e \in Entry
  /\ \A e \in Entry : e # Acked /\ e.doc \in Docs /\ e.shape \in {"job", "bare"}
BY DEF Slot, Entry, Acked

LEMMA NewType ==
  ASSUME NEW p \in Payload
  PROVE  New(p) \in Entry /\ New(p).doc = p.doc /\ New(p).shape = p.shape
BY Assumptions DEF New, Entry, Payload

(* What trimming drops, from the front. *)
Cut(s) == IF Len(s) > MaxLen THEN Len(s) - MaxLen ELSE 0

LEMMA TrimKeeps ==
  ASSUME NEW S, NEW s \in Seq(S)
  PROVE  /\ Cut(s) \in 0 .. Len(s)
         /\ Trim(s) \in Seq(S) /\ Len(Trim(s)) <= MaxLen
         /\ Len(Trim(s)) = Len(s) - Cut(s)
         /\ \A i \in 1 .. Len(Trim(s)) : i + Cut(s) \in 1 .. Len(s) /\ Trim(s)[i] = s[i + Cut(s)]
<1>1. Len(s) \in Nat /\ MaxLen \in Nat /\ Cut(s) \in 0 .. Len(s) /\ Len(s) - Cut(s) <= MaxLen
  BY Assumptions DEF Cut
<1>2. Trim(s) = SubSeq(s, Cut(s) + 1, Len(s))
  BY Assumptions DEF Trim, Cut
<1> HIDE DEF Cut
<1> QED BY <1>1, <1>2

(* The stream before it is trimmed. *)
Longer(payloads) == stream \o [n \in DOMAIN payloads |-> New(payloads[n])]

LEMMA LongerType ==
  ASSUME StoreOK, NEW payloads \in Seq(Payload)
  PROVE  /\ Longer(payloads) \in Seq(Slot)
         /\ Len(Longer(payloads)) = Len(stream) + Len(payloads)
         /\ \A i \in 1 .. Len(stream) : Longer(payloads)[i] = stream[i]
         /\ \A i \in 1 .. Len(payloads) : Longer(payloads)[i + Len(stream)] = New(payloads[i])
<1> DEFINE more == [n \in DOMAIN payloads |-> New(payloads[n])]
<1>1. more \in Seq(Slot) /\ Len(more) = Len(payloads) /\ \A n \in 1 .. Len(payloads) : more[n] = New(payloads[n])
  <2>1. \A n \in 1 .. Len(payloads) : New(payloads[n]) \in Slot
    BY NewType DEF Slot
  <2> QED BY <2>1
<1>2. stream \in Seq(Slot)
  BY DEF StoreOK, Slot
<1> HIDE DEF more
<1>3. Longer(payloads) = stream \o more
  BY DEF Longer, more
<1>4. Longer(payloads) \in Seq(Slot) /\ Len(Longer(payloads)) = Len(stream) + Len(more)
  BY <1>1, <1>2, <1>3, ConcatProperties
<1>5. \A i \in 1 .. Len(stream) + Len(more) :
        Longer(payloads)[i] = IF i <= Len(stream) THEN stream[i] ELSE more[i - Len(stream)]
  BY <1>1, <1>2, <1>3, ConcatProperties
<1>6. \A i \in 1 .. Len(payloads) : Longer(payloads)[i + Len(stream)] = New(payloads[i])
  BY <1>1, <1>2, <1>5
<1>7. \A i \in 1 .. Len(stream) : Longer(payloads)[i] = stream[i]
  BY <1>1, <1>2, <1>5
<1> QED BY <1>1, <1>4, <1>6, <1>7

LEMMA UnackedType == ASSUME NEW s \in Seq(Slot) PROVE Unacked(s) \subseteq Docs
BY SlotType DEF Unacked

LEMMA ProduceType ==
  ASSUME StoreOK, NEW payloads \in Seq(Payload), Produce(payloads)
  PROVE  /\ stream' = Trim(Longer(payloads))
         /\ stream' \in Seq(Slot) /\ Len(stream') <= MaxLen
         /\ trimmed \subseteq Docs => trimmed' \subseteq Docs
<1>1. /\ stream' = Trim(Longer(payloads))
      /\ trimmed' = trimmed \cup (Unacked(Longer(payloads)) \ Unacked(Trim(Longer(payloads))))
  BY DEF Produce, Longer
<1>2. Unacked(Longer(payloads)) \subseteq Docs
  BY LongerType, UnackedType
<1> QED BY <1>1, <1>2, LongerType, TrimKeeps

(* What writing a letter does: the newest stays, and of the others only what *)
(* is recorded as erased may be gone.                                       *)
LEMMA WriteIs ==
  ASSUME StoreOK, NEW l \in Payload, Write(l)
  PROVE  /\ dead' \in Seq(Payload) /\ Len(dead') <= MaxLen
         /\ \A n \in DOMAIN dead' : dead'[n] = l \/ \E m \in DOMAIN dead : dead'[n] = dead[m]
         /\ \E n \in DOMAIN dead' : dead'[n] = l
         /\ \A n \in DOMAIN dead : \/ \E m \in DOMAIN dead' : dead'[m].doc = dead[n].doc
                                   \/ dead[n].doc \in erased'
         /\ erased \subseteq erased'
         /\ erased \subseteq Docs => erased' \subseteq Docs
<1> DEFINE all == Append(dead, l)
           c == Cut(all)
<1>1. /\ all \in Seq(Payload) /\ Len(all) = Len(dead) + 1 /\ Len(dead) \in Nat
      /\ DOMAIN all = 1 .. Len(dead) + 1 /\ DOMAIN dead = 1 .. Len(dead)
      /\ all[Len(dead) + 1] = l /\ \A n \in DOMAIN dead : all[n] = dead[n]
  BY DEF StoreOK
<1>2. /\ dead' = Trim(all)
      /\ erased' = erased \cup (LettersOf(all) \ LettersOf(dead'))
  BY DEF Write
<1> HIDE DEF all
<1>3. /\ c \in 0 .. Len(all) /\ dead' \in Seq(Payload) /\ Len(dead') <= MaxLen
      /\ Len(dead') = Len(all) - c /\ c < Len(all)
      /\ \A i \in 1 .. Len(dead') : i + c \in 1 .. Len(all) /\ dead'[i] = all[i + c]
  <2>1. c < Len(all)
    BY <1>1, Assumptions DEF Cut
  <2> QED BY <1>1, <1>2, <2>1, TrimKeeps
<1> HIDE DEF c
<1>4. DOMAIN dead' = 1 .. Len(dead')
  BY <1>3
<1>5. \A n \in DOMAIN all : all[n] = l \/ \E m \in DOMAIN dead : all[n] = dead[m]
  BY <1>1
<1>6. ASSUME NEW n \in DOMAIN dead' PROVE dead'[n] = l \/ \E m \in DOMAIN dead : dead'[n] = dead[m]
  <2>1. n + c \in DOMAIN all /\ dead'[n] = all[n + c]
    BY <1>1, <1>3, <1>4
  <2> QED BY <1>5, <2>1
<1>7. \E n \in DOMAIN dead' : dead'[n] = l
  <2>1. Len(dead') \in DOMAIN dead' /\ Len(dead') + c = Len(dead) + 1
    BY <1>1, <1>3, <1>4
  <2>2. dead'[Len(dead')] = l
    BY <1>1, <1>3, <1>4, <2>1
  <2> QED BY <2>1, <2>2
<1>8. \A n \in DOMAIN dead : dead[n].doc \in LettersOf(all)
  BY <1>1 DEF LettersOf
<1>9. \A d \in LettersOf(dead') : \E m \in DOMAIN dead' : dead'[m].doc = d
  BY DEF LettersOf
<1>10. LettersOf(all) \subseteq Docs
  <2>1. \A n \in DOMAIN all : all[n] \in Payload
    BY <1>1
  <2> QED BY <2>1 DEF LettersOf, Payload
<1>11. \A n \in DOMAIN dead : \/ \E m \in DOMAIN dead' : dead'[m].doc = dead[n].doc
                              \/ dead[n].doc \in erased'
  <2> SUFFICES ASSUME NEW n \in DOMAIN dead, dead[n].doc \notin erased'
               PROVE  \E m \in DOMAIN dead' : dead'[m].doc = dead[n].doc
    OBVIOUS
  <2>1. dead[n].doc \in LettersOf(dead')
    BY <1>2, <1>8
  <2> QED BY <1>9, <2>1, Zenon
<1> QED BY <1>2, <1>3, <1>6, <1>7, <1>10, <1>11

LEMMA DeliverType ==
  ASSUME StoreOK, NEW I, I \subseteq With("new") \cup With("idle"), Deliver(I)
  PROVE  /\ stream' \in Seq(Slot) /\ Len(stream') = Len(stream)
         /\ \A i \in DOMAIN stream : /\ stream'[i] = Acked <=> stream[i] = Acked
                                     /\ stream[i] # Acked => /\ stream'[i].doc = stream[i].doc
                                                             /\ stream'[i].shape = stream[i].shape
<1> DEFINE after(i) == [stream[i] EXCEPT !.status = "pending",
                                     !.times = IF @ < CountTo THEN @ + 1 ELSE @]
<1>1. \A i \in I : i \in DOMAIN stream /\ stream[i] \in Entry
  BY SlotType DEF With, StoreOK, Slot
<1>2. ASSUME NEW i \in I
      PROVE  after(i) \in Entry /\ after(i).doc = stream[i].doc /\ after(i).shape = stream[i].shape
  <2>1. stream[i].times \in 0 .. CountTo
    BY <1>1 DEF Entry
  <2>2. (IF stream[i].times < CountTo THEN stream[i].times + 1 ELSE stream[i].times) \in 0 .. CountTo
    BY <2>1, Assumptions
  <2> DEFINE times == IF stream[i].times < CountTo THEN stream[i].times + 1 ELSE stream[i].times
  <2>3. after(i) = [stream[i] EXCEPT !.status = "pending", !.times = times]
    OBVIOUS
  <2>4. times \in 0 .. CountTo
    BY <2>2
  <2> HIDE DEF times, after
  <2> QED BY <1>1, <2>3, <2>4 DEF Entry
<1>3. stream' = [i \in DOMAIN stream |-> IF i \in I THEN after(i) ELSE stream[i]]
  BY DEF Deliver
<1> HIDE DEF after
<1>4. stream \in Seq(Slot) /\ \A i \in I : after(i) \in Slot
  BY <1>2 DEF StoreOK, Slot
<1> QED BY <1>1, <1>2, <1>3, <1>4, SlotType DEF Slot

LEMMA AckedDocsType ==
  ASSUME StoreOK, NEW docs, stream' = AckedDocs(docs)
  PROVE  /\ stream' \in Seq(Slot) /\ Len(stream') = Len(stream)
         /\ \A i \in DOMAIN stream : \/ stream'[i] = stream[i]
                                     \/ stream'[i] = Acked /\ stream[i].shape = "job" /\ stream[i].doc \in docs
<1>1. stream \in Seq(Slot) /\ Acked \in Slot /\ DOMAIN stream = 1 .. Len(stream)
  BY DEF StoreOK, Slot
<1>2. \A i \in DOMAIN stream : stream'[i] = IF /\ stream[i].status \in {"pending", "idle"}
                                               /\ stream[i].shape = "job"
                                               /\ stream[i].doc \in docs
                                            THEN Acked ELSE stream[i]
  BY DEF AckedDocs
<1>3. DOMAIN stream' = 1 .. Len(stream) /\ stream' = [i \in 1 .. Len(stream) |-> stream'[i]]
  BY <1>1 DEF AckedDocs
<1>4. \A i \in 1 .. Len(stream) : stream'[i] \in Slot
  BY <1>1, <1>2
<1> QED BY <1>1, <1>2, <1>3, <1>4

LEMMA AgeType ==
  ASSUME StoreOK, NEW d, Age(d)
  PROVE  /\ stream' \in Seq(Slot) /\ Len(stream') = Len(stream)
         /\ \A i \in DOMAIN stream : /\ stream'[i] = Acked <=> stream[i] = Acked
                                     /\ stream[i] # Acked => /\ stream'[i].doc = stream[i].doc
                                                             /\ stream'[i].shape = stream[i].shape
<1>1. PICK i \in With("pending") : stream' = [stream EXCEPT ![i].status = "idle"]
  BY DEF Age
<1>2. i \in DOMAIN stream /\ stream[i] \in Entry
  BY SlotType DEF With, StoreOK, Slot
<1>3. [stream[i] EXCEPT !.status = "idle"] \in Entry
  BY <1>2 DEF Entry
<1>4. stream' = [stream EXCEPT ![i] = [stream[i] EXCEPT !.status = "idle"]]
  BY <1>1, <1>2
<1> QED BY <1>2, <1>3, <1>4, SlotType DEF StoreOK, Slot, Entry

-----------------------------------------------------------------------------
(* The engine's tasks and the letters. *)
Task == [docs : SUBSET Docs, by : Indexers \cup {Nobody}]

LEMMA OrphanedType ==
  ASSUME StoreOK, NEW w
  PROVE  /\ Orphaned(w) \in Seq(Task) /\ Len(Orphaned(w)) = Len(tasks)
         /\ \A n \in 1 .. Len(tasks) : /\ Orphaned(w)[n].docs = tasks[n].docs
                                       /\ Orphaned(w)[n].by = IF tasks[n].by = w THEN Nobody ELSE tasks[n].by
<1> DEFINE after(n) == IF tasks[n].by = w THEN [tasks[n] EXCEPT !.by = Nobody] ELSE tasks[n]
<1>1. tasks \in Seq(Task)
  BY DEF StoreOK, Task
<1>2. ASSUME NEW n \in 1 .. Len(tasks)
      PROVE  /\ after(n) \in Task /\ after(n).docs = tasks[n].docs
             /\ after(n).by = IF tasks[n].by = w THEN Nobody ELSE tasks[n].by
  <2>1. tasks[n] \in Task
    BY <1>1
  <2> QED BY <2>1 DEF Task
<1>3. Orphaned(w) = [n \in DOMAIN tasks |-> after(n)]
  BY DEF Orphaned
<1> HIDE DEF after
<1> QED BY <1>1, <1>2, <1>3

LEMMA RemovedType ==
  ASSUME NEW S, NEW s \in Seq(S), NEW n \in DOMAIN s
  PROVE  /\ RemoveAt(s, n) \in Seq(S) /\ Len(RemoveAt(s, n)) = Len(s) - 1
         /\ \A i \in 1 .. Len(s) - 1 : RemoveAt(s, n)[i] = s[IF i < n THEN i ELSE i + 1]
<1> DEFINE a == SubSeq(s, 1, n - 1)
           b == SubSeq(s, n + 1, Len(s))
<1>1. n \in 1 .. Len(s) /\ Len(s) \in Nat
  OBVIOUS
<1>2. a \in Seq(S) /\ Len(a) = n - 1 /\ \A i \in 1 .. n - 1 : a[i] = s[i]
  BY <1>1
<1>3. b \in Seq(S) /\ Len(b) = Len(s) - n /\ \A i \in 1 .. Len(s) - n : b[i] = s[i + n]
  BY <1>1
<1>4. RemoveAt(s, n) = a \o b
  BY DEF RemoveAt
<1> HIDE DEF a, b
<1>5. a \o b \in Seq(S) /\ Len(a \o b) = Len(a) + Len(b)
  BY <1>2, <1>3, ConcatProperties
<1>6. \A i \in 1 .. Len(a) + Len(b) : (a \o b)[i] = IF i <= Len(a) THEN a[i] ELSE b[i - Len(a)]
  BY <1>2, <1>3, ConcatProperties
<1>7. ASSUME NEW i \in 1 .. Len(s) - 1 PROVE (a \o b)[i] = s[IF i < n THEN i ELSE i + 1]
  <2>1. CASE i < n
    BY <1>1, <1>2, <1>3, <1>6, <2>1
  <2>2. CASE ~ (i < n)
    BY <1>1, <1>2, <1>3, <1>6, <2>2, SMTT(60)
  <2> QED BY <2>1, <2>2
<1>8. a \o b \in Seq(S) /\ Len(a \o b) = Len(s) - 1
  BY <1>1, <1>2, <1>3, <1>5
<1> QED BY <1>4, <1>7, <1>8, Zenon

(* Letters are bare as long as nothing is delivered more often than         *)
(* MaxAttempts, and nothing ever is.                                        *)
LEMMA RefusedIs ==
  ASSUME NEW docs \in SUBSET Docs, NEW attempts \in {1, 2}
  PROVE  Refused(docs, attempts) = {Letter(d) : d \in {e \in docs : Nature[e] = "refused"}}
BY Assumptions DEF Refused

LEMMA LetterType == \A d \in Docs : Letter(d) \in Payload /\ Letter(d).doc = d /\ Letter(d).shape = "bare"
BY DEF Letter, Payload

LEMMA JobsType ==
  ASSUME StoreOK, NEW I, I \subseteq With("new") \cup With("idle")
  PROVE  Jobs(I) \subseteq Docs
BY SlotType DEF Jobs, With, StoreOK, Slot

LEMMA EarliestType == \A I, n : Earliest(I, n) \subseteq I
BY DEF Earliest

(* What a delivery does. *)
Received(w, I) ==
  \E bad \in SUBSET Docs : \E P \in SUBSET (SUBSET Docs) :
    /\ refused' = [refused EXCEPT ![w] = {Letter(d) : d \in bad}]
    /\ \A d \in bad : Nature[d] = "refused"
    /\ chunks' = [chunks EXCEPT ![w] = P]
    /\ bad \cup UNION P \subseteq Jobs(I)
    /\ \A d \in UNION P : Nature[d] # "refused"

LEMMA ReceiveIs ==
  ASSUME StoreOK, NEW w, NEW I, I \subseteq With("new") \cup With("idle"),
         NEW attempts \in {1, 2}, NEW else, Receive(w, I, attempts, else)
  PROVE  Deliver(I) /\ Received(w, I) /\ (Goto(w, else) \/ Goto(w, Busy(w)))
<1> DEFINE bad == {e \in Jobs(I) : Nature[e] = "refused"}
<1>1. Refused(Jobs(I), attempts) = {Letter(d) : d \in bad}
  BY RefusedIs, JobsType
<1>2. PICK P \in Partitions(Jobs(I) \ {l.doc : l \in Refused(Jobs(I), attempts)}) :
        chunks' = [chunks EXCEPT ![w] = P]
  BY DEF Receive
<1>3. UNION P \subseteq Jobs(I) /\ \A d \in UNION P : Nature[d] # "refused"
  <2>1. UNION P = Jobs(I) \ {l.doc : l \in {Letter(d) : d \in bad}}
    BY <1>1, <1>2 DEF Partitions
  <2>2. ASSUME NEW d \in bad PROVE d \in {l.doc : l \in {Letter(e) : e \in bad}}
    <3>1. Letter(d) \in {Letter(e) : e \in bad} /\ Letter(d).doc = d
      BY DEF Letter
    <3> QED BY <3>1
  <2> QED BY <2>1, <2>2
<1>4. refused' = [refused EXCEPT ![w] = {Letter(d) : d \in bad}]
  BY <1>1 DEF Receive
<1>5. bad \in SUBSET Docs /\ P \in SUBSET (SUBSET Docs)
  BY <1>3, JobsType
<1>6. Goto(w, else) \/ Goto(w, Busy(w))
  BY DEF Receive, Goto
<1>7. /\ \A d \in bad : Nature[d] = "refused"
      /\ bad \cup UNION P \subseteq Jobs(I)
      /\ \A d \in UNION P : Nature[d] # "refused"
  BY <1>3
<1>8. Deliver(I)
  BY DEF Receive
<1> HIDE DEF bad
<1>9. \E Q \in SUBSET (SUBSET Docs) :
        /\ refused' = [refused EXCEPT ![w] = {Letter(d) : d \in bad}]
        /\ \A d \in bad : Nature[d] = "refused"
        /\ chunks' = [chunks EXCEPT ![w] = Q]
        /\ bad \cup UNION Q \subseteq Jobs(I)
        /\ \A d \in UNION Q : Nature[d] # "refused"
  BY <1>2, <1>4, <1>5, <1>7, Zenon
<1>10. Received(w, I)
  BY <1>5, <1>9, Zenon DEF Received
<1> QED BY <1>6, <1>8, <1>10

LEMMA BusyType == \A w : Busy(w) \in Indexing
BY DEF Busy, Indexing

-----------------------------------------------------------------------------
LEMMA TypeInit == Init => TypeOK
<1> SUFFICES ASSUME Init PROVE TypeOK
  OBVIOUS
<1>1. StoreOK
  BY Assumptions, EmptySeq DEF Init, StoreOK
<1>2. LocalOK
  BY Assumptions DEF Init, LocalOK, Crawling, Indexing
<1>4. faults \in 0 .. MaxFaults
  BY Assumptions DEF Init
<1>3. HistoryOK
  BY <1>4 DEF Init, HistoryOK
<1> QED BY <1>1, <1>2, <1>3 DEF TypeOK

LEMMA GotoType ==
  ASSUME LocalOK, NEW w \in Indexers, NEW label \in Indexing, Goto(w, label)
  PROVE  /\ pc' \in [Producers \cup Indexers -> Crawling \cup Indexing]
         /\ \A p \in Producers : pc'[p] \in Crawling
         /\ \A v \in Indexers : pc'[v] \in Indexing
BY Assumptions DEF LocalOK, Goto

LEMMA ReceiveType ==
  ASSUME TypeOK, NEW w \in Indexers, NEW I, I \subseteq With("new") \cup With("idle"),
         NEW attempts \in {1, 2}, NEW else \in Indexing, Receive(w, I, attempts, else),
         UNCHANGED <<dead, tasks, index, chunk, letters, replay, known, trimmed, erased, faults, blind, blamed>>
  PROVE  TypeOK'
<1>1. Deliver(I) /\ Received(w, I) /\ (Goto(w, else) \/ Goto(w, Busy(w)))
  BY ReceiveIs DEF TypeOK
<1>2. PICK bad \in SUBSET Docs, P \in SUBSET (SUBSET Docs) :
        /\ refused' = [refused EXCEPT ![w] = {Letter(d) : d \in bad}]
        /\ chunks' = [chunks EXCEPT ![w] = P]
  BY <1>1 DEF Received
<1>3. stream' \in Seq(Slot) /\ Len(stream') = Len(stream)
  BY <1>1, DeliverType DEF TypeOK
<1>4. StoreOK'
  BY <1>3 DEF TypeOK, StoreOK, Slot
<1>5. {Letter(d) : d \in bad} \subseteq Payload
  BY LetterType
<1>6. LocalOK'
  BY <1>1, <1>2, <1>5, GotoType, BusyType DEF TypeOK, LocalOK
<1>7. HistoryOK'
  BY DEF TypeOK, HistoryOK
<1> QED BY <1>4, <1>6, <1>7 DEF TypeOK

LEMMA TypeNext == TypeOK /\ [Next]_vars => TypeOK'
<1> SUFFICES ASSUME TypeOK, [Next]_vars PROVE TypeOK'
  OBVIOUS
<1>1. ASSUME NEW p \in Producers, CheckLag(p) PROVE TypeOK'
  <2>1. pc' = [pc EXCEPT ![p] = "produce"]
    BY <1>1 DEF CheckLag, Goto
  <2>2. LocalOK'
    BY <1>1, <2>1, Assumptions DEF CheckLag, TypeOK, LocalOK, Crawling
  <2>5. faults' \in 0 .. MaxFaults
    BY <1>1, Assumptions DEF CheckLag, Fault, TypeOK, HistoryOK
  <2>6. blind' = blind \/ blind' = TRUE
    BY <1>1 DEF CheckLag
  <2>3. HistoryOK'
    BY <1>1, <2>5, <2>6, Zenon DEF CheckLag, TypeOK, HistoryOK
  <2>4. StoreOK'
    BY <1>1 DEF CheckLag, TypeOK, StoreOK
  <2> QED BY <2>2, <2>3, <2>4 DEF TypeOK
<1>2. ASSUME NEW p \in Producers, QueueDocument(p) PROVE TypeOK'
  <2>1. pc' = [pc EXCEPT ![p] = "check"]
    BY <1>2 DEF QueueDocument, Goto
  <2>2. LocalOK'
    BY <1>2, <2>1, Assumptions DEF QueueDocument, TypeOK, LocalOK, Crawling
  <2>3. /\ stream' \in Seq(Slot) /\ Len(stream') <= MaxLen /\ trimmed' \subseteq Docs
        /\ known' \subseteq Docs /\ faults' \in 0 .. MaxFaults
    <3>1. CASE Fault /\ UNCHANGED <<stream, known, trimmed>>
      BY <3>1, Assumptions DEF TypeOK, StoreOK, HistoryOK, Fault, Slot
    <3>2. CASE \E d \in Docs \ known : /\ Produce(<<[doc |-> d, shape |-> "job"]>>)
                                       /\ known' = known \cup {d}
                                       /\ UNCHANGED faults
      <4>1. PICK d \in Docs \ known : /\ Produce(<<[doc |-> d, shape |-> "job"]>>)
                                      /\ known' = known \cup {d}
                                      /\ UNCHANGED faults
        BY <3>2
      <4>2. <<[doc |-> d, shape |-> "job"]>> \in Seq(Payload)
        BY DEF Payload
      <4> QED BY <4>1, <4>2, ProduceType DEF TypeOK, HistoryOK
    <3> QED BY <1>2, <3>1, <3>2 DEF QueueDocument
  <2>4. StoreOK'
    BY <1>2, <2>3 DEF QueueDocument, TypeOK, StoreOK, Slot
  <2>5. HistoryOK'
    BY <1>2, <2>3 DEF QueueDocument, TypeOK, HistoryOK
  <2> QED BY <2>2, <2>4, <2>5 DEF TypeOK
<1>3. ASSUME NEW w \in Indexers, Reclaim(w) PROVE TypeOK'
  BY <1>3, ReceiveType, EarliestType DEF Reclaim, Indexing
<1>4. ASSUME NEW w \in Indexers, Consume(w) PROVE TypeOK'
  BY <1>4, ReceiveType, EarliestType DEF Consume, Indexing
<1>5. ASSUME NEW w \in Indexers, Bury(w) PROVE TypeOK'
  <2>1. PICK l \in refused[w] : Write(l) /\ chunk' = [chunk EXCEPT ![w] = {l.doc}]
    BY <1>5 DEF Bury
  <2>2. l \in Payload /\ l.doc \in Docs
    BY DEF TypeOK, LocalOK, Payload
  <2>7. dead' \in Seq(Payload) /\ Len(dead') <= MaxLen /\ (erased \subseteq Docs => erased' \subseteq Docs)
    BY <2>1, <2>2, WriteIs DEF TypeOK
  <2>3. StoreOK'
    BY <1>5, <2>7 DEF Bury, TypeOK, StoreOK
  <2>4. Goto(w, "ack") /\ "ack" \in Indexing
    BY <1>5 DEF Bury, Indexing
  <2>5. LocalOK'
    BY <1>5, <2>1, <2>2, <2>4, GotoType DEF Bury, TypeOK, LocalOK
  <2>6. HistoryOK'
    BY <1>5, <2>7 DEF Bury, TypeOK, HistoryOK
  <2> QED BY <2>3, <2>5, <2>6 DEF TypeOK
<1>6. ASSUME NEW w \in Indexers, Submit(w) PROVE TypeOK'
  <2>1. PICK c \in chunks[w] : /\ tasks' = Append(tasks, [docs |-> c, by |-> w])
                               /\ chunk' = [chunk EXCEPT ![w] = c]
                               /\ chunks' = [chunks EXCEPT ![w] = @ \ {c}]
    BY <1>6 DEF Submit
  <2>2. c \in SUBSET Docs /\ chunks[w] \in SUBSET (SUBSET Docs)
    BY DEF TypeOK, LocalOK
  <2>3. StoreOK'
    BY <1>6, <2>1, <2>2 DEF Submit, TypeOK, StoreOK
  <2>4. Goto(w, "wait") /\ "wait" \in Indexing
    BY <1>6 DEF Submit, Indexing
  <2>5. LocalOK'
    BY <1>6, <2>1, <2>2, <2>4, GotoType DEF Submit, TypeOK, LocalOK
  <2>6. HistoryOK'
    BY <1>6 DEF Submit, TypeOK, HistoryOK
  <2> QED BY <2>3, <2>5, <2>6 DEF TypeOK
<1>7. ASSUME NEW w \in Indexers, Ack(w) PROVE TypeOK'
  <2>1. stream' \in Seq(Slot) /\ Len(stream') = Len(stream)
    BY <1>7, AckedDocsType DEF Ack, TypeOK
  <2>2. StoreOK'
    BY <1>7, <2>1 DEF Ack, TypeOK, StoreOK, Slot
  <2>3. Goto(w, Busy(w)) /\ Busy(w) \in Indexing
    BY <1>7, BusyType DEF Ack
  <2>4. LocalOK'
    BY <1>7, <2>3, GotoType DEF Ack, TypeOK, LocalOK
  <2>5. HistoryOK'
    BY <1>7 DEF Ack, TypeOK, HistoryOK
  <2> QED BY <2>2, <2>4, <2>5 DEF TypeOK
<1>8. ASSUME NEW w \in Indexers, Split(w) PROVE TypeOK'
  <2>1. StoreOK' /\ HistoryOK'
    BY <1>8 DEF Split, TypeOK, StoreOK, HistoryOK
  <2>2. Goto(w, Busy(w)) /\ Busy(w) \in Indexing
    BY <1>8, BusyType DEF Split
  <2>3. {Letter(d) : d \in chunk[w]} \subseteq Payload
    BY LetterType DEF TypeOK, LocalOK
  <2>4. refused' \in [Indexers -> SUBSET Payload]
    BY <1>8, <2>3 DEF Split, TypeOK, LocalOK
  <2>5. chunks' \in [Indexers -> SUBSET (SUBSET Docs)]
    <3>1. chunk[w] \subseteq Docs /\ chunks[w] \subseteq SUBSET Docs
      BY DEF TypeOK, LocalOK
    <3>2. chunks' = chunks \/ \E left \in SUBSET chunk[w] :
             chunks' = [chunks EXCEPT ![w] = chunks[w] \cup {left, chunk[w] \ left}]
      BY <1>8 DEF Split
    <3> QED BY <3>1, <3>2 DEF TypeOK, LocalOK
  <2>6. chunk' \in [Indexers -> SUBSET Docs] /\ replay' = replay
    BY <1>8 DEF Split, TypeOK, LocalOK
  <2>7. LocalOK'
    BY <2>2, <2>4, <2>5, <2>6, GotoType DEF TypeOK, LocalOK
  <2> QED BY <2>1, <2>7 DEF TypeOK
<1>9. ASSUME NEW w \in Indexers, GiveUp(w) PROVE TypeOK'
  <2>1. tasks' \in Seq(Task)
    <3>1. tasks \in Seq(Task)
      BY DEF TypeOK, StoreOK, Task
    <3>2. CASE tasks' = Orphaned(w)
      BY <3>2, OrphanedType DEF TypeOK
    <3>3. CASE \E n \in DOMAIN tasks : tasks' = RemoveAt(tasks, n)
      BY <3>1, <3>3, RemovedType
    <3> QED BY <1>9, <3>2, <3>3 DEF GiveUp, NoAnswer
  <2>2. StoreOK'
    BY <1>9, <2>1 DEF GiveUp, TypeOK, StoreOK, Task
  <2>3. Goto(w, Busy(w)) /\ Busy(w) \in Indexing
    BY <1>9, BusyType DEF GiveUp
  <2>4. LocalOK'
    BY <1>9, <2>3, GotoType DEF GiveUp, TypeOK, LocalOK
  <2>5. HistoryOK'
    BY <1>9, Assumptions DEF GiveUp, Fault, TypeOK, HistoryOK
  <2> QED BY <2>2, <2>4, <2>5 DEF TypeOK
<1>17. ASSUME NEW w \in Indexers, Misread(w) PROVE TypeOK'
  <2>1. tasks' \in Seq(Task)
    <3>1. tasks \in Seq(Task)
      BY DEF TypeOK, StoreOK, Task
    <3>2. CASE tasks' = Orphaned(w)
      BY <3>2, OrphanedType DEF TypeOK
    <3>3. CASE \E n \in DOMAIN tasks : tasks' = RemoveAt(tasks, n)
      BY <3>1, <3>3, RemovedType
    <3> QED BY <1>17, <3>2, <3>3 DEF Misread, NoAnswer
  <2>2. StoreOK'
    BY <1>17, <2>1 DEF Misread, TypeOK, StoreOK, Task
  <2>3. Goto(w, "split") /\ "split" \in Indexing
    BY <1>17 DEF Misread, Indexing
  <2>4. LocalOK'
    BY <1>17, <2>3, GotoType DEF Misread, TypeOK, LocalOK
  <2>5. blamed' \subseteq blamed \cup chunk[w] /\ chunk[w] \subseteq Docs
    BY <1>17 DEF Misread, TypeOK, LocalOK
  <2>6. HistoryOK'
    BY <1>17, <2>5, Assumptions DEF Misread, Fault, TypeOK, HistoryOK
  <2> QED BY <2>2, <2>4, <2>6 DEF TypeOK
<1>10. ASSUME NEW w \in Indexers, Crash(w) PROVE TypeOK'
  <2>1. tasks' \in Seq(Task)
    BY <1>10, OrphanedType DEF Crash, TypeOK
  <2>2. StoreOK'
    BY <1>10, <2>1 DEF Crash, TypeOK, StoreOK, Task
  <2>3. Goto(w, "reclaim") /\ "reclaim" \in Indexing
    BY <1>10 DEF Crash, Indexing
  <2>4. LocalOK'
    BY <1>10, <2>3, GotoType DEF Crash, TypeOK, LocalOK
  <2>5. HistoryOK'
    BY <1>10, Assumptions DEF Crash, Fault, TypeOK, HistoryOK
  <2> QED BY <2>2, <2>4, <2>5 DEF TypeOK
<1>11. CASE RunTask
  <2> DEFINE t == Head(tasks)
  <2>7. tasks \in Seq(Task) /\ tasks # <<>>
    BY <1>11 DEF RunTask, TypeOK, StoreOK, Task
  <2>1. t \in Task /\ Tail(tasks) \in Seq(Task)
    BY <2>7
  <2>2. index' \subseteq Docs
    BY <1>11, <2>1 DEF RunTask, TypeOK, StoreOK, Task
  <2>3. StoreOK'
    BY <1>11, <2>1, <2>2 DEF RunTask, TypeOK, StoreOK, Task
  <2>4. pc' = pc \/ \E label \in Indexing : t.by \in Indexers /\ Goto(t.by, label)
    BY <1>11, <2>1 DEF RunTask, Task, Goto, Indexing
  <2>5. LocalOK'
    BY <1>11, <2>4, GotoType DEF RunTask, TypeOK, LocalOK
  <2>6. HistoryOK'
    BY <1>11 DEF RunTask, TypeOK, HistoryOK
  <2> QED BY <2>3, <2>5, <2>6 DEF TypeOK
<1>12. ASSUME NEW d \in Docs, Age(d) PROVE TypeOK'
  <2>1. stream' \in Seq(Slot) /\ Len(stream') = Len(stream)
    BY <1>12, AgeType DEF TypeOK
  <2>2. StoreOK'
    BY <1>12, <2>1 DEF Age, TypeOK, StoreOK, Slot
  <2>3. LocalOK' /\ HistoryOK'
    BY <1>12 DEF Age, TypeOK, LocalOK, HistoryOK
  <2> QED BY <2>2, <2>3 DEF TypeOK
<1>13. CASE Peek
  <2>1. letters' \in Seq(Payload)
    <3> DEFINE newest == SubSeq(dead, IF Len(dead) > ReplayLimit THEN Len(dead) - ReplayLimit + 1 ELSE 1, Len(dead))
    <3>1. newest \in Seq(Payload)
      BY Assumptions DEF TypeOK, StoreOK
    <3>2. letters' = Reverse(newest)
      BY <1>13 DEF Peek
    <3> HIDE DEF newest
    <3> QED BY <3>1, <3>2 DEF Reverse
  <2>2. StoreOK' /\ LocalOK' /\ HistoryOK'
    BY <1>13, <2>1 DEF Peek, TypeOK, StoreOK, LocalOK, HistoryOK
  <2> QED BY <2>2 DEF TypeOK
<1>14. CASE Requeue
  <2>1. stream' \in Seq(Slot) /\ Len(stream') <= MaxLen /\ trimmed' \subseteq Docs
    BY <1>14, ProduceType DEF Requeue, TypeOK, StoreOK, HistoryOK
  <2>2. StoreOK' /\ LocalOK' /\ HistoryOK'
    BY <1>14, <2>1 DEF Requeue, TypeOK, StoreOK, LocalOK, HistoryOK, Slot
  <2> QED BY <2>2 DEF TypeOK
<1>15. CASE Delete
  <2>4. \A n \in DOMAIN dead : dead[n] \in Payload
    BY DEF TypeOK, StoreOK
  <2>1. {dead[n].doc : n \in DOMAIN dead} \subseteq Docs
    BY <2>4 DEF Payload
  <2>5. dead' \in Seq(Payload) /\ Len(dead') <= MaxLen /\ letters' \in Seq(Payload)
    <3>1. <<>> \in Seq(Payload) /\ Len(<<>>) <= MaxLen
      BY Assumptions, EmptySeq
    <3> QED BY <1>15, <3>1 DEF Delete, TypeOK, StoreOK
  <2>2. StoreOK' /\ LocalOK'
    BY <1>15, <2>5 DEF Delete, TypeOK, StoreOK, LocalOK
  <2>3. HistoryOK'
    BY <1>15, <2>1, Assumptions DEF Delete, LettersOf, Fault, TypeOK, HistoryOK
  <2> QED BY <2>2, <2>3 DEF TypeOK
<1>16. CASE UNCHANGED vars
  BY <1>16 DEF vars, TypeOK, StoreOK, LocalOK, HistoryOK
<1> QED
  BY <1>1, <1>2, <1>3, <1>4, <1>5, <1>6, <1>7, <1>8, <1>9, <1>10, <1>11, <1>12, <1>13, <1>14, <1>15, <1>16,
     <1>17
  DEF Next, ProducerStep, IndexerStep, OperatorStep

(* Every entry, letter, task and local of an indexer has its type, and the  *)
(* stream and the dead letters are never longer than MAX_LEN                *)
(* (queue/src/lib.rs, dlq.rs and indexer.rs), for any number of crawl       *)
(* workers and indexers.                                                    *)
THEOREM TypeCorrect == Spec => []TypeOK
<1>1. Init => TypeOK
  BY TypeInit
<1>2. TypeOK /\ [Next]_vars => TypeOK'
  BY TypeNext
<1> QED BY <1>1, <1>2, PTL DEF Spec

-----------------------------------------------------------------------------
(* What NeverNowhere rests on.  A document is safe if acknowledging the jobs *)
(* that carry it cannot lose it: what is acknowledged is always a job, and a *)
(* bare document is never behind a job of the same document.                *)
IsBare(e) == e # Acked /\ e.shape = "bare"
Bares(s)  == {s[i].doc : i \in {j \in DOMAIN s : IsBare(s[j])}}
Safe(d)   == d \in index \cup Bares(stream) \cup trimmed \cup erased \/ Buried(d)

BaresLast(s) == \A i, j \in DOMAIN s :
  i < j /\ IsBare(s[i]) /\ s[j] # Acked /\ s[i].doc = s[j].doc => IsBare(s[j])

(* Two streams with the same documents in the same places. *)
Similar(s, t) ==
  /\ Len(s) = Len(t)
  /\ \A i \in DOMAIN s : /\ t[i] = Acked <=> s[i] = Acked
                         /\ s[i] # Acked => t[i].doc = s[i].doc /\ t[i].shape = s[i].shape

LEMMA SimilarKeeps ==
  ASSUME NEW s \in Seq(Slot), NEW t \in Seq(Slot), Similar(s, t)
  PROVE  /\ Unacked(t) = Unacked(s) /\ Bares(t) = Bares(s)
         /\ BaresLast(s) => BaresLast(t)
<1>1. DOMAIN s = DOMAIN t
  BY DEF Similar
<1>2. \A i \in DOMAIN s : IsBare(s[i]) <=> IsBare(t[i])
  BY DEF Similar, IsBare
<1>3. Unacked(t) = Unacked(s)
  BY <1>1 DEF Similar, Unacked
<1>4. Bares(t) = Bares(s)
  BY <1>1, <1>2 DEF Similar, Bares, IsBare
<1>5. BaresLast(s) => BaresLast(t)
  BY <1>1, <1>2 DEF Similar, BaresLast, IsBare
<1> QED BY <1>3, <1>4, <1>5

LEMMA AckedDocsKeeps ==
  ASSUME StoreOK, NEW docs, stream' = AckedDocs(docs)
  PROVE  /\ Unacked(stream') \subseteq Unacked(stream)
         /\ Unacked(stream) \subseteq Unacked(stream') \cup docs
         /\ Bares(stream) \subseteq Bares(stream')
         /\ BaresLast(stream) => BaresLast(stream')
<1>1. DOMAIN stream' = DOMAIN stream
  BY AckedDocsType DEF StoreOK
<1>2. \A i \in DOMAIN stream :
        \/ stream'[i] = stream[i]
        \/ stream'[i] = Acked /\ ~ IsBare(stream[i]) /\ stream[i].doc \in docs
  BY AckedDocsType DEF IsBare
<1>3. Unacked(stream') \subseteq Unacked(stream)
  BY <1>1, <1>2 DEF Unacked
<1>4. Unacked(stream) \subseteq Unacked(stream') \cup docs
  BY <1>1, <1>2 DEF Unacked
<1>5. Bares(stream) \subseteq Bares(stream')
  BY <1>1, <1>2 DEF Bares, IsBare
<1>6. \A i \in DOMAIN stream : stream'[i] # Acked => stream'[i] = stream[i]
  BY <1>2
<1>7. BaresLast(stream) => BaresLast(stream')
  BY <1>1, <1>6 DEF BaresLast, IsBare
<1> QED BY <1>3, <1>4, <1>5, <1>7

LEMMA TrimKeepsBares ==
  ASSUME NEW s \in Seq(Slot), BaresLast(s)
  PROVE  /\ BaresLast(Trim(s)) /\ Unacked(Trim(s)) \subseteq Unacked(s)
         /\ Bares(s) \subseteq Bares(Trim(s)) \cup (Unacked(s) \ Unacked(Trim(s)))
<1> DEFINE t == Trim(s)
           c == Cut(s)
<1>1. /\ c \in 0 .. Len(s) /\ Len(s) \in Nat /\ t \in Seq(Slot) /\ Len(t) = Len(s) - c
      /\ \A i \in 1 .. Len(t) : i + c \in 1 .. Len(s) /\ t[i] = s[i + c]
  BY TrimKeeps
<1> HIDE DEF t, c
<1>2. DOMAIN t = 1 .. Len(t) /\ DOMAIN s = 1 .. Len(s)
  BY <1>1
<1>3. BaresLast(t)
  <2> SUFFICES ASSUME NEW i \in DOMAIN t, NEW j \in DOMAIN t,
                      i < j, IsBare(t[i]), t[j] # Acked, t[i].doc = t[j].doc
               PROVE  IsBare(t[j])
    BY DEF BaresLast
  <2>1. i + c \in DOMAIN s /\ j + c \in DOMAIN s /\ i + c < j + c /\ t[i] = s[i + c] /\ t[j] = s[j + c]
    BY <1>1, <1>2
  <2> QED BY <2>1 DEF BaresLast
<1>4. Unacked(t) \subseteq Unacked(s)
  BY <1>1, <1>2 DEF Unacked
<1>5. ASSUME NEW d \in Bares(s), d \in Unacked(t) PROVE d \in Bares(t)
  <2>1. PICK i \in DOMAIN s : IsBare(s[i]) /\ s[i].doc = d
    BY DEF Bares
  <2>2. PICK j \in DOMAIN t : t[j] # Acked /\ t[j].doc = d
    BY <1>5 DEF Unacked
  <2>3. j + c \in DOMAIN s /\ t[j] = s[j + c]
    BY <1>1, <1>2, <2>2
  <2>4. CASE i > c
    <3>1. i - c \in DOMAIN t /\ t[i - c] = s[i]
      BY <1>1, <1>2, <2>4
    <3> QED BY <2>1, <3>1 DEF Bares
  <2>5. CASE ~ (i > c)
    <3>1. i < j + c
      BY <1>1, <1>2, <2>5
    <3>2. IsBare(s[j + c])
      BY <2>1, <2>2, <2>3, <3>1 DEF BaresLast
    <3> QED BY <2>2, <2>3, <3>2 DEF Bares
  <2> QED BY <2>4, <2>5
<1>6. Bares(s) \subseteq Unacked(s)
  BY DEF Bares, Unacked, IsBare
<1>7. Bares(s) \subseteq Bares(t) \cup (Unacked(s) \ Unacked(t))
  BY <1>5, <1>6
<1> QED BY <1>3, <1>4, <1>7 DEF t

(* What is queued are bare letters, or one job of a new document. *)
Queueable(payloads) ==
  \/ \A n \in DOMAIN payloads : payloads[n].shape = "bare"
  \/ Len(payloads) = 1 /\ payloads[1].doc \notin Unacked(stream)

LEMMA ProduceKeeps ==
  ASSUME StoreOK, NEW payloads \in Seq(Payload), Produce(payloads), Queueable(payloads), BaresLast(stream)
  PROVE  /\ BaresLast(stream') /\ trimmed \subseteq trimmed'
         /\ Unacked(stream') \subseteq Unacked(stream) \cup {payloads[n].doc : n \in DOMAIN payloads}
         /\ Unacked(stream) \subseteq Unacked(stream') \cup trimmed'
         /\ Bares(stream) \subseteq Bares(stream') \cup trimmed'
         /\ \A n \in DOMAIN payloads : /\ payloads[n].doc \in Unacked(stream') \cup trimmed'
                                       /\ payloads[n].shape = "bare" =>
                                            payloads[n].doc \in Bares(stream') \cup trimmed'
<1> DEFINE L == Longer(payloads)
           k == Len(stream)
<1>1. /\ L \in Seq(Slot) /\ Len(L) = k + Len(payloads) /\ k \in Nat /\ Len(payloads) \in Nat
      /\ \A i \in 1 .. k : L[i] = stream[i]
      /\ \A i \in 1 .. Len(payloads) : L[i + k] = New(payloads[i])
  BY LongerType DEF StoreOK
<1>2. /\ stream' = Trim(L) /\ trimmed' = trimmed \cup (Unacked(L) \ Unacked(stream'))
  BY DEF Produce, Longer
<1> HIDE DEF L, k
<1>3. DOMAIN L = 1 .. k + Len(payloads) /\ DOMAIN stream = 1 .. k /\ DOMAIN payloads = 1 .. Len(payloads)
  BY <1>1 DEF k, StoreOK
<1>4. \A n \in DOMAIN payloads : /\ n + k \in DOMAIN L /\ L[n + k] # Acked
                                 /\ L[n + k].doc = payloads[n].doc /\ L[n + k].shape = payloads[n].shape
  <2>1. \A n \in DOMAIN payloads : payloads[n] \in Payload
    OBVIOUS
  <2> QED BY <1>1, <1>3, <2>1, NewType, SlotType
<1>5. \A i \in DOMAIN L : i \notin DOMAIN stream => i - k \in DOMAIN payloads /\ (i - k) + k = i
  BY <1>1, <1>3
<1>6. \A i \in DOMAIN stream : i \in DOMAIN L /\ L[i] = stream[i]
  BY <1>1, <1>3
<1>7. BaresLast(L)
  <2> SUFFICES ASSUME NEW i \in DOMAIN L, NEW j \in DOMAIN L,
                      i < j, IsBare(L[i]), L[j] # Acked, L[i].doc = L[j].doc
               PROVE  IsBare(L[j])
    BY DEF BaresLast
  <2>1. CASE j \in DOMAIN stream
    <3>1. i \in DOMAIN stream
      BY <1>1, <1>3, <2>1
    <3> QED BY <1>6, <2>1, <3>1 DEF BaresLast
  <2>2. CASE j \notin DOMAIN stream /\ \A n \in DOMAIN payloads : payloads[n].shape = "bare"
    BY <1>4, <1>5, <2>2 DEF IsBare
  <2>3. CASE j \notin DOMAIN stream /\ Len(payloads) = 1 /\ payloads[1].doc \notin Unacked(stream)
    <3>1. i \in DOMAIN stream
      BY <1>1, <1>3, <2>3
    <3>2. stream[i].doc \in Unacked(stream)
      BY <1>6, <3>1 DEF IsBare, Unacked
    <3>3. j - k = 1
      BY <1>1, <1>3, <1>5, <2>3
    <3>4. L[j].doc = payloads[1].doc
      BY <1>4, <1>5, <2>3, <3>3
    <3> QED BY <1>6, <2>3, <3>1, <3>2, <3>4
  <2> QED BY <2>1, <2>2, <2>3 DEF Queueable
<1>8. /\ BaresLast(stream') /\ Unacked(stream') \subseteq Unacked(L)
      /\ Bares(L) \subseteq Bares(stream') \cup (Unacked(L) \ Unacked(stream'))
  BY <1>1, <1>2, <1>7, TrimKeepsBares
<1>9. Unacked(L) \subseteq Unacked(stream) \cup {payloads[n].doc : n \in DOMAIN payloads}
  <2> SUFFICES ASSUME NEW i \in DOMAIN L, L[i] # Acked
               PROVE  L[i].doc \in Unacked(stream) \cup {payloads[n].doc : n \in DOMAIN payloads}
    BY DEF Unacked
  <2>1. CASE i \in DOMAIN stream
    BY <1>6, <2>1 DEF Unacked
  <2>2. CASE i \notin DOMAIN stream
    <3>1. i - k \in DOMAIN payloads /\ (i - k) + k = i
      BY <1>5, <2>2
    <3>2. L[i].doc = payloads[i - k].doc
      BY <1>4, <3>1
    <3> QED BY <3>1, <3>2
  <2> QED BY <2>1, <2>2
<1>10. Unacked(stream) \subseteq Unacked(L) /\ Bares(stream) \subseteq Bares(L)
  BY <1>6 DEF Unacked, Bares
<1>11. ASSUME NEW n \in DOMAIN payloads
       PROVE  /\ payloads[n].doc \in Unacked(L)
              /\ payloads[n].shape = "bare" => payloads[n].doc \in Bares(L)
  BY <1>4 DEF Unacked, Bares, IsBare
<1> QED BY <1>2, <1>8, <1>9, <1>10, <1>11

-----------------------------------------------------------------------------
(* Letters are bare.  All documents at hand were queued.  A task that       *)
(* somebody waits for is of the chunk he submitted, and his only one.  What *)
(* is about to be acknowledged is safe, and what the operator is about to   *)
(* delete has been queued again.                                            *)
BareLetters ==
  /\ \A n \in DOMAIN dead : dead[n].shape = "bare"
  /\ \A n \in DOMAIN letters : letters[n].shape = "bare"
  /\ \A w \in Indexers : \A l \in refused[w] : l.shape = "bare"

KnownBy(w) == /\ \A l \in refused[w] : l.doc \in known
              /\ \A c \in chunks[w] : c \subseteq known
              /\ chunk[w] \subseteq known
KnownStore == /\ Unacked(stream) \subseteq known
              /\ \A n \in DOMAIN dead : dead[n].doc \in known
              /\ \A n \in DOMAIN letters : letters[n].doc \in known
AllKnown   == KnownStore /\ \A w \in Indexers : KnownBy(w)

Awaited(n) == tasks[n].by \in Indexers
Owned ==
  \A n \in DOMAIN tasks : Awaited(n) =>
    /\ pc[tasks[n].by] = "wait" /\ tasks[n].docs = chunk[tasks[n].by]
    /\ \A m \in DOMAIN tasks : tasks[m].by = tasks[n].by => m = n

Durable  == \A w \in Indexers : pc[w] = "ack" => \A d \in chunk[w] : Safe(d)
Requeued == replay = "delete" =>
              \A n \in DOMAIN letters : letters[n].doc \in Bares(stream) \cup trimmed

Inv == /\ TypeOK /\ BareLetters /\ BaresLast(stream) /\ AllKnown /\ Owned
       /\ Durable /\ Requeued /\ NeverNowhere

LEMMA InvInit == Init => Inv
<1> SUFFICES ASSUME Init PROVE Inv
  OBVIOUS
<1>1. TypeOK
  BY TypeInit
<1>2. \A w \in Indexers : refused[w] = {} /\ chunks[w] = {} /\ chunk[w] = {} /\ pc[w] = "reclaim"
  BY Assumptions DEF Init
<1>3. Unacked(stream) = {} /\ BaresLast(stream)
  BY DEF Init, Unacked, BaresLast
<1>4. BareLetters /\ AllKnown /\ Owned
  BY <1>2, <1>3 DEF Init, BareLetters, AllKnown, KnownStore, KnownBy, Owned
<1>5. Durable /\ Requeued /\ NeverNowhere
  BY <1>2 DEF Init, Durable, Requeued, NeverNowhere
<1> QED BY <1>1, <1>3, <1>4, <1>5 DEF Inv

(* What a step does to the places a document can be in: nothing, the same   *)
(* documents stay in the same places of the stream, or one of six actions.  *)
Still  == UNCHANGED <<dead, index, trimmed, erased, known>>

LEMMA DeliverIsSimilar ==
  ASSUME TypeOK, NEW w, NEW I, I \subseteq With("new") \cup With("idle"), Deliver(I)
  PROVE  Similar(stream, stream')
BY DeliverType DEF TypeOK, Similar

LEMMA StoreCases ==
  ASSUME TypeOK, [Next]_vars
  PROVE  \/ Still /\ stream' = stream
         \/ Still /\ Similar(stream, stream')
         \/ \E p \in Producers : QueueDocument(p)
         \/ \E w \in Indexers : Bury(w) \/ Ack(w)
         \/ RunTask \/ Requeue \/ Delete
<1>1. ASSUME NEW w \in Indexers, Reclaim(w) PROVE Still /\ Similar(stream, stream')
  BY <1>1, EarliestType, DeliverIsSimilar DEF Reclaim, Receive, Still
<1>2. ASSUME NEW w \in Indexers, Consume(w) PROVE Still /\ Similar(stream, stream')
  BY <1>2, EarliestType, DeliverIsSimilar DEF Consume, Receive, Still
<1>3. ASSUME NEW d \in Docs, Age(d) PROVE Still /\ Similar(stream, stream')
  <2>1. Similar(stream, stream')
    BY <1>3, AgeType DEF TypeOK, Similar
  <2> QED BY <1>3, <2>1 DEF Age, Still
<1>4. ASSUME NEW p \in Producers, CheckLag(p) PROVE Still /\ stream' = stream
  BY <1>4 DEF CheckLag, Still
<1>5. ASSUME NEW w \in Indexers, Submit(w) \/ Split(w) \/ GiveUp(w) \/ Misread(w) \/ Crash(w)
      PROVE  Still /\ stream' = stream
  BY <1>5 DEF Submit, Split, GiveUp, Misread, Crash, Still
<1>6. CASE Peek \/ UNCHANGED vars
  BY <1>6 DEF Peek, vars, Still
<1> QED
  BY <1>1, <1>2, <1>3, <1>4, <1>5, <1>6 DEF Next, ProducerStep, IndexerStep, OperatorStep

LEMMA QueueDocumentIs ==
  ASSUME TypeOK, AllKnown, NEW p, QueueDocument(p)
  PROVE  \/ stream' = stream /\ trimmed' = trimmed /\ known' = known
         \/ \E d \in Docs \ known : \E payloads \in Seq(Payload) :
              /\ payloads = <<[doc |-> d, shape |-> "job"]>>
              /\ Produce(payloads) /\ Queueable(payloads)
              /\ known' = known \cup {d}
              /\ {payloads[n].doc : n \in DOMAIN payloads} = {d} /\ 1 \in DOMAIN payloads
<1>1. CASE \E d \in Docs \ known : Produce(<<[doc |-> d, shape |-> "job"]>>) /\ known' = known \cup {d}
  <2>1. PICK d \in Docs \ known : Produce(<<[doc |-> d, shape |-> "job"]>>) /\ known' = known \cup {d}
    BY <1>1
  <2> DEFINE payloads == <<[doc |-> d, shape |-> "job"]>>
  <2>2. payloads \in Seq(Payload) /\ Len(payloads) = 1 /\ payloads[1].doc = d
    BY DEF Payload
  <2>3. DOMAIN payloads = {1}
    BY <2>2
  <2>4. {payloads[n].doc : n \in DOMAIN payloads} = {d}
    BY <2>2, <2>3
  <2>5. Queueable(payloads)
    BY <2>2 DEF Queueable, AllKnown, KnownStore
  <2> HIDE DEF payloads
  <2>6. \E q \in Seq(Payload) :
          /\ q = payloads /\ Produce(q) /\ Queueable(q) /\ known' = known \cup {d}
          /\ {q[n].doc : n \in DOMAIN q} = {d} /\ 1 \in DOMAIN q
    BY <2>1, <2>2, <2>3, <2>4, <2>5 DEF payloads
  <2> QED BY <2>6 DEF payloads
<1> QED BY <1>1 DEF QueueDocument

LEMMA BaresLastNext == Inv /\ [Next]_vars => BaresLast(stream')
<1> SUFFICES ASSUME Inv, [Next]_vars PROVE BaresLast(stream')
  OBVIOUS
<1> USE DEF Inv
<1>0. stream \in Seq(Slot) /\ stream' \in Seq(Slot)
  BY TypeNext DEF TypeOK, StoreOK, Slot
<1>1. CASE stream' = stream
  BY <1>1
<1>2. CASE Similar(stream, stream')
  BY <1>0, <1>2, SimilarKeeps
<1>3. ASSUME NEW p \in Producers, QueueDocument(p) PROVE BaresLast(stream')
  BY <1>3, QueueDocumentIs, ProduceKeeps DEF TypeOK
<1>4. ASSUME NEW w \in Indexers, Ack(w) PROVE BaresLast(stream')
  BY <1>4, AckedDocsKeeps DEF Ack, TypeOK
<1>5. CASE Requeue
  BY <1>5, ProduceKeeps DEF Requeue, Queueable, BareLetters, TypeOK, StoreOK
<1>6. ASSUME NEW w \in Indexers, Bury(w) \/ RunTask \/ Delete PROVE stream' = stream
  BY <1>6 DEF Bury, RunTask, Delete
<1>7. CASE RunTask \/ Delete
  BY <1>7 DEF RunTask, Delete
<1> QED BY <1>1, <1>2, <1>3, <1>4, <1>5, <1>6, <1>7, StoreCases

(* A bare document leaves the stream only by being trimmed. *)
LEMMA BaresNext == Inv /\ [Next]_vars => /\ Bares(stream) \subseteq Bares(stream') \cup trimmed'
                                         /\ trimmed \subseteq trimmed'
<1> SUFFICES ASSUME Inv, [Next]_vars
             PROVE  Bares(stream) \subseteq Bares(stream') \cup trimmed' /\ trimmed \subseteq trimmed'
  OBVIOUS
<1> USE DEF Inv
<1>0. stream \in Seq(Slot) /\ stream' \in Seq(Slot)
  BY TypeNext DEF TypeOK, StoreOK, Slot
<1>1. CASE Still /\ stream' = stream
  BY <1>1 DEF Still
<1>2. CASE Still /\ Similar(stream, stream')
  BY <1>0, <1>2, SimilarKeeps DEF Still
<1>3. ASSUME NEW p \in Producers, QueueDocument(p)
      PROVE  Bares(stream) \subseteq Bares(stream') \cup trimmed' /\ trimmed \subseteq trimmed'
  BY <1>3, QueueDocumentIs, ProduceKeeps DEF TypeOK
<1>4. ASSUME NEW w \in Indexers, Ack(w)
      PROVE  Bares(stream) \subseteq Bares(stream') \cup trimmed' /\ trimmed \subseteq trimmed'
  BY <1>4, AckedDocsKeeps DEF Ack, TypeOK
<1>5. ASSUME NEW w \in Indexers, Bury(w) PROVE stream' = stream /\ trimmed' = trimmed
  BY <1>5 DEF Bury
<1>6. CASE RunTask \/ Delete
  BY <1>6 DEF RunTask, Delete
<1>7. CASE Requeue
  BY <1>7, ProduceKeeps DEF Requeue, Queueable, BareLetters, TypeOK, StoreOK
<1> QED BY <1>1, <1>2, <1>3, <1>4, <1>5, <1>6, <1>7, StoreCases

LEMMA BuryIs ==
  ASSUME TypeOK, NEW w \in Indexers, Bury(w)
  PROVE  /\ \E l \in refused[w] : /\ chunk'[w] = {l.doc} /\ Buried(l.doc)'
                                  /\ \A d : Buried(d)' => Buried(d) \/ d = l.doc
         /\ \A d : Buried(d) => Buried(d)' \/ d \in erased'
         /\ erased \subseteq erased'
<1>1. PICK l \in refused[w] : Write(l) /\ chunk' = [chunk EXCEPT ![w] = {l.doc}]
  BY DEF Bury
<1>2. l \in Payload /\ StoreOK
  BY DEF TypeOK, LocalOK
<1>3. /\ \A n \in DOMAIN dead' : dead'[n] = l \/ \E m \in DOMAIN dead : dead'[n] = dead[m]
      /\ \E n \in DOMAIN dead' : dead'[n] = l
      /\ \A n \in DOMAIN dead : \/ \E m \in DOMAIN dead' : dead'[m].doc = dead[n].doc
                                \/ dead[n].doc \in erased'
      /\ erased \subseteq erased'
  BY <1>1, <1>2, WriteIs
<1>4. chunk'[w] = {l.doc}
  BY <1>1 DEF TypeOK, LocalOK
<1>5. Buried(l.doc)' /\ \A d : Buried(d)' => Buried(d) \/ d = l.doc
  BY <1>3 DEF Buried
<1>6. \A d : Buried(d) => Buried(d)' \/ d \in erased'
  BY <1>3 DEF Buried
<1> QED BY <1>3, <1>4, <1>5, <1>6

(* A safe document stays safe, which is most of the argument. *)
LEMMA SafeNext == Inv /\ [Next]_vars => \A d : Safe(d) => Safe(d)'
<1> SUFFICES ASSUME Inv, [Next]_vars, NEW d, Safe(d) PROVE Safe(d)'
  OBVIOUS
<1> USE DEF Inv
<1>1. ASSUME index \subseteq index', erased \subseteq erased', Buried(d) => Safe(d)'
      PROVE  Safe(d)'
  BY <1>1, BaresNext DEF Safe
<1>2. ASSUME UNCHANGED <<dead, index, erased>> PROVE Safe(d)'
  BY <1>1, <1>2 DEF Safe, Buried
<1>3. ASSUME Still PROVE Safe(d)'
  BY <1>2, <1>3 DEF Still
<1>4. ASSUME NEW p \in Producers, QueueDocument(p) PROVE Safe(d)'
  BY <1>2, <1>4 DEF QueueDocument
<1>5. ASSUME NEW w \in Indexers, Ack(w) PROVE Safe(d)'
  BY <1>2, <1>5 DEF Ack
<1>6. ASSUME NEW w \in Indexers, Bury(w) PROVE Safe(d)'
  <2>1. (Buried(d) => Buried(d)' \/ d \in erased') /\ erased \subseteq erased'
    BY <1>6, BuryIs
  <2> QED BY <1>1, <1>6, <2>1 DEF Bury, Safe
<1>7. CASE RunTask
  BY <1>1, <1>7 DEF RunTask, Safe, Buried
<1>8. CASE Requeue
  BY <1>2, <1>8 DEF Requeue
<1>9. CASE Delete
  <2>1. CASE UNCHANGED <<dead, erased>>
    BY <1>2, <1>9, <2>1 DEF Delete
  <2>2. CASE erased' = erased \cup (LettersOf(dead) \ LettersOf(letters))
    <3>1. Buried(d) => d \in erased' \/ \E n \in DOMAIN letters : letters[n].doc = d
      BY <2>2 DEF Buried, LettersOf
    <3>2. (\E n \in DOMAIN letters : letters[n].doc = d) => d \in Bares(stream) \cup trimmed
      BY <1>9 DEF Delete, Requeued
    <3>3. Buried(d) => Safe(d)'
      BY <3>1, <3>2, BaresNext DEF Safe
    <3> QED BY <1>1, <1>9, <2>2, <3>3 DEF Delete
  <2> QED BY <1>9, <2>1, <2>2 DEF Delete
<1> QED
  BY <1>3, <1>4, <1>5, <1>6, <1>7, <1>8, <1>9, StoreCases

LEMMA NeverNowhereNext == Inv /\ [Next]_vars => NeverNowhere'
<1> SUFFICES ASSUME Inv, [Next]_vars, NEW d \in known'
             PROVE  (d \in index \cup Unacked(stream) \cup trimmed \cup erased \/ Buried(d))'
  BY DEF NeverNowhere
<1> USE DEF Inv
<1>0. stream \in Seq(Slot) /\ stream' \in Seq(Slot)
  BY TypeNext DEF TypeOK, StoreOK, Slot
<1>1. \A s : Bares(s) \subseteq Unacked(s)
  BY DEF Bares, Unacked, IsBare
<1>2. CASE Safe(d)
  BY <1>1, <1>2, SafeNext DEF Safe
<1>3. ASSUME Unacked(stream) \subseteq Unacked(stream') \cup trimmed', d \in known, ~ Safe(d)
      PROVE  d \in Unacked(stream') \cup trimmed'
  BY <1>3 DEF NeverNowhere, Safe
<1>4. ASSUME Still, ~ Safe(d), stream' = stream \/ Similar(stream, stream')
      PROVE  d \in Unacked(stream') \cup trimmed'
  BY <1>0, <1>3, <1>4, SimilarKeeps DEF Still
<1>5. ASSUME NEW p \in Producers, QueueDocument(p), ~ Safe(d)
      PROVE  d \in Unacked(stream') \cup trimmed'
  <2>1. CASE stream' = stream /\ trimmed' = trimmed /\ known' = known
    BY <1>3, <1>5, <2>1
  <2>2. CASE \E e \in Docs \ known : \E payloads \in Seq(Payload) :
              /\ Produce(payloads) /\ Queueable(payloads)
              /\ known' = known \cup {e}
              /\ {payloads[n].doc : n \in DOMAIN payloads} = {e} /\ 1 \in DOMAIN payloads
    <3>1. PICK e \in Docs \ known, payloads \in Seq(Payload) :
              /\ Produce(payloads) /\ Queueable(payloads)
              /\ known' = known \cup {e}
              /\ {payloads[n].doc : n \in DOMAIN payloads} = {e} /\ 1 \in DOMAIN payloads
      BY <2>2
    <3>4. Produce(payloads) /\ Queueable(payloads) /\ StoreOK /\ BaresLast(stream)
      BY <3>1 DEF TypeOK
    <3>3. /\ Unacked(stream) \subseteq Unacked(stream') \cup trimmed'
          /\ \A n \in DOMAIN payloads : /\ payloads[n].doc \in Unacked(stream') \cup trimmed'
                                        /\ payloads[n].shape = "bare" =>
                                             payloads[n].doc \in Bares(stream') \cup trimmed'
      BY <3>4, ProduceKeeps, Zenon
    <3>5. PICK n \in DOMAIN payloads : payloads[n].doc = e
      BY <3>1
    <3>8. payloads[n].doc \in Unacked(stream') \cup trimmed'
      BY <3>3
    <3>6. e \in Unacked(stream') \cup trimmed'
      BY <3>5, <3>8
    <3>7. known' = known \cup {e}
      BY <3>1
    <3> QED BY <1>3, <1>5, <3>3, <3>6, <3>7
  <2> QED BY <1>5, <2>1, <2>2, QueueDocumentIs
<1>6. ASSUME NEW w \in Indexers, Ack(w), ~ Safe(d) PROVE d \in Unacked(stream')
  <2>1. d \notin chunk[w]
    BY <1>6 DEF Ack, At, Durable
  <2>2. d \in known
    BY <1>6 DEF Ack
  <2>3. d \in Unacked(stream)
    BY <1>6, <2>2 DEF NeverNowhere, Safe
  <2> QED BY <1>6, <2>1, <2>3, AckedDocsKeeps DEF Ack, TypeOK
<1>7. ASSUME NEW w \in Indexers, Bury(w), ~ Safe(d) PROVE d \in Unacked(stream') \cup trimmed'
  BY <1>3, <1>7 DEF Bury
<1>8. ASSUME RunTask \/ Delete, ~ Safe(d) PROVE d \in Unacked(stream') \cup trimmed'
  BY <1>3, <1>8 DEF RunTask, Delete
<1>9. ASSUME Requeue, ~ Safe(d) PROVE d \in Unacked(stream') \cup trimmed'
  <2>1. Unacked(stream) \subseteq Unacked(stream') \cup trimmed'
    BY <1>9, ProduceKeeps DEF Requeue, Queueable, BareLetters, TypeOK, StoreOK
  <2> QED BY <1>3, <1>9, <2>1 DEF Requeue
<1> QED
  BY <1>2, <1>4, <1>5, <1>6, <1>7, <1>8, <1>9, StoreCases

-----------------------------------------------------------------------------
(* Where what an indexer holds comes from: from the stream, or from what it *)
(* held.  A new letter is of a document that does not validate, or of the   *)
(* only one of a chunk that the engine rejected.                            *)
ToSubmit(w) == UNION chunks[w]
ToBury(w)   == {l.doc : l \in refused[w]}
Reach(w)    == Unacked(stream) \cup ToSubmit(w) \cup chunk[w] \cup ToBury(w)
IsNewLetter(w, l) ==
  \E d \in Docs : /\ l = Letter(d) /\ d \in Unacked(stream) \cup chunk[w]
                  /\ Nature[d] = "refused" \/ (pc[w] = "split" /\ chunk[w] = {d})
Flow(w) == /\ \A l \in refused'[w] : l \in refused[w] \/ IsNewLetter(w, l)
           /\ \A c \in chunks'[w] : c \subseteq Reach(w)
           /\ chunk'[w] \subseteq Reach(w)

LEMMA ReachHas == \A w :
  /\ Unacked(stream) \subseteq Reach(w) /\ chunk[w] \subseteq Reach(w)
  /\ \A c \in chunks[w] : c \subseteq Reach(w)
  /\ \A l \in refused[w] : l.doc \in Reach(w)
<1> SUFFICES ASSUME NEW w
             PROVE  /\ Unacked(stream) \subseteq Reach(w) /\ chunk[w] \subseteq Reach(w)
                    /\ \A c \in chunks[w] : c \subseteq Reach(w)
                    /\ \A l \in refused[w] : l.doc \in Reach(w)
  OBVIOUS
<1>1. \A l \in refused[w] : l.doc \in ToBury(w)
  BY DEF ToBury
<1>2. \A c \in chunks[w] : c \subseteq ToSubmit(w)
  BY DEF ToSubmit
<1> QED BY <1>1, <1>2 DEF Reach

LEMMA FlowKeep ==
  ASSUME NEW w, refused'[w] \subseteq refused[w],
         \A c \in chunks'[w] : c \subseteq Reach(w), chunk'[w] \subseteq Reach(w)
  PROVE  Flow(w)
BY DEF Flow

LEMMA FlowSame ==
  ASSUME NEW w, refused'[w] \subseteq refused[w], chunks'[w] \subseteq chunks[w],
         chunk'[w] \subseteq chunk[w]
  PROVE  Flow(w)
BY ReachHas, FlowKeep

LEMMA JobsAreUnacked == \A I \in SUBSET DOMAIN stream :
  (\A i \in I : stream[i] # Acked) => Jobs(I) \subseteq Unacked(stream)
BY DEF Jobs, Unacked

LEMMA ReceiveFlow ==
  ASSUME TypeOK, NEW v \in Indexers, NEW I, I \subseteq With("new") \cup With("idle"),
         NEW attempts \in {1, 2}, NEW else, Receive(v, I, attempts, else), chunk' = chunk
  PROVE  \A w \in Indexers : Flow(w)
<1>1. Received(v, I)
  BY ReceiveIs DEF TypeOK
<1>2. Jobs(I) \subseteq Unacked(stream)
  BY JobsAreUnacked, SlotType DEF With, TypeOK, StoreOK, Slot, Acked
<1>3. PICK bad \in SUBSET Docs, P \in SUBSET (SUBSET Docs) :
        /\ refused' = [refused EXCEPT ![v] = {Letter(d) : d \in bad}]
        /\ \A d \in bad : Nature[d] = "refused"
        /\ chunks' = [chunks EXCEPT ![v] = P]
        /\ bad \cup UNION P \subseteq Jobs(I)
        /\ \A d \in UNION P : Nature[d] # "refused"
  BY <1>1, Zenon DEF Received
<1>4. ASSUME NEW w \in Indexers, w # v PROVE refused'[w] = refused[w] /\ chunks'[w] = chunks[w]
  BY <1>3, <1>4 DEF TypeOK, LocalOK
<1>5. refused'[v] = {Letter(d) : d \in bad} /\ chunks'[v] = P
  BY <1>3 DEF TypeOK, LocalOK
<1>6. \A l \in refused'[v] : IsNewLetter(v, l)
  <2>1. bad \subseteq Unacked(stream)
    BY <1>2, <1>3
  <2> QED BY <1>3, <1>5, <2>1 DEF IsNewLetter
<1>7. ASSUME NEW c \in chunks'[v] PROVE c \subseteq Reach(v)
  <2>1. c \subseteq UNION P
    BY <1>5, <1>7
  <2> QED BY <1>2, <1>3, <2>1, ReachHas
<1>8. Flow(v)
  BY <1>6, <1>7, ReachHas DEF Flow
<1>9. ASSUME NEW w \in Indexers, w # v PROVE Flow(w)
  BY <1>4, <1>9, FlowSame
<1> QED BY <1>8, <1>9

LEMMA FlowNext ==
  ASSUME TypeOK, [Next]_vars
  PROVE  \A w \in Indexers : Flow(w)
<1>1. CASE UNCHANGED <<refused, chunks, chunk>>
  BY <1>1, FlowSame
<1>2. ASSUME NEW v \in Indexers, Reclaim(v) \/ Consume(v) PROVE \A w \in Indexers : Flow(w)
  BY <1>2, ReceiveFlow, EarliestType DEF Reclaim, Consume
<1>3. ASSUME NEW v \in Indexers, Bury(v) PROVE \A w \in Indexers : Flow(w)
  <2>1. PICK l \in refused[v] : chunk' = [chunk EXCEPT ![v] = {l.doc}]
    BY <1>3 DEF Bury
  <2>2. UNCHANGED <<refused, chunks>>
    BY <1>3 DEF Bury
  <2>3. l.doc \in Reach(v)
    BY ReachHas
  <2>4. \A w \in Indexers : chunk'[w] = IF w = v THEN {l.doc} ELSE chunk[w]
    BY <2>1 DEF TypeOK, LocalOK
  <2> QED BY <2>2, <2>3, <2>4, ReachHas, FlowKeep
<1>4. ASSUME NEW v \in Indexers, Submit(v) PROVE \A w \in Indexers : Flow(w)
  <2>1. PICK c \in chunks[v] : /\ chunk' = [chunk EXCEPT ![v] = c]
                               /\ chunks' = [chunks EXCEPT ![v] = @ \ {c}]
    BY <1>4 DEF Submit
  <2>2. UNCHANGED refused
    BY <1>4 DEF Submit
  <2>3. \A w \in Indexers : chunks'[w] \subseteq chunks[w] /\ chunk'[w] = IF w = v THEN c ELSE chunk[w]
    BY <2>1 DEF TypeOK, LocalOK
  <2>4. c \subseteq Reach(v)
    BY ReachHas
  <2> QED BY <2>2, <2>3, <2>4, ReachHas, FlowKeep
<1>5. ASSUME NEW v \in Indexers, Ack(v) \/ GiveUp(v) \/ Crash(v) PROVE \A w \in Indexers : Flow(w)
  <2>1. \A w \in Indexers : refused'[w] \subseteq refused[w]
    BY <1>5 DEF Ack, GiveUp, Misread, Crash, TypeOK, LocalOK
  <2>2. \A w \in Indexers : chunks'[w] \subseteq chunks[w] /\ chunk'[w] \subseteq chunk[w]
    BY <1>5 DEF Ack, GiveUp, Misread, Crash, TypeOK, LocalOK
  <2> QED BY <2>1, <2>2, FlowSame
<1>6. ASSUME NEW v \in Indexers, Split(v) PROVE \A w \in Indexers : Flow(w)
  <2>1. chunk[v] \in SUBSET Docs /\ IsFiniteSet(chunk[v])
    BY Assumptions, FS_Subset DEF TypeOK, LocalOK
  <2>2. \A w \in Indexers : chunk'[w] \subseteq chunk[w]
    BY <1>6 DEF Split, TypeOK, LocalOK
  <2>3. CASE /\ Cardinality(chunk[v]) = 1
             /\ refused' = [refused EXCEPT ![v] = {Letter(d) : d \in chunk[v]}]
             /\ UNCHANGED chunks
    <3>1. PICK d : chunk[v] = {d}
      BY <2>1, <2>3, FS_Singleton
    <3>2. refused'[v] = {Letter(d)}
      BY <2>3, <3>1 DEF TypeOK, LocalOK
    <3>3. pc[v] = "split" /\ d \in Docs
      BY <1>6, <2>1, <3>1 DEF Split, At
    <3>4. IsNewLetter(v, Letter(d))
      BY <3>1, <3>3 DEF IsNewLetter
    <3>5. \A w \in Indexers : w # v => refused'[w] = refused[w]
      BY <2>3 DEF TypeOK, LocalOK
    <3>6. \A w \in Indexers : chunk'[w] \subseteq Reach(w) /\ \A c \in chunks'[w] : c \subseteq Reach(w)
      BY <2>2, <2>3, ReachHas
    <3> QED BY <3>2, <3>4, <3>5, <3>6 DEF Flow
  <2>4. CASE /\ \E left \in SUBSET chunk[v] :
                   chunks' = [chunks EXCEPT ![v] = @ \cup {left, chunk[v] \ left}]
             /\ UNCHANGED refused
    <3>1. PICK left \in SUBSET chunk[v] :
            chunks' = [chunks EXCEPT ![v] = chunks[v] \cup {left, chunk[v] \ left}]
      BY <2>4
    <3>2. \A w \in Indexers : chunks'[w] = IF w = v THEN chunks[v] \cup {left, chunk[v] \ left} ELSE chunks[w]
      BY <3>1 DEF TypeOK, LocalOK
    <3>3. left \subseteq Reach(v) /\ chunk[v] \ left \subseteq Reach(v)
      BY ReachHas
    <3>4. \A w \in Indexers : \A c \in chunks'[w] : c \subseteq Reach(w)
      BY <3>2, <3>3, ReachHas
    <3> QED BY <2>2, <2>4, <3>4, ReachHas, FlowKeep
  <2> QED BY <1>6, <2>3, <2>4 DEF Split
<1>7. ASSUME NEW p \in Producers, ProducerStep(p) PROVE UNCHANGED <<refused, chunks, chunk>>
  BY <1>7 DEF ProducerStep, CheckLag, QueueDocument
<1>8. CASE RunTask \/ OperatorStep \/ UNCHANGED vars
  BY <1>1, <1>8 DEF RunTask, OperatorStep, Peek, Requeue, Delete, vars
<1>9. ASSUME NEW d \in Docs, Age(d) PROVE UNCHANGED <<refused, chunks, chunk>>
  BY <1>9 DEF Age
<1>10. ASSUME NEW v \in Indexers, Misread(v) PROVE UNCHANGED <<refused, chunks, chunk>>
  BY <1>10 DEF Misread
<1> QED
  BY <1>1, <1>2, <1>3, <1>4, <1>5, <1>6, <1>7, <1>8, <1>9, <1>10 DEF Next, IndexerStep

(* The operator reads dead letters. *)
LEMMA PeekIs ==
  ASSUME TypeOK, Peek
  PROVE  \A n \in DOMAIN letters' : \E m \in DOMAIN dead : letters'[n] = dead[m]
<1> DEFINE from == IF Len(dead) > ReplayLimit THEN Len(dead) - ReplayLimit + 1 ELSE 1
           newest == SubSeq(dead, from, Len(dead))
<1>1. /\ newest \in Seq(Payload)
      /\ \A i \in 1 .. Len(newest) : from + i - 1 \in DOMAIN dead /\ newest[i] = dead[from + i - 1]
  <2>1. dead \in Seq(Payload) /\ Len(dead) \in Nat
    BY DEF TypeOK, StoreOK
  <2>2. from \in 1 .. Len(dead) + 1
    BY <2>1, Assumptions
  <2> HIDE DEF from
  <2>3. Len(newest) = Len(dead) - from + 1 /\ newest \in Seq(Payload)
    BY <2>1, <2>2
  <2>4. \A i \in 1 .. Len(newest) : newest[i] = dead[from + i - 1]
    BY <2>1, <2>2
  <2> QED BY <2>1, <2>2, <2>3, <2>4
<1>2. letters' = Reverse(newest)
  BY DEF Peek
<1> HIDE DEF newest, from
<1>3. \A n \in DOMAIN letters' : \E i \in 1 .. Len(newest) : letters'[n] = newest[i]
  BY <1>1, <1>2 DEF Reverse
<1> QED BY <1>1, <1>3

(* Where the letters come from. *)
LEMMA LettersNext ==
  ASSUME TypeOK, [Next]_vars
  PROVE  /\ \A n \in DOMAIN dead' : \/ \E m \in DOMAIN dead : dead'[n] = dead[m]
                                    \/ \E w \in Indexers : dead'[n] \in refused[w]
         /\ \A n \in DOMAIN letters' : \/ \E m \in DOMAIN letters : letters'[n] = letters[m]
                                       \/ \E m \in DOMAIN dead : letters'[n] = dead[m]
<1>1. dead' = dead \/ dead' = <<>> \/ \E w \in Indexers : \E l \in refused[w] : Write(l)
  BY DEF Next, ProducerStep, IndexerStep, OperatorStep, vars,
     CheckLag, QueueDocument, Reclaim, Consume, Bury, Submit, Ack, Split, GiveUp, Misread, Crash, RunTask, Age,
     Peek, Requeue, Delete
<1>2. letters' = letters \/ letters' = <<>> \/ Peek
  BY DEF Next, ProducerStep, IndexerStep, OperatorStep, vars,
     CheckLag, QueueDocument, Reclaim, Consume, Bury, Submit, Ack, Split, GiveUp, Misread, Crash, RunTask, Age,
     Requeue, Delete
<1>3. \A n \in DOMAIN dead' : \/ \E m \in DOMAIN dead : dead'[n] = dead[m]
                              \/ \E w \in Indexers : dead'[n] \in refused[w]
  <2>1. ASSUME NEW w \in Indexers, NEW l \in refused[w], Write(l)
        PROVE  \A n \in DOMAIN dead' : (\E m \in DOMAIN dead : dead'[n] = dead[m]) \/ dead'[n] = l
    BY <2>1, WriteIs DEF TypeOK, LocalOK
  <2>2. dead' = dead \/ dead' = <<>> =>
          \A n \in DOMAIN dead' : \E m \in DOMAIN dead : dead'[n] = dead[m]
    BY DEF TypeOK, StoreOK
  <2> QED BY <1>1, <2>1, <2>2
<1>4. CASE Peek
  BY <1>3, <1>4, PeekIs
<1>5. letters' = letters \/ letters' = <<>> =>
        \A n \in DOMAIN letters' : \E m \in DOMAIN letters : letters'[n] = letters[m]
  BY DEF TypeOK, StoreOK
<1> QED BY <1>2, <1>3, <1>4, <1>5

LEMMA BareLettersNext == Inv /\ [Next]_vars => BareLetters'
<1> SUFFICES ASSUME Inv, [Next]_vars PROVE BareLetters'
  OBVIOUS
<1>1. ASSUME NEW w \in Indexers, NEW l \in refused'[w] PROVE l.shape = "bare"
  <2>1. l \in refused[w] \/ IsNewLetter(w, l)
    BY FlowNext DEF Inv, Flow
  <2> QED BY <2>1, LetterType DEF Inv, IsNewLetter, BareLetters
<1>2. /\ \A n \in DOMAIN dead' : dead'[n].shape = "bare"
      /\ \A n \in DOMAIN letters' : letters'[n].shape = "bare"
  BY LettersNext DEF Inv, BareLetters
<1> QED BY <1>1, <1>2 DEF BareLetters

LEMMA AllKnownNext == Inv /\ [Next]_vars => AllKnown'
<1> SUFFICES ASSUME Inv, [Next]_vars PROVE AllKnown'
  OBVIOUS
<1> USE DEF Inv
<1>0. stream \in Seq(Slot) /\ stream' \in Seq(Slot)
  BY TypeNext DEF TypeOK, StoreOK, Slot
<1>1. known \subseteq known'
  BY DEF Next, ProducerStep, IndexerStep, OperatorStep, vars,
     CheckLag, QueueDocument, Reclaim, Consume, Bury, Submit, Ack, Split, GiveUp, Misread, Crash, RunTask, Age,
     Peek, Requeue, Delete
<1>2. \A w \in Indexers : Reach(w) \subseteq known
  <2> SUFFICES ASSUME NEW w \in Indexers PROVE Reach(w) \subseteq known
    OBVIOUS
  <2>1. Unacked(stream) \subseteq known /\ KnownBy(w)
    BY DEF AllKnown, KnownStore
  <2>2. ToSubmit(w) \subseteq known
    BY <2>1 DEF KnownBy, ToSubmit
  <2>3. ToBury(w) \subseteq known
    BY <2>1 DEF KnownBy, ToBury
  <2>4. chunk[w] \subseteq known
    BY <2>1 DEF KnownBy
  <2> QED BY <2>1, <2>2, <2>3, <2>4 DEF Reach
<1>3. ASSUME NEW w \in Indexers, NEW l \in refused'[w] PROVE l.doc \in known
  <2>1. l \in refused[w] \/ IsNewLetter(w, l)
    BY FlowNext DEF Flow
  <2>2. IsNewLetter(w, l) => l.doc \in Unacked(stream) \cup chunk[w]
    BY LetterType DEF IsNewLetter
  <2> QED BY <2>1, <2>2, <1>2, ReachHas
<1>4. ASSUME NEW w \in Indexers PROVE KnownBy(w)'
  <2>1. Flow(w) /\ Reach(w) \subseteq known'
    BY <1>1, <1>2, FlowNext
  <2> QED BY <1>1, <1>3, <2>1 DEF Flow, KnownBy
<1>5. /\ \A n \in DOMAIN dead' : dead'[n].doc \in known'
      /\ \A n \in DOMAIN letters' : letters'[n].doc \in known'
  BY <1>1, LettersNext DEF AllKnown, KnownStore, KnownBy
<1>6. Unacked(stream') \subseteq known'
  <2>1. Unacked(stream) \subseteq known'
    BY <1>1 DEF AllKnown, KnownStore
  <2>2. CASE stream' = stream
    BY <2>1, <2>2
  <2>3. CASE Similar(stream, stream')
    BY <1>0, <2>1, <2>3, SimilarKeeps
  <2>4. ASSUME NEW p \in Producers, QueueDocument(p) PROVE Unacked(stream') \subseteq known'
    <3>1. CASE \E d \in Docs \ known : \E payloads \in Seq(Payload) :
              /\ Produce(payloads) /\ Queueable(payloads)
              /\ known' = known \cup {d}
              /\ {payloads[n].doc : n \in DOMAIN payloads} = {d}
      <4>1. PICK d \in Docs \ known, payloads \in Seq(Payload) :
              /\ Produce(payloads) /\ Queueable(payloads)
              /\ known' = known \cup {d}
              /\ {payloads[n].doc : n \in DOMAIN payloads} = {d}
        BY <3>1
      <4>2. Produce(payloads) /\ Queueable(payloads) /\ StoreOK /\ BaresLast(stream)
        BY <4>1 DEF TypeOK
      <4>3. Unacked(stream') \subseteq Unacked(stream) \cup {payloads[n].doc : n \in DOMAIN payloads}
        BY <4>2, ProduceKeeps
      <4> QED BY <2>1, <4>1, <4>3
    <3> QED BY <2>2, <2>4, <3>1, QueueDocumentIs
  <2>5. ASSUME NEW w \in Indexers, Ack(w) PROVE Unacked(stream') \subseteq known'
    BY <2>1, <2>5, AckedDocsKeeps DEF Ack, TypeOK
  <2>6. ASSUME NEW w \in Indexers, Bury(w) PROVE stream' = stream
    BY <2>6 DEF Bury
  <2>7. CASE RunTask \/ Delete
    BY <2>2, <2>7 DEF RunTask, Delete
  <2>8. CASE Requeue
    <3>1. Produce(letters) /\ letters \in Seq(Payload) /\ Queueable(letters)
      BY <2>8 DEF Requeue, Queueable, BareLetters, TypeOK, StoreOK
    <3>2. Unacked(stream') \subseteq Unacked(stream) \cup {letters[n].doc : n \in DOMAIN letters}
      BY <3>1, ProduceKeeps DEF TypeOK
    <3> QED BY <1>1, <2>1, <3>2 DEF AllKnown, KnownStore
  <2> QED BY <2>2, <2>3, <2>4, <2>5, <2>6, <2>7, <2>8, StoreCases
<1> QED BY <1>4, <1>5, <1>6 DEF AllKnown, KnownStore

-----------------------------------------------------------------------------
LEMMA OwnedKeep ==
  ASSUME Owned, UNCHANGED tasks,
         \A w \in Indexers : pc[w] = "wait" => pc'[w] = "wait" /\ chunk'[w] = chunk[w]
  PROVE  Owned'
BY DEF Owned, Awaited

(* Once the tasks of one indexer are nobody's or gone, he may go on.        *)
LEMMA OwnedGone ==
  ASSUME TypeOK, Owned, NEW w \in Indexers, NEW label, Goto(w, label),
         \A v \in Indexers : v # w => chunk'[v] = chunk[v],
         \/ tasks' = Orphaned(w)
         \/ \E n \in DOMAIN tasks : tasks[n].by = w /\ tasks' = RemoveAt(tasks, n)
  PROVE  Owned'
<1>1. \A v \in Indexers : v # w => pc'[v] = pc[v] /\ chunk'[v] = chunk[v]
  BY DEF Goto, TypeOK, LocalOK
<1>2. CASE tasks' = Orphaned(w)
  <2>1. DOMAIN tasks' = DOMAIN tasks
    BY <1>2, OrphanedType DEF TypeOK, StoreOK
  <2>4. DOMAIN tasks = 1 .. Len(tasks) /\ StoreOK
    BY DEF TypeOK, StoreOK
  <2>2. \A n \in DOMAIN tasks : /\ tasks'[n].docs = tasks[n].docs
                                /\ tasks'[n].by = IF tasks[n].by = w THEN Nobody ELSE tasks[n].by
    BY <1>2, <2>4, OrphanedType
  <2>3. \A n \in DOMAIN tasks' : tasks'[n].by \in Indexers => tasks'[n].by = tasks[n].by /\ tasks[n].by # w
    BY <2>1, <2>2, Assumptions
  <2> QED BY <1>1, <2>1, <2>2, <2>3 DEF Owned, Awaited
<1>3. CASE \E n \in DOMAIN tasks : tasks[n].by = w /\ tasks' = RemoveAt(tasks, n)
  <2>1. PICK n \in DOMAIN tasks : tasks[n].by = w /\ tasks' = RemoveAt(tasks, n)
    BY <1>3
  <2> DEFINE old(i) == IF i < n THEN i ELSE i + 1
  <2>2. tasks \in Seq(Task)
    BY DEF TypeOK, StoreOK, Task
  <2>6. /\ n \in 1 .. Len(tasks) /\ Len(tasks) \in Nat /\ DOMAIN tasks = 1 .. Len(tasks)
        /\ DOMAIN tasks' = 1 .. Len(tasks) - 1
        /\ \A i \in 1 .. Len(tasks) - 1 : tasks'[i] = tasks[old(i)]
    BY <2>1, <2>2, RemovedType
  <2>3. \A i \in DOMAIN tasks' : old(i) \in DOMAIN tasks /\ old(i) # n /\ tasks'[i] = tasks[old(i)]
    BY <2>6
  <2>4. \A i, j \in DOMAIN tasks' : old(i) = old(j) => i = j
    BY <2>6
  <2> HIDE DEF old
  <2>5. \A i \in DOMAIN tasks' : tasks'[i].by \in Indexers => tasks'[i].by # w
    BY <2>1, <2>3 DEF Owned, Awaited
  <2> QED BY <1>1, <2>3, <2>4, <2>5 DEF Owned, Awaited
<1> QED BY <1>2, <1>3

LEMMA OwnedNext == TypeOK /\ Owned /\ [Next]_vars => Owned'
<1> SUFFICES ASSUME TypeOK, Owned, [Next]_vars PROVE Owned'
  OBVIOUS
<1>1. ASSUME NEW v \in Indexers, pc[v] # "wait", NEW label, Goto(v, label), UNCHANGED tasks,
             \A w \in Indexers : w # v => chunk'[w] = chunk[w]
      PROVE  Owned'
  <2>1. \A w \in Indexers : w # v => pc'[w] = pc[w]
    BY <1>1 DEF Goto, TypeOK, LocalOK
  <2> QED BY <1>1, <2>1, OwnedKeep
<1>2. ASSUME NEW v \in Indexers, Reclaim(v) \/ Consume(v) PROVE Owned'
  <2>1. UNCHANGED <<tasks, chunk>> /\ pc[v] # "wait" /\ \E label : Goto(v, label)
    BY <1>2 DEF Reclaim, Consume, Receive, At
  <2> QED BY <1>1, <2>1
<1>3. ASSUME NEW v \in Indexers, Bury(v) \/ Ack(v) \/ Split(v) PROVE Owned'
  <2>1. UNCHANGED tasks /\ pc[v] # "wait" /\ \E label : Goto(v, label)
    BY <1>3 DEF Bury, Ack, Split, At
  <2>2. \A w \in Indexers : w # v => chunk'[w] = chunk[w]
    BY <1>3 DEF Bury, Ack, Split, TypeOK, LocalOK
  <2> QED BY <1>1, <2>1, <2>2
<1>4. ASSUME NEW v \in Indexers, Submit(v) PROVE Owned'
  <2>1. PICK c \in chunks[v] : /\ tasks' = Append(tasks, [docs |-> c, by |-> v])
                               /\ chunk' = [chunk EXCEPT ![v] = c]
    BY <1>4 DEF Submit
  <2>2. pc[v] = "submit" /\ pc' = [pc EXCEPT ![v] = "wait"]
    BY <1>4 DEF Submit, At, Goto
  <2>3. \A n \in DOMAIN tasks : Awaited(n) => tasks[n].by # v
    BY <2>2 DEF Owned
  <2>4. /\ \A n \in DOMAIN tasks : tasks'[n] = tasks[n]
        /\ \A n \in DOMAIN tasks' : n \notin DOMAIN tasks => n = Len(tasks) + 1
        /\ tasks'[Len(tasks) + 1] = [docs |-> c, by |-> v] /\ Len(tasks) + 1 \notin DOMAIN tasks
    BY <2>1 DEF TypeOK, StoreOK
  <2>5. pc'[v] = "wait" /\ chunk'[v] = c /\ \A w \in Indexers : w # v => pc'[w] = pc[w] /\ chunk'[w] = chunk[w]
    BY <2>1, <2>2 DEF TypeOK, LocalOK
  <2>6. ASSUME NEW n \in DOMAIN tasks', tasks'[n].by \in Indexers
        PROVE  /\ pc'[tasks'[n].by] = "wait" /\ tasks'[n].docs = chunk'[tasks'[n].by]
               /\ \A m \in DOMAIN tasks' : tasks'[m].by = tasks'[n].by => m = n
    <3>1. CASE n \in DOMAIN tasks
      BY <2>3, <2>4, <2>5, <2>6, <3>1 DEF Owned, Awaited
    <3>2. CASE n \notin DOMAIN tasks
      BY <2>3, <2>4, <2>5, <2>6, <3>2 DEF Owned, Awaited
    <3> QED BY <3>1, <3>2
  <2> QED BY <2>6 DEF Owned, Awaited
<1>5. ASSUME NEW v \in Indexers, GiveUp(v) \/ Misread(v) \/ Crash(v) PROVE Owned'
  <2>1. /\ \E label : Goto(v, label)
        /\ \/ tasks' = Orphaned(v)
           \/ \E n \in DOMAIN tasks : tasks[n].by = v /\ tasks' = RemoveAt(tasks, n)
    BY <1>5 DEF GiveUp, Misread, Crash, NoAnswer
  <2>2. \A w \in Indexers : w # v => chunk'[w] = chunk[w]
    BY <1>5 DEF GiveUp, Misread, Crash, TypeOK, LocalOK
  <2> QED BY <2>1, <2>2, OwnedGone
<1>6. CASE RunTask
  <2>1. tasks \in Seq(Task) /\ tasks # <<>> /\ tasks' = Tail(tasks) /\ chunk' = chunk
    BY <1>6 DEF RunTask, TypeOK, StoreOK, Task
  <2>2. \A n \in DOMAIN tasks' : n + 1 \in DOMAIN tasks /\ tasks'[n] = tasks[n + 1] /\ n + 1 # 1
    BY <2>1
  <2>3. 1 \in DOMAIN tasks /\ Head(tasks) = tasks[1]
    BY <2>1
  <2>4. \A w \in Indexers : w # tasks[1].by => pc'[w] = pc[w]
    BY <1>6, <2>3 DEF RunTask, TypeOK, LocalOK
  <2>5. \A n \in DOMAIN tasks' : tasks'[n].by \in Indexers => tasks'[n].by # tasks[1].by
    BY <2>2, <2>3 DEF Owned, Awaited
  <2>6. \A m, n \in DOMAIN tasks' : m + 1 = n + 1 => m = n
    BY <2>1
  <2> QED BY <2>1, <2>2, <2>4, <2>5, <2>6 DEF Owned, Awaited
<1>7. ASSUME NEW p \in Producers, ProducerStep(p) PROVE Owned'
  <2>1. UNCHANGED <<tasks, chunk>> /\ \E label : Goto(p, label)
    BY <1>7 DEF ProducerStep, CheckLag, QueueDocument
  <2>2. \A w \in Indexers : pc'[w] = pc[w]
    BY <2>1, Assumptions DEF Goto, TypeOK, LocalOK
  <2> QED BY <2>1, <2>2, OwnedKeep
<1>8. CASE OperatorStep \/ UNCHANGED vars
  BY <1>8, OwnedKeep DEF OperatorStep, Peek, Requeue, Delete, vars
<1>9. ASSUME NEW d \in Docs, Age(d) PROVE Owned'
  BY <1>9, OwnedKeep DEF Age
<1> QED
  BY <1>2, <1>3, <1>4, <1>5, <1>6, <1>7, <1>8, <1>9 DEF Next, IndexerStep

(* What becomes of a chunk is known once it was buried or its task was run. *)
Ran(w) == /\ chunk'[w] = chunk[w]
          /\ \E m \in DOMAIN tasks : tasks[m].docs = chunk[w]
          /\ pc'[w] = "ack" => chunk[w] \subseteq index'
          /\ pc'[w] = "split" => \E d \in chunk[w] : Nature[d] = "rejected"

LEMMA RunTaskRan ==
  ASSUME TypeOK, Owned, RunTask, NEW w \in Indexers, pc'[w] # pc[w]
  PROVE  Ran(w)
<1>1. tasks \in Seq(Task) /\ tasks # <<>> /\ chunk' = chunk
  BY DEF RunTask, TypeOK, StoreOK, Task
<1>2. PICK n \in DOMAIN tasks : Head(tasks) = tasks[n]
  BY <1>1
<1> DEFINE accepted == \A d \in tasks[n].docs : Nature[d] # "rejected"
<1>3. /\ index' = IF accepted THEN index \cup tasks[n].docs ELSE index
      /\ pc' = IF tasks[n].by = Nobody THEN pc
               ELSE [pc EXCEPT ![tasks[n].by] = IF accepted THEN "ack" ELSE "split"]
  BY <1>2 DEF RunTask
<1> HIDE DEF accepted
<1>4. tasks[n].by = w
  BY <1>3 DEF TypeOK, LocalOK
<1>5. tasks[n].docs = chunk[w]
  BY <1>4 DEF Owned, Awaited
<1>6. pc'[w] = IF accepted THEN "ack" ELSE "split"
  BY <1>3, <1>4, Assumptions DEF TypeOK, LocalOK
<1>7. accepted => chunk[w] \subseteq index'
  BY <1>3, <1>5
<1>8. ~ accepted => \E d \in chunk[w] : Nature[d] = "rejected"
  BY <1>5 DEF accepted
<1> QED BY <1>1, <1>5, <1>6, <1>7, <1>8 DEF Ran

LEMMA Decided ==
  ASSUME TypeOK, Owned, [Next]_vars, NEW w \in Indexers, pc'[w] \in {"ack", "split"}
  PROVE  \/ pc'[w] = pc[w] /\ chunk'[w] = chunk[w]
         \/ Bury(w) /\ pc'[w] = "ack"
         \/ Misread(w) /\ pc[w] = "wait" /\ pc'[w] = "split"
         \/ Ran(w)
<1> DEFINE Goal == \/ pc'[w] = pc[w] /\ chunk'[w] = chunk[w]
                   \/ Bury(w) /\ pc'[w] = "ack"
                   \/ Misread(w) /\ pc[w] = "wait" /\ pc'[w] = "split"
                   \/ Ran(w)
<1>1. ASSUME NEW v, v # w, NEW label, Goto(v, label), chunk'[w] = chunk[w] PROVE Goal
  BY <1>1 DEF Goto, TypeOK, LocalOK
<1>2. ASSUME NEW label, Goto(w, label), label \notin {"ack", "split"} PROVE Goal
  BY <1>2 DEF Goto, TypeOK, LocalOK
<1>3. Busy(w) \notin {"ack", "split"}
  BY DEF Busy
<1>4. ASSUME NEW v \in Indexers, NEW label, Goto(v, label),
             \A u \in Indexers : u # v => chunk'[u] = chunk[u],
             v = w => label \notin {"ack", "split"}
      PROVE  Goal
  <2>1. CASE v = w
    BY <1>2, <1>4, <2>1
  <2>2. CASE v # w
    BY <1>1, <1>4, <2>2
  <2> QED BY <2>1, <2>2
<1>5. ASSUME NEW v \in Indexers, Reclaim(v) \/ Consume(v) PROVE Goal
  <2>1. chunk' = chunk /\ \E label : Goto(v, label) /\ label \in {"consume", "reclaim", Busy(v)}
    BY <1>5 DEF Reclaim, Consume, Receive
  <2> QED BY <1>3, <1>4, <2>1
<1>6. ASSUME NEW v \in Indexers, Bury(v) PROVE Goal
  <2>1. CASE v = w
    BY <1>6, <2>1 DEF Bury, Goto, TypeOK, LocalOK
  <2>2. CASE v # w
    <3>1. chunk'[w] = chunk[w] /\ Goto(v, "ack")
      BY <1>6, <2>2 DEF Bury, TypeOK, LocalOK
    <3> QED BY <1>1, <2>2, <3>1
  <2> QED BY <2>1, <2>2
<1>7. ASSUME NEW v \in Indexers, Submit(v) PROVE Goal
  <2>1. Goto(v, "wait") /\ \A u \in Indexers : u # v => chunk'[u] = chunk[u]
    BY <1>7 DEF Submit, TypeOK, LocalOK
  <2> QED BY <1>4, <2>1
<1>8. ASSUME NEW v \in Indexers, GiveUp(v) \/ Ack(v) \/ Split(v) \/ Crash(v) PROVE Goal
  <2>1. \E label : Goto(v, label) /\ label \in {"reclaim", Busy(v)}
    BY <1>8 DEF GiveUp, Ack, Split, Crash
  <2>2. \A u \in Indexers : u # v => chunk'[u] = chunk[u]
    BY <1>8 DEF GiveUp, Ack, Split, Crash, TypeOK, LocalOK
  <2> QED BY <1>3, <1>4, <2>1, <2>2
<1>9. ASSUME NEW p \in Producers, ProducerStep(p) PROVE Goal
  <2>1. UNCHANGED chunk /\ p # w /\ \E label : Goto(p, label)
    BY <1>9, Assumptions DEF ProducerStep, CheckLag, QueueDocument
  <2> QED BY <1>1, <2>1
<1>10. CASE RunTask
  BY <1>10, RunTaskRan DEF RunTask
<1>11. ASSUME NEW d \in Docs, Age(d) PROVE Goal
  BY <1>11 DEF Age
<1>12. CASE OperatorStep \/ UNCHANGED vars
  BY <1>12 DEF OperatorStep, Peek, Requeue, Delete, vars
<1>13. ASSUME NEW v \in Indexers, Misread(v) PROVE Goal
  <2>1. pc[v] = "wait" /\ Goto(v, "split") /\ chunk' = chunk
    BY <1>13 DEF Misread, At
  <2>2. CASE v = w
    BY <1>13, <2>1, <2>2 DEF Goto, TypeOK, LocalOK
  <2>3. CASE v # w
    BY <1>1, <2>1, <2>3
  <2> QED BY <2>2, <2>3
<1> QED
  BY <1>5, <1>6, <1>7, <1>8, <1>9, <1>10, <1>11, <1>12, <1>13 DEF Next, IndexerStep

LEMMA DurableNext == Inv /\ [Next]_vars => Durable'
<1> SUFFICES ASSUME Inv, [Next]_vars, NEW w \in Indexers, pc'[w] = "ack", NEW d \in chunk'[w]
             PROVE  Safe(d)'
  BY DEF Durable
<1> USE DEF Inv
<1>1. CASE pc'[w] = pc[w] /\ chunk'[w] = chunk[w]
  BY <1>1, SafeNext DEF Durable
<1>2. CASE Bury(w)
  <2>1. Buried(d)'
    BY <1>2, BuryIs
  <2> QED BY <2>1 DEF Safe
<1>3. CASE Ran(w)
  BY <1>3 DEF Ran, Safe
<1> QED BY <1>1, <1>2, <1>3, Decided

LEMMA RequeuedNext == Inv /\ [Next]_vars => Requeued'
<1> SUFFICES ASSUME Inv, [Next]_vars, replay' = "delete", NEW n \in DOMAIN letters'
             PROVE  letters'[n].doc \in Bares(stream') \cup trimmed'
  BY DEF Requeued
<1> USE DEF Inv
<1>1. \/ replay = "delete" /\ letters' = letters
     \/ Requeue
  BY DEF Next, ProducerStep, IndexerStep, OperatorStep, vars,
     CheckLag, QueueDocument, Reclaim, Consume, Bury, Submit, Ack, Split, GiveUp, Misread, Crash, RunTask, Age,
     Peek, Delete
<1>2. CASE replay = "delete" /\ letters' = letters
  <2>1. letters'[n].doc \in Bares(stream) \cup trimmed
    BY <1>2 DEF Requeued
  <2> QED BY <2>1, BaresNext
<1>3. CASE Requeue
  <2>1. /\ Produce(letters) /\ letters \in Seq(Payload) /\ Queueable(letters) /\ letters' = letters
        /\ letters[n].shape = "bare" /\ n \in DOMAIN letters
    BY <1>3 DEF Requeue, Queueable, BareLetters, TypeOK, StoreOK
  <2>2. letters[n].doc \in Bares(stream') \cup trimmed'
    BY <2>1, ProduceKeeps DEF TypeOK
  <2> QED BY <2>1, <2>2
<1> QED BY <1>1, <1>2, <1>3

LEMMA InvNext == Inv /\ [Next]_vars => Inv'
BY TypeNext, BareLettersNext, BaresLastNext, AllKnownNext, OwnedNext, DurableNext,
   RequeuedNext, NeverNowhereNext DEF Inv

(* A document that was queued is never nowhere, for any number of crawl     *)
(* workers and indexers, whatever crashes and whatever is reclaimed from an *)
(* indexer that is still at it (indexer.rs:308-311, dlq.rs:48-50).          *)
THEOREM NeverLost == Spec => []NeverNowhere
<1>1. Init => Inv
  BY InvInit
<1>2. Inv /\ [Next]_vars => Inv'
  BY InvNext
<1>3. Inv => NeverNowhere
  BY DEF Inv
<1> QED BY <1>1, <1>2, <1>3, PTL DEF Spec

-----------------------------------------------------------------------------
(* Only bad documents are buried: an indexer that is about to split a chunk *)
(* has the culprit in it, so that the last document left is the culprit, or *)
(* misread the answer; and if one document was left then, it is blamed.     *)
Bad(d) == Nature[d] # "sound" \/ d \in blamed
Culprits == \A w \in Indexers : pc[w] = "split" =>
              \/ \E d \in chunk[w] : Nature[d] = "rejected"
              \/ Cardinality(chunk[w]) # 1 \/ chunk[w] \subseteq blamed
BadAtHand ==
  /\ \A n \in DOMAIN letters : Bad(letters[n].doc)
  /\ \A w \in Indexers : \A l \in refused[w] : Bad(l.doc)
BadInv == TypeOK /\ Owned /\ Culprits /\ BadAtHand /\ OnlyBadAreBuried

LEMMA BadInvInit == Init => BadInv
<1> SUFFICES ASSUME Init PROVE BadInv
  OBVIOUS
<1>1. \A w \in Indexers : refused[w] = {} /\ pc[w] = "reclaim"
  BY Assumptions DEF Init
<1>2. TypeOK /\ Owned
  BY InvInit DEF Inv
<1>3. DOMAIN dead = {} /\ DOMAIN letters = {}
  BY DEF Init
<1> QED BY <1>1, <1>2, <1>3 DEF BadInv, Culprits, BadAtHand, OnlyBadAreBuried

LEMMA BlamedNext == [Next]_vars =>
  /\ blamed' = blamed \/ \E w \in Indexers : Misread(w)
  /\ blamed \subseteq blamed'
<1>1. [Next]_vars => blamed' = blamed \/ \E w \in Indexers : Misread(w)
  BY DEF Next, ProducerStep, IndexerStep, OperatorStep, vars,
     CheckLag, QueueDocument, Reclaim, Consume, Bury, Submit, Ack, Split, GiveUp, Crash, RunTask, Age,
     Peek, Requeue, Delete
<1>2. \A w : Misread(w) => blamed \subseteq blamed'
  BY DEF Misread
<1> QED BY <1>1, <1>2

LEMMA BadInvNext == BadInv /\ [Next]_vars => BadInv'
<1> SUFFICES ASSUME BadInv, [Next]_vars PROVE BadInv'
  OBVIOUS
<1> USE DEF BadInv
<1>1. TypeOK' /\ Owned'
  BY TypeNext, OwnedNext
<1>5. blamed \subseteq blamed' /\ \A d : Bad(d) => Bad(d)'
  BY BlamedNext DEF Bad
<1>2. Culprits'
  <2> SUFFICES ASSUME NEW w \in Indexers, pc'[w] = "split"
               PROVE  \/ \E d \in chunk'[w] : Nature[d] = "rejected"
                      \/ Cardinality(chunk'[w]) # 1 \/ chunk'[w] \subseteq blamed'
    BY DEF Culprits
  <2>1. CASE pc'[w] = pc[w] /\ chunk'[w] = chunk[w]
    BY <1>5, <2>1 DEF Culprits
  <2>2. CASE Misread(w)
    BY <2>2 DEF Misread
  <2>3. CASE Ran(w)
    BY <2>3 DEF Ran
  <2> QED BY <2>1, <2>2, <2>3, Decided
<1>3. ASSUME NEW w \in Indexers, NEW l \in refused'[w] PROVE Bad(l.doc)
  <2>1. CASE l \in refused[w]
    BY <2>1 DEF BadAtHand
  <2>2. CASE IsNewLetter(w, l)
    <3>1. PICK d \in Docs : /\ l = Letter(d)
                            /\ Nature[d] = "refused" \/ (pc[w] = "split" /\ chunk[w] = {d})
      BY <2>2 DEF IsNewLetter
    <3>2. CASE Nature[d] = "refused"
      BY <3>1, <3>2, LetterType DEF Bad
    <3>3. CASE pc[w] = "split" /\ chunk[w] = {d}
      <4>1. Cardinality(chunk[w]) = 1
        BY <3>3, FS_Singleton
      <4>2. Bad(d)
        BY <3>3, <4>1 DEF Culprits, Bad
      <4> QED BY <3>1, <4>2, LetterType
    <3> QED BY <3>1, <3>2, <3>3
  <2> QED BY <2>1, <2>2, FlowNext DEF Flow
<1>4. /\ \A n \in DOMAIN dead' : Bad(dead'[n].doc)
      /\ \A n \in DOMAIN letters' : Bad(letters'[n].doc)
  BY LettersNext DEF OnlyBadAreBuried, BadAtHand, Bad
<1>6. BadAtHand'
  BY <1>3, <1>4, <1>5 DEF BadAtHand, Bad
<1>7. OnlyBadAreBuried'
  BY <1>4, <1>5 DEF OnlyBadAreBuried, Bad
<1> QED BY <1>1, <1>2, <1>6, <1>7

(* No document that the engine would have taken is dead-lettered, however   *)
(* the batches are cut and however slow the engine is, unless the answer    *)
(* for it alone was misread (indexer.rs:321-340, worker.rs:25-32).          *)
THEOREM OnlyCulpritsBuried == Spec => []OnlyBadAreBuried
<1>1. Init => BadInv
  BY BadInvInit
<1>2. BadInv /\ [Next]_vars => BadInv'
  BY BadInvNext
<1>3. BadInv => OnlyBadAreBuried
  BY DEF BadInv
<1> QED BY <1>1, <1>2, <1>3, PTL DEF Spec

-----------------------------------------------------------------------------
(* The queue delivers.  Beside what was shown above: what the engine is     *)
(* given validates and was queued, so that what it accepts is sound, and    *)
(* the letters the operator replays are there until he deletes them, or     *)
(* trimmed.                                                                 *)
Excused == trimmed \cup erased
Held(d) == Buried(d) \/ d \in Excused
Valid(S) == \A d \in S : Nature[d] # "refused"
Sane ==
  /\ \A d \in index : d \in known /\ Nature[d] = "sound"
  /\ \A n \in DOMAIN tasks : tasks[n].docs \subseteq known /\ Valid(tasks[n].docs)
  /\ \A w \in Indexers : Valid(ToSubmit(w))
  /\ \A w \in Indexers : pc[w] \in {"wait", "split"} => Valid(chunk[w])
  /\ replay # "idle" => \A n \in DOMAIN letters : Held(letters[n].doc)
Whole == Inv /\ BadInv /\ Sane

(* Where the engine's tasks come from, and what it has indexed. *)
LEMMA TasksNext ==
  ASSUME TypeOK, [Next]_vars
  PROVE  \A n \in DOMAIN tasks' : \/ \E m \in DOMAIN tasks : tasks'[n].docs = tasks[m].docs
                                  \/ \E w \in Indexers : tasks'[n].docs \in chunks[w]
<1> DEFINE Goal == \A n \in DOMAIN tasks' : \/ \E m \in DOMAIN tasks : tasks'[n].docs = tasks[m].docs
                                            \/ \E w \in Indexers : tasks'[n].docs \in chunks[w]
<1>0. tasks \in Seq(Task) /\ DOMAIN tasks = 1 .. Len(tasks)
  BY DEF TypeOK, StoreOK, Task
<1>1. ASSUME UNCHANGED tasks PROVE Goal
  BY <1>1
<1>2. ASSUME NEW w, tasks' = Orphaned(w) PROVE Goal
  <2>1. DOMAIN tasks' = DOMAIN tasks /\ \A n \in DOMAIN tasks : tasks'[n].docs = tasks[n].docs
    BY <1>0, <1>2, OrphanedType DEF TypeOK
  <2> QED BY <2>1
<1>3. ASSUME NEW k \in DOMAIN tasks, tasks' = RemoveAt(tasks, k) PROVE Goal
  <2>1. \A n \in DOMAIN tasks' : (IF n < k THEN n ELSE n + 1) \in DOMAIN tasks
                                 /\ tasks'[n] = tasks[IF n < k THEN n ELSE n + 1]
    <3>1. /\ DOMAIN tasks' = 1 .. Len(tasks) - 1 /\ k \in 1 .. Len(tasks) /\ Len(tasks) \in Nat
          /\ \A i \in 1 .. Len(tasks) - 1 : tasks'[i] = tasks[IF i < k THEN i ELSE i + 1]
      BY <1>0, <1>3, RemovedType
    <3> QED BY <1>0, <3>1
  <2> QED BY <2>1
<1>4. ASSUME NEW w \in Indexers, Submit(w) PROVE Goal
  <2>1. PICK c \in chunks[w] : tasks' = Append(tasks, [docs |-> c, by |-> w])
    BY <1>4 DEF Submit
  <2>2. \A n \in DOMAIN tasks' : \/ n \in DOMAIN tasks /\ tasks'[n] = tasks[n]
                                 \/ tasks'[n] = [docs |-> c, by |-> w]
    BY <1>0, <2>1
  <2> QED BY <2>2
<1>5. ASSUME RunTask PROVE Goal
  <2>1. \A n \in DOMAIN tasks' : n + 1 \in DOMAIN tasks /\ tasks'[n] = tasks[n + 1]
    BY <1>0, <1>5 DEF RunTask
  <2> QED BY <2>1
<1>6. ASSUME NEW w \in Indexers, GiveUp(w) \/ Misread(w) \/ Crash(w) PROVE Goal
  BY <1>2, <1>3, <1>6 DEF GiveUp, Misread, Crash, NoAnswer
<1>7. \/ UNCHANGED tasks \/ RunTask
      \/ \E w \in Indexers : Submit(w) \/ GiveUp(w) \/ Misread(w) \/ Crash(w)
  BY DEF Next, ProducerStep, IndexerStep, OperatorStep, vars,
     CheckLag, QueueDocument, Reclaim, Consume, Bury, Ack, Split, Age, Peek, Requeue, Delete
<1> QED BY <1>1, <1>4, <1>5, <1>6, <1>7

LEMMA IndexNext ==
  ASSUME TypeOK, [Next]_vars
  PROVE  \/ index' = index
         \/ \E n \in DOMAIN tasks : /\ index' = index \cup tasks[n].docs
                                    /\ \A d \in tasks[n].docs : Nature[d] # "rejected"
<1>1. CASE RunTask
  <2>1. 1 \in DOMAIN tasks /\ Head(tasks) = tasks[1]
    BY <1>1 DEF RunTask, TypeOK, StoreOK
  <2> QED BY <1>1, <2>1 DEF RunTask
<1>2. RunTask \/ index' = index
  BY DEF Next, ProducerStep, IndexerStep, OperatorStep, vars,
     CheckLag, QueueDocument, Reclaim, Consume, Bury, Submit, Ack, Split, GiveUp, Misread, Crash, Age,
     Peek, Requeue, Delete
<1> QED BY <1>1, <1>2

(* Where what is submitted comes from: it was at hand, was delivered and    *)
(* validates, or is half of what the engine rejected.                       *)
LEMMA ToSubmitNext ==
  ASSUME TypeOK, [Next]_vars, NEW w \in Indexers
  PROVE  \A d \in ToSubmit(w)' : \/ d \in ToSubmit(w)
                                 \/ Nature[d] # "refused"
                                 \/ pc[w] = "split" /\ d \in chunk[w]
<1> DEFINE Goal == \A d \in UNION chunks'[w] : \/ d \in UNION chunks[w]
                                               \/ Nature[d] # "refused"
                                               \/ pc[w] = "split" /\ d \in chunk[w]
<1>1. ASSUME chunks'[w] \subseteq chunks[w] PROVE Goal
  BY <1>1
<1>2. ASSUME NEW v \in Indexers, v # w,
             \E new : chunks' = [chunks EXCEPT ![v] = new]
      PROVE  Goal
  BY <1>1, <1>2 DEF TypeOK, LocalOK
<1>3. ASSUME NEW I, Received(w, I) PROVE Goal
  <2>1. PICK P \in SUBSET (SUBSET Docs) : /\ chunks' = [chunks EXCEPT ![w] = P]
                                          /\ \A d \in UNION P : Nature[d] # "refused"
    BY <1>3 DEF Received
  <2>2. chunks'[w] = P
    BY <2>1 DEF TypeOK, LocalOK
  <2> QED BY <2>1, <2>2
<1>4. ASSUME NEW v \in Indexers, Reclaim(v) \/ Consume(v) PROVE Goal
  <2>1. \E I : Received(v, I)
    BY <1>4, ReceiveIs, EarliestType DEF Reclaim, Consume, TypeOK
  <2>2. CASE v = w
    BY <1>3, <2>1, <2>2
  <2>3. CASE v # w
    <3>1. \E new : chunks' = [chunks EXCEPT ![v] = new]
      BY <2>1 DEF Received
    <3> QED BY <1>2, <2>3, <3>1
  <2> QED BY <2>2, <2>3
<1>5. ASSUME NEW v \in Indexers, Submit(v) \/ Crash(v) PROVE Goal
  <2>1. chunks'[w] \subseteq chunks[w]
    BY <1>5 DEF Submit, Crash, TypeOK, LocalOK
  <2> QED BY <1>1, <2>1
<1>6. ASSUME NEW v \in Indexers, Split(v) PROVE Goal
  <2>1. CASE UNCHANGED chunks
    BY <1>1, <2>1
  <2>2. CASE \E left \in SUBSET chunk[v] :
               chunks' = [chunks EXCEPT ![v] = @ \cup {left, chunk[v] \ left}]
    <3>1. PICK left \in SUBSET chunk[v] :
            chunks' = [chunks EXCEPT ![v] = chunks[v] \cup {left, chunk[v] \ left}]
      BY <2>2
    <3>2. CASE v = w
      <4>1. chunks'[w] = chunks[w] \cup {left, chunk[w] \ left} /\ pc[w] = "split"
        BY <1>6, <3>1, <3>2 DEF Split, At, TypeOK, LocalOK
      <4> QED BY <3>2, <4>1
    <3>3. CASE v # w
      BY <1>2, <3>1, <3>3
    <3> QED BY <3>2, <3>3
  <2> QED BY <1>6, <2>1, <2>2 DEF Split
<1>7. \/ UNCHANGED chunks
      \/ \E v \in Indexers : Reclaim(v) \/ Consume(v) \/ Submit(v) \/ Crash(v) \/ Split(v)
  BY DEF Next, ProducerStep, IndexerStep, OperatorStep, vars,
     CheckLag, QueueDocument, Bury, Ack, GiveUp, Misread, RunTask, Age, Peek, Requeue, Delete
<1>8. Goal
  BY <1>1, <1>4, <1>5, <1>6, <1>7
<1> QED BY <1>8 DEF ToSubmit

(* Who waits for the engine has submitted what he waits for.                *)
LEMMA WaitNext ==
  ASSUME TypeOK, [Next]_vars, NEW w \in Indexers, pc'[w] = "wait"
  PROVE  (pc[w] = "wait" /\ chunk'[w] = chunk[w]) \/ chunk'[w] \in chunks[w]
<1> DEFINE Goal == (pc[w] = "wait" /\ chunk'[w] = chunk[w]) \/ chunk'[w] \in chunks[w]
<1>1. ASSUME NEW v, v # w, NEW label, Goto(v, label), chunk'[w] = chunk[w] PROVE Goal
  BY <1>1 DEF Goto, TypeOK, LocalOK
<1>2. ASSUME NEW v \in Indexers, NEW label, Goto(v, label), label # "wait",
             \A u \in Indexers : u # v => chunk'[u] = chunk[u]
      PROVE  Goal
  <2>1. v # w
    BY <1>2 DEF Goto, TypeOK, LocalOK
  <2> QED BY <1>1, <1>2, <2>1
<1>3. Busy(w) # "wait" /\ \A v : Busy(v) # "wait"
  BY DEF Busy
<1>4. ASSUME NEW v \in Indexers, Reclaim(v) \/ Consume(v) PROVE Goal
  <2>1. chunk' = chunk /\ \E label : Goto(v, label) /\ label \in {"consume", "reclaim", Busy(v)}
    BY <1>4 DEF Reclaim, Consume, Receive
  <2> QED BY <1>2, <1>3, <2>1
<1>5. ASSUME NEW v \in Indexers, Submit(v) PROVE Goal
  <2>1. PICK c \in chunks[v] : chunk' = [chunk EXCEPT ![v] = c]
    BY <1>5 DEF Submit
  <2>2. Goto(v, "wait")
    BY <1>5 DEF Submit
  <2>3. CASE v = w
    BY <2>1, <2>3 DEF TypeOK, LocalOK
  <2>4. CASE v # w
    <3>1. chunk'[w] = chunk[w]
      BY <2>1, <2>4 DEF TypeOK, LocalOK
    <3> QED BY <1>1, <2>2, <2>4, <3>1
  <2> QED BY <2>3, <2>4
<1>6. ASSUME NEW v \in Indexers,
             Bury(v) \/ GiveUp(v) \/ Misread(v) \/ Ack(v) \/ Split(v) \/ Crash(v)
      PROVE  Goal
  <2>1. \E label : Goto(v, label) /\ label \in {"ack", "reclaim", "split", Busy(v)}
    BY <1>6 DEF Bury, GiveUp, Misread, Ack, Split, Crash
  <2>2. \A u \in Indexers : u # v => chunk'[u] = chunk[u]
    BY <1>6 DEF Bury, GiveUp, Misread, Ack, Split, Crash, TypeOK, LocalOK
  <2> QED BY <1>2, <1>3, <2>1, <2>2
<1>7. ASSUME NEW p \in Producers, ProducerStep(p) PROVE Goal
  <2>1. UNCHANGED chunk /\ p # w /\ \E label : Goto(p, label)
    BY <1>7, Assumptions DEF ProducerStep, CheckLag, QueueDocument
  <2> QED BY <1>1, <2>1
<1>8. CASE RunTask
  <2>1. chunk' = chunk /\ (pc' = pc \/ pc' = [pc EXCEPT ![Head(tasks).by] = "ack"]
                                   \/ pc' = [pc EXCEPT ![Head(tasks).by] = "split"])
    BY <1>8 DEF RunTask
  <2> QED BY <2>1 DEF TypeOK, LocalOK
<1>9. CASE OperatorStep \/ UNCHANGED vars \/ \E d \in Docs : Age(d)
  BY <1>9 DEF OperatorStep, Peek, Requeue, Delete, Age, vars
<1> QED BY <1>4, <1>5, <1>6, <1>7, <1>8, <1>9 DEF Next, IndexerStep

LEMMA SaneInit == Init => Sane
<1> SUFFICES ASSUME Init PROVE Sane
  OBVIOUS
<1>1. \A w \in Indexers : ToSubmit(w) = {} /\ pc[w] = "reclaim"
  BY Assumptions DEF Init, ToSubmit
<1> QED BY <1>1 DEF Init, Sane, Valid

(* The dead letters are kept until the operator deletes them, but for what  *)
(* is trimmed; and he replays what he has read.                             *)
LEMMA ReplayNext ==
  ASSUME TypeOK, [Next]_vars
  PROVE  /\ (\A d : Buried(d) => Buried(d)' \/ d \in erased') \/ Delete
         /\ trimmed \subseteq trimmed' /\ erased \subseteq erased'
         /\ \/ UNCHANGED <<letters, replay>>
            \/ Peek \/ Delete
            \/ Requeue /\ UNCHANGED letters
<1>1. UNCHANGED <<dead, erased>> \/ Delete \/ \E w \in Indexers : Bury(w)
  BY DEF Next, ProducerStep, IndexerStep, OperatorStep, vars,
     CheckLag, QueueDocument, Reclaim, Consume, Submit, Ack, Split, GiveUp, Misread, Crash, RunTask, Age,
     Peek, Requeue
<1>2. dead' = dead => \A d : Buried(d) => Buried(d)'
  BY DEF Buried
<1>3. (\A d : Buried(d) => Buried(d)' \/ d \in erased') \/ Delete
  BY <1>1, <1>2, BuryIs
<1>5. Delete => erased \subseteq erased'
  BY DEF Delete
<1>6. erased \subseteq erased'
  BY <1>1, <1>5, BuryIs
<1>7. trimmed' = trimmed \/ \E q : Produce(q)
  BY DEF Next, ProducerStep, IndexerStep, OperatorStep, vars,
     CheckLag, QueueDocument, Reclaim, Consume, Bury, Submit, Ack, Split, GiveUp, Misread, Crash, RunTask, Age,
     Peek, Requeue, Delete
<1>8. trimmed \subseteq trimmed'
  BY <1>7 DEF Produce
<1>4. UNCHANGED <<letters, replay>> \/ Peek \/ Delete \/ (Requeue /\ UNCHANGED letters)
  BY DEF Next, ProducerStep, IndexerStep, OperatorStep, vars,
     CheckLag, QueueDocument, Reclaim, Consume, Bury, Submit, Ack, Split, GiveUp, Misread, Crash, RunTask, Age,
     Requeue
<1> QED BY <1>3, <1>4, <1>6, <1>8

LEMMA SaneNext == Whole /\ [Next]_vars => Sane'
<1> SUFFICES ASSUME Whole, [Next]_vars PROVE Sane'
  OBVIOUS
<1>0. TypeOK /\ Owned /\ Inv /\ Sane /\ BadInv
  BY DEF Whole, Inv
<1>1. known \subseteq known'
  BY DEF Next, ProducerStep, IndexerStep, OperatorStep, vars,
     CheckLag, QueueDocument, Reclaim, Consume, Bury, Submit, Ack, Split, GiveUp, Misread, Crash, RunTask, Age,
     Peek, Requeue, Delete
<1>2. ASSUME NEW d \in index' PROVE d \in known' /\ Nature[d] = "sound"
  <2>1. CASE index' = index
    BY <1>0, <1>1, <2>1 DEF Sane
  <2>2. ASSUME NEW n \in DOMAIN tasks, index' = index \cup tasks[n].docs,
               \A e \in tasks[n].docs : Nature[e] # "rejected"
        PROVE  d \in known' /\ Nature[d] = "sound"
    <3>1. CASE d \in index
      BY <1>0, <1>1, <3>1 DEF Sane
    <3>2. CASE d \in tasks[n].docs
      <4>1. d \in known /\ Nature[d] # "refused" /\ Nature[d] # "rejected"
        BY <1>0, <2>2, <3>2 DEF Sane, Valid
      <4>2. d \in Docs
        BY <1>0, <4>1 DEF TypeOK, HistoryOK
      <4> QED BY <1>1, <4>1, <4>2, Assumptions
    <3> QED BY <1>2, <2>2, <3>1, <3>2
  <2> QED BY <1>0, <2>1, <2>2, IndexNext
<1>3. ASSUME NEW n \in DOMAIN tasks' PROVE tasks'[n].docs \subseteq known' /\ Valid(tasks'[n].docs)
  <2>1. CASE \E m \in DOMAIN tasks : tasks'[n].docs = tasks[m].docs
    BY <1>0, <1>1, <2>1 DEF Sane, Valid
  <2>2. ASSUME NEW w \in Indexers, tasks'[n].docs \in chunks[w]
        PROVE  tasks'[n].docs \subseteq known' /\ Valid(tasks'[n].docs)
    <3>1. tasks'[n].docs \subseteq known
      BY <1>0, <2>2 DEF Inv, AllKnown, KnownBy
    <3>2. tasks'[n].docs \subseteq ToSubmit(w)
      BY <2>2 DEF ToSubmit
    <3> QED BY <1>0, <1>1, <3>1, <3>2 DEF Sane, Valid
  <2> QED BY <1>0, <2>1, <2>2, TasksNext
<1>4. ASSUME NEW w \in Indexers PROVE Valid(ToSubmit(w)')
  BY <1>0, ToSubmitNext DEF Sane, Valid
<1>5. ASSUME NEW w \in Indexers, pc'[w] \in {"wait", "split"} PROVE Valid(chunk'[w])
  <2>1. CASE pc'[w] = "wait"
    <3>1. CASE pc[w] = "wait" /\ chunk'[w] = chunk[w]
      BY <1>0, <3>1 DEF Sane
    <3>2. CASE chunk'[w] \in chunks[w]
      BY <1>0, <3>2 DEF Sane, Valid, ToSubmit
    <3> QED BY <1>0, <2>1, <3>1, <3>2, WaitNext
  <2>2. CASE pc'[w] = "split"
    <3>1. CASE pc'[w] = pc[w] /\ chunk'[w] = chunk[w]
      BY <1>0, <2>2, <3>1 DEF Sane
    <3>2. CASE Ran(w)
      BY <1>0, <3>2 DEF Sane, Ran
    <3>3. CASE Misread(w) /\ pc[w] = "wait"
      BY <1>0, <3>3 DEF Sane, Misread
    <3> QED BY <1>0, <2>2, <3>1, <3>2, <3>3, Decided
  <2> QED BY <1>5, <2>1, <2>2
<1>6. ASSUME replay' # "idle", NEW n \in DOMAIN letters'
      PROVE  \/ \E m \in DOMAIN dead' : dead'[m].doc = letters'[n].doc
             \/ letters'[n].doc \in Excused'
  <2>1. ~ Delete
    BY <1>6 DEF Delete
  <2>2. \A d : Held(d) => Held(d)'
    BY <1>0, <2>1, ReplayNext DEF Held, Excused
  <2>3. CASE Peek
    <3>1. \E m \in DOMAIN dead : letters'[n] = dead[m]
      BY <1>0, <2>3, PeekIs
    <3>2. PICK m \in DOMAIN dead : letters'[n] = dead[m]
      BY <3>1
    <3> QED BY <2>3, <3>2 DEF Peek
  <2>4. CASE ~ Peek
    <3>1. letters' = letters /\ replay # "idle"
      BY <1>0, <1>6, <2>1, <2>4, ReplayNext DEF Requeue
    <3>2. n \in DOMAIN letters /\ Held(letters[n].doc)
      BY <1>0, <3>1 DEF Sane
    <3>3. Held(letters[n].doc)'
      BY <2>2, <3>1, <3>2 DEF Held, Buried
    <3> QED BY <3>1, <3>3 DEF Held, Buried
  <2> QED BY <2>3, <2>4
<1>7. ASSUME NEW w \in Indexers PROVE Valid(ToSubmit(w))'
  BY <1>4 DEF Valid
<1>8. replay' # "idle" => \A n \in DOMAIN letters' : Held(letters[n].doc)'
  BY <1>6 DEF Held, Buried
<1>9. \A w \in Indexers : pc'[w] \in {"wait", "split"} => Valid(chunk[w])'
  BY <1>5 DEF Valid
<1> QED BY <1>2, <1>3, <1>7, <1>8, <1>9 DEF Sane, Valid

(* The place of a document. *)
KeptHere(d) == \/ PlaceOf(d)' = PlaceOf(d)
               \/ PlaceOf(d) = "waiting" /\ PlaceOf(d)' = "taken" /\ d \in Excused'

LEMMA PlaceIs ==
  ASSUME Whole
  PROVE  /\ \A d : Buried(d) => d \in known /\ d \in Docs /\ Bad(d) /\ (d \in index => d \in blamed)
         /\ Unacked(stream) \cup index \subseteq known
         /\ \A d \in known : d \in Docs /\ PlaceOf(d) # "unknown"
<1>1. TypeOK /\ Inv /\ Sane /\ BadInv
  BY DEF Whole, Inv
<1>2. \A d : Buried(d) => d \in known /\ d \in Docs /\ Bad(d)
  BY <1>1 DEF Buried, Inv, AllKnown, KnownStore, BadInv, OnlyBadAreBuried, Bad, TypeOK, HistoryOK
<1>3. Unacked(stream) \cup index \subseteq known
  BY <1>1 DEF Inv, AllKnown, KnownStore, Sane
<1>4. \A d : Buried(d) /\ d \in index => d \in blamed
  BY <1>1, <1>2 DEF Sane, Bad
<1>5. \A d \in known : d \in Docs /\ PlaceOf(d) # "unknown"
  BY <1>1 DEF PlaceOf, TypeOK, HistoryOK
<1> QED BY <1>2, <1>3, <1>4, <1>5

(* A document whose entries are acknowledged or trimmed, and nothing else,  *)
(* is kept where it is, or taken away with an excuse.                       *)
LEMMA KeptIs ==
  ASSUME Whole, NEW d, index' = index, Buried(d)' <=> Buried(d), d \in known' <=> d \in known,
         d \in Unacked(stream') => d \in Unacked(stream) \/ Buried(d),
         d \in Unacked(stream) => \/ d \in Unacked(stream') \cup index \cup Excused'
                                  \/ Buried(d)
  PROVE  KeptHere(d)
BY PlaceIs DEF KeptHere, PlaceOf

LEMMA SamePlace ==
  ASSUME UNCHANGED <<dead, index, known>>, NEW d, d \in Unacked(stream') <=> d \in Unacked(stream)
  PROVE  PlaceOf(d)' = PlaceOf(d)
BY DEF PlaceOf, Buried

(* The newest entry is not trimmed. *)
LEMMA NewestStays ==
  ASSUME StoreOK, NEW payloads \in Seq(Payload), payloads # <<>>, Produce(payloads)
  PROVE  payloads[Len(payloads)].doc \in Unacked(stream')
<1> DEFINE L == Longer(payloads)
           n == Len(payloads)
<1>1. /\ L \in Seq(Slot) /\ Len(L) = Len(stream) + n /\ n \in Nat \ {0} /\ Len(stream) \in Nat
      /\ L[n + Len(stream)] = New(payloads[n]) /\ payloads[n] \in Payload
  BY LongerType, SMTT(60) DEF StoreOK
<1>2. stream' = Trim(L) /\ stream' \in Seq(Slot)
  BY ProduceType
<1> HIDE DEF L
<1>3. Len(stream') \in 1 .. Len(L) /\ stream'[Len(stream')] = L[Len(L)]
  <2>1. /\ Cut(L) \in 0 .. Len(L) /\ Len(stream') = Len(L) - Cut(L) /\ Cut(L) < Len(L)
        /\ \A i \in 1 .. Len(stream') : stream'[i] = L[i + Cut(L)]
    <3>1. /\ Cut(L) \in 0 .. Len(L) /\ Len(Trim(L)) = Len(L) - Cut(L)
          /\ \A i \in 1 .. Len(Trim(L)) : Trim(L)[i] = L[i + Cut(L)]
      BY <1>1, TrimKeeps
    <3>2. Cut(L) < Len(L)
      BY <1>1, Assumptions DEF Cut
    <3> QED BY <1>2, <3>1, <3>2
  <2>2. Len(stream') \in 1 .. Len(L) /\ Len(stream') + Cut(L) = Len(L)
    BY <1>1, <2>1
  <2> QED BY <2>1, <2>2
<1>4. stream'[Len(stream')] = New(payloads[n])
  BY <1>1, <1>3
<1>5. New(payloads[n]) # Acked /\ New(payloads[n]).doc = payloads[n].doc
  BY <1>1, NewType, SlotType
<1>6. Len(stream') \in DOMAIN stream'
  BY <1>2, <1>3
<1> QED BY <1>4, <1>5, <1>6 DEF Unacked

LEMMA DeliveryInit == Init => DeliveryMap!Init
<1> SUFFICES ASSUME Init PROVE DeliveryMap!Init
  OBVIOUS
<1>1. Unacked(stream) = {} /\ \A d : ~ Buried(d)
  BY DEF Init, Unacked, Buried
<1>2. \A d \in Docs : PlaceOf(d) = "unknown"
  BY <1>1 DEF Init, PlaceOf
<1> QED BY <1>2 DEF Init, DeliveryMap!Init

(* A crawl worker queues a document. *)
LEMMA QueueMaps ==
  ASSUME Whole, [Next]_vars, NEW p \in Producers, QueueDocument(p)
  PROVE  (\E d \in Docs : DeliveryMap!Queue(d)) \/ UNCHANGED DeliveryMap!vars
<1>0. TypeOK /\ AllKnown /\ StoreOK /\ BaresLast(stream)
  BY DEF Whole, Inv, TypeOK
<1>1. UNCHANGED <<dead, index, erased, blamed, replay>>
  BY DEF QueueDocument
<1>2. CASE stream' = stream /\ trimmed' = trimmed /\ known' = known
  <2>1. \A d : PlaceOf(d)' = PlaceOf(d)
    BY <1>1, <1>2, SamePlace
  <2> QED BY <1>1, <1>2, <2>1 DEF DeliveryMap!vars
<1>3. ASSUME NEW d \in Docs \ known, NEW payloads \in Seq(Payload),
             payloads = <<[doc |-> d, shape |-> "job"]>>, Produce(payloads), Queueable(payloads),
             known' = known \cup {d}
      PROVE  DeliveryMap!Queue(d)
  <2>1. Len(payloads) = 1 /\ payloads[1].doc = d /\ DOMAIN payloads = {1} /\ payloads # <<>>
    BY <1>3
  <2>2. /\ Unacked(stream') \subseteq Unacked(stream) \cup {payloads[n].doc : n \in DOMAIN payloads}
        /\ Unacked(stream) \subseteq Unacked(stream') \cup trimmed'
        /\ trimmed \subseteq trimmed'
    BY <1>0, <1>3, ProduceKeeps
  <2>3. Unacked(stream') \subseteq Unacked(stream) \cup {d}
    BY <2>1, <2>2
  <2>4. d \in Unacked(stream')
    BY <1>0, <1>3, <2>1, NewestStays
  <2>5. \A e : Buried(e)' <=> Buried(e)
    BY <1>1 DEF Buried
  <2>6. PlaceOf(d) = "unknown" /\ PlaceOf(d)' = "waiting"
    BY <1>1, <1>3, <2>4, <2>5, PlaceIs DEF PlaceOf
  <2>7. ASSUME NEW e \in Docs \ {d} PROVE KeptHere(e)
    BY <1>1, <1>3, <2>2, <2>3, <2>5, <2>7, KeptIs DEF Excused
  <2> QED BY <1>1, <2>2, <2>6, <2>7 DEF DeliveryMap!Queue, DeliveryMap!Kept, KeptHere, Excused
<1>4. CASE \E d \in Docs \ known : \E payloads \in Seq(Payload) :
             /\ payloads = <<[doc |-> d, shape |-> "job"]>>
             /\ Produce(payloads) /\ Queueable(payloads)
             /\ known' = known \cup {d}
             /\ {payloads[n].doc : n \in DOMAIN payloads} = {d} /\ 1 \in DOMAIN payloads
  BY <1>3, <1>4
<1> QED BY <1>0, <1>2, <1>4, QueueDocumentIs

(* A letter is written, entries are acknowledged, or the engine runs a task. *)
Delivered(d) ==
  \/ KeptHere(d)
  \/ /\ Nature[d] = "sound" /\ PlaceOf(d)' = "found"
     /\ PlaceOf(d) \in {"waiting", "taken"} \/ (PlaceOf(d) = "buried" /\ d \in blamed)
  \/ Bad(d) /\ PlaceOf(d) \in {"waiting", "taken"} /\ PlaceOf(d)' = "buried"
  \/ PlaceOf(d) = "buried" /\ PlaceOf(d)' \in {"waiting", "taken"} /\ d \in Excused'

LEMMA DeliverMaps ==
  ASSUME Whole, UNCHANGED <<trimmed, blamed, replay>>, erased \subseteq erased',
         \A d \in Docs : Delivered(d)
  PROVE  DeliveryMap!Deliver
<1>1. ASSUME NEW d \in Docs
      PROVE  DeliveryMap!Kept(d) \/ DeliveryMap!Found(d) \/ DeliveryMap!Judged(d) \/ DeliveryMap!Dropped(d)
  <2>1. CASE KeptHere(d)
    BY <2>1 DEF KeptHere, Excused, DeliveryMap!Kept
  <2>2. CASE /\ Nature[d] = "sound" /\ PlaceOf(d)' = "found"
             /\ PlaceOf(d) \in {"waiting", "taken"} \/ (PlaceOf(d) = "buried" /\ d \in blamed)
    BY <2>2 DEF DeliveryMap!Found
  <2>3. CASE Bad(d) /\ PlaceOf(d) \in {"waiting", "taken"} /\ PlaceOf(d)' = "buried"
    BY <2>3 DEF Bad, DeliveryMap!Judged
  <2>4. CASE PlaceOf(d) = "buried" /\ PlaceOf(d)' \in {"waiting", "taken"} /\ d \in Excused'
    BY <2>4 DEF Excused, DeliveryMap!Dropped
  <2> QED BY <2>1, <2>2, <2>3, <2>4 DEF Delivered
<1> QED BY <1>1 DEF DeliveryMap!Deliver

LEMMA BuryMaps ==
  ASSUME Whole, NEW w \in Indexers, Bury(w)
  PROVE  DeliveryMap!Deliver
<1>1. UNCHANGED <<stream, index, known, trimmed, blamed, replay>>
  BY DEF Bury
<1>2. /\ \A d : Buried(d) => Buried(d)' \/ d \in erased'
      /\ erased \subseteq erased'
  BY BuryIs DEF Whole, Inv
<1>3. PICK l \in refused[w] : Buried(l.doc)' /\ \A d : Buried(d)' => Buried(d) \/ d = l.doc
  BY BuryIs DEF Whole, Inv
<1>4. l.doc \in known /\ Bad(l.doc)
  BY DEF Whole, Inv, AllKnown, KnownBy, BadInv, BadAtHand
<1>5. ASSUME NEW d \in Docs PROVE Delivered(d)
  <2>1. CASE d \in index \/ (Buried(d)' <=> Buried(d))
    BY <1>1, <2>1 DEF Delivered, KeptHere, PlaceOf
  <2>2. CASE d \notin index /\ Buried(d) /\ ~ Buried(d)'
    <3>1. d \in known /\ d \in erased'
      BY <1>2, <2>2, PlaceIs
    <3>2. PlaceOf(d) = "buried" /\ PlaceOf(d)' \in {"waiting", "taken"}
      BY <1>1, <2>2, <3>1 DEF PlaceOf
    <3> QED BY <3>1, <3>2 DEF Delivered, Excused
  <2>3. CASE d \notin index /\ ~ Buried(d) /\ Buried(d)'
    <3>1. d \in known /\ Bad(d)
      BY <1>3, <1>4, <2>3
    <3>2. PlaceOf(d)' = "buried" /\ PlaceOf(d) \in {"waiting", "taken"}
      BY <1>1, <2>3, <3>1 DEF PlaceOf
    <3> QED BY <3>1, <3>2 DEF Delivered
  <2> QED BY <2>1, <2>2, <2>3
<1> QED BY <1>1, <1>2, <1>5, DeliverMaps

LEMMA AckMaps ==
  ASSUME Whole, NEW w \in Indexers, Ack(w)
  PROVE  DeliveryMap!Deliver
<1>1. UNCHANGED <<dead, index, known, trimmed, erased, blamed, replay>> /\ stream' = AckedDocs(chunk[w])
  BY DEF Ack
<1>2. /\ Unacked(stream') \subseteq Unacked(stream)
      /\ Unacked(stream) \subseteq Unacked(stream') \cup chunk[w]
      /\ Bares(stream) \subseteq Bares(stream')
  BY <1>1, AckedDocsKeeps DEF Whole, Inv, TypeOK
<1>3. Bares(stream') \subseteq Unacked(stream')
  BY DEF Bares, Unacked, IsBare
<1>4. ASSUME NEW d \in Docs PROVE KeptHere(d)
  <2>1. d \in chunk[w] => Safe(d)
    BY DEF Whole, Inv, Durable, Ack, At
  <2>2. Buried(d)' <=> Buried(d)
    BY <1>1 DEF Buried
  <2>3. d \in Unacked(stream) => \/ d \in Unacked(stream') \cup index \cup Excused'
                                 \/ Buried(d)
    BY <1>1, <1>2, <1>3, <2>1 DEF Safe, Excused
  <2> QED BY <1>1, <1>2, <2>2, <2>3, KeptIs
<1> QED BY <1>1, <1>4, DeliverMaps DEF Delivered

LEMMA RunTaskMaps ==
  ASSUME Whole, [Next]_vars, RunTask
  PROVE  DeliveryMap!Deliver
<1>0. TypeOK /\ Sane
  BY DEF Whole, Inv
<1>1. UNCHANGED <<stream, dead, known, trimmed, erased, blamed, replay>>
  BY DEF RunTask
<1>2. \A d : Buried(d)' <=> Buried(d)
  BY <1>1 DEF Buried
<1>3. index \subseteq index' /\ \A d \in index' : d \in known /\ Nature[d] = "sound"
  <2>1. CASE index' = index
    BY <1>0, <2>1 DEF Sane
  <2>2. ASSUME NEW n \in DOMAIN tasks, index' = index \cup tasks[n].docs,
               \A e \in tasks[n].docs : Nature[e] # "rejected"
        PROVE  index \subseteq index' /\ \A d \in index' : d \in known /\ Nature[d] = "sound"
    <3>1. \A e \in tasks[n].docs : e \in known /\ e \in Docs /\ Nature[e] # "refused"
      BY <1>0 DEF Sane, Valid, TypeOK, HistoryOK
    <3>2. \A e \in tasks[n].docs : Nature[e] = "sound"
      BY <2>2, <3>1, Assumptions
    <3> QED BY <1>0, <2>2, <3>1, <3>2 DEF Sane
  <2> QED BY <1>0, <2>1, <2>2, IndexNext
<1>4. ASSUME NEW d \in Docs PROVE Delivered(d)
  <2>1. CASE d \in index \/ d \notin index'
    BY <1>1, <1>2, <1>3, <2>1 DEF Delivered, KeptHere, PlaceOf
  <2>2. CASE d \notin index /\ d \in index'
    <3>1. d \in known /\ Nature[d] = "sound" /\ (Buried(d) => d \in blamed)
      BY <1>3, <2>2, PlaceIs DEF Bad
    <3>2. PlaceOf(d) \in {"waiting", "taken"} \/ (PlaceOf(d) = "buried" /\ d \in blamed)
      BY <2>2, <3>1 DEF PlaceOf
    <3>3. PlaceOf(d)' = "found"
      BY <2>2 DEF PlaceOf
    <3> QED BY <3>1, <3>2, <3>3 DEF Delivered
  <2> QED BY <2>1, <2>2
<1> QED BY <1>1, <1>4, DeliverMaps

(* The operator's three steps. *)
LEMMA RequeueMaps ==
  ASSUME Whole, Requeue
  PROVE  DeliveryMap!Requeue
<1>1. /\ UNCHANGED <<dead, index, known, erased, blamed>>
      /\ replay = "requeue" /\ replay' = "delete" /\ Produce(letters)
  BY DEF Requeue
<1>2. letters \in Seq(Payload) /\ Queueable(letters) /\ StoreOK /\ BaresLast(stream)
  BY DEF Whole, Inv, TypeOK, StoreOK, BareLetters, Queueable
<1>3. /\ Unacked(stream') \subseteq Unacked(stream) \cup {letters[n].doc : n \in DOMAIN letters}
      /\ Unacked(stream) \subseteq Unacked(stream') \cup trimmed'
      /\ trimmed \subseteq trimmed'
  BY <1>1, <1>2, ProduceKeeps
<1>4. \A n \in DOMAIN letters : Held(letters[n].doc) /\ letters[n].doc \in known
  BY <1>1 DEF Whole, Sane, Inv, AllKnown, KnownStore
<1>6. \A d : Buried(d)' <=> Buried(d)
  BY <1>1 DEF Buried
<1>5. ASSUME NEW d \in Docs
      PROVE  KeptHere(d) \/ (PlaceOf(d) = "taken" /\ PlaceOf(d)' = "waiting" /\ d \in Excused)
  <2>1. CASE d \in Unacked(stream') => d \in Unacked(stream) \/ Buried(d)
    BY <1>1, <1>3, <1>6, <2>1, KeptIs DEF Excused
  <2>2. CASE d \in Unacked(stream') /\ d \notin Unacked(stream) /\ ~ Buried(d)
    <3>1. d \in known /\ d \in Excused
      BY <1>3, <1>4, <2>2 DEF Held
    <3>2. CASE d \in index
      BY <1>1, <3>2 DEF KeptHere, PlaceOf
    <3>3. CASE d \notin index
      <4>1. PlaceOf(d) = "taken" /\ PlaceOf(d)' = "waiting"
        BY <1>1, <1>6, <2>2, <3>1, <3>3 DEF PlaceOf
      <4> QED BY <3>1, <4>1
    <3> QED BY <3>2, <3>3
  <2> QED BY <2>1, <2>2
<1> QED BY <1>1, <1>3, <1>5 DEF DeliveryMap!Requeue, DeliveryMap!Kept, KeptHere, Excused

LEMMA DeleteMaps ==
  ASSUME Whole, [Next]_vars, Delete
  PROVE  DeliveryMap!Delete
<1>1. UNCHANGED <<stream, index, known, trimmed, blamed>> /\ replay = "delete" /\ replay' = "idle"
  BY DEF Delete
<1>2. CASE UNCHANGED <<dead, erased>>
  <2>1. \A d : PlaceOf(d)' = PlaceOf(d)
    BY <1>1, <1>2, SamePlace
  <2> QED BY <1>1, <1>2, <2>1 DEF DeliveryMap!Delete
<1>3. CASE dead' = <<>> /\ erased \subseteq erased'
  <2>1. \A d : ~ Buried(d)'
    BY <1>3 DEF Buried
  <2>2. NeverNowhere'
    BY InvNext DEF Whole, Inv
  <2>3. ASSUME NEW d \in Docs
        PROVE  IF PlaceOf(d) = "buried" THEN \/ PlaceOf(d)' = "waiting"
                                             \/ PlaceOf(d)' = "taken" /\ d \in Excused'
               ELSE PlaceOf(d)' = PlaceOf(d)
    <3>1. CASE Buried(d) /\ d \notin index
      <4>1. d \in known' /\ d \notin index' /\ PlaceOf(d) = "buried"
        BY <1>1, <3>1, PlaceIs DEF PlaceOf
      <4>2. d \in Unacked(stream') \cup Excused'
        BY <2>1, <2>2, <4>1 DEF NeverNowhere, Excused
      <4> QED BY <2>1, <4>1, <4>2 DEF PlaceOf
    <3>2. CASE ~ Buried(d) \/ d \in index
      BY <1>1, <2>1, <3>2 DEF PlaceOf
    <3> QED BY <3>1, <3>2
  <2> QED BY <1>1, <1>3, <2>3 DEF DeliveryMap!Delete, DeliveryMap!Risen, Excused
<1> QED BY <1>2, <1>3 DEF Delete

LEMMA PeekMaps ==
  ASSUME Whole, Peek
  PROVE  DeliveryMap!Read \/ UNCHANGED DeliveryMap!vars
<1>1. UNCHANGED <<stream, dead, index, known, trimmed, erased, blamed>> /\ replay = "idle" /\ dead # <<>>
  BY DEF Peek
<1>2. replay' \in {"idle", "requeue"}
  BY DEF Peek
<1>3. \A d : PlaceOf(d)' = PlaceOf(d)
  BY <1>1, SamePlace
<1>4. \E d \in Docs : PlaceOf(d) = "buried" \/ d \in blamed
  <2>1. 1 \in DOMAIN dead
    BY <1>1 DEF Whole, Inv, TypeOK, StoreOK
  <2>2. Buried(dead[1].doc)
    BY <2>1 DEF Buried
  <2> QED BY <2>2, PlaceIs DEF PlaceOf
<1> QED BY <1>1, <1>2, <1>3, <1>4 DEF DeliveryMap!Read, DeliveryMap!vars

LEMMA StillMaps ==
  ASSUME TypeOK, [Next]_vars, Still, UNCHANGED replay, stream' = stream \/ Similar(stream, stream')
  PROVE  DeliveryMap!Next \/ UNCHANGED DeliveryMap!vars
<1>1. stream \in Seq(Slot) /\ stream' \in Seq(Slot)
  BY TypeNext DEF TypeOK, StoreOK, Slot
<1>2. Unacked(stream') = Unacked(stream)
  BY <1>1, SimilarKeeps
<1>3. \A d : PlaceOf(d)' = PlaceOf(d)
  BY <1>2, SamePlace DEF Still
<1>4. CASE blamed' = blamed
  BY <1>3, <1>4 DEF Still, DeliveryMap!vars
<1>5. ASSUME NEW w \in Indexers, Misread(w), blamed' # blamed PROVE DeliveryMap!Next
  <2>1. blamed' = blamed \cup chunk[w] /\ Cardinality(chunk[w]) = 1
    BY <1>5 DEF Misread
  <2>2. chunk[w] \subseteq Docs /\ IsFiniteSet(chunk[w])
    BY Assumptions, FS_Subset DEF TypeOK, LocalOK
  <2>3. PICK d : chunk[w] = {d}
    BY <2>1, <2>2, FS_Singleton
  <2>4. DeliveryMap!Misjudge(d) /\ d \in Docs
    BY <1>3, <2>1, <2>2, <2>3 DEF Still, DeliveryMap!Misjudge
  <2> QED BY <2>4 DEF DeliveryMap!Next
<1> QED BY <1>4, <1>5, BlamedNext

LEMMA DeliveryStep == Whole /\ [Next]_vars => [DeliveryMap!Next]_(DeliveryMap!vars)
<1> SUFFICES ASSUME Whole, [Next]_vars PROVE DeliveryMap!Next \/ UNCHANGED DeliveryMap!vars
  OBVIOUS
<1>0. TypeOK
  BY DEF Whole, Inv
<1>1. CASE Peek
  BY <1>1, PeekMaps DEF DeliveryMap!Next
<1>2. CASE Requeue
  BY <1>2, RequeueMaps DEF DeliveryMap!Next
<1>3. CASE Delete
  BY <1>3, DeleteMaps DEF DeliveryMap!Next
<1>4. CASE RunTask
  BY <1>4, RunTaskMaps DEF DeliveryMap!Next
<1>5. ASSUME NEW p \in Producers, QueueDocument(p) PROVE DeliveryMap!Next \/ UNCHANGED DeliveryMap!vars
  BY <1>5, QueueMaps DEF DeliveryMap!Next
<1>6. ASSUME NEW w \in Indexers, Bury(w) \/ Ack(w) PROVE DeliveryMap!Next
  BY <1>6, BuryMaps, AckMaps DEF DeliveryMap!Next
<1>7. CASE Still /\ (stream' = stream \/ Similar(stream, stream')) /\ UNCHANGED replay
  BY <1>0, <1>7, StillMaps
<1>8. UNCHANGED replay \/ Peek \/ Requeue \/ Delete
  BY <1>0, ReplayNext
<1> QED BY <1>0, <1>1, <1>2, <1>3, <1>4, <1>5, <1>6, <1>7, <1>8, StoreCases

(* The index queue is the abstract delivery: a sound document comes to be   *)
(* found and stays so, no other does, a sound one is buried only if it was  *)
(* misjudged, nothing is taken away but what was trimmed off the stream or  *)
(* off the dead letters or deleted with them, and buried documents come     *)
(* back by a replay that queued them first, or as their letters are trimmed *)
(* (lib.rs:12-20, indexer.rs:308-363, dlq.rs:42-105).                       *)
THEOREM QueueDelivers == Spec => DeliveryKept
<1>1. Init => Whole
  BY InvInit, BadInvInit, SaneInit DEF Whole
<1>2. Whole /\ [Next]_vars => Whole'
  BY InvNext, BadInvNext, SaneNext DEF Whole
<1> QED BY <1>1, <1>2, DeliveryInit, DeliveryStep, PTL DEF Spec, DeliveryKept, DeliveryMap!Spec

-----------------------------------------------------------------------------
(* Backpressure.  The unread entries are the last of the stream; and with   *)
(* the documents that workers past their look at the lag have still to      *)
(* queue, those behind the last replayed letter are no more than Room.      *)
NewJob(e)   == e.status = "new" /\ e.shape = "job"
NewLast(s)  == \A i, j \in DOMAIN s : i < j /\ s[i].status = "new" => s[j].status = "new"
Short(s, n) == Len(s) > n => \E k \in (Len(s) - n) .. Len(s) : ~ NewJob(s[k])

Past(at) == {p \in Producers : at[p] = "produce"}
Room(at) == BackpressureAt - 1 + Cardinality(Producers) - Cardinality(Past(at))

Paced ==
  /\ NewLast(stream)
  /\ ~ blind => Short(stream, Room(pc))
  /\ ReplayLimit = 0 => letters = <<>> /\ AllJobs

(* A step that queues nothing and acknowledges nothing unread.              *)
Reads(s, t) ==
  /\ Len(t) = Len(s) /\ NewLast(t)
  /\ \A i \in DOMAIN s : /\ t[i].status = "new" => t[i] = s[i]
                         /\ s[i].status = "new" => t[i] # Acked /\ t[i].doc = s[i].doc
                         /\ t[i] # Acked => s[i] # Acked /\ t[i].shape = s[i].shape

LEMMA RoomIs ==
  ASSUME NEW at
  PROVE  /\ BackpressureAt \in Nat /\ BackpressureAt > 0 /\ Cardinality(Producers) \in Nat
         /\ IsFiniteSet(Past(at)) /\ Cardinality(Past(at)) \in Nat
         /\ Room(at) \in Nat /\ Room(at) >= BackpressureAt - 1
         /\ ReplayLimit = 0 => Room(at) <= MaxLen
         /\ ReplayLimit # 0 => Room(at) < MaxLen
<1>1. BackpressureAt \in Nat /\ BackpressureAt > 0 /\ IsFiniteSet(Producers)
  BY IndexQueueAssumption, RoomAssumption
<1>2. Past(at) \in SUBSET Producers
  BY DEF Past
<1>3. /\ IsFiniteSet(Past(at)) /\ Cardinality(Past(at)) <= Cardinality(Producers)
      /\ Cardinality(Past(at)) \in Nat /\ Cardinality(Producers) \in Nat
  BY <1>1, <1>2, FS_Subset, FS_CardinalityType
<1>4. BackpressureAt + Cardinality(Producers) <= IF ReplayLimit = 0 THEN MaxLen + 1 ELSE MaxLen
  BY RoomAssumption
<1> QED BY <1>1, <1>3, <1>4, Assumptions DEF Room

LEMMA ShortOfMore ==
  ASSUME NEW s \in Seq(Slot), NEW n \in Nat, NEW m \in Nat, n <= m, Short(s, n)
  PROVE  Short(s, m)
<1> SUFFICES ASSUME Len(s) > m PROVE \E k \in (Len(s) - m) .. Len(s) : ~ NewJob(s[k])
  BY DEF Short
<1>1. Len(s) \in Nat /\ Len(s) > n
  OBVIOUS
<1>2. PICK k \in (Len(s) - n) .. Len(s) : ~ NewJob(s[k])
  BY <1>1 DEF Short
<1>3. k \in (Len(s) - m) .. Len(s)
  BY <1>1, <1>2
<1> QED BY <1>2, <1>3

LEMMA TrimKeepsShort ==
  ASSUME NEW s \in Seq(Slot), NEW n \in Nat
  PROVE  /\ Short(s, n) => Short(Trim(s), n)
         /\ NewLast(s) => NewLast(Trim(s))
<1> DEFINE t == Trim(s)
           c == Cut(s)
<1>1. /\ c \in 0 .. Len(s) /\ Len(s) \in Nat /\ t \in Seq(Slot) /\ Len(t) = Len(s) - c
      /\ \A i \in 1 .. Len(t) : i + c \in 1 .. Len(s) /\ t[i] = s[i + c]
  BY TrimKeeps
<1> HIDE DEF t, c
<1>2. DOMAIN t = 1 .. Len(t) /\ DOMAIN s = 1 .. Len(s)
  BY <1>1
<1>3. ASSUME Short(s, n), Len(t) > n PROVE \E k \in (Len(t) - n) .. Len(t) : ~ NewJob(t[k])
  <2>1. Len(s) > n
    BY <1>1, <1>3
  <2>2. PICK k \in (Len(s) - n) .. Len(s) : ~ NewJob(s[k])
    BY <1>3, <2>1 DEF Short
  <2>3. /\ k - c \in (Len(t) - n) .. Len(t) /\ k - c \in 1 .. Len(t) /\ (k - c) + c = k
    BY <1>1, <1>3, <2>2
  <2>4. t[k - c] = s[k]
    BY <1>1, <2>3
  <2> QED BY <2>2, <2>3, <2>4
<1>4. ASSUME NewLast(s), NEW i \in DOMAIN t, NEW j \in DOMAIN t, i < j, t[i].status = "new"
      PROVE  t[j].status = "new"
  <2>1. i + c \in DOMAIN s /\ j + c \in DOMAIN s /\ i + c < j + c /\ t[i] = s[i + c] /\ t[j] = s[j + c]
    BY <1>1, <1>2, <1>4
  <2> QED BY <1>4, <2>1 DEF NewLast
<1>5. Short(s, n) => Short(t, n)
  BY <1>3 DEF Short
<1>6. NewLast(s) => NewLast(t)
  BY <1>4 DEF NewLast
<1> QED BY <1>5, <1>6 DEF t

LEMMA NewIsNew == \A p : New(p).status = "new" /\ New(p).shape = p.shape
BY DEF New

LEMMA LongerKeepsShort ==
  ASSUME StoreOK, NEW payloads \in Seq(Payload), NEW n \in Nat
  PROVE  /\ NewLast(stream) => NewLast(Longer(payloads))
         /\ Len(payloads) = 1 /\ Short(stream, n) => Short(Longer(payloads), n + 1)
         /\ Len(payloads) > 0 /\ (\A i \in DOMAIN payloads : payloads[i].shape = "bare")
              => Short(Longer(payloads), n)
<1> DEFINE L == Longer(payloads)
           m == Len(stream)
<1>1. /\ L \in Seq(Slot) /\ Len(L) = m + Len(payloads) /\ m \in Nat /\ Len(payloads) \in Nat
      /\ \A i \in 1 .. m : L[i] = stream[i]
      /\ \A i \in 1 .. Len(payloads) : L[i + m] = New(payloads[i])
  BY LongerType DEF StoreOK
<1>2. DOMAIN L = 1 .. m + Len(payloads) /\ DOMAIN stream = 1 .. m /\ DOMAIN payloads = 1 .. Len(payloads)
  BY <1>1 DEF StoreOK
<1> HIDE DEF L
<1>3. ASSUME NEW j \in DOMAIN L, j > m PROVE L[j].status = "new"
  <2>1. j - m \in 1 .. Len(payloads) /\ (j - m) + m = j
    BY <1>1, <1>2, <1>3
  <2>2. L[j] = New(payloads[j - m])
    BY <1>1, <2>1
  <2> QED BY <2>2, NewIsNew
<1>4. ASSUME NewLast(stream), NEW i \in DOMAIN L, NEW j \in DOMAIN L, i < j, L[i].status = "new"
      PROVE  L[j].status = "new"
  <2>1. CASE j > m
    BY <1>3, <2>1
  <2>2. CASE ~ (j > m)
    <3>1. i \in DOMAIN stream /\ j \in DOMAIN stream
      BY <1>1, <1>2, <1>4, <2>2
    <3>2. L[i] = stream[i] /\ L[j] = stream[j]
      BY <1>1, <1>2, <3>1
    <3> QED BY <1>4, <3>1, <3>2 DEF NewLast
  <2> QED BY <2>1, <2>2
<1>5. ASSUME Len(payloads) = 1, Short(stream, n), Len(L) > n + 1
      PROVE  \E k \in (Len(L) - (n + 1)) .. Len(L) : ~ NewJob(L[k])
  <2>1. m > n
    BY <1>1, <1>5
  <2>2. PICK k \in (m - n) .. m : ~ NewJob(stream[k])
    BY <1>5, <2>1 DEF Short
  <2>3. k \in (Len(L) - (n + 1)) .. Len(L) /\ k \in 1 .. m
    BY <1>1, <1>5, <2>1, <2>2
  <2> QED BY <1>1, <2>2, <2>3
<1>6. ASSUME Len(payloads) > 0, \A i \in DOMAIN payloads : payloads[i].shape = "bare", Len(L) > n
      PROVE  \E k \in (Len(L) - n) .. Len(L) : ~ NewJob(L[k])
  <2>1. Len(payloads) \in DOMAIN payloads /\ Len(L) \in (Len(L) - n) .. Len(L) /\ Len(L) = Len(payloads) + m
    BY <1>1, <1>2, <1>6
  <2>2. L[Len(L)] = New(payloads[Len(payloads)])
    BY <1>1, <2>1, <1>2
  <2>3. L[Len(L)].shape = "bare"
    BY <1>6, <2>1, <2>2, NewIsNew
  <2> QED BY <2>1, <2>3 DEF NewJob
<1>7. NewLast(stream) => NewLast(L)
  BY <1>4 DEF NewLast
<1>8. Len(payloads) = 1 /\ Short(stream, n) => Short(L, n + 1)
  BY <1>5 DEF Short
<1>9. Len(payloads) > 0 /\ (\A i \in DOMAIN payloads : payloads[i].shape = "bare") => Short(L, n)
  BY <1>6 DEF Short
<1> QED BY <1>7, <1>8, <1>9 DEF L

LEMMA ReadsKeeps ==
  ASSUME TypeOK, stream' \in Seq(Slot), Reads(stream, stream')
  PROVE  /\ \A n \in Nat : Short(stream, n) => Short(stream', n)
         /\ AllJobs => AllJobs'
         /\ \A i \in With("new") : stream[i].doc \in Unacked(stream')
<1>1. stream \in Seq(Slot) /\ Len(stream') = Len(stream) /\ Len(stream) \in Nat
  BY DEF TypeOK, StoreOK, Slot, Reads
<1>2. DOMAIN stream' = DOMAIN stream /\ DOMAIN stream = 1 .. Len(stream)
  BY <1>1
<1>3. ASSUME NEW n \in Nat, Short(stream, n), Len(stream') > n
      PROVE  \E k \in (Len(stream') - n) .. Len(stream') : ~ NewJob(stream'[k])
  <2>1. PICK k \in (Len(stream) - n) .. Len(stream) : ~ NewJob(stream[k])
    BY <1>1, <1>3 DEF Short
  <2>2. k \in DOMAIN stream /\ k \in (Len(stream') - n) .. Len(stream')
    BY <1>1, <1>2, <1>3, <2>1
  <2>3. ~ NewJob(stream'[k])
    BY <2>1, <2>2 DEF Reads, NewJob
  <2> QED BY <2>2, <2>3
<1>4. \A n \in Nat : Short(stream, n) => Short(stream', n)
  BY <1>3 DEF Short
<1>5. AllJobs => AllJobs'
  BY <1>2 DEF AllJobs, Reads
<1>6. \A i \in With("new") : stream[i].doc \in Unacked(stream')
  BY <1>2 DEF With, Reads, Unacked
<1> QED BY <1>4, <1>5, <1>6

LEMMA SameReads == ASSUME NewLast(stream), stream' = stream, TypeOK PROVE Reads(stream, stream')
<1>1. \A i \in DOMAIN stream : stream[i].status = "new" => stream[i] # Acked
  BY DEF Acked
<1> QED BY <1>1 DEF Reads

(* The earliest entries are before the others. *)
LEMMA EarliestFirst ==
  ASSUME NEW n \in Nat, NEW I \in SUBSET (1 .. n), NEW m \in Nat,
         NEW i \in I, NEW j \in Earliest(I, m), i < j
  PROVE  i \in Earliest(I, m)
<1> DEFINE upto(x) == {y \in I : y <= x}
<1>1. IsFiniteSet(I)
  <2>1. IsFiniteSet(1 .. n)
    BY FS_Interval
  <2> QED BY <2>1, FS_Subset
<1>2. j \in I /\ Cardinality(upto(j)) <= m
  BY DEF Earliest
<1>3. upto(i) \in SUBSET upto(j) /\ upto(j) \in SUBSET I
  <2>1. \A y \in I : y \in Int
    OBVIOUS
  <2>2. \A y \in I : y <= i => y <= j
    BY <1>2, <2>1
  <2> QED BY <2>2
<1>4. /\ IsFiniteSet(upto(i)) /\ IsFiniteSet(upto(j)) /\ Cardinality(upto(i)) <= Cardinality(upto(j))
  <2> HIDE DEF upto
  <2>1. IsFiniteSet(upto(j))
    BY <1>1, <1>3, FS_Subset
  <2> QED BY <1>3, <2>1, FS_Subset
<1>5. Cardinality(upto(i)) \in Nat /\ Cardinality(upto(j)) \in Nat
  <2> HIDE DEF upto
  <2> QED BY <1>4, FS_CardinalityType
<1>6. Cardinality(upto(i)) <= m
  <2> HIDE DEF upto
  <2> QED BY <1>2, <1>4, <1>5
<1> QED BY <1>6 DEF Earliest

LEMMA DeliverReads ==
  ASSUME TypeOK, NewLast(stream), NEW I, I \subseteq With("new") \cup With("idle"), Deliver(I),
         \A i \in With("new") : \A j \in With("new") \cap I : i < j => i \in I
  PROVE  Reads(stream, stream')
<1>1. /\ stream' \in Seq(Slot) /\ Len(stream') = Len(stream)
      /\ \A i \in DOMAIN stream : /\ stream'[i] = Acked <=> stream[i] = Acked
                                  /\ stream[i] # Acked => /\ stream'[i].doc = stream[i].doc
                                                          /\ stream'[i].shape = stream[i].shape
  BY DeliverType DEF TypeOK
<1>2. DOMAIN stream' = DOMAIN stream
  BY DEF Deliver
<1>3. \A i \in I : i \in DOMAIN stream /\ stream[i] \in Entry
  BY SlotType DEF With, TypeOK, StoreOK, Slot
<1>4. ASSUME NEW i \in DOMAIN stream
      PROVE  IF i \in I THEN stream'[i].status = "pending" ELSE stream'[i] = stream[i]
  <2>1. stream'[i] = IF i \in I
                     THEN [stream[i] EXCEPT !.status = "pending",
                                            !.times = IF @ < CountTo THEN @ + 1 ELSE @]
                     ELSE stream[i]
    BY DEF Deliver
  <2>2. CASE i \notin I
    BY <2>1, <2>2
  <2>3. CASE i \in I
    <3> DEFINE times == IF stream[i].times < CountTo THEN stream[i].times + 1 ELSE stream[i].times
    <3>1. stream'[i] = [stream[i] EXCEPT !.status = "pending", !.times = times]
      BY <2>1, <2>3
    <3> HIDE DEF times
    <3> QED BY <1>3, <2>3, <3>1 DEF Entry
  <2> QED BY <2>2, <2>3
<1>5. ASSUME NEW i \in DOMAIN stream', NEW j \in DOMAIN stream', i < j, stream'[i].status = "new"
      PROVE  stream'[j].status = "new"
  <2>1. i \notin I /\ stream[i].status = "new"
    BY <1>2, <1>4, <1>5
  <2>2. stream[j].status = "new"
    BY <1>2, <1>5, <2>1 DEF NewLast
  <2>3. j \notin I
    BY <1>2, <1>5, <2>1, <2>2 DEF With
  <2> QED BY <1>2, <1>4, <2>2, <2>3
<1>6. NewLast(stream')
  BY <1>5 DEF NewLast
<1>7. \A i \in DOMAIN stream : stream[i].status = "new" => stream[i] # Acked
  BY DEF Acked
<1> QED BY <1>1, <1>4, <1>6, <1>7 DEF Reads

LEMMA PastKeep ==
  ASSUME TypeOK, NEW w \in Indexers, NEW label, Goto(w, label)
  PROVE  Past(pc') = Past(pc)
BY Assumptions DEF TypeOK, LocalOK, Goto, Past

LEMMA StreamNext == TypeOK /\ [Next]_vars => stream' \in Seq(Slot)
BY TypeNext DEF TypeOK, StoreOK, Slot

(* The steps that queue nothing and are nobody's look at the lag. *)
Quiet == /\ Reads(stream, stream') /\ Past(pc') = Past(pc) /\ blind' = blind
         /\ ReplayLimit = 0 /\ letters = <<>> => letters' = <<>>

LEMMA QuietSteps ==
  ASSUME TypeOK, Paced, [Next]_vars
  PROVE  \/ Quiet \/ Requeue
         \/ \E p \in Producers : ProducerStep(p)
<1> USE DEF Paced
<1>1. ASSUME NEW w \in Indexers, Reclaim(w) PROVE Quiet
  <2> DEFINE I == Earliest(With("idle"), MaxBatch)
  <2>1. I \subseteq With("idle") /\ Deliver(I) /\ UNCHANGED <<letters, blind>>
    BY <1>1, EarliestType DEF Reclaim, Receive
  <2>2. With("idle") \cap With("new") = {}
    BY DEF With
  <2> HIDE DEF I
  <2>3. Reads(stream, stream')
    BY <2>1, <2>2, DeliverReads
  <2>4. Past(pc') = Past(pc)
    BY <1>1, PastKeep DEF Reclaim, Receive
  <2> QED BY <2>1, <2>3, <2>4 DEF Quiet
<1>2. ASSUME NEW w \in Indexers, Consume(w) PROVE Quiet
  <2> DEFINE I == Earliest(With("new"), MaxBatch)
  <2>1. I \subseteq With("new") /\ Deliver(I) /\ UNCHANGED <<letters, blind>>
    BY <1>2, EarliestType DEF Consume, Receive
  <2>2. With("new") \in SUBSET (1 .. Len(stream)) /\ Len(stream) \in Nat
    BY DEF With, TypeOK, StoreOK
  <2>3. \A i \in With("new") : \A j \in I : i < j => i \in I
    BY <2>2, EarliestFirst, Assumptions
  <2> HIDE DEF I
  <2>4. Reads(stream, stream')
    BY <2>1, <2>3, DeliverReads
  <2>5. Past(pc') = Past(pc)
    BY <1>2, PastKeep DEF Consume, Receive
  <2> QED BY <2>1, <2>4, <2>5 DEF Quiet
<1>3. ASSUME NEW w \in Indexers, Ack(w) PROVE Quiet
  <2>1. stream' = AckedDocs(chunk[w]) /\ UNCHANGED <<letters, blind>>
    BY <1>3 DEF Ack
  <2>2. /\ Len(stream') = Len(stream) /\ DOMAIN stream' = DOMAIN stream
        /\ \A i \in DOMAIN stream : \/ stream'[i] = stream[i]
                                    \/ stream'[i] = Acked
    BY <2>1, AckedDocsType DEF TypeOK, AckedDocs
  <2>3. \A i \in DOMAIN stream : stream[i].status = "new" => stream'[i] = stream[i]
    BY <2>1 DEF AckedDocs
  <2>4. Acked.status # "new"
    BY DEF Acked
  <2>5. NewLast(stream')
    BY <2>2, <2>3, <2>4 DEF NewLast
  <2>6. Reads(stream, stream')
    BY <2>2, <2>3, <2>4, <2>5 DEF Reads
  <2>7. Past(pc') = Past(pc)
    BY <1>3, PastKeep DEF Ack
  <2> QED BY <2>1, <2>6, <2>7 DEF Quiet
<1>4. ASSUME NEW d \in Docs, Age(d) PROVE Quiet
  <2>1. PICK i \in With("pending") : stream' = [stream EXCEPT ![i].status = "idle"]
    BY <1>4 DEF Age
  <2>2. /\ i \in DOMAIN stream /\ stream[i] \in Entry /\ stream[i].status = "pending"
    BY <2>1, SlotType DEF With, TypeOK, StoreOK, Slot
  <2>3. /\ DOMAIN stream' = DOMAIN stream /\ stream'[i].status = "idle"
        /\ \A j \in DOMAIN stream : j # i => stream'[j] = stream[j]
    BY <2>1, <2>2 DEF Entry
  <2>4. /\ Len(stream') = Len(stream)
        /\ \A j \in DOMAIN stream : /\ stream'[j] = Acked <=> stream[j] = Acked
                                    /\ stream[j] # Acked => stream'[j].shape = stream[j].shape
    BY <1>4, AgeType DEF TypeOK
  <2>5. NewLast(stream')
    BY <2>2, <2>3 DEF NewLast
  <2>6. Acked.status # "new"
    BY DEF Acked
  <2>7. Reads(stream, stream')
    BY <2>2, <2>3, <2>4, <2>5, <2>6 DEF Reads
  <2> QED BY <1>4, <2>7 DEF Quiet, Age
<1>5. ASSUME NEW w \in Indexers,
             Bury(w) \/ Submit(w) \/ Split(w) \/ GiveUp(w) \/ Misread(w) \/ Crash(w)
      PROVE  Quiet
  <2>1. stream' = stream /\ UNCHANGED <<letters, blind>>
    BY <1>5 DEF Bury, Submit, Split, GiveUp, Misread, Crash
  <2>2. \E label : Goto(w, label)
    BY <1>5 DEF Bury, Submit, Split, GiveUp, Misread, Crash
  <2>3. Past(pc') = Past(pc)
    BY <2>2, PastKeep
  <2> QED BY <2>1, <2>3, SameReads DEF Quiet
<1>6. CASE RunTask
  <2>1. stream' = stream /\ UNCHANGED <<letters, blind>>
    BY <1>6 DEF RunTask
  <2>2. pc' = pc \/ \E w \in Indexers : \E label : Goto(w, label)
    <3>1. Head(tasks).by \in Indexers \cup {Nobody}
      <4>1. tasks \in Seq([docs : SUBSET Docs, by : Indexers \cup {Nobody}]) /\ tasks # <<>>
        BY <1>6 DEF RunTask, TypeOK, StoreOK
      <4>2. Head(tasks) \in [docs : SUBSET Docs, by : Indexers \cup {Nobody}]
        BY <4>1, HeadTailProperties
      <4> QED BY <4>2
    <3>2. \E label : pc' = IF Head(tasks).by = Nobody THEN pc ELSE [pc EXCEPT ![Head(tasks).by] = label]
      BY <1>6 DEF RunTask
    <3> QED BY <3>1, <3>2 DEF Goto
  <2>3. Past(pc') = Past(pc)
    BY <2>2, PastKeep
  <2> QED BY <2>1, <2>3, SameReads DEF Quiet
<1>7. CASE Peek
  <2>1. stream' = stream /\ UNCHANGED <<pc, blind>>
    BY <1>7 DEF Peek
  <2>2. ASSUME ReplayLimit = 0 PROVE letters' = <<>>
    <3>1. dead \in Seq(Payload) /\ Len(dead) \in Nat
      BY DEF TypeOK, StoreOK
    <3> DEFINE first  == IF Len(dead) > ReplayLimit THEN Len(dead) - ReplayLimit + 1 ELSE 1
               newest == SubSeq(dead, first, Len(dead))
    <3>2. first \in Nat /\ first > Len(dead)
      BY <2>2, <3>1
    <3> HIDE DEF first
    <3>3. Len(newest) = 0
      BY <3>1, <3>2
    <3>4. letters' = Reverse(newest)
      BY <1>7 DEF Peek, first
    <3> HIDE DEF newest
    <3>5. letters' = [i \in 1 .. 0 |-> newest[0 - i + 1]]
      BY <3>3, <3>4 DEF Reverse
    <3> QED BY <3>5
  <2> QED BY <2>1, <2>2, SameReads DEF Quiet
<1>8. CASE Delete \/ UNCHANGED vars
  <2>1. stream' = stream /\ UNCHANGED <<pc, blind>> /\ letters' \in {letters, <<>>}
    BY <1>8 DEF Delete, vars
  <2> QED BY <2>1, SameReads DEF Quiet
<1> QED
  BY <1>1, <1>2, <1>3, <1>4, <1>5, <1>6, <1>7, <1>8 DEF Next, IndexerStep, OperatorStep

(* A look at the lag: fewer than BackpressureAt entries are unread. *)
LEMMA CheckLagPaced ==
  ASSUME TypeOK, Paced, NEW p \in Producers, CheckLag(p)
  PROVE  Paced'
<1>1. stream' = stream /\ letters' = letters
  BY DEF CheckLag
<1>2. ASSUME ~ blind' PROVE Short(stream', Room(pc'))
  <2>1. Cardinality(With("new")) < BackpressureAt
    BY <1>2 DEF CheckLag
  <2>2. stream \in Seq(Slot) /\ Len(stream) \in Nat /\ DOMAIN stream = 1 .. Len(stream)
    BY DEF TypeOK, StoreOK, Slot
  <2>3. BackpressureAt - 1 \in Nat /\ BackpressureAt \in Nat
    BY RoomIs
  <2>4. Short(stream, BackpressureAt - 1)
    <3> SUFFICES ASSUME Len(stream) > BackpressureAt - 1,
                        \A k \in (Len(stream) - (BackpressureAt - 1)) .. Len(stream) : NewJob(stream[k])
                 PROVE  FALSE
      BY DEF Short
    <3> DEFINE last == (Len(stream) - (BackpressureAt - 1)) .. Len(stream)
    <3>1. last \in SUBSET With("new")
      BY <2>2, <2>3 DEF With, NewJob
    <3>2. With("new") \in SUBSET (1 .. Len(stream)) /\ IsFiniteSet(1 .. Len(stream))
      BY <2>2, FS_Interval DEF With
    <3>3. IsFiniteSet(With("new"))
      BY <3>2, FS_Subset
    <3>4. Cardinality(last) <= Cardinality(With("new")) /\ Cardinality(With("new")) \in Nat
      <4> HIDE DEF last
      <4> QED BY <3>1, <3>3, FS_Subset, FS_CardinalityType
    <3>5. Cardinality(last) = BackpressureAt
      <4>1. Len(stream) - (BackpressureAt - 1) \in Int /\ Len(stream) \in Int
        BY <2>2, <2>3
      <4>2. Cardinality(last) = IF Len(stream) - (BackpressureAt - 1) > Len(stream) THEN 0
                                ELSE Len(stream) - (Len(stream) - (BackpressureAt - 1)) + 1
        BY <4>1, FS_Interval
      <4> HIDE DEF last
      <4> QED BY <2>2, <2>3, <4>2
    <3> HIDE DEF last
    <3> QED BY <2>1, <2>3, <3>4, <3>5
  <2>5. Short(stream, Room(pc'))
    BY <2>2, <2>3, <2>4, RoomIs, ShortOfMore
  <2> QED BY <1>1, <2>5
<1> QED BY <1>1, <1>2 DEF Paced, AllJobs

(* A worker past its look at the lag that goes back to it leaves room. *)
LEMMA RoomGrows ==
  ASSUME TypeOK, NEW p \in Producers, At(p, "produce"), Goto(p, "check")
  PROVE  Room(pc') = Room(pc) + 1
<1>1. p \in Past(pc) /\ Past(pc') = Past(pc) \ {p}
  BY DEF TypeOK, LocalOK, At, Goto, Past
<1>2. IsFiniteSet(Past(pc)) /\ Cardinality(Past(pc)) \in Nat
  BY RoomIs
<1>3. Cardinality(Past(pc) \ {p}) = Cardinality(Past(pc)) - 1
  BY <1>1, <1>2, FS_RemoveElement
<1> QED BY <1>1, <1>2, <1>3, RoomIs DEF Room

(* What is queued, a document of a worker that looked or letters: the       *)
(* stream before it is trimmed has room, so nothing unread is cut off it.   *)
Queues(q) ==
  /\ Produce(q)
  /\ \/ \E p \in Producers : /\ At(p, "produce") /\ Goto(p, "check") /\ UNCHANGED <<letters, blind>>
                             /\ Len(q) = 1 /\ q[1].shape = "job"
     \/ /\ UNCHANGED <<pc, letters, blind>>
        /\ q = letters /\ q # <<>> /\ \A i \in DOMAIN q : q[i].shape = "bare"

LEMMA QueuedShort ==
  ASSUME TypeOK, Paced, NEW q \in Seq(Payload), Queues(q)
  PROVE  /\ NewLast(Longer(q)) /\ letters' = letters
         /\ ~ blind' => Short(Longer(q), Room(pc'))
<1>1. StoreOK /\ Room(pc) \in Nat /\ Room(pc') \in Nat /\ Len(q) \in Nat
  BY RoomIs DEF TypeOK
<1>2. NewLast(Longer(q)) /\ letters' = letters
  BY <1>1, LongerKeepsShort DEF Paced, Queues
<1>3. ASSUME NEW p \in Producers, At(p, "produce"), Goto(p, "check"), blind' = blind, Len(q) = 1, ~ blind'
      PROVE  Short(Longer(q), Room(pc'))
  <2>1. Short(stream, Room(pc))
    BY <1>3 DEF Paced
  <2>2. Room(pc') = Room(pc) + 1
    BY <1>3, RoomGrows
  <2>3. Short(Longer(q), Room(pc) + 1)
    BY <1>1, <1>3, <2>1, LongerKeepsShort
  <2> QED BY <2>2, <2>3
<1>4. ASSUME q # <<>>, \A i \in DOMAIN q : q[i].shape = "bare" PROVE Short(Longer(q), Room(pc'))
  <2>1. Len(q) > 0
    BY <1>1, <1>4
  <2> QED BY <1>1, <1>4, <2>1, LongerKeepsShort
<1> QED BY <1>2, <1>3, <1>4 DEF Queues

LEMMA JobsLonger ==
  ASSUME StoreOK, AllJobs, NEW q \in Seq(Payload), Len(q) = 1, q[1].shape = "job"
  PROVE  \A j \in DOMAIN Longer(q) : Longer(q)[j] # Acked => Longer(q)[j].shape = "job"
<1> SUFFICES ASSUME NEW j \in DOMAIN Longer(q), Longer(q)[j] # Acked PROVE Longer(q)[j].shape = "job"
  OBVIOUS
<1>1. /\ Longer(q) \in Seq(Slot) /\ Len(Longer(q)) = Len(stream) + 1 /\ Len(stream) \in Nat
      /\ \A i \in 1 .. Len(stream) : Longer(q)[i] = stream[i]
      /\ Longer(q)[1 + Len(stream)] = New(q[1])
  <2>1. Len(stream) \in Nat /\ 1 \in 1 .. Len(q)
    BY DEF StoreOK
  <2> QED BY <2>1, LongerType
<1>2. j \in 1 .. Len(stream) \/ j = 1 + Len(stream)
  BY <1>1
<1> QED BY <1>1, <1>2, NewIsNew, SMTT(60) DEF AllJobs, StoreOK

LEMMA JobsTrim ==
  ASSUME NEW s \in Seq(Slot), \A j \in DOMAIN s : s[j] # Acked => s[j].shape = "job"
  PROVE  \A j \in DOMAIN Trim(s) : Trim(s)[j] # Acked => Trim(s)[j].shape = "job"
<1>1. Trim(s) \in Seq(Slot) /\ \A i \in 1 .. Len(Trim(s)) : i + Cut(s) \in 1 .. Len(s) /\ Trim(s)[i] = s[i + Cut(s)]
  BY TrimKeeps
<1> QED BY <1>1

LEMMA QueuedPaced ==
  ASSUME TypeOK, Paced, NEW q \in Seq(Payload), Queues(q)
  PROVE  Paced'
<1>1. StoreOK /\ stream' = Trim(Longer(q)) /\ Longer(q) \in Seq(Slot) /\ Room(pc') \in Nat
  BY LongerType, ProduceType, RoomIs DEF TypeOK, Queues
<1>2. /\ NewLast(Longer(q)) /\ letters' = letters
      /\ ~ blind' => Short(Longer(q), Room(pc'))
  BY QueuedShort
<1>3. NewLast(stream') /\ (~ blind' => Short(stream', Room(pc')))
  BY <1>1, <1>2, TrimKeepsShort
<1>4. ASSUME ReplayLimit = 0 PROVE letters' = <<>> /\ AllJobs'
  <2>1. letters = <<>> /\ AllJobs
    BY <1>4 DEF Paced
  <2>2. Len(q) = 1 /\ q[1].shape = "job"
    BY <2>1 DEF Queues
  <2>3. \A j \in DOMAIN Longer(q) : Longer(q)[j] # Acked => Longer(q)[j].shape = "job"
    BY <1>1, <2>1, <2>2, JobsLonger
  <2>4. AllJobs'
    BY <1>1, <2>3, JobsTrim DEF AllJobs
  <2> QED BY <1>2, <2>1, <2>4
<1> QED BY <1>3, <1>4 DEF Paced

(* What is cut off is not unread. *)
LEMMA QueuedKeepsUnread ==
  ASSUME TypeOK, Paced, NEW q \in Seq(Payload), Queues(q), AllJobs', ~ blind', NEW i \in With("new")
  PROVE  stream[i].doc \in Unacked(stream')
<1> DEFINE L == Longer(q)
           c == Cut(L)
<1>1. /\ StoreOK /\ stream' = Trim(L) /\ L \in Seq(Slot) /\ Room(pc') \in Nat /\ MaxLen \in Nat
      /\ ReplayLimit = 0 => Room(pc') <= MaxLen
      /\ ReplayLimit # 0 => Room(pc') < MaxLen
  BY LongerType, ProduceType, RoomIs, Assumptions DEF TypeOK, Queues
<1>2. NewLast(L) /\ Short(L, Room(pc'))
  BY QueuedShort
<1>3. /\ i \in 1 .. Len(stream) /\ Len(stream) \in Nat /\ stream[i].status = "new" /\ stream[i] # Acked
  BY <1>1 DEF With, StoreOK, Acked
<1>4. /\ i \in DOMAIN L /\ L[i] = stream[i] /\ DOMAIN L = 1 .. Len(L) /\ Len(L) \in Nat
  <2>1. /\ Len(L) = Len(stream) + Len(q) /\ Len(q) \in Nat
        /\ \A j \in 1 .. Len(stream) : L[j] = stream[j]
    BY <1>1, LongerType
  <2> QED BY <1>1, <1>3, <2>1
<1>5. /\ c \in 0 .. Len(L) /\ Len(stream') = Len(L) - c
      /\ \A j \in 1 .. Len(stream') : stream'[j] = L[j + c]
      /\ c = IF Len(L) > MaxLen THEN Len(L) - MaxLen ELSE 0
      /\ DOMAIN stream' = 1 .. Len(stream')
  <2>1. /\ c \in 0 .. Len(L) /\ Trim(L) \in Seq(Slot) /\ Len(Trim(L)) = Len(L) - c
        /\ \A j \in 1 .. Len(Trim(L)) : Trim(L)[j] = L[j + c]
    BY <1>1, TrimKeeps
  <2>2. c = IF Len(L) > MaxLen THEN Len(L) - MaxLen ELSE 0
    BY DEF Cut
  <2> HIDE DEF L, c
  <2> QED BY <1>1, <2>1, <2>2
<1> HIDE DEF L, c
<1>6. CASE i > c
  <2>1. i - c \in 1 .. Len(stream') /\ (i - c) + c = i
    BY <1>3, <1>4, <1>5, <1>6, SMTT(60)
  <2>2. i - c \in DOMAIN stream' /\ stream'[i - c] = L[i]
    BY <1>5, <2>1
  <2> QED BY <1>3, <1>4, <2>2 DEF Unacked
<1>7. CASE ~ (i > c)
  <2>1. c > 0 /\ c = Len(L) - MaxLen /\ Len(L) > MaxLen
    <3>1. c \in 0 .. Len(L) /\ c > 0
      BY <1>3, <1>4, <1>5, <1>7
    <3>2. c = IF Len(L) > MaxLen THEN Len(L) - MaxLen ELSE 0
      BY <1>5
    <3>3. CASE Len(L) > MaxLen
      BY <3>1, <3>2, <3>3
    <3>4. CASE ~ (Len(L) > MaxLen)
      BY <3>1, <3>2, <3>4
    <3> QED BY <3>3, <3>4
  <2>2. PICK k \in (Len(L) - Room(pc')) .. Len(L) : ~ NewJob(L[k])
    <3>1. Len(L) > Room(pc')
      BY <1>1, <1>4, <2>1
    <3> QED BY <1>2, <3>1 DEF Short
  <2>3. k \in DOMAIN L /\ k >= i
    BY <1>1, <1>3, <1>4, <1>5, <1>7, <2>1, <2>2
  <2>4. L[k].status = "new" /\ L[k] # Acked
    <3>1. L[k].status = "new"
      BY <1>2, <1>3, <1>4, <2>3 DEF NewLast
    <3> QED BY <3>1 DEF Acked
  <2>5. L[k].shape = "job"
    <3>1. CASE ReplayLimit = 0
      <4>1. AllJobs /\ Len(q) = 1 /\ q[1].shape = "job"
        BY <3>1 DEF Paced, Queues
      <4> QED BY <1>1, <2>3, <2>4, <4>1, JobsLonger DEF L
    <3>2. CASE ReplayLimit # 0
      <4>1. k - c \in DOMAIN stream' /\ stream'[k - c] = L[k]
        BY <1>1, <1>4, <1>5, <2>1, <2>2, <2>3, <3>2, SMTT(60)
      <4> QED BY <2>4, <4>1 DEF AllJobs
    <3> QED BY <3>1, <3>2
  <2> QED BY <2>2, <2>4, <2>5 DEF NewJob
<1> QED BY <1>6, <1>7

LEMMA QueuesCases ==
  ASSUME Inv, Requeue \/ \E p \in Producers : QueueDocument(p)
  PROVE  \/ \E q \in Seq(Payload) : Queues(q)
         \/ /\ stream' = stream /\ letters' = letters /\ blind' = blind
            /\ pc' = pc \/ \E p \in Producers : At(p, "produce") /\ Goto(p, "check")
<1>1. ASSUME NEW p \in Producers, QueueDocument(p)
      PROVE  \/ \E q \in Seq(Payload) : Queues(q)
             \/ /\ stream' = stream /\ letters' = letters /\ blind' = blind
                /\ At(p, "produce") /\ Goto(p, "check")
  <2>1. At(p, "produce") /\ Goto(p, "check") /\ UNCHANGED <<letters, blind>>
    BY <1>1 DEF QueueDocument
  <2>2. ASSUME NEW d \in Docs, Produce(<<[doc |-> d, shape |-> "job"]>>)
        PROVE  \E q \in Seq(Payload) : Queues(q)
    <3> DEFINE q == <<[doc |-> d, shape |-> "job"]>>
    <3>1. q \in Seq(Payload) /\ Len(q) = 1 /\ q[1].shape = "job"
      BY DEF Payload
    <3>2. Produce(q)
      BY <2>2
    <3> HIDE DEF q
    <3> QED BY <2>1, <3>1, <3>2 DEF Queues
  <2> QED BY <1>1, <2>1, <2>2 DEF QueueDocument
<1>2. CASE Requeue
  <2>1. Produce(letters) /\ UNCHANGED <<pc, letters, blind>> /\ letters \in Seq(Payload) /\ StoreOK
    BY <1>2 DEF Requeue, Inv, TypeOK, StoreOK
  <2>2. CASE letters # <<>>
    BY <2>1, <2>2 DEF Queues, Inv, BareLetters
  <2>3. CASE letters = <<>>
    <3>1. Longer(letters) = stream
      <4>1. /\ Longer(letters) \in Seq(Slot) /\ Len(Longer(letters)) = Len(stream)
            /\ \A i \in 1 .. Len(stream) : Longer(letters)[i] = stream[i]
        <5>1. Len(letters) = 0 /\ Len(stream) \in Nat
          BY <2>1, <2>3 DEF StoreOK
        <5>2. /\ Longer(letters) \in Seq(Slot) /\ Len(Longer(letters)) = Len(stream) + Len(letters)
              /\ \A i \in 1 .. Len(stream) : Longer(letters)[i] = stream[i]
          BY <2>1, LongerType
        <5> QED BY <5>1, <5>2
      <4> QED BY <2>1, <4>1, SeqEqual DEF StoreOK, Slot
    <3>2. stream' = Trim(stream)
      BY <2>1, <3>1, ProduceType
    <3>3. Trim(stream) = stream
      <4>1. stream \in Seq(Slot) /\ Len(stream) \in Nat /\ Len(stream) <= MaxLen
        BY <2>1 DEF StoreOK, Slot
      <4>2. ~ (Len(stream) > MaxLen)
        BY <4>1, Assumptions
      <4>3. Trim(stream) = SubSeq(stream, 1, Len(stream))
        BY <4>2, Zenon DEF Trim
      <4> QED BY <4>1, <4>3, SubSeqFull
    <3>4. stream' = stream
      BY <3>2, <3>3
    <3> QED BY <2>1, <3>4
  <2> QED BY <2>2, <2>3
<1> QED BY <1>1, <1>2

LEMMA QuietPaced ==
  ASSUME TypeOK, Paced, stream' \in Seq(Slot), Quiet
  PROVE  Paced'
<1>1. Room(pc') = Room(pc) /\ Room(pc) \in Nat
  BY RoomIs DEF Quiet, Room
<1>2. NewLast(stream')
  BY DEF Quiet, Reads
<1> QED BY <1>1, <1>2, ReadsKeeps DEF Paced, Quiet

LEMMA PacedNext == Inv /\ Paced /\ [Next]_vars => Paced'
<1> SUFFICES ASSUME Inv, Paced, [Next]_vars PROVE Paced'
  OBVIOUS
<1>1. TypeOK /\ stream' \in Seq(Slot)
  BY StreamNext DEF Inv
<1>2. CASE Quiet
  BY <1>1, <1>2, QuietPaced
<1>3. ASSUME NEW p \in Producers, CheckLag(p) PROVE Paced'
  BY <1>1, <1>3, CheckLagPaced
<1>4. CASE Requeue \/ \E p \in Producers : QueueDocument(p)
  <2>1. CASE \E q \in Seq(Payload) : Queues(q)
    BY <1>1, <2>1, QueuedPaced
  <2>2. CASE stream' = stream /\ letters' = letters /\ blind' = blind /\ pc' = pc
    BY <2>2 DEF Paced, AllJobs
  <2>3. ASSUME stream' = stream, letters' = letters, blind' = blind,
               NEW p \in Producers, At(p, "produce"), Goto(p, "check")
        PROVE  Paced'
    <3>1. Room(pc') = Room(pc) + 1 /\ Room(pc) \in Nat
      BY <1>1, <2>3, RoomGrows, RoomIs
    <3>2. ~ blind' => Short(stream', Room(pc'))
      <4>1. Room(pc) + 1 \in Nat /\ Room(pc) <= Room(pc) + 1
        BY <3>1
      <4> QED BY <1>1, <2>3, <3>1, <4>1, ShortOfMore DEF Paced
    <3> QED BY <2>3, <3>2 DEF Paced, AllJobs
  <2> QED BY <1>4, <2>1, <2>2, <2>3, QueuesCases
<1> QED BY <1>1, <1>2, <1>3, <1>4, QuietSteps DEF ProducerStep

LEMMA UnreadNext ==
  Inv /\ Paced /\ [Next]_vars /\ AllJobs' /\ ~ blind' => \A i \in With("new") : stream[i].doc \in Unacked(stream')
<1> SUFFICES ASSUME Inv, Paced, [Next]_vars, AllJobs', ~ blind', NEW i \in With("new")
             PROVE  stream[i].doc \in Unacked(stream')
  OBVIOUS
<1>1. TypeOK /\ stream' \in Seq(Slot)
  BY StreamNext DEF Inv
<1>2. CASE Reads(stream, stream')
  BY <1>1, <1>2, ReadsKeeps
<1>3. CASE stream' = stream
  BY <1>1, <1>2, <1>3, SameReads DEF Paced
<1>4. ASSUME NEW p \in Producers, CheckLag(p) PROVE stream' = stream
  BY <1>4 DEF CheckLag
<1>5. CASE Requeue \/ \E p \in Producers : QueueDocument(p)
  BY <1>1, <1>3, <1>5, QueuesCases, QueuedKeepsUnread
<1> QED BY <1>1, <1>2, <1>3, <1>4, <1>5, QuietSteps DEF ProducerStep, Quiet

(* However many crawl workers look at the lag and then queue, in whatever   *)
(* order, and however the indexers batch, crash and acknowledge, trimming   *)
(* takes nothing that no indexer was given, as long as the lag can be read  *)
(* and no replayed letter is on the stream (crawld.rs:249, lib.rs:203).     *)
THEOREM BackpressureHolds == Spec => UnreadIsKept
<1>1. Init => Paced
  <2> SUFFICES ASSUME Init PROVE Paced
    OBVIOUS
  <2>1. stream = <<>> /\ letters = <<>> /\ Len(stream) = 0 /\ DOMAIN stream = {}
    BY DEF Init
  <2>2. Short(stream, Room(pc))
    BY <2>1, RoomIs DEF Short
  <2> QED BY <2>1, <2>2 DEF Paced, NewLast, AllJobs
<1>2. Inv /\ Paced /\ [Next]_vars => Inv' /\ Paced'
  BY InvNext, PacedNext
<1>3. Inv /\ Paced /\ [Next]_vars =>
        [AllJobs' /\ ~ blind' => \A i \in With("new") : stream[i].doc \in Unacked(stream')]_vars
  BY UnreadNext
<1> QED BY <1>1, <1>2, <1>3, InvInit, PTL DEF Spec, UnreadIsKept
=============================================================================
