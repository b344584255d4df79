----------------------------- MODULE IndexQueue -----------------------------
(***************************************************************************)
(* The index queue: a Redis stream that crawl workers append documents to, *)
(* the consumer group that the indexers drain into the search engine, the  *)
(* dead letters beside it and the operator's replay of them.               *)
(*                                                                         *)
(* An entry is named by its document: parse gives every document an id of  *)
(* its own, so no two entries that decode as a job carry the same one.     *)
(* Every failed call to Redis ends an indexer's run and with it the        *)
(* process, so such a call is a Crash.                                     *)
(***************************************************************************)
EXTENDS Integers, Sequences, SequencesExt, FiniteSets

CONSTANTS Docs,
          Nature,        \* "sound", "refused" (by validate) or "rejected" (by the engine)
          Producers,     \* the crawl workers
          Indexers,
          MaxBatch,      \* entries read or reclaimed at once
          MaxAttempts,   \* MAX_ATTEMPTS
          MaxLen,        \* MAX_LEN, the length the stream and the dead letters are trimmed to
          BackpressureAt,\* the lag at which crawl workers pause
          ReplayLimit,   \* how many letters the operator replays
          CountTo,       \* deliveries are counted up to this
          MaxFaults      \* bound of the model

ASSUME IndexQueueAssumption ==
  /\ Nature \in [Docs -> {"sound", "refused", "rejected"}]
  /\ {MaxBatch, MaxAttempts, MaxLen, BackpressureAt} \subseteq Nat \ {0}
  /\ {ReplayLimit, CountTo, MaxFaults} \subseteq Nat
  /\ Producers \cap Indexers = {} /\ "nobody" \notin Indexers
  /\ IsFiniteSet(Docs)

(* 3 in the code.  With 1 a job that is reclaimed would be dead-lettered    *)
(* whole, and its replay be a second entry of the same document.            *)
ASSUME AttemptsAssumption == MaxAttempts > 1

(* What may be unread, the lag below which a page is crawled and a document *)
(* of each worker, fits the stream, and with it what is replayed: 5000 and  *)
(* 16 of 100000.                                                            *)
ASSUME RoomAssumption ==
  /\ IsFiniteSet(Producers)
  /\ BackpressureAt + Cardinality(Producers) <= IF ReplayLimit = 0 THEN MaxLen + 1 ELSE MaxLen

VARIABLES
  stream,   \* the entries, oldest first; an acknowledged one stays until it is trimmed
  dead,     \* the dead letters, oldest first
  tasks,    \* what the engine has accepted and not run yet
  index,    \* the documents that can be found
  pc,       \* what each producer and indexer does next
  refused,  \* the letters each indexer has still to write
  chunks,   \* the batches each indexer has still to submit
  chunk,    \* the batch each indexer has submitted
  letters,  \* the letters the operator is replaying
  replay    \* what the operator does next

(* What happened, for the properties; the program keeps none of it. *)
VARIABLES
  known,    \* the documents that were queued
  trimmed,  \* those that were trimmed off the stream unacknowledged
  erased,   \* those whose dead letter was trimmed, or deleted and not replayed
  blind,    \* whether a crawl worker could not read the lag
  blamed,   \* the documents an answer of the engine was held against wrongly
  faults

vars == <<stream, dead, tasks, index, pc, refused, chunks, chunk, letters, replay,
          known, trimmed, erased, faults, blind, blamed>>

-----------------------------------------------------------------------------
Payload == [doc : Docs, shape : {"job", "bare"}]
Entry   == [doc : Docs, shape : {"job", "bare"},
            status : {"new", "pending", "idle"}, times : 0 .. CountTo]
Acked   == [status |-> "acked"]
Nobody  == "nobody"

New(p) == [doc |-> p.doc, shape |-> p.shape, status |-> "new", times |-> 0]

(* Positions in the stream, and the documents that wait there. *)
With(status) == {i \in DOMAIN stream : stream[i].status = status}
Unacked(s)   == {s[i].doc : i \in {j \in DOMAIN s : s[j] # Acked}}

(* XADD ... MAXLEN ~ and XTRIM.  The approximation keeps more, never less.  *)
Trim(s) == SubSeq(s, IF Len(s) > MaxLen THEN Len(s) - MaxLen + 1 ELSE 1, Len(s))

AllJobs == \A i \in DOMAIN stream : stream[i] # Acked => stream[i].shape = "job"

Produce(payloads) ==
  LET all == stream \o [n \in DOMAIN payloads |-> New(payloads[n])]
  IN  /\ stream' = Trim(all)
      /\ trimmed' = trimmed \cup (Unacked(all) \ Unacked(Trim(all)))

Earliest(I, n) == {i \in I : Cardinality({j \in I : j <= i}) <= n}

Deliver(I) ==
  stream' = [i \in DOMAIN stream |->
    IF i \in I THEN [stream[i] EXCEPT !.status = "pending",
                                      !.times = IF @ < CountTo THEN @ + 1 ELSE @]
    ELSE stream[i]]

(* XACK: the entry leaves the pending list and stays in the stream. *)
AckedDocs(docs) ==
  [i \in DOMAIN stream |-> IF /\ stream[i].status \in {"pending", "idle"}
                              /\ stream[i].shape = "job"
                              /\ stream[i].doc \in docs
                           THEN Acked ELSE stream[i]]

Init ==
  /\ stream = <<>> /\ dead = <<>> /\ tasks = <<>> /\ index = {}
  /\ pc = [c \in Producers \cup Indexers |-> IF c \in Producers THEN "check" ELSE "reclaim"]
  /\ refused = [w \in Indexers |-> {}]
  /\ chunks = [w \in Indexers |-> {}]
  /\ chunk = [w \in Indexers |-> {}]
  /\ letters = <<>> /\ replay = "idle"
  /\ known = {} /\ trimmed = {} /\ erased = {}
  /\ blind = FALSE /\ blamed = {} /\ faults = 0

Crawling == {"check", "produce"}
Indexing == {"reclaim", "consume", "bury", "submit", "wait", "ack", "split"}
Goto(c, label) == pc' = [pc EXCEPT ![c] = label]
At(c, label)   == pc[c] = label
Fault == faults < MaxFaults /\ faults' = faults + 1

-----------------------------------------------------------------------------
(* The crawl worker's side: look at the indexers' lag, crawl a page, queue  *)
(* the document.  A lag that cannot be read does not hold it back.          *)
CheckNot(p) ==   \* faulty
  /\ At(p, "check")
  /\ Goto(p, "produce")
  /\ UNCHANGED <<stream, dead, tasks, index, refused, chunks, chunk, letters, replay,
                 known, trimmed, erased, faults, blind, blamed>>

CheckLag(p) ==
  /\ At(p, "check")
  /\ \/ Cardinality(With("new")) < BackpressureAt /\ UNCHANGED <<blind, faults>>
     \/ Fault /\ blind' = TRUE
  /\ Goto(p, "produce")
  /\ UNCHANGED <<stream, dead, tasks, index, refused, chunks, chunk, letters, replay,
                 known, trimmed, erased, blamed>>

(* A document that could not be queued is not kept anywhere. *)
QueueDocument(p) ==
  /\ At(p, "produce")
  /\ \/ \E d \in Docs \ known : /\ Produce(<<[doc |-> d, shape |-> "job"]>>)
                                /\ known' = known \cup {d}
                                /\ UNCHANGED faults
     \/ Fault /\ UNCHANGED <<stream, known, trimmed>>
  /\ Goto(p, "check")
  /\ UNCHANGED <<dead, tasks, index, refused, chunks, chunk, letters, replay, erased, blind, blamed>>

-----------------------------------------------------------------------------
(* The indexer.  run_once: reclaim, then consume until nothing is left.     *)

(* What a delivery of the entries I to w leads to: the jobs that validate   *)
(* are cut into chunks by size, the others are dead-lettered first: whole   *)
(* if they were delivered too often, else only the document.  An entry that *)
(* does not decode is passed over and stays pending.                        *)
Jobs(I) == {stream[i].doc : i \in {j \in I : stream[j].shape = "job"}}
Letter(d) == [doc |-> d, shape |-> "bare"]
Refused(docs, attempts) ==
  IF attempts > MaxAttempts THEN {[doc |-> d, shape |-> "job"] : d \in docs}
  ELSE {Letter(d) : d \in {e \in docs : Nature[e] = "refused"}}
Partitions(S) == {P \in SUBSET (SUBSET S \ {{}}) :
                    UNION P = S /\ \A A, B \in P : A = B \/ A \cap B = {}}

Busy(w) == IF refused'[w] # {} THEN "bury"
           ELSE IF chunks'[w] # {} THEN "submit" ELSE "consume"

Receive(w, I, attempts, else) ==
  LET bad == Refused(Jobs(I), attempts)
  IN  /\ Deliver(I)
      /\ refused' = [refused EXCEPT ![w] = bad]
      /\ \E P \in Partitions(Jobs(I) \ {l.doc : l \in bad}) : chunks' = [chunks EXCEPT ![w] = P]
      /\ Goto(w, IF Jobs(I) = {} THEN else ELSE Busy(w))

ReclaimNothing(w) ==   \* faulty
  /\ At(w, "reclaim")
  /\ Goto(w, "consume")
  /\ UNCHANGED <<stream, dead, tasks, index, refused, chunks, chunk, letters, replay,
                 known, trimmed, erased, faults, blind, blamed>>

(* XAUTOCLAIM from the start of the stream.  It does not say how often an   *)
(* entry was delivered: 2 stands for any number.                            *)
Reclaim(w) ==
  /\ At(w, "reclaim")
  /\ Receive(w, Earliest(With("idle"), MaxBatch), 2, "consume")
  /\ UNCHANGED <<dead, tasks, index, chunk, letters, replay, known, trimmed, erased, faults, blind, blamed>>

Consume(w) ==
  /\ At(w, "consume")
  /\ Receive(w, Earliest(With("new"), MaxBatch), 1, "reclaim")
  /\ UNCHANGED <<dead, tasks, index, chunk, letters, replay, known, trimmed, erased, faults, blind, blamed>>

(* A letter is written as any job is, and the oldest letters are trimmed.   *)
LettersOf(s) == {s[n].doc : n \in DOMAIN s}
Write(l) ==
  LET all == Append(dead, l)
  IN  /\ dead' = Trim(all)
      /\ erased' = erased \cup (LettersOf(all) \ LettersOf(Trim(all)))

(* Faulty: acknowledges first. *)
BuryAcked(w) ==
  /\ At(w, "bury")
  /\ \E l \in refused[w] :
       /\ stream' = AckedDocs({l.doc})
       /\ Write(l) \/ UNCHANGED <<dead, erased>>
       /\ chunk' = [chunk EXCEPT ![w] = {l.doc}]
  /\ Goto(w, "ack")
  /\ UNCHANGED <<tasks, index, refused, chunks, letters, replay,
                 known, trimmed, faults, blind, blamed>>

(* dead_letter_job: write the letter, then acknowledge.                     *)
Bury(w) ==
  /\ At(w, "bury")
  /\ \E l \in refused[w] :
       /\ Write(l)
       /\ chunk' = [chunk EXCEPT ![w] = {l.doc}]
  /\ Goto(w, "ack")
  /\ UNCHANGED <<stream, tasks, index, refused, chunks, letters, replay,
                 known, trimmed, faults, blind, blamed>>

(* The order in which the chunks are submitted is left open.                *)
Submit(w) ==
  /\ At(w, "submit")
  /\ \E c \in chunks[w] :
       /\ tasks' = Append(tasks, [docs |-> c, by |-> w])
       /\ chunk' = [chunk EXCEPT ![w] = c]
       /\ chunks' = [chunks EXCEPT ![w] = @ \ {c}]
  /\ Goto(w, "wait")
  /\ UNCHANGED <<stream, dead, index, refused, letters, replay, known, trimmed, erased, faults, blind, blamed>>

Orphaned(w) == [n \in DOMAIN tasks |->
                  IF tasks[n].by = w THEN [tasks[n] EXCEPT !.by = Nobody] ELSE tasks[n]]

(* Faulty: takes a transient failure for the documents' fault. *)
BlameChunk(w) ==
  /\ At(w, "wait") /\ Fault
  /\ tasks' = Orphaned(w)
  /\ chunk' = [chunk EXCEPT ![w] = {}]
  /\ refused' = [refused EXCEPT ![w] = {Letter(d) : d \in chunk[w]}]
  /\ Goto(w, "bury")
  /\ UNCHANGED <<stream, dead, index, chunks, letters, replay, known, trimmed, erased, blind, blamed>>

(* The engine may have accepted the chunk all the same and run it later, or *)
(* never have had it.                                                       *)
NoAnswer(w) ==
  \/ tasks' = Orphaned(w)
  \/ \E n \in DOMAIN tasks : tasks[n].by = w /\ tasks' = RemoveAt(tasks, n)

(* A transient failure: the engine took too long or could not be reached.   *)
(* The chunk is left pending.                                               *)
GiveUp(w) ==
  /\ At(w, "wait") /\ Fault
  /\ NoAnswer(w)
  /\ chunk' = [chunk EXCEPT ![w] = {}]
  /\ UNCHANGED refused /\ UNCHANGED chunks
  /\ Goto(w, Busy(w))
  /\ UNCHANGED <<stream, dead, index, letters, replay, known, trimmed, erased, blind, blamed>>

(* classify: any other failure is the documents' fault, an answer that      *)
(* cannot be read and a call refused for its key too.                       *)
Misread(w) ==
  /\ At(w, "wait") /\ Fault
  /\ NoAnswer(w)
  /\ blamed' = IF Cardinality(chunk[w]) = 1 THEN blamed \cup chunk[w] ELSE blamed
  /\ Goto(w, "split")
  /\ UNCHANGED <<stream, dead, index, refused, chunks, chunk, letters, replay,
                 known, trimmed, erased, blind>>

(* The engine runs its tasks in order, each whole or not at all; wait_task  *)
(* of the indexer that waits for this one sees what became of it.           *)
RunTask ==
  /\ tasks # <<>>
  /\ LET t == Head(tasks)
         accepted == \A d \in t.docs : Nature[d] # "rejected"
     IN  /\ index' = IF accepted THEN index \cup t.docs ELSE index
         /\ pc' = IF t.by = Nobody THEN pc
                  ELSE [pc EXCEPT ![t.by] = IF accepted THEN "ack" ELSE "split"]
  /\ tasks' = Tail(tasks)
  /\ UNCHANGED <<stream, dead, refused, chunks, chunk, letters, replay,
                 known, trimmed, erased, faults, blind, blamed>>

(* What is durable, in the index or among the dead letters, may be          *)
(* acknowledged.                                                            *)
Ack(w) ==
  /\ At(w, "ack")
  /\ stream' = AckedDocs(chunk[w])
  /\ refused' = [refused EXCEPT ![w] = {l \in @ : l.doc \notin chunk[w]}]
  /\ chunk' = [chunk EXCEPT ![w] = {}]
  /\ UNCHANGED chunks
  /\ Goto(w, Busy(w))
  /\ UNCHANGED <<dead, tasks, index, letters, replay, known, trimmed, erased, faults, blind, blamed>>

(* A permanent failure: halve the chunk; a single document is the culprit.  *)
Split(w) ==
  /\ At(w, "split")
  /\ IF Cardinality(chunk[w]) = 1
       THEN /\ refused' = [refused EXCEPT ![w] = {Letter(d) : d \in chunk[w]}]
            /\ UNCHANGED chunks
       ELSE /\ \E left \in SUBSET chunk[w] :
                 /\ Cardinality(left) = Cardinality(chunk[w]) \div 2
                 /\ chunks' = [chunks EXCEPT ![w] = @ \cup {left, chunk[w] \ left}]
            /\ UNCHANGED refused
  /\ chunk' = [chunk EXCEPT ![w] = {}]
  /\ Goto(w, Busy(w))
  /\ UNCHANGED <<stream, dead, tasks, index, letters, replay, known, trimmed, erased, faults, blind, blamed>>

(* The process ends, by a failed call to Redis or otherwise, and is started *)
(* again.                                                                   *)
Crash(w) ==
  /\ Fault
  /\ tasks' = Orphaned(w)
  /\ refused' = [refused EXCEPT ![w] = {}]
  /\ chunks' = [chunks EXCEPT ![w] = {}]
  /\ chunk' = [chunk EXCEPT ![w] = {}]
  /\ Goto(w, "reclaim")
  /\ UNCHANGED <<stream, dead, index, letters, replay, known, trimmed, erased, blind, blamed>>

(* An entry has been pending for RECLAIM_AFTER, whether its indexer is gone *)
(* or still at it: waiting for one task may take as long.                   *)
Age(d) ==
  /\ \E i \in With("pending") : /\ stream[i].doc = d
                                /\ stream' = [stream EXCEPT ![i].status = "idle"]
  /\ UNCHANGED <<dead, tasks, index, pc, refused, chunks, chunk, letters, replay,
                 known, trimmed, erased, faults, blind, blamed>>

-----------------------------------------------------------------------------
(* replay_dead: read the newest letters, queue their payloads, delete the   *)
(* stream of dead letters.                                                  *)
Peek ==
  /\ replay = "idle" /\ dead # <<>>
  /\ letters' = Reverse(SubSeq(dead, IF Len(dead) > ReplayLimit THEN Len(dead) - ReplayLimit + 1 ELSE 1,
                               Len(dead)))
  /\ replay' = IF letters' = <<>> THEN "idle" ELSE "requeue"
  /\ UNCHANGED <<stream, dead, tasks, index, pc, refused, chunks, chunk,
                 known, trimmed, erased, faults, blind, blamed>>

Requeue ==
  /\ replay = "requeue"
  /\ Produce(letters)
  /\ replay' = "delete"
  /\ UNCHANGED <<dead, tasks, index, pc, refused, chunks, chunk, letters, known, erased, faults, blind, blamed>>

(* The reply to DEL is ignored: it may have failed. *)
Delete ==
  /\ replay = "delete"
  /\ \/ /\ dead' = <<>>
        /\ erased' = erased \cup (LettersOf(dead) \ LettersOf(letters))
        /\ UNCHANGED faults
     \/ Fault /\ UNCHANGED <<dead, erased>>
  /\ letters' = <<>> /\ replay' = "idle"
  /\ UNCHANGED <<stream, tasks, index, pc, refused, chunks, chunk, known, trimmed, blind, blamed>>

-----------------------------------------------------------------------------
ProducerStep(p) == CheckLag(p) \/ QueueDocument(p)
IndexerStep(w)  == \/ Reclaim(w) \/ Consume(w) \/ Bury(w) \/ Submit(w)
                   \/ Ack(w) \/ Split(w)
OperatorStep    == Peek \/ Requeue \/ Delete

Next == \/ \E p \in Producers : ProducerStep(p)
        \/ \E w \in Indexers : IndexerStep(w) \/ GiveUp(w) \/ Misread(w) \/ Crash(w)
        \/ RunTask
        \/ \E d \in Docs : Age(d)
        \/ OperatorStep

Spec == Init /\ [][Next]_vars

(* Indexers run on, the engine works through its tasks, time passes.  No    *)
(* page has to be crawled and no letter replayed.                           *)
FairSpec == /\ Spec
            /\ \A w \in Indexers : WF_vars(IndexerStep(w))
            /\ WF_vars(RunTask)
            /\ \A d \in Docs : WF_vars(Age(d))

-----------------------------------------------------------------------------
(* The types of the stream, the dead letters and what the processes hold    *)
(* (Queue, DeadLetter, and the locals of process and submit_chunk); neither *)
(* the stream nor the dead letters are ever longer than MAX_LEN.            *)
StoreOK ==
  /\ stream \in Seq(Entry \cup {Acked}) /\ Len(stream) <= MaxLen
  /\ dead \in Seq(Payload) /\ Len(dead) <= MaxLen
  /\ letters \in Seq(Payload)
  /\ tasks \in Seq([docs : SUBSET Docs, by : Indexers \cup {Nobody}])
  /\ index \subseteq Docs

LocalOK ==
  /\ pc \in [Producers \cup Indexers -> Crawling \cup Indexing]
  /\ \A p \in Producers : pc[p] \in Crawling
  /\ \A w \in Indexers : pc[w] \in Indexing
  /\ refused \in [Indexers -> SUBSET Payload] /\ chunk \in [Indexers -> SUBSET Docs]
  /\ chunks \in [Indexers -> SUBSET (SUBSET Docs)]
  /\ replay \in {"idle", "requeue", "delete"}

HistoryOK ==
  /\ known \cup trimmed \cup erased \cup blamed \subseteq Docs
  /\ blind \in BOOLEAN /\ faults \in 0 .. MaxFaults

TypeOK == StoreOK /\ LocalOK /\ HistoryOK

(* A document that was queued is never nowhere: until it can be found it is *)
(* an unacknowledged entry or a dead letter, whatever crashes and however   *)
(* many indexers work on it (indexer.rs:308-311 acknowledges what is        *)
(* durable, dlq.rs:48-50 writes the letter first); but for what trimming    *)
(* takes off the stream or off the dead letters, which dlq.rs:65 trims as   *)
(* well, and for what a replay deletes.                                     *)
Buried(d) == \E n \in DOMAIN dead : dead[n].doc = d
NeverNowhere ==
  \A d \in known : d \in index \cup Unacked(stream) \cup trimmed \cup erased \/ Buried(d)

(* Bisection isolates the culprit: no document the engine would have taken  *)
(* is dead-lettered, however slow the engine and whatever it is batched     *)
(* with (indexer.rs:321-340), unless the answer for it alone was misread    *)
(* (worker.rs:25-32).                                                       *)
OnlyBadAreBuried ==
  \A n \in DOMAIN dead : Nature[dead[n].doc] # "sound" \/ dead[n].doc \in blamed

(* The life of a document, as one who queues it and searches for it sees    *)
(* it: every step of the queue is a step of the abstract delivery, or none. *)
(* What is found stays found, a sound document is buried only if the answer *)
(* for it was misread, and a buried one comes back by a replay that queued  *)
(* it again, or its letter is trimmed (lib.rs:12-20, dlq.rs:42-105).        *)
PlaceOf(d) ==
  IF d \in index THEN "found" ELSE IF Buried(d) THEN "buried"
  ELSE IF d \in Unacked(stream) THEN "waiting" ELSE IF d \in known THEN "taken" ELSE "unknown"
DeliveryMap == INSTANCE Delivery WITH
  Sound <- {d \in Docs : Nature[d] = "sound"},
  place <- [d \in Docs |-> PlaceOf(d)], excused <- trimmed \cup erased,
  misjudged <- blamed, phase <- replay
DeliveryKept == DeliveryMap!Spec

(* Backpressure keeps the stream from being trimmed of what no indexer has  *)
(* been given yet, though every crawl worker looks at the lag before it     *)
(* fetches and queues after (crawld.rs:249, MAX_LEN); as long as the lag    *)
(* can be read and nothing is replayed, which is done without looking.      *)
UnreadIsKept ==
  [][AllJobs' /\ ~blind' => \A i \in With("new") : stream[i].doc \in Unacked(stream')]_vars

(* Every sound document is found in the end, through crashes of indexers    *)
(* and failures of the engine, unless trimmed while it was pending or an    *)
(* answer for it alone misread; as long as the crawl itself comes to an end.*)
SoundIsIndexed ==
  \A d \in Docs : (d \in known /\ Nature[d] = "sound") ~> d \in index \cup trimmed \cup blamed

=============================================================================
