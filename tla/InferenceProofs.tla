--------------------------- MODULE InferenceProofs ---------------------------
(***************************************************************************)
(* Proofs about Inference, for any number of requests and slots, any       *)
(* capacity of the queue and of the store and any length of an answer.     *)
(***************************************************************************)
EXTENDS Inference, FiniteSetTheorems, TLAPS

RequestPcs == {"new", "ready", "waiting", "left", "answered"}
SlotPcs    == {"absent", "starting", "idle", "prefill", "decode", "ended"}

RequestStates == [pc : RequestPcs, token : Nat, reply : Replies, late : InTime .. GivenUp,
                  wasted : 0 .. MaxTokens, answer : Answers]
SlotStates    == [pc : SlotPcs, job : Requests \cup {NoJob}, produced : 0 .. MaxTokens - 1]

Types ==
  /\ request \in [Requests -> RequestStates]
  /\ queue \in Seq(Requests) /\ Len(queue) <= QueueCapacity
  /\ slot \in [Slots -> SlotStates]
  /\ engine \in {"loading", "ready", "missing", "closing", "stopped"}

(* A slot has a job just while it works, and none works before the load.    *)
Working(s) == slot[s].pc \in {"prefill", "decode"}
Slotted ==
  \A s \in Slots : /\ slot[s].job # NoJob <=> Working(s)
                   /\ engine = "loading" => slot[s].pc = "absent"

(* A job is in one place of the queue, or on one slot, or on its way; and  *)
(* is nowhere before it has been submitted.                                *)
OnePlace ==
  /\ \A i, j \in DOMAIN queue : queue[i] = queue[j] => i = j
  /\ \A s, t \in Slots : slot[s].job = slot[t].job /\ slot[s].job # NoJob => s = t
  /\ \A r \in Requests : ~ (InQueue(r) /\ OnSlot(r))
  /\ \A r \in Requests : request[r].pc \in {"new", "ready"} => ~ InQueue(r) /\ ~ OnSlot(r)

(* What is decoded for nobody is no more than was decoded; for a stream it *)
(* is the token that finds its reader gone, the slot's last for it.        *)
Wasted ==
  \A r \in Requests :
    /\ request[r].pc \in {"new", "ready", "waiting"} \/ InQueue(r) => request[r].wasted = 0
    /\ \A s \in Slots : slot[s].job = r => /\ request[r].wasted <= slot[s].produced
                                           /\ r \in Translations => request[r].wasted = 0
    /\ r \in Translations => request[r].wasted <= 1

(* A token that was taken is no longer pending, and is never issued again. *)
Issued ==
  /\ store \in [issued : 0 .. MaxSearches, stale : Nat, pending : SUBSET Nat]
  /\ store.pending \subseteq 1 .. store.issued
Taken ==
  \A r \in Requests : /\ request[r].token \in 0 .. store.issued
                      /\ request[r].token # 0 => request[r].token \notin store.pending
                      /\ request[r].pc = "new" => request[r].token = 0

Inv == Types /\ Slotted /\ OnePlace /\ Wasted /\ Issued /\ Taken /\ SummarisedOnce

-----------------------------------------------------------------------------
(* InferenceAssumption, one fact at a time. *)
LEMMA Assumptions ==
  /\ \A r \in Requests : ~ (r \in Summaries /\ r \in Translations)
  /\ NoJob \notin Requests
  /\ IsFiniteSet(Slots)
  /\ QueueCapacity \in Nat /\ MaxTokens \in Nat /\ MaxTokens >= 1
  /\ MaxSearches \in Nat
BY InferenceAssumption DEF Requests

(* The invariant holds when the process starts. *)
LEMMA InitInv == Init => Inv
<1> SUFFICES ASSUME Init PROVE Inv
  OBVIOUS
<1> USE Assumptions DEF Init, NewRequest, Requests
<1>1. Types
  BY DEF Types, RequestStates, RequestPcs, SlotStates, SlotPcs, Replies, Answers, InTime, GivenUp
<1>2. Slotted /\ OnePlace
  BY DEF Slotted, Working, OnePlace, InQueue, OnSlot
<1>3. Wasted
  <2>1. \A r \in Requests : request[r].wasted = 0
    OBVIOUS
  <2>2. \A s \in Slots : slot[s].produced = 0
    OBVIOUS
  <2> QED
    BY <2>1, <2>2 DEF Wasted
<1>4. Issued /\ Taken /\ SummarisedOnce
  BY DEF Issued, Taken, SummarisedOnce, Tokens!Empty
<1> QED
  BY <1>1, <1>2, <1>3, <1>4 DEF Inv

-----------------------------------------------------------------------------
(* The queue. *)

(* A request put at the end of the queue is in it, and those before it stay. *)
LEMMA AppendQueue ==
  ASSUME NEW q \in Seq(Requests), NEW r \in Requests
  PROVE  /\ Append(q, r) \in Seq(Requests) /\ Len(Append(q, r)) = Len(q) + 1
         /\ \A i \in DOMAIN Append(q, r) : IF i = Len(q) + 1 THEN Append(q, r)[i] = r
                                           ELSE i \in DOMAIN q /\ Append(q, r)[i] = q[i]
OBVIOUS

(* What is behind the head of the queue moves up by one. *)
LEMMA TailQueue ==
  ASSUME NEW q \in Seq(Requests), q # <<>>
  PROVE  /\ Head(q) \in Requests /\ 1 \in DOMAIN q /\ q[1] = Head(q)
         /\ Tail(q) \in Seq(Requests) /\ Len(Tail(q)) = Len(q) - 1
         /\ \A i \in DOMAIN Tail(q) : i + 1 \in DOMAIN q /\ Tail(q)[i] = q[i + 1] /\ i + 1 # 1
OBVIOUS

-----------------------------------------------------------------------------
(* A step that touches no slot and not the queue, and of the requests only *)
(* the one of r, which it moves on, keeps what is said of jobs.            *)
LEMMA RequestOnly ==
  ASSUME Inv, NEW r \in Requests, NEW new \in RequestStates,
         request' = [request EXCEPT ![r] = new],
         new.pc \in {"new", "ready"} => request[r].pc \in {"new", "ready"},
         new.pc = "waiting" => request[r].pc \in {"new", "ready", "waiting"},
         new.wasted = request[r].wasted,
         UNCHANGED <<queue, slot, engine>>
  PROVE  Types' /\ Slotted' /\ OnePlace' /\ Wasted'
<1>1. Types'
  BY DEF Inv, Types
<1>2. Slotted'
  BY DEF Inv, Slotted, Working
<1>3. /\ request \in [Requests -> RequestStates] /\ request'[r] = new
      /\ \A q \in Requests \ {r} : request'[q] = request[q]
      /\ \A q \in Requests : (InQueue(q))' = InQueue(q) /\ (OnSlot(q))' = OnSlot(q)
  BY DEF Inv, Types, InQueue, OnSlot
<1>4. OnePlace'
  BY <1>3 DEF Inv, OnePlace
<1>5. Wasted'
  BY <1>3 DEF Inv, Wasted
<1> QED
  BY <1>1, <1>2, <1>4, <1>5

(* A step of a request that leaves the store alone, and its token, keeps   *)
(* what is said of tokens.                                                 *)
LEMMA TokensStay ==
  ASSUME Inv, UNCHANGED store,
         request' \in [Requests -> RequestStates],
         \A q \in Requests : /\ request'[q].token = request[q].token
                             /\ request'[q].pc = "new" => request[q].pc = "new"
  PROVE  Issued' /\ Taken' /\ SummarisedOnce'
<1>1. Issued'
  BY DEF Inv, Issued
<1>2. Taken'
  BY DEF Inv, Taken
<1>3. SummarisedOnce'
  BY DEF Inv, SummarisedOnce, Requests
<1> QED
  BY <1>1, <1>2, <1>3

(* Both at once: a step of one request's own. *)
LEMMA RequestStep ==
  ASSUME Inv, NEW r \in Requests, NEW new \in RequestStates,
         request' = [request EXCEPT ![r] = new],
         new.pc \in {"ready"} => request[r].pc \in {"new", "ready"},
         new.pc = "new" => request[r].pc = "new",
         new.pc = "waiting" => request[r].pc \in {"new", "ready", "waiting"},
         new.wasted = request[r].wasted, new.token = request[r].token,
         UNCHANGED <<store, queue, slot, engine>>
  PROVE  Inv'
<1>1. Types' /\ Slotted' /\ OnePlace' /\ Wasted'
  BY RequestOnly
<1>2. request \in [Requests -> RequestStates]
  BY DEF Inv, Types
<1>3. Issued' /\ Taken' /\ SummarisedOnce'
  BY <1>1, <1>2, TokensStay DEF Types
<1> QED
  BY <1>1, <1>3 DEF Inv

-----------------------------------------------------------------------------
(* The actions of the requests. *)

(* A request's state with some of its fields changed is one. *)
LEMMA Fields ==
  ASSUME Inv, NEW r \in Requests
  PROVE  /\ request[r] \in RequestStates
         /\ \A pc \in RequestPcs, a \in Answers :
              [request[r] EXCEPT !.pc = pc, !.answer = a] \in RequestStates
         /\ \A pc \in RequestPcs : [request[r] EXCEPT !.pc = pc] \in RequestStates
BY DEF Inv, Types, RequestStates

(* What is answered to a request that has no job any more, or none yet. *)
LEMMA AnsweredInv ==
  ASSUME Inv, NEW r \in Requests, NEW a \in Answers,
         request' = Answered(r, a), UNCHANGED <<store, queue, slot, engine>>
  PROVE  Inv'
<1> DEFINE new == [request[r] EXCEPT !.pc = "answered", !.answer = a]
<1>1. request \in [Requests -> RequestStates] /\ request[r] \in RequestStates
  BY DEF Inv, Types
<1>2. request' = [request EXCEPT ![r] = new]
  BY <1>1 DEF Answered
<1>3. new \in RequestStates /\ new.pc = "answered" /\ new.wasted = request[r].wasted /\ new.token = request[r].token
  BY <1>1 DEF RequestStates, RequestPcs
<1> HIDE DEF new
<1> QED
  BY <1>2, <1>3, RequestStep

LEMMA SearchInv ==
  ASSUME Inv, Search
  PROVE  Inv'
<1>1. /\ store.issued \in 0 .. MaxSearches /\ store.issued + 1 \in 0 .. MaxSearches
      /\ store.pending \subseteq 1 .. store.issued /\ store.stale \in Nat
  BY Assumptions DEF Search, Inv, Issued
<1>2. /\ store' = [issued |-> store.issued + 1, stale |-> store.stale,
                   pending |-> Tokens!WithoutOldest(Tokens!Fresh(store)) \cup {store.issued + 1}]
  BY DEF Search, Tokens!Insert, Inv, Issued
<1>3. Tokens!WithoutOldest(Tokens!Fresh(store)) \subseteq store.pending
  BY DEF Tokens!WithoutOldest, Tokens!Fresh
<1>4. /\ store'.issued = store.issued + 1 /\ store'.stale = store.stale
      /\ store'.pending \subseteq store.pending \cup {store.issued + 1}
  BY <1>2, <1>3
<1>5. Issued'
  <2>1. store'.pending \in SUBSET Nat /\ store'.pending \subseteq 1 .. store'.issued
    BY <1>1, <1>4
  <2> QED
    BY <1>1, <1>2, <1>4, <2>1 DEF Issued
<1>6. UNCHANGED <<request, queue, slot, engine>>
  BY DEF Search
<1>7. Taken'
  BY <1>1, <1>4, <1>6 DEF Inv, Taken
<1>8. Types' /\ Slotted' /\ OnePlace' /\ Wasted' /\ SummarisedOnce'
  BY <1>6 DEF Inv, Types, Slotted, Working, OnePlace, InQueue, OnSlot, Wasted, SummarisedOnce
<1> QED
  BY <1>5, <1>7, <1>8 DEF Inv

LEMMA TakeInv ==
  ASSUME Inv, NEW r \in Requests, Take(r)
  PROVE  Inv'
<1>1. PICK t \in 0 .. store.issued :
        /\ store' = Tokens!Take(store, t)
        /\ IF t \in Tokens!Fresh(store)
           THEN \/ request' = [request EXCEPT ![r].pc = "ready", ![r].token = t]
                \/ request' = [Answered(r, "no_passages") EXCEPT ![r].token = t]
           ELSE request' = Answered(r, "unknown_token")
  BY DEF Take
<1>2. /\ request \in [Requests -> RequestStates] /\ request[r] \in RequestStates
      /\ request[r].pc = "new" /\ request[r].token = 0 /\ r \in Summaries
      /\ UNCHANGED <<queue, slot, engine>>
  BY DEF Take, Inv, Types, Taken
<1>3. /\ store'.issued = store.issued /\ store'.pending = store.pending \ {t} /\ store'.stale = store.stale
      /\ Issued' /\ store.issued \in Nat
  BY <1>1 DEF Inv, Issued, Tokens!Take
<1>4. ASSUME NEW pc \in {"ready", "answered"}, NEW a \in Answers, NEW token \in {0, t},
             token # 0 => token \in store.pending,
             request' = [request EXCEPT ![r] = [request[r] EXCEPT !.pc = pc, !.answer = a, !.token = token]]
      PROVE  Inv'
  <2> DEFINE new == [request[r] EXCEPT !.pc = pc, !.answer = a, !.token = token]
  <2>1. /\ new \in RequestStates /\ new.pc = pc /\ new.token = token /\ new.wasted = request[r].wasted
    <3>1. token \in Nat /\ pc \in RequestPcs
      BY <1>3 DEF RequestPcs
    <3> QED
      BY <1>2, <3>1 DEF RequestStates
  <2>2. request' = [request EXCEPT ![r] = new]
    BY <1>4
  <2> HIDE DEF new
  <2>3. Types' /\ Slotted' /\ OnePlace' /\ Wasted'
    BY <1>2, <1>4, <2>1, <2>2, RequestOnly
  <2>4. request'[r] = new /\ \A q \in Requests \ {r} : request'[q] = request[q]
    BY <1>2, <2>2
  <2>5. \A q \in Requests : request[q].token \in 0 .. store.issued /\ (request[q].token # 0 => request[q].token \notin store.pending)
    BY DEF Inv, Taken
  <2>6. Taken'
    BY <1>3, <1>4, <2>1, <2>4, <2>5 DEF Inv, Taken
  <2>7. SummarisedOnce'
    BY <1>4, <2>1, <2>4, <2>5 DEF Inv, SummarisedOnce, Requests
  <2> QED
    BY <1>3, <2>3, <2>6, <2>7 DEF Inv
<1>5. CASE t \in Tokens!Fresh(store) /\ request' = [request EXCEPT ![r].pc = "ready", ![r].token = t]
  <2>1. t \in store.pending
    BY <1>5 DEF Tokens!Fresh
  <2>2. request' = [request EXCEPT ![r] = [request[r] EXCEPT !.pc = "ready", !.answer = request[r].answer, !.token = t]]
    BY <1>2, <1>5 DEF RequestStates
  <2>3. request[r].answer \in Answers
    BY <1>2 DEF RequestStates
  <2> QED
    BY <1>4, <2>1, <2>2, <2>3
<1>6. CASE t \in Tokens!Fresh(store) /\ request' = [Answered(r, "no_passages") EXCEPT ![r].token = t]
  <2>1. t \in store.pending
    BY <1>6 DEF Tokens!Fresh
  <2>2. request' = [request EXCEPT ![r] = [request[r] EXCEPT !.pc = "answered", !.answer = "no_passages", !.token = t]]
    BY <1>2, <1>6 DEF RequestStates, Answered
  <2> QED
    BY <1>4, <2>1, <2>2 DEF Answers
<1>7. CASE request' = Answered(r, "unknown_token")
  <2>1. request' = [request EXCEPT ![r] = [request[r] EXCEPT !.pc = "answered", !.answer = "unknown_token", !.token = 0]]
    BY <1>2, <1>7 DEF RequestStates, Answered
  <2> QED
    BY <1>4, <2>1 DEF Answers
<1> QED
  BY <1>1, <1>5, <1>6, <1>7

LEMMA TranslateInv ==
  ASSUME Inv, NEW r \in Requests, Translate(r)
  PROVE  Inv'
<1>1. request[r].pc = "new" /\ UNCHANGED <<store, queue, slot, engine>>
  BY DEF Translate
<1>2. CASE request' = [request EXCEPT ![r].pc = "ready"]
  <2> DEFINE new == [request[r] EXCEPT !.pc = "ready"]
  <2>1. new \in RequestStates /\ new.pc = "ready" /\ new.wasted = request[r].wasted /\ new.token = request[r].token
    BY DEF Inv, Types, RequestStates, RequestPcs
  <2>2. request' = [request EXCEPT ![r] = new]
    BY <1>2
  <2> HIDE DEF new
  <2> QED
    BY <1>1, <2>1, <2>2, RequestStep
<1>3. CASE request' = Answered(r, "untranslatable")
  BY <1>1, <1>3, AnsweredInv DEF Answers
<1> QED
  BY <1>2, <1>3 DEF Translate

LEMMA SubmitInv ==
  ASSUME Inv, NEW r \in Requests, Submit(r)
  PROVE  Inv'
<1>1. request[r].pc = "ready" /\ UNCHANGED <<store, slot, engine>>
  BY DEF Submit
<1>2. CASE /\ engine = "ready" /\ ~AllEnded /\ HasRoom
           /\ queue' = Append(queue, r)
           /\ request' = [request EXCEPT ![r].pc = "waiting"]
  <2> DEFINE new == [request[r] EXCEPT !.pc = "waiting"]
  <2>1. /\ request \in [Requests -> RequestStates] /\ queue \in Seq(Requests)
        /\ slot \in [Slots -> SlotStates]
    BY DEF Inv, Types
  <2>2. new \in RequestStates /\ new.pc = "waiting" /\ new.wasted = request[r].wasted /\ new.token = request[r].token
    BY <2>1 DEF RequestStates, RequestPcs
  <2>3. request' = [request EXCEPT ![r] = new]
    BY <1>2
  <2> HIDE DEF new
  <2>4. request'[r] = new /\ \A q \in Requests \ {r} : request'[q] = request[q]
    BY <2>1, <2>3
  <2>5. Types'
    <3>1. Len(queue) + 1 <= QueueCapacity
      BY <1>2, <2>1, Assumptions DEF HasRoom
    <3>2. queue' \in Seq(Requests) /\ Len(queue') <= QueueCapacity
      BY <1>2, <2>1, <3>1, AppendQueue
    <3> QED
      BY <1>1, <2>2, <2>3, <3>2 DEF Inv, Types
  <2>6. /\ \A i \in DOMAIN queue' : IF i = Len(queue) + 1 THEN queue'[i] = r
                                    ELSE i \in DOMAIN queue /\ queue'[i] = queue[i]
    BY <1>2, <2>1, AppendQueue
  <2>7. ~ InQueue(r) /\ ~ OnSlot(r) /\ request[r].wasted = 0
    BY <1>1 DEF Inv, OnePlace, Wasted
  <2>8. \A q \in Requests : /\ (OnSlot(q))' = OnSlot(q)
                            /\ (InQueue(q))' => q = r \/ InQueue(q)
    BY <1>1, <2>6 DEF OnSlot, InQueue
  <2>9. OnePlace'
    <3>1. \A i, j \in DOMAIN queue' : queue'[i] = queue'[j] => i = j
      BY <2>6, <2>7 DEF Inv, OnePlace, InQueue
    <3>2. \A s, t \in Slots : slot'[s].job = slot'[t].job /\ slot'[s].job # NoJob => s = t
      BY <1>1 DEF Inv, OnePlace
    <3>3. \A q \in Requests : ~ ((InQueue(q))' /\ (OnSlot(q))')
      BY <2>7, <2>8 DEF Inv, OnePlace
    <3>4. \A q \in Requests : request'[q].pc \in {"new", "ready"} => ~ (InQueue(q))' /\ ~ (OnSlot(q))'
      BY <2>2, <2>4, <2>7, <2>8 DEF Inv, OnePlace
    <3> QED
      BY <3>1, <3>2, <3>3, <3>4 DEF OnePlace
  <2>10. Wasted'
    BY <1>1, <2>2, <2>4, <2>7, <2>8 DEF Inv, Wasted
  <2>11. Slotted'
    BY <1>1 DEF Inv, Slotted, Working
  <2>12. Issued' /\ Taken' /\ SummarisedOnce'
    BY <1>1, <2>2, <2>4, <2>5, TokensStay DEF Types
  <2> QED
    BY <2>5, <2>9, <2>10, <2>11, <2>12 DEF Inv
<1>3. CASE /\ \E a \in Answers : request' = Answered(r, a)
           /\ UNCHANGED queue
  BY <1>1, <1>3, AnsweredInv
<1>4. {"model_not_loaded", "shut down", "busy"} \subseteq Answers
  BY DEF Answers
<1> QED
  BY <1>2, <1>3, <1>4 DEF Submit

LEMMA HearInv ==
  ASSUME Inv, NEW r \in Requests, Hear(r)
  PROVE  Inv'
<1>1. PICK answer \in Answers :
        request' = [Answered(r, answer) EXCEPT ![r].reply = "none", ![r].late = InTime]
  <2>1. {"text", "withheld", "interrupted", "generation_failed"} \subseteq Answers
    BY DEF Answers
  <2> QED
    BY <2>1 DEF Hear
<1>2. UNCHANGED <<store, queue, slot, engine>>
  BY DEF Hear
<1> DEFINE new == [request[r] EXCEPT !.pc = "answered", !.answer = answer, !.reply = "none", !.late = InTime]
<1>3. request \in [Requests -> RequestStates] /\ request[r] \in RequestStates
  BY DEF Inv, Types
<1>4. /\ new \in RequestStates /\ new.pc = "answered"
      /\ new.wasted = request[r].wasted /\ new.token = request[r].token
  <2>1. "none" \in Replies /\ InTime \in InTime .. GivenUp /\ "answered" \in RequestPcs
    BY DEF Replies, InTime, GivenUp, RequestPcs
  <2> QED
    BY <1>3, <2>1 DEF RequestStates
<1>5. request' = [request EXCEPT ![r] = new]
  BY <1>1, <1>3 DEF Answered
<1> HIDE DEF new
<1> QED
  BY <1>2, <1>4, <1>5, RequestStep

LEMMA GiveUpInv ==
  ASSUME Inv, NEW r \in Requests, GiveUp(r)
  PROVE  Inv'
BY AnsweredInv DEF GiveUp, Answers

LEMMA LeaveInv ==
  ASSUME Inv, NEW r \in Requests, Leave(r)
  PROVE  Inv'
<1> DEFINE new == [request[r] EXCEPT !.pc = "left"]
<1>1. new \in RequestStates /\ new.pc = "left" /\ new.wasted = request[r].wasted /\ new.token = request[r].token
  BY DEF Inv, Types, RequestStates, RequestPcs
<1>2. request' = [request EXCEPT ![r] = new] /\ UNCHANGED <<store, queue, slot, engine>>
  BY DEF Leave
<1> HIDE DEF new
<1> QED
  BY <1>1, <1>2, RequestStep

LEMMA TimePassesInv ==
  ASSUME Inv, NEW r \in Requests, TimePasses(r)
  PROVE  Inv'
<1> DEFINE new == [request[r] EXCEPT !.late = @ + 1]
<1>1. request[r] \in RequestStates
  BY DEF Inv, Types
<1>2. new \in RequestStates
  <2>1. request[r].late \in Int /\ request[r].late >= 0 /\ request[r].late < 2
    BY <1>1 DEF TimePasses, RequestStates, InTime, Late, GivenUp
  <2>2. request[r].late + 1 \in InTime .. GivenUp
    BY <2>1 DEF InTime, GivenUp
  <2> QED
    BY <1>1, <2>2 DEF RequestStates
<1>3. new.pc = request[r].pc /\ new.wasted = request[r].wasted /\ new.token = request[r].token
  BY <1>1 DEF RequestStates
<1>4. request' = [request EXCEPT ![r] = new] /\ UNCHANGED <<store, queue, slot, engine>>
  BY DEF TimePasses
<1> HIDE DEF new
<1> QED
  BY <1>2, <1>3, <1>4, RequestStep

-----------------------------------------------------------------------------
(* The actions of the slots. *)

(* A reply changes nothing of a request but the reply, and how late it is. *)
LEMMA RepliedKeeps ==
  ASSUME NEW req \in RequestStates, NEW reply \in Replies
  PROVE  /\ Replied(req, reply) \in RequestStates
         /\ Replied(req, reply).pc = req.pc /\ Replied(req, reply).token = req.token
         /\ Replied(req, reply).wasted = req.wasted
BY DEF Replied, RequestStates, InTime, GivenUp

(* What becomes of a request while a slot works on it. *)
Unmoved(q) ==
  request'[q].pc = request[q].pc /\ request'[q].token = request[q].token /\ request'[q].wasted = request[q].wasted

(* A step that takes no job on, and decodes nothing, keeps the invariant. *)
LEMMA NoNewJob ==
  ASSUME Inv, Types', Slotted', UNCHANGED <<store, engine>>,
         \A q \in Requests : Unmoved(q),
         \A q \in Requests : (InQueue(q))' => InQueue(q),
         \A i, j \in DOMAIN queue' : queue'[i] = queue'[j] => i = j,
         \A t \in Slots : slot'[t].job = NoJob
                          \/ (slot'[t].job = slot[t].job /\ slot'[t].produced = slot[t].produced)
  PROVE  Inv'
<1>1. \A q \in Requests : (OnSlot(q))' => OnSlot(q)
  BY Assumptions DEF OnSlot
<1>2. OnePlace'
  <2>1. \A s, t \in Slots : slot'[s].job = slot'[t].job /\ slot'[s].job # NoJob => s = t
    BY DEF Inv, OnePlace
  <2>2. \A q \in Requests : ~ ((InQueue(q))' /\ (OnSlot(q))')
    BY <1>1 DEF Inv, OnePlace
  <2>3. \A q \in Requests : request'[q].pc \in {"new", "ready"} => ~ (InQueue(q))' /\ ~ (OnSlot(q))'
    BY <1>1 DEF Inv, OnePlace, Unmoved
  <2> QED
    BY <2>1, <2>2, <2>3 DEF OnePlace
<1>3. Wasted'
  <2>1. \A q \in Requests, s \in Slots :
          slot'[s].job = q => slot[s].job = q /\ slot'[s].produced = slot[s].produced
    BY Assumptions
  <2> QED
    BY <2>1 DEF Inv, Wasted, Unmoved
<1>4. Issued' /\ Taken' /\ SummarisedOnce'
  BY TokensStay DEF Types, Unmoved
<1> QED
  BY <1>2, <1>3, <1>4 DEF Inv

(* A slot that has no job ends, with the jobs still queued if it is the    *)
(* last.                                                                   *)
LEMMA EndsInv ==
  ASSUME Inv, NEW s \in Slots, slot[s].pc \in {"starting", "idle"}, Ends(s), UNCHANGED <<store, engine>>
  PROVE  Inv'
<1>1. /\ request \in [Requests -> RequestStates] /\ slot \in [Slots -> SlotStates] /\ queue \in Seq(Requests)
      /\ Len(queue) <= QueueCapacity
  BY DEF Inv, Types
<1>2. slot' = [slot EXCEPT ![s] = [slot[s] EXCEPT !.pc = "ended"]]
  BY <1>1 DEF Ends
<1>3. /\ slot'[s] \in SlotStates /\ slot'[s].pc = "ended" /\ slot'[s].job = slot[s].job
      /\ slot'[s].produced = slot[s].produced
      /\ \A t \in Slots \ {s} : slot'[t] = slot[t]
      /\ slot' \in [Slots -> SlotStates]
  BY <1>1, <1>2 DEF SlotStates, SlotPcs
<1>4. queue' = <<>> \/ queue' = queue
  BY DEF Ends
<1>5. \A q \in Requests : request'[q] \in {request[q], Replied(request[q], "dropped")}
  BY DEF Ends
<1>6. request' \in [Requests -> RequestStates] /\ \A q \in Requests : Unmoved(q)
  <2>1. \A q \in Requests : request[q] \in RequestStates /\ Replied(request[q], "dropped") \in RequestStates
    BY <1>1, RepliedKeeps DEF Replies
  <2>2. \A q \in Requests : Unmoved(q)
    BY <1>1, <1>5, RepliedKeeps DEF Unmoved, Replies
  <2>3. request' = [q \in Requests |-> request'[q]]
    BY DEF Ends
  <2> QED
    BY <1>5, <2>1, <2>2, <2>3
<1>7. Types'
  <2>1. queue' \in Seq(Requests) /\ Len(queue') <= QueueCapacity
    <3>1. <<>> \in Seq(Requests) /\ Len(<<>>) = 0 /\ 0 <= QueueCapacity
      BY Assumptions
    <3>2. CASE queue' = <<>>
      BY <3>1, <3>2
    <3>3. CASE queue' = queue
      BY <1>1, <3>3
    <3> QED
      BY <1>4, <3>2, <3>3
  <2> QED
    BY <1>3, <1>6, <2>1 DEF Inv, Types
<1>8. Slotted'
  BY <1>3 DEF Inv, Slotted, Working
<1>9. /\ \A q \in Requests : (InQueue(q))' => InQueue(q)
      /\ \A i, j \in DOMAIN queue' : queue'[i] = queue'[j] => i = j
  <2>1. CASE queue' = <<>>
    BY <2>1 DEF InQueue
  <2>2. CASE queue' = queue
    BY <2>2 DEF Inv, OnePlace, InQueue
  <2> QED
    BY <1>4, <2>1, <2>2
<1> QED
  BY <1>3, <1>6, <1>7, <1>8, <1>9, NoNewJob

LEMMA StartInv ==
  ASSUME Inv, NEW s \in Slots, Start(s)
  PROVE  Inv'
<1>1. slot[s].pc = "starting" /\ UNCHANGED <<store, engine>>
  BY DEF Start
<1>2. CASE slot' = [slot EXCEPT ![s].pc = "idle"] /\ UNCHANGED <<queue, request>>
  <2>1. slot' = [slot EXCEPT ![s] = [slot[s] EXCEPT !.pc = "idle"]] /\ slot \in [Slots -> SlotStates]
    BY <1>2 DEF Inv, Types
  <2>2. /\ slot'[s].pc = "idle" /\ slot'[s].job = slot[s].job /\ slot'[s].produced = slot[s].produced
        /\ \A t \in Slots \ {s} : slot'[t] = slot[t]
        /\ slot' \in [Slots -> SlotStates]
    BY <2>1 DEF SlotStates, SlotPcs
  <2>3. Types' /\ Slotted'
    BY <1>1, <1>2, <2>2 DEF Inv, Types, Slotted, Working
  <2>4. /\ \A q \in Requests : Unmoved(q) /\ (InQueue(q))' = InQueue(q)
        /\ \A i, j \in DOMAIN queue' : queue'[i] = queue'[j] => i = j
    BY <1>2 DEF Unmoved, InQueue, Inv, OnePlace
  <2> QED
    BY <1>1, <2>2, <2>3, <2>4, NoNewJob
<1>3. CASE Ends(s)
  BY <1>1, <1>3, EndsInv
<1> QED
  BY <1>2, <1>3 DEF Start

LEMMA RetireInv ==
  ASSUME Inv, NEW s \in Slots, Retire(s)
  PROVE  Inv'
BY EndsInv DEF Retire

(* What is left of the queue when its head is taken. *)
LEMMA Received ==
  ASSUME Inv, queue # <<>>, queue' = Tail(queue)
  PROVE  /\ Head(queue) \in Requests /\ InQueue(Head(queue))
         /\ queue' \in Seq(Requests) /\ Len(queue') <= QueueCapacity
         /\ \A q \in Requests : (InQueue(q))' => InQueue(q) /\ q # Head(queue)
         /\ \A i, j \in DOMAIN queue' : queue'[i] = queue'[j] => i = j
<1>1. queue \in Seq(Requests) /\ Len(queue) <= QueueCapacity
  BY DEF Inv, Types
<1>2. \A i, j \in DOMAIN queue : queue[i] = queue[j] => i = j
  BY DEF Inv, OnePlace
<1>3. /\ Head(queue) \in Requests /\ 1 \in DOMAIN queue /\ queue[1] = Head(queue)
      /\ queue' \in Seq(Requests) /\ Len(queue') = Len(queue) - 1
      /\ \A i \in DOMAIN queue' : i + 1 \in DOMAIN queue /\ queue'[i] = queue[i + 1] /\ i + 1 # 1
  BY <1>1, TailQueue
<1>4. \A i, j \in DOMAIN queue' : queue'[i] = queue'[j] => i = j
  <2> SUFFICES ASSUME NEW i \in DOMAIN queue', NEW j \in DOMAIN queue', queue'[i] = queue'[j]
               PROVE  i = j
    OBVIOUS
  <2>1. i + 1 = j + 1
    BY <1>2, <1>3
  <2>2. i \in Int /\ j \in Int
    BY <1>3
  <2> QED
    BY <2>1, <2>2
<1>5. Len(queue') <= QueueCapacity
  BY <1>1, <1>3, Assumptions
<1>6. InQueue(Head(queue))
  BY <1>3 DEF InQueue
<1>7. \A q \in Requests : (InQueue(q))' => InQueue(q) /\ q # Head(queue)
  BY <1>2, <1>3 DEF InQueue
<1> QED
  BY <1>3, <1>4, <1>5, <1>6, <1>7

LEMMA ReceiveInv ==
  ASSUME Inv, NEW s \in Slots, Receive(s)
  PROVE  Inv'
<1> DEFINE r == Head(queue)
<1>1. /\ slot[s].pc = "idle" /\ UNCHANGED <<store, engine>>
      /\ request \in [Requests -> RequestStates] /\ slot \in [Slots -> SlotStates]
  BY DEF Receive, Inv, Types
<1>2. /\ r \in Requests /\ InQueue(r)
      /\ queue' \in Seq(Requests) /\ Len(queue') <= QueueCapacity
      /\ \A q \in Requests : (InQueue(q))' => InQueue(q) /\ q # r
      /\ \A i, j \in DOMAIN queue' : queue'[i] = queue'[j] => i = j
  BY Received DEF Receive
<1>3. \/ /\ request' = [request EXCEPT ![r] = Replied(request[r], "dropped")]
         /\ UNCHANGED slot
      \/ /\ slot' = [slot EXCEPT ![s] = [pc |-> "prefill", job |-> r, produced |-> 0]]
         /\ UNCHANGED request
  BY DEF Receive
<1> HIDE DEF r
<1>4. CASE /\ request' = [request EXCEPT ![r] = Replied(request[r], "dropped")]
           /\ UNCHANGED slot
  <2>1. /\ Replied(request[r], "dropped") \in RequestStates
        /\ \A q \in Requests : Unmoved(q)
    BY <1>1, <1>2, <1>4, RepliedKeeps DEF Unmoved, Replies
  <2>2. request' \in [Requests -> RequestStates]
    BY <1>1, <1>2, <1>4, <2>1
  <2>3. Types'
    BY <1>1, <1>2, <1>4, <2>2 DEF Inv, Types
  <2>4. Slotted'
    BY <1>1, <1>4 DEF Inv, Slotted, Working
  <2>5. \A t \in Slots : slot'[t].job = slot[t].job /\ slot'[t].produced = slot[t].produced
    BY <1>4
  <2> QED
    BY <1>1, <1>2, <2>1, <2>3, <2>4, <2>5, NoNewJob
<1>5. CASE /\ slot' = [slot EXCEPT ![s] = [pc |-> "prefill", job |-> r, produced |-> 0]]
           /\ UNCHANGED request
  <2>1. /\ slot'[s] = [pc |-> "prefill", job |-> r, produced |-> 0]
        /\ \A t \in Slots \ {s} : slot'[t] = slot[t]
    BY <1>1, <1>5
  <2>2. slot' \in [Slots -> SlotStates]
    <3>1. [pc |-> "prefill", job |-> r, produced |-> 0] \in SlotStates
      BY <1>2, Assumptions DEF SlotStates, SlotPcs
    <3> QED
      BY <1>1, <1>5, <3>1
  <2>3. Types'
    BY <1>1, <1>2, <1>5, <2>2 DEF Inv, Types
  <2>4. slot[s].job = NoJob /\ r # NoJob
    BY <1>1, <1>2, Assumptions DEF Inv, Slotted, Working
  <2>5. Slotted'
    BY <1>1, <2>1, <2>4 DEF Inv, Slotted, Working
  <2>6. \A t \in Slots : slot[t].job # r
    BY <1>2 DEF Inv, OnePlace, OnSlot
  <2>7. \A q \in Requests : (OnSlot(q))' => q = r \/ OnSlot(q)
    BY <2>1 DEF OnSlot
  <2>8. OnePlace'
    <3>1. \A t, u \in Slots : slot'[t].job = slot'[u].job /\ slot'[t].job # NoJob => t = u
      BY <2>1, <2>6 DEF Inv, OnePlace
    <3>2. \A q \in Requests : ~ ((InQueue(q))' /\ (OnSlot(q))')
      BY <1>2, <2>7 DEF Inv, OnePlace
    <3>3. \A q \in Requests : request'[q].pc \in {"new", "ready"} => ~ (InQueue(q))' /\ ~ (OnSlot(q))'
      BY <1>2, <1>5, <2>7 DEF Inv, OnePlace
    <3> QED
      BY <1>2, <3>1, <3>2, <3>3 DEF OnePlace
  <2>9. Wasted'
    <3>1. request[r].wasted = 0
      BY <1>2 DEF Inv, Wasted
    <3>2. \A q \in Requests, t \in Slots : slot'[t].job = q =>
            /\ request[q].wasted <= slot'[t].produced
            /\ q \in Translations => request[q].wasted = 0
      BY <1>2, <2>1, <3>1 DEF Inv, Wasted
    <3> QED
      BY <1>2, <1>5, <3>2 DEF Inv, Wasted
  <2>10. Issued' /\ Taken' /\ SummarisedOnce'
    BY <1>1, <1>5, <2>3, TokensStay DEF Types
  <2> QED
    BY <2>3, <2>5, <2>8, <2>9, <2>10 DEF Inv
<1> QED
  BY <1>3, <1>4, <1>5

(* A slot that works has a job, which is nowhere else. *)
LEMMA WorkingJob ==
  ASSUME Inv, NEW s \in Slots, Working(s)
  PROVE  /\ slot[s].job \in Requests /\ slot[s].produced \in 0 .. MaxTokens - 1
         /\ ~ InQueue(slot[s].job) /\ request[slot[s].job].pc \notin {"new", "ready"}
         /\ \A t \in Slots \ {s} : slot[t].job # slot[s].job
<1>1. slot[s] \in SlotStates
  BY DEF Inv, Types
<1>2. slot[s].job \in Requests /\ slot[s].produced \in 0 .. MaxTokens - 1
  BY <1>1 DEF Inv, Slotted, SlotStates
<1>3. OnSlot(slot[s].job)
  BY DEF OnSlot
<1> QED
  BY <1>2, <1>3, Assumptions DEF Inv, OnePlace

Idling == [pc |-> "idle", job |-> NoJob, produced |-> 0]

(* What a slot that lets its job go leaves of the slots. *)
LEMMA Idles ==
  ASSUME Inv, NEW s \in Slots, Working(s), slot' = [slot EXCEPT ![s] = Idling], UNCHANGED engine
  PROVE  /\ slot' \in [Slots -> SlotStates] /\ Slotted'
         /\ slot'[s] = Idling /\ \A t \in Slots \ {s} : slot'[t] = slot[t]
<1>1. slot \in [Slots -> SlotStates] /\ Idling \in SlotStates
  BY Assumptions DEF Inv, Types, Idling, SlotStates, SlotPcs
<1>2. slot' \in [Slots -> SlotStates] /\ slot'[s] = Idling /\ \A t \in Slots \ {s} : slot'[t] = slot[t]
  BY <1>1
<1>3. Slotted'
  BY <1>2 DEF Inv, Slotted, Working, Idling
<1> QED
  BY <1>2, <1>3

LEMMA FinishInv ==
  ASSUME Inv, NEW s \in Slots, Working(s), NEW reply \in Replies, Finish(s, reply),
         UNCHANGED <<store, queue, engine>>
  PROVE  Inv'
<1> DEFINE r == slot[s].job
<1>1. r \in Requests
  BY WorkingJob
<1>2. slot' = [slot EXCEPT ![s] = Idling] /\ request' = [request EXCEPT ![r] = Replied(request[r], reply)]
  BY DEF Finish, Idling
<1>3. request \in [Requests -> RequestStates]
  BY DEF Inv, Types
<1> HIDE DEF r
<1>4. request' \in [Requests -> RequestStates] /\ \A q \in Requests : Unmoved(q)
  BY <1>1, <1>2, <1>3, RepliedKeeps DEF Unmoved
<1>5. /\ slot' \in [Slots -> SlotStates] /\ Slotted'
      /\ slot'[s] = Idling /\ \A t \in Slots \ {s} : slot'[t] = slot[t]
  BY <1>2, Idles
<1>6. Types'
  BY <1>4, <1>5 DEF Inv, Types
<1>7. /\ \A q \in Requests : (InQueue(q))' = InQueue(q)
      /\ \A i, j \in DOMAIN queue' : queue'[i] = queue'[j] => i = j
  BY DEF InQueue, Inv, OnePlace
<1> QED
  BY <1>4, <1>5, <1>6, <1>7, NoNewJob DEF Idling

LEMMA PrefillInv ==
  ASSUME Inv, NEW s \in Slots, Prefill(s)
  PROVE  Inv'
<1>1. Working(s) /\ slot[s].pc = "prefill" /\ UNCHANGED <<store, queue, engine>>
  BY DEF Prefill, Working
<1>2. CASE Finish(s, "failed")
  BY <1>1, <1>2, FinishInv DEF Replies
<1>3. CASE slot' = [slot EXCEPT ![s].pc = "decode"] /\ UNCHANGED request
  <2>1. slot' = [slot EXCEPT ![s] = [slot[s] EXCEPT !.pc = "decode"]] /\ slot \in [Slots -> SlotStates]
    BY <1>3 DEF Inv, Types
  <2>2. /\ slot'[s].pc = "decode" /\ slot'[s].job = slot[s].job /\ slot'[s].produced = slot[s].produced
        /\ \A t \in Slots \ {s} : slot'[t] = slot[t]
        /\ slot' \in [Slots -> SlotStates]
    BY <2>1 DEF SlotStates, SlotPcs
  <2>3. Types' /\ Slotted'
    BY <1>1, <1>3, <2>2 DEF Inv, Types, Slotted, Working
  <2>4. /\ \A q \in Requests : Unmoved(q) /\ (InQueue(q))' = InQueue(q)
        /\ \A i, j \in DOMAIN queue' : queue'[i] = queue'[j] => i = j
    BY <1>1, <1>3 DEF Unmoved, InQueue, Inv, OnePlace
  <2> QED
    BY <1>1, <2>2, <2>3, <2>4, NoNewJob
<1> QED
  BY <1>2, <1>3 DEF Prefill

LEMMA EndTextInv ==
  ASSUME Inv, NEW s \in Slots, EndText(s)
  PROVE  Inv'
<1>1. Working(s) /\ UNCHANGED <<store, queue, engine>>
  BY DEF EndText, Working
<1>2. PICK reply \in Replies : Finish(s, reply)
  BY DEF EndText, Replies
<1> QED
  BY <1>1, <1>2, FinishInv

(* A token decoded for somebody who is gone is wasted: of a stream it is    *)
(* the first, and of any job no more than were decoded.                    *)
LEMMA DecodeInv ==
  ASSUME Inv, NEW s \in Slots, Decode(s)
  PROVE  Inv'
<1> DEFINE r == slot[s].job
           more == IF Closed(r) THEN request[r].wasted + 1 ELSE request[r].wasted
           one  == [request[r] EXCEPT !.wasted = more]
           ends == StreamGone(r) \/ request[r].late >= Late \/ slot[s].produced + 1 = MaxTokens
<1>1. /\ Working(s) /\ slot[s].pc = "decode" /\ UNCHANGED <<store, queue, engine>>
      /\ request \in [Requests -> RequestStates] /\ slot \in [Slots -> SlotStates]
  BY DEF Decode, Working, Inv, Types
<1>2. /\ r \in Requests /\ slot[s].produced \in 0 .. MaxTokens - 1
      /\ ~ InQueue(r) /\ request[r].pc \notin {"new", "ready"}
      /\ \A t \in Slots \ {s} : slot[t].job # r
  BY <1>1, WorkingJob
<1>3. /\ request[r] \in RequestStates /\ request[r].wasted \in Nat /\ request[r].wasted <= slot[s].produced
      /\ r \in Translations => request[r].wasted = 0
      /\ request[r].pc = "waiting" => request[r].wasted = 0
  BY <1>1, <1>2 DEF Inv, Wasted, RequestStates
<1>4. /\ \/ ends /\ request' = [request EXCEPT ![r] = Replied(one, "text")] /\ slot' = [slot EXCEPT ![s] = Idling]
         \/ ~ ends /\ request' = [request EXCEPT ![r] = one] /\ slot' = [slot EXCEPT ![s] = [slot[s] EXCEPT !.produced = @ + 1]]
  <2>1. [request EXCEPT ![r].wasted = IF Closed(r) THEN @ + 1 ELSE @] = [request EXCEPT ![r] = one]
    BY <1>1, <1>2
  <2>2. [[request EXCEPT ![r] = one] EXCEPT ![r] = Replied(@, "text")] = [request EXCEPT ![r] = Replied(one, "text")]
    BY <1>1, <1>2
  <2> QED
    BY <1>1, <2>1, <2>2 DEF Decode, Idling
<1> HIDE DEF r, ends
<1>5. more \in 0 .. MaxTokens /\ more <= slot[s].produced + 1
  BY <1>2, <1>3, Assumptions
<1>6. /\ one \in RequestStates /\ one.pc = request[r].pc /\ one.token = request[r].token /\ one.wasted = more
  BY <1>3, <1>5 DEF RequestStates
<1>7. /\ r \in Translations => more <= 1
      /\ request[r].pc = "waiting" => more = 0
      /\ r \in Translations /\ ~ ends => more = 0
  BY <1>3 DEF Closed, StreamGone, ends
<1> HIDE DEF more, one
<1>8. /\ request'[r] \in RequestStates /\ request'[r].pc = request[r].pc /\ request'[r].token = request[r].token
      /\ request'[r].wasted = more
      /\ \A q \in Requests \ {r} : request'[q] = request[q]
      /\ request' \in [Requests -> RequestStates]
  BY <1>1, <1>2, <1>4, <1>6, RepliedKeeps DEF Replies
<1>9. \A q \in Requests : (InQueue(q))' = InQueue(q)
  BY <1>1 DEF InQueue
<1>10. CASE ends
  <2>1. slot' = [slot EXCEPT ![s] = Idling]
    BY <1>4, <1>10
  <2>2. /\ slot' \in [Slots -> SlotStates] /\ Slotted'
        /\ slot'[s] = Idling /\ \A t \in Slots \ {s} : slot'[t] = slot[t]
    BY <1>1, <2>1, Idles
  <2>3. Types'
    BY <1>1, <1>8, <2>2 DEF Inv, Types
  <2>4. \A t \in Slots : slot'[t].job # r
    BY <1>2, <2>2, Assumptions DEF Idling
  <2>5. \A q \in Requests : (OnSlot(q))' => OnSlot(q)
    BY <2>2, Assumptions DEF OnSlot, Idling
  <2>6. OnePlace'
    <3>1. \A t, u \in Slots : slot'[t].job = slot'[u].job /\ slot'[t].job # NoJob => t = u
      BY <2>2 DEF Inv, OnePlace, Idling
    <3> QED
      BY <1>1, <1>8, <1>9, <2>5, <3>1 DEF Inv, OnePlace
  <2>7. Wasted'
    <3>1. \A q \in Requests \ {r}, t \in Slots : slot'[t].job = q => slot'[t] = slot[t]
      BY <2>2, Assumptions DEF Idling
    <3>2. ASSUME NEW q \in Requests, q # r
          PROVE  /\ request'[q].pc \in {"new", "ready", "waiting"} \/ (InQueue(q))' => request'[q].wasted = 0
                 /\ \A t \in Slots : slot'[t].job = q => /\ request'[q].wasted <= slot'[t].produced
                                                         /\ q \in Translations => request'[q].wasted = 0
                 /\ q \in Translations => request'[q].wasted <= 1
      BY <1>8, <1>9, <3>1, <3>2 DEF Inv, Wasted
    <3> QED
      BY <1>2, <1>7, <1>8, <1>9, <2>4, <3>2 DEF Wasted
  <2>8. Issued' /\ Taken' /\ SummarisedOnce'
    BY <1>1, <1>8, TokensStay
  <2> QED
    BY <2>2, <2>3, <2>6, <2>7, <2>8 DEF Inv
<1>11. CASE ~ ends
  <2>1. slot' = [slot EXCEPT ![s] = [slot[s] EXCEPT !.produced = @ + 1]]
    BY <1>4, <1>11
  <2>2. slot[s].produced + 1 \in 0 .. MaxTokens - 1
    BY <1>2, <1>11, Assumptions DEF ends
  <2>3. /\ slot' \in [Slots -> SlotStates]
        /\ slot'[s].job = r /\ slot'[s].pc = "decode" /\ slot'[s].produced = slot[s].produced + 1
        /\ \A t \in Slots \ {s} : slot'[t] = slot[t]
    BY <1>1, <2>1, <2>2 DEF SlotStates, r
  <2>4. Types' /\ Slotted'
    BY <1>1, <1>8, <2>3 DEF Inv, Types, Slotted, Working, r
  <2>5. \A q \in Requests : (OnSlot(q))' = OnSlot(q)
    BY <2>3 DEF OnSlot, r
  <2>6. OnePlace'
    <3>1. \A t, u \in Slots : slot'[t].job = slot'[u].job /\ slot'[t].job # NoJob => t = u
      BY <1>2, <2>3 DEF Inv, OnePlace
    <3> QED
      BY <1>1, <1>8, <1>9, <2>5, <3>1 DEF Inv, OnePlace
  <2>7. Wasted'
    <3>1. ASSUME NEW q \in Requests, q # r
          PROVE  /\ request'[q].pc \in {"new", "ready", "waiting"} \/ (InQueue(q))' => request'[q].wasted = 0
                 /\ \A t \in Slots : slot'[t].job = q => /\ request'[q].wasted <= slot'[t].produced
                                                         /\ q \in Translations => request'[q].wasted = 0
                 /\ q \in Translations => request'[q].wasted <= 1
      BY <1>8, <1>9, <2>3, <3>1 DEF Inv, Wasted
    <3>2. \A t \in Slots : slot'[t].job = r => t = s
      BY <1>2, <2>3
    <3> QED
      BY <1>2, <1>5, <1>7, <1>8, <1>9, <1>11, <2>3, <3>1, <3>2 DEF Wasted
  <2>8. Issued' /\ Taken' /\ SummarisedOnce'
    BY <1>1, <1>8, TokensStay
  <2> QED
    BY <2>4, <2>6, <2>7, <2>8 DEF Inv
<1> QED
  BY <1>10, <1>11

-----------------------------------------------------------------------------
(* The engine's life. *)

LEMMA LoadInv ==
  ASSUME Inv, Load
  PROVE  Inv'
<1>1. engine = "loading" /\ UNCHANGED <<store, request, queue>>
  BY DEF Load
<1>2. CASE engine' = "ready" /\ slot' = [s \in Slots |-> [slot[s] EXCEPT !.pc = "starting"]]
  <2>1. \A s \in Slots : slot[s] \in SlotStates /\ slot[s].pc = "absent" /\ slot[s].job = NoJob
    BY <1>1 DEF Inv, Types, Slotted, Working
  <2>2. \A s \in Slots : /\ slot'[s] \in SlotStates /\ slot'[s].pc = "starting" /\ slot'[s].job = NoJob
                         /\ slot'[s].produced = slot[s].produced
    BY <1>2, <2>1 DEF SlotStates, SlotPcs
  <2>3. Types'
    BY <1>1, <1>2, <2>2 DEF Inv, Types
  <2>4. Slotted'
    BY <1>2, <2>2 DEF Slotted, Working
  <2>5. \A q \in Requests : ~ (OnSlot(q))' /\ (InQueue(q))' = InQueue(q)
    BY <1>1, <2>2, Assumptions DEF OnSlot, InQueue
  <2>6. OnePlace'
    BY <1>1, <2>2, <2>5 DEF Inv, OnePlace
  <2>7. Wasted'
    BY <1>1, <2>2, <2>5, Assumptions DEF Inv, Wasted
  <2>8. Issued' /\ Taken' /\ SummarisedOnce'
    BY <1>1 DEF Inv, Issued, Taken, SummarisedOnce
  <2> QED
    BY <2>3, <2>4, <2>6, <2>7, <2>8 DEF Inv
<1>3. CASE engine' = "missing" /\ UNCHANGED slot
  BY <1>1, <1>3 DEF Inv, Types, Slotted, Working, OnePlace, InQueue, OnSlot, Wasted, Issued, Taken, SummarisedOnce
<1> QED
  BY <1>2, <1>3 DEF Load

LEMMA EngineStops ==
  ASSUME Inv, UNCHANGED <<store, request, queue, slot>>,
         engine' = engine \/ engine' \in {"closing", "stopped"}
  PROVE  Inv'
BY DEF Inv, Types, Slotted, Working, OnePlace, InQueue, OnSlot, Wasted, Issued, Taken, SummarisedOnce

LEMMA NextInv == Inv /\ [Next]_vars => Inv'
<1> SUFFICES ASSUME Inv, [Next]_vars PROVE Inv'
  OBVIOUS
<1>1. CASE Search
  BY <1>1, SearchInv
<1>2. CASE Load
  BY <1>2, LoadInv
<1>3. CASE Signal \/ Close \/ Joined \/ UNCHANGED vars
  BY <1>3, EngineStops DEF Signal, Close, Joined, vars
<1>4. ASSUME NEW r \in Requests, Take(r) \/ Translate(r) \/ Handle(r) \/ Leave(r) \/ TimePasses(r)
      PROVE  Inv'
  BY <1>4, TakeInv, TranslateInv, SubmitInv, HearInv, GiveUpInv, LeaveInv, TimePassesInv DEF Handle
<1>5. ASSUME NEW s \in Slots, Work(s)
      PROVE  Inv'
  BY <1>5, StartInv, ReceiveInv, PrefillInv, EndTextInv, DecodeInv, RetireInv DEF Work
<1> QED
  BY <1>1, <1>2, <1>3, <1>4, <1>5 DEF Next

LEMMA Invariant == Spec => []Inv
BY InitInv, NextInv, PTL DEF Spec

-----------------------------------------------------------------------------
(* A set in which any two members are one has one at most. *)
LEMMA AtMostOne ==
  ASSUME NEW S, \A x, y \in S : x = y
  PROVE  IsFiniteSet(S) /\ Cardinality(S) \in {0, 1} /\ (S = {} => Cardinality(S) = 0)
<1>1. CASE S = {}
  BY <1>1, FS_EmptySet
<1>2. CASE S # {}
  <2>1. PICK x : S = {x}
    BY <1>2
  <2> QED
    BY <2>1, FS_Singleton
<1> QED
  BY <1>1, <1>2

(* The types of requests, slots and tokens hold in every reachable state,   *)
(* the queue is never over its capacity and a job is in one place only,     *)
(* whatever is submitted, abandoned, timed out or dropped (Engine).        *)
THEOREM TypeCorrect == Spec => []TypeOK
<1>1. Inv => TypeOK
  <2> SUFFICES ASSUME Inv PROVE TypeOK
    OBVIOUS
  <2>1. /\ store.issued \in 0 .. MaxSearches /\ store.pending \subseteq 1 .. store.issued
    BY DEF Inv, Issued
  <2>2. request \in [Requests -> [pc : {"new", "ready", "waiting", "left", "answered"},
                               token : 0 .. store.issued, reply : Replies, late : InTime .. GivenUp,
                               wasted : 0 .. MaxTokens, answer : Answers]]
    BY DEF Inv, Types, Taken, RequestStates, RequestPcs
  <2>3. /\ Len(queue) <= QueueCapacity
        /\ slot \in [Slots -> [pc : {"absent", "starting", "idle", "prefill", "decode", "ended"},
                         job : Requests \cup {NoJob}, produced : 0 .. MaxTokens - 1]]
        /\ engine \in {"loading", "ready", "missing", "closing", "stopped"}
    BY DEF Inv, Types, SlotStates, SlotPcs
  <2>4. ASSUME NEW r \in Requests
        PROVE  Cardinality({s \in Slots : slot[s].job = r}) + Cardinality({i \in DOMAIN queue : queue[i] = r}) <= 1
    <3> DEFINE S == {s \in Slots : slot[s].job = r}
               I == {i \in DOMAIN queue : queue[i] = r}
    <3>1. /\ \A x, y \in S : x = y
          /\ \A x, y \in I : x = y
      BY Assumptions DEF Inv, OnePlace
    <3>2. S = {} \/ I = {}
      BY DEF Inv, OnePlace, OnSlot, InQueue
    <3> HIDE DEF S, I
    <3>3. /\ Cardinality(S) \in {0, 1} /\ (S = {} => Cardinality(S) = 0)
          /\ Cardinality(I) \in {0, 1} /\ (I = {} => Cardinality(I) = 0)
      BY <3>1, AtMostOne
    <3>4. Cardinality(S) + Cardinality(I) <= 1
      BY <3>2, <3>3
    <3> QED
      BY <3>4 DEF S, I
  <2> QED
    BY <2>1, <2>2, <2>3, <2>4 DEF TypeOK
<1> QED
  BY <1>1, Invariant, PTL

(* No two summaries are ever made of one search: a token that was taken is  *)
(* gone, and no other has its number (PendingStore::take).                 *)
THEOREM TokensAreTakenOnce == Spec => []SummarisedOnce
<1>1. Inv => SummarisedOnce
  BY DEF Inv
<1> QED
  BY <1>1, Invariant, PTL

(* A stream whose reader is gone costs its slot one token at most, however  *)
(* many slots there are and whenever the reader leaves (generate_one).     *)
THEOREM StreamsStop == Spec => []AbandonedStops
<1>1. Inv => AbandonedStops
  BY DEF Inv, Wasted, AbandonedStops, Requests
<1> QED
  BY <1>1, Invariant, PTL

-----------------------------------------------------------------------------
(* Nobody is forgotten.  NoneIsForgotten is not inductive: that a job waits *)
(* before a slot that lives rests on no slot living before the load, or     *)
(* being absent after it; and that nobody waits when the engine stops, on   *)
(* nobody asking once it closes.                                            *)
Alive(s) == slot[s].pc \notin {"absent", "ended"}
Unheard(req) == req.pc = "waiting" /\ req.reply = "none"
Settled(req) == req.pc \in {"new", "left", "answered"}

Waited == \A r \in Requests : Unheard(request[r]) => OnSlot(r) \/ InQueue(r)
Served == queue # <<>> => \E s \in Slots : Alive(s)
Lived ==
  /\ engine \in {"loading", "missing"} => \A s \in Slots : slot[s].pc = "absent"
  /\ engine \in {"ready", "closing"} => \A s \in Slots : slot[s].pc # "absent"
  /\ engine = "stopped" => \A s \in Slots : ~ Alive(s)
Closing == engine \in {"closing", "stopped"} => stopping /\ \A r \in Requests : Settled(request[r])

Held == Waited /\ Served /\ Lived /\ Closing

LEMMA InitHeld == Init => Held
<1> SUFFICES ASSUME Init PROVE Held
  OBVIOUS
<1>1. \A r \in Requests : request[r].pc = "new"
  BY DEF Init, NewRequest
<1> QED
  BY <1>1 DEF Init, Held, Waited, Served, Lived, Closing, Unheard

(* A step of a request that was not settled, or is not while the process    *)
(* stops, and that leaves the slots and the queue alone.                    *)
LEMMA RequestHeld ==
  ASSUME Held, NEW r \in Requests, UNCHANGED <<queue, slot, engine, stopping>>,
         \A q \in Requests \ {r} : request'[q] = request[q],
         Unheard(request'[r]) => Unheard(request[r]),
         stopping /\ Settled(request[r]) => Settled(request'[r])
  PROVE  Held'
<1>1. \A q \in Requests : (OnSlot(q))' = OnSlot(q) /\ (InQueue(q))' = InQueue(q)
  BY DEF OnSlot, InQueue
<1>2. Waited'
  BY <1>1 DEF Held, Waited
<1>3. Served' /\ Lived'
  BY DEF Held, Served, Lived, Alive
<1>4. Closing'
  BY DEF Held, Closing
<1> QED
  BY <1>2, <1>3, <1>4 DEF Held

(* A step of a slot that lives: it comes after the load and before the      *)
(* stop, so that what it must keep is Waited and Served.                    *)
LEMMA SlotHeld ==
  ASSUME Inv, Held, NEW s \in Slots, Alive(s), slot'[s].pc # "absent",
         \A t \in Slots \ {s} : slot'[t] = slot[t],
         UNCHANGED <<engine, stopping>>,
         \A q \in Requests : request'[q].pc = request[q].pc,
         Waited', Served'
  PROVE  Held'
<1>1. engine \in {"ready", "closing"}
  BY DEF Inv, Types, Held, Lived, Alive
<1>2. Lived'
  BY <1>1 DEF Held, Lived
<1>3. Closing'
  BY DEF Held, Closing, Settled
<1> QED
  BY <1>2, <1>3 DEF Held

LEMMA TakeHeld ==
  ASSUME Inv, Held, NEW r \in Requests, Take(r) \/ Translate(r)
  PROVE  Held'
<1>1. /\ request[r].pc = "new" /\ ~ stopping
      /\ UNCHANGED <<queue, slot, engine, stopping>>
  BY DEF Take, Translate, Serving
<1>2. request \in [Requests -> RequestStates]
  BY DEF Inv, Types
<1>3. /\ \A q \in Requests \ {r} : request'[q] = request[q]
      /\ request'[r].pc \in {"ready", "answered"}
  <2>1. CASE request' = [request EXCEPT ![r].pc = "ready"] \/ \E a \in Answers : request' = Answered(r, a)
    BY <1>2, <2>1 DEF Answered, RequestStates
  <2>2. ASSUME NEW t, \/ request' = [request EXCEPT ![r].pc = "ready", ![r].token = t]
                      \/ request' = [Answered(r, "no_passages") EXCEPT ![r].token = t]
        PROVE  <1>3!:
    BY <1>2, <2>2 DEF Answered, RequestStates
  <2>3. {"untranslatable", "unknown_token"} \subseteq Answers
    BY DEF Answers
  <2> QED
    BY <2>1, <2>2, <2>3 DEF Take, Translate
<1> QED
  BY <1>1, <1>3, RequestHeld DEF Unheard

LEMMA SubmitHeld ==
  ASSUME Inv, Held, NEW r \in Requests, Submit(r)
  PROVE  Held'
<1>1. /\ request[r].pc = "ready" /\ UNCHANGED <<slot, engine, stopping>>
      /\ request \in [Requests -> RequestStates] /\ queue \in Seq(Requests)
  BY DEF Submit, Inv, Types
<1>2. CASE /\ engine = "ready" /\ ~ AllEnded
           /\ queue' = Append(queue, r)
           /\ request' = [request EXCEPT ![r].pc = "waiting"]
  <2>1. \A q \in Requests \ {r} : request'[q] = request[q]
    BY <1>1, <1>2
  <2>2. /\ Len(queue) + 1 \in DOMAIN queue' /\ queue'[Len(queue) + 1] = r
        /\ \A i \in DOMAIN queue : i \in DOMAIN queue' /\ queue'[i] = queue[i]
    BY <1>1, <1>2
  <2>3. /\ (InQueue(r))'
        /\ \A q \in Requests : /\ (OnSlot(q))' = OnSlot(q)
                               /\ InQueue(q) => (InQueue(q))'
    BY <1>1, <2>2 DEF OnSlot, InQueue
  <2>4. Waited'
    BY <2>1, <2>3 DEF Held, Waited
  <2>5. Served' /\ Lived'
    BY <1>1, <1>2 DEF Held, Served, Lived, Alive, AllEnded
  <2>6. Closing'
    BY <1>1, <1>2 DEF Closing
  <2> QED
    BY <2>4, <2>5, <2>6 DEF Held
<1>3. CASE \E a \in Answers : request' = Answered(r, a) /\ UNCHANGED queue
  <2> PICK a \in Answers : request' = Answered(r, a)
    BY <1>3
  <2>1. \A q \in Requests \ {r} : request'[q] = request[q]
    BY <1>1 DEF Answered
  <2>2. request'[r].pc = "answered"
    BY <1>1 DEF Answered, RequestStates
  <2> QED
    BY <1>1, <1>3, <2>1, <2>2, RequestHeld DEF Unheard, Settled
<1>4. {"model_not_loaded", "shut down", "busy"} \subseteq Answers
  BY DEF Answers
<1> QED
  BY <1>2, <1>3, <1>4 DEF Submit

LEMMA AnswerHeld ==
  ASSUME Inv, Held, NEW r \in Requests, Hear(r) \/ GiveUp(r) \/ Leave(r)
  PROVE  Held'
<1>1. UNCHANGED <<queue, slot, engine, stopping>> /\ request \in [Requests -> RequestStates]
  BY DEF Hear, GiveUp, Leave, Inv, Types
<1>2. request[r] \in RequestStates
  BY <1>1
<1>3. /\ \A q \in Requests \ {r} : request'[q] = request[q]
      /\ request'[r].pc \in {"left", "answered"}
  <2>1. CASE Hear(r)
    <3>1. PICK a : request' = [Answered(r, a) EXCEPT ![r].reply = "none", ![r].late = InTime]
      BY <2>1 DEF Hear
    <3> QED
      BY <1>1, <1>2, <3>1 DEF Answered, RequestStates
  <2>2. CASE GiveUp(r)
    BY <1>1, <1>2, <2>2 DEF GiveUp, Answered, RequestStates
  <2>3. CASE Leave(r)
    BY <1>1, <1>2, <2>3 DEF Leave, RequestStates
  <2> QED
    BY <2>1, <2>2, <2>3
<1> QED
  BY <1>1, <1>3, RequestHeld DEF Unheard, Settled

LEMMA TimePassesHeld ==
  ASSUME Inv, Held, NEW r \in Requests, TimePasses(r)
  PROVE  Held'
<1>1. UNCHANGED <<queue, slot, engine, stopping>> /\ request \in [Requests -> RequestStates]
  BY DEF TimePasses, Inv, Types
<1>2. \A q \in Requests \ {r} : request'[q] = request[q]
  BY DEF TimePasses
<1>3. request'[r].pc = request[r].pc /\ request'[r].reply = request[r].reply
  BY <1>1 DEF TimePasses, RequestStates
<1> QED
  BY <1>1, <1>2, <1>3, RequestHeld DEF Unheard, Settled

(* Whoever waits and is replied to has something to hear.                  *)
LEMMA RepliedHeard ==
  ASSUME NEW req \in RequestStates, NEW reply \in Replies \ {"none"}
  PROVE  ~ Unheard(Replied(req, reply))
BY DEF Replied, RequestStates, Unheard

(* The last slot to end tells all who wait for one that none will come;    *)
(* before it, another lives.                                               *)
LEMMA EndsHeld ==
  ASSUME Inv, Held, NEW s \in Slots, slot[s].pc \in {"starting", "idle"}, Ends(s),
         UNCHANGED <<engine, stopping>>
  PROVE  Held'
<1> DEFINE last == \A t \in Slots \ {s} : slot[t].pc = "ended"
<1>1. request \in [Requests -> RequestStates] /\ slot \in [Slots -> SlotStates]
  BY DEF Inv, Types
<1>2. /\ slot'[s].pc = "ended" /\ \A t \in Slots \ {s} : slot'[t] = slot[t]
      /\ \A t \in Slots : slot'[t].job = slot[t].job
  BY <1>1 DEF Ends, SlotStates
<1>3. \A q \in Requests : request'[q] = IF last /\ InQueue(q) THEN Replied(request[q], "dropped") ELSE request[q]
  BY DEF Ends
<1>4. queue' = IF last THEN <<>> ELSE queue
  BY DEF Ends
<1>5. Alive(s) /\ engine \in {"ready", "closing"}
  BY DEF Alive, Inv, Types, Held, Lived
<1>6. \A q \in Requests : (OnSlot(q))' = OnSlot(q)
  BY <1>2 DEF OnSlot
<1> HIDE DEF last
<1>7. \A q \in Requests : request'[q].pc = request[q].pc
  BY <1>1, <1>3, RepliedKeeps DEF Replies
<1>8. Waited'
  <2> SUFFICES ASSUME NEW q \in Requests, Unheard(request'[q]) PROVE (OnSlot(q))' \/ (InQueue(q))'
    BY DEF Waited
  <2>1. request[q] \in RequestStates /\ "dropped" \in Replies \ {"none"}
    BY <1>1 DEF Replies
  <2>2. request'[q] = request[q] /\ ~ (last /\ InQueue(q))
    BY <1>3, <2>1, RepliedHeard
  <2>3. OnSlot(q) \/ InQueue(q)
    BY <2>2 DEF Held, Waited
  <2>4. InQueue(q) => (InQueue(q))'
    BY <1>4, <2>2 DEF InQueue
  <2> QED
    BY <1>6, <2>3, <2>4
<1>9. Served'
  <2>1. CASE last
    BY <1>4, <2>1 DEF Served
  <2>2. CASE ~ last
    <3>1. PICK t \in Slots \ {s} : slot[t].pc # "ended"
      BY <2>2 DEF last
    <3>2. slot[t].pc # "absent"
      BY <1>5 DEF Held, Lived
    <3>3. (Alive(t))'
      BY <1>2, <3>1, <3>2 DEF Alive
    <3> QED
      BY <3>3 DEF Served
  <2> QED
    BY <2>1, <2>2
<1> QED
  BY <1>2, <1>5, <1>7, <1>8, <1>9, SlotHeld

(* A slot that lives on keeps the queue served.                            *)
LEMMA StaysHeld ==
  ASSUME Inv, Held, NEW s \in Slots, Alive(s), (Alive(s))',
         \A t \in Slots \ {s} : slot'[t] = slot[t],
         UNCHANGED <<engine, stopping>>,
         \A q \in Requests : request'[q].pc = request[q].pc,
         Waited'
  PROVE  Held'
<1>1. Served'
  BY DEF Served
<1>2. slot'[s].pc # "absent"
  BY DEF Alive
<1> QED
  BY <1>1, <1>2, SlotHeld

LEMMA StartHeld ==
  ASSUME Inv, Held, NEW s \in Slots, Start(s)
  PROVE  Held'
<1>1. slot[s].pc = "starting" /\ UNCHANGED <<engine, stopping>> /\ slot \in [Slots -> SlotStates]
  BY DEF Start, Inv, Types
<1>2. CASE slot' = [slot EXCEPT ![s].pc = "idle"] /\ UNCHANGED <<queue, request>>
  <2>1. /\ slot'[s].pc = "idle" /\ \A t \in Slots \ {s} : slot'[t] = slot[t]
        /\ \A t \in Slots : slot'[t].job = slot[t].job
    BY <1>1, <1>2 DEF SlotStates
  <2>2. Waited'
    BY <1>2, <2>1 DEF Held, Waited, OnSlot, InQueue
  <2> QED
    BY <1>1, <1>2, <2>1, <2>2, StaysHeld DEF Alive
<1>3. CASE Ends(s)
  BY <1>1, <1>3, EndsHeld
<1> QED
  BY <1>2, <1>3 DEF Start

(* The job taken from the queue goes to the slot, or is told so.            *)
LEMMA ReceiveHeld ==
  ASSUME Inv, Held, NEW s \in Slots, Receive(s)
  PROVE  Held'
<1> DEFINE r == Head(queue)
<1>1. /\ slot[s].pc = "idle" /\ UNCHANGED <<engine, stopping>> /\ queue # <<>> /\ queue' = Tail(queue)
      /\ request \in [Requests -> RequestStates] /\ slot \in [Slots -> SlotStates] /\ queue \in Seq(Requests)
  BY DEF Receive, Inv, Types
<1>2. r \in Requests
  BY <1>1, Received
<1>3. \/ /\ request' = [request EXCEPT ![r] = Replied(request[r], "dropped")]
         /\ UNCHANGED slot
      \/ /\ slot' = [slot EXCEPT ![s] = [pc |-> "prefill", job |-> r, produced |-> 0]]
         /\ UNCHANGED request
  BY DEF Receive
<1>4. \A q \in Requests : InQueue(q) => (InQueue(q))' \/ q = r
  <2> SUFFICES ASSUME NEW q \in Requests, NEW i \in DOMAIN queue, queue[i] = q, q # r
               PROVE  (InQueue(q))'
    BY DEF InQueue
  <2>1. i # 1 /\ i \in 1 .. Len(queue)
    BY <1>1
  <2>2. i - 1 \in DOMAIN queue' /\ queue'[i - 1] = queue[i]
    BY <1>1, <2>1
  <2> QED
    BY <2>2 DEF InQueue
<1>5. slot[s].job = NoJob /\ NoJob \notin Requests
  BY <1>1, Assumptions DEF Inv, Slotted, Working
<1> HIDE DEF r
<1>6. CASE /\ request' = [request EXCEPT ![r] = Replied(request[r], "dropped")]
           /\ UNCHANGED slot
  <2>1. request[r] \in RequestStates /\ "dropped" \in Replies \ {"none"}
    BY <1>1, <1>2 DEF Replies
  <2>2. /\ ~ Unheard(request'[r]) /\ request'[r].pc = request[r].pc
        /\ \A q \in Requests \ {r} : request'[q] = request[q]
    BY <1>1, <1>2, <1>6, <2>1, RepliedHeard, RepliedKeeps
  <2>3. \A q \in Requests : (OnSlot(q))' = OnSlot(q)
    BY <1>6 DEF OnSlot
  <2>4. Waited'
    BY <1>4, <2>2, <2>3 DEF Held, Waited
  <2> QED
    BY <1>1, <1>6, <2>2, <2>4, StaysHeld DEF Alive
<1>7. CASE /\ slot' = [slot EXCEPT ![s] = [pc |-> "prefill", job |-> r, produced |-> 0]]
           /\ UNCHANGED request
  <2>1. /\ slot'[s].pc = "prefill" /\ slot'[s].job = r
        /\ \A t \in Slots \ {s} : slot'[t] = slot[t]
    BY <1>1, <1>7
  <2>2. \A q \in Requests : OnSlot(q) \/ q = r => (OnSlot(q))'
    BY <1>5, <2>1 DEF OnSlot
  <2>3. Waited'
    BY <1>4, <1>7, <2>2 DEF Held, Waited
  <2> QED
    BY <1>1, <1>7, <2>1, <2>3, StaysHeld DEF Alive
<1> QED
  BY <1>3, <1>6, <1>7

(* A slot lets its job go with a reply.                                     *)
LEMMA IdleHeld ==
  ASSUME Inv, Held, NEW s \in Slots, Working(s), slot' = [slot EXCEPT ![s] = Idling],
         UNCHANGED <<queue, engine, stopping>>,
         \A q \in Requests : request'[q].pc = request[q].pc,
         \A q \in Requests : Unheard(request'[q]) => Unheard(request[q]) /\ q # slot[s].job
  PROVE  Held'
<1>1. slot'[s].pc = "idle" /\ \A t \in Slots \ {s} : slot'[t] = slot[t]
  BY Idles DEF Idling
<1>2. \A q \in Requests : OnSlot(q) /\ q # slot[s].job => (OnSlot(q))'
  BY <1>1 DEF OnSlot
<1>3. Waited'
  BY <1>2 DEF Held, Waited, InQueue
<1> QED
  BY <1>1, <1>3, StaysHeld DEF Alive, Working

LEMMA FinishHeld ==
  ASSUME Inv, Held, NEW s \in Slots, Working(s), NEW reply \in Replies \ {"none"}, Finish(s, reply),
         UNCHANGED <<queue, engine, stopping>>
  PROVE  Held'
<1> DEFINE r == slot[s].job
<1>1. r \in Requests /\ request \in [Requests -> RequestStates]
  BY WorkingJob DEF Inv, Types
<1>2. slot' = [slot EXCEPT ![s] = Idling] /\ request' = [request EXCEPT ![r] = Replied(request[r], reply)]
  BY DEF Finish, Idling
<1> HIDE DEF r
<1>3. ~ Unheard(request'[r]) /\ request'[r].pc = request[r].pc /\ \A q \in Requests \ {r} : request'[q] = request[q]
  BY <1>1, <1>2, RepliedHeard, RepliedKeeps
<1>4. \A q \in Requests : /\ request'[q].pc = request[q].pc
                          /\ Unheard(request'[q]) => Unheard(request[q]) /\ q # r
  BY <1>3
<1> QED
  BY <1>2, <1>4, IdleHeld DEF r

LEMMA PrefillHeld ==
  ASSUME Inv, Held, NEW s \in Slots, Prefill(s)
  PROVE  Held'
<1>1. /\ Working(s) /\ slot[s].pc = "prefill" /\ UNCHANGED <<queue, engine, stopping>>
      /\ slot \in [Slots -> SlotStates]
  BY DEF Prefill, Working, Inv, Types
<1>2. CASE Finish(s, "failed")
  BY <1>1, <1>2, FinishHeld DEF Replies
<1>3. CASE slot' = [slot EXCEPT ![s].pc = "decode"] /\ UNCHANGED request
  <2>1. /\ slot'[s].pc = "decode" /\ \A t \in Slots \ {s} : slot'[t] = slot[t]
        /\ \A t \in Slots : slot'[t].job = slot[t].job
    BY <1>1, <1>3 DEF SlotStates
  <2>2. Waited'
    BY <1>1, <1>3, <2>1 DEF Held, Waited, OnSlot, InQueue
  <2> QED
    BY <1>1, <1>3, <2>1, <2>2, StaysHeld DEF Alive
<1> QED
  BY <1>2, <1>3 DEF Prefill

LEMMA DecodeHeld ==
  ASSUME Inv, Held, NEW s \in Slots, Decode(s)
  PROVE  Held'
<1> DEFINE r == slot[s].job
           one == [request[r] EXCEPT !.wasted = IF Closed(r) THEN @ + 1 ELSE @]
<1>1. /\ Working(s) /\ slot[s].pc = "decode" /\ UNCHANGED <<queue, engine, stopping>>
      /\ request \in [Requests -> RequestStates] /\ slot \in [Slots -> SlotStates]
  BY DEF Decode, Working, Inv, Types
<1>2. r \in Requests
  BY <1>1, WorkingJob
<1>3. \/ request' = [request EXCEPT ![r] = Replied(one, "text")] /\ slot' = [slot EXCEPT ![s] = Idling]
      \/ request' = [request EXCEPT ![r] = one] /\ slot' = [slot EXCEPT ![s] = [slot[s] EXCEPT !.produced = @ + 1]]
  <2>1. [request EXCEPT ![r].wasted = IF Closed(r) THEN @ + 1 ELSE @] = [request EXCEPT ![r] = one]
    BY <1>1, <1>2
  <2>2. [[request EXCEPT ![r] = one] EXCEPT ![r] = Replied(@, "text")] = [request EXCEPT ![r] = Replied(one, "text")]
    BY <1>1, <1>2
  <2> QED
    BY <1>1, <2>1, <2>2 DEF Decode, Idling
<1>4. one.pc = request[r].pc /\ one.reply = request[r].reply
  BY <1>1, <1>2 DEF RequestStates
<1>5. Replied(one, "text").pc = one.pc /\ ~ Unheard(Replied(one, "text"))
  <2>1. request[r] \in RequestStates
    BY <1>1, <1>2
  <2> DEFINE w == IF Closed(r) THEN request[r].wasted + 1 ELSE request[r].wasted
  <2>2. one = [request[r] EXCEPT !.wasted = w]
    OBVIOUS
  <2> HIDE DEF w
  <2> QED
    BY <2>1, <2>2 DEF Replied, RequestStates, Unheard
<1> HIDE DEF one
<1>6. CASE request' = [request EXCEPT ![r] = Replied(one, "text")] /\ slot' = [slot EXCEPT ![s] = Idling]
  <2>1. request'[r] = Replied(one, "text") /\ \A q \in Requests \ {r} : request'[q] = request[q]
    BY <1>1, <1>2, <1>6
  <2>2. \A q \in Requests : /\ request'[q].pc = request[q].pc
                            /\ Unheard(request'[q]) => Unheard(request[q]) /\ q # r
    BY <1>4, <1>5, <2>1
  <2> QED
    BY <1>1, <1>6, <2>2, IdleHeld
<1>7. CASE /\ request' = [request EXCEPT ![r] = one]
           /\ slot' = [slot EXCEPT ![s] = [slot[s] EXCEPT !.produced = @ + 1]]
  <2>1. \A q \in Requests : request'[q].pc = request[q].pc /\ request'[q].reply = request[q].reply
    BY <1>1, <1>2, <1>4, <1>7
  <2>2. /\ slot'[s].pc = "decode" /\ \A t \in Slots \ {s} : slot'[t] = slot[t]
        /\ \A t \in Slots : slot'[t].job = slot[t].job
    BY <1>1, <1>7 DEF SlotStates
  <2>3. Waited'
    BY <1>1, <2>1, <2>2 DEF Held, Waited, Unheard, OnSlot, InQueue
  <2> QED
    BY <1>1, <2>1, <2>2, <2>3, StaysHeld DEF Alive
<1> QED
  BY <1>3, <1>6, <1>7

(* Nothing is queued before the load, and nobody waits at the close.        *)
LEMMA EngineHeld ==
  ASSUME Inv, Held, Load \/ Signal \/ Close \/ Joined
  PROVE  Held'
<1>1. \A q \in Requests : (InQueue(q))' = InQueue(q) /\ request'[q] = request[q] /\ queue' = queue
  BY DEF Load, Signal, Close, Joined, InQueue
<1>2. CASE Load
  <2>1. engine = "loading" /\ stopping' = stopping /\ engine' \in {"ready", "missing"}
    BY <1>2 DEF Load
  <2>2. \A s \in Slots : slot[s].pc = "absent" /\ slot[s] \in SlotStates
    BY <2>1 DEF Held, Lived, Inv, Types
  <2>3. queue = <<>>
    BY <2>2 DEF Held, Served, Alive
  <2>4. /\ engine' = "ready" => \A s \in Slots : slot'[s].pc = "starting" /\ slot'[s].job = slot[s].job
        /\ engine' = "missing" => slot' = slot
    BY <1>2, <2>2 DEF Load, SlotStates
  <2>5. \A q \in Requests : (OnSlot(q))' = OnSlot(q)
    BY <2>1, <2>4 DEF OnSlot
  <2> QED
    BY <1>1, <1>2, <2>1, <2>2, <2>3, <2>4, <2>5 DEF Load, Held, Waited, Served, Lived, Closing, Alive
<1>3. CASE Signal \/ Close \/ Joined
  <2>1. UNCHANGED <<request, queue, slot>>
    BY <1>3 DEF Signal, Close, Joined
  <2>2. Waited' /\ Served'
    BY <2>1 DEF Held, Waited, Served, OnSlot, InQueue, Alive
  <2>3. Lived'
    BY <1>3, <2>1 DEF Held, Lived, Alive, Signal, Close, Joined, AllEnded
  <2>4. Closing'
    BY <1>3, <2>1 DEF Held, Closing, Settled, Signal, Close, Joined, MayClose, AllAnswered
  <2> QED
    BY <2>2, <2>3, <2>4 DEF Held
<1> QED
  BY <1>2, <1>3

LEMMA NextHeld == Inv /\ Held /\ [Next]_vars => Held'
<1> SUFFICES ASSUME Inv, Held, [Next]_vars PROVE Held'
  OBVIOUS
<1>1. CASE Search \/ UNCHANGED vars
  <2>1. UNCHANGED <<request, queue, slot, engine, stopping>>
    BY <1>1 DEF Search, vars
  <2> QED
    BY <2>1 DEF Held, Waited, Served, Lived, Closing, OnSlot, InQueue, Alive
<1>2. CASE Load \/ Signal \/ Close \/ Joined
  BY <1>2, EngineHeld
<1>3. ASSUME NEW r \in Requests, Take(r) \/ Translate(r) \/ Handle(r) \/ Leave(r) \/ TimePasses(r)
      PROVE  Held'
  BY <1>3, TakeHeld, SubmitHeld, AnswerHeld, TimePassesHeld DEF Handle
<1>4. ASSUME NEW s \in Slots, Work(s)
      PROVE  Held'
  <2>1. CASE Start(s)
    BY <2>1, StartHeld
  <2>2. CASE Receive(s)
    BY <2>2, ReceiveHeld
  <2>3. CASE Prefill(s)
    BY <2>3, PrefillHeld
  <2>4. CASE EndText(s)
    <3>1. Working(s) /\ UNCHANGED <<queue, engine, stopping>>
      BY <2>4 DEF EndText, Working
    <3>2. PICK reply \in Replies \ {"none"} : Finish(s, reply)
      BY <2>4 DEF EndText, Replies
    <3> QED
      BY <3>1, <3>2, FinishHeld
  <2>5. CASE Decode(s)
    BY <2>5, DecodeHeld
  <2>6. CASE Retire(s)
    BY <2>6, EndsHeld DEF Retire
  <2> QED
    BY <1>4, <2>1, <2>2, <2>3, <2>4, <2>5, <2>6 DEF Work
<1> QED
  BY <1>1, <1>2, <1>3, <1>4 DEF Next

(* Whoever waits for the model has a job on a slot, or queued before one    *)
(* that lives, whatever slots are lost; and when the engine stops no slot   *)
(* is left and nobody waits (Engine::generate, Engine::drop).              *)
THEOREM NobodyWaitsForNothing == Spec => []NoneIsForgotten
<1>1. Inv /\ Held => NoneIsForgotten
  <2> SUFFICES ASSUME Inv, Held PROVE NoneIsForgotten
    OBVIOUS
  <2>1. \A r \in Requests : InQueue(r) => queue # <<>>
    BY DEF InQueue
  <2>2. \A r \in Requests : Unheard(request[r]) =>
          OnSlot(r) \/ (InQueue(r) /\ \E s \in Slots : slot[s].pc \notin {"absent", "ended"})
    BY <2>1 DEF Held, Waited, Served, Alive
  <2>3. engine = "stopped" => AllAnswered /\ \A s \in Slots : slot[s].pc \in {"absent", "ended"}
    BY DEF Held, Closing, Lived, Settled, AllAnswered, Alive
  <2> QED
    BY <2>2, <2>3 DEF NoneIsForgotten, Unheard
<1>2. Spec => []Held
  BY InitHeld, NextHeld, Invariant, PTL DEF Spec
<1> QED
  BY <1>1, <1>2, Invariant, PTL

-----------------------------------------------------------------------------
(* Where the engine runs: how many layers of the model go to the card.      *)
CONSTANTS Reserve, Compiled, MaxLayers
Dv == INSTANCE Device

LEMMA QuotientIs ==
  ASSUME NEW x \in Nat, NEW y \in Nat \ {0}
  PROVE  x \div y \in Nat /\ y * (x \div y) <= x /\ x < y * (x \div y) + y
OBVIOUS

LEMMA ProductGrows ==
  ASSUME NEW a \in Nat, NEW b \in Nat, NEW s \in Nat, a <= b
  PROVE  s * a \in Nat /\ s * b \in Nat /\ s * a <= s * b /\ s * (b + 1) = s * b + s
OBVIOUS

LEMMA QuotientGrows ==
  ASSUME NEW a \in Nat, NEW b \in Nat, NEW s \in Nat \ {0}, a <= b
  PROVE  a \div s <= b \div s
<1> DEFINE p == a \div s
           q == b \div s
<1>1. p \in Nat /\ q \in Nat /\ s * p <= a /\ b < s * q + s
  BY QuotientIs
<1> HIDE DEF p, q
<1>2. CASE q + 1 <= p
  <2>1. s * p \in Nat /\ s * q \in Nat /\ s * (q + 1) = s * q + s /\ s * (q + 1) <= s * p
    BY <1>1, <1>2, ProductGrows
  <2> QED BY <1>1, <2>1
<1>3. CASE p <= q
  BY <1>3 DEF p, q
<1> QED BY <1>1, <1>2, <1>3

LEMMA AllIsMost ==
  Dv!AllLayers \in Nat /\ Dv!Layers = 32 /\ Dv!Layers < Dv!AllLayers /\ Dv!Unset = 0 - 1
BY SMT DEF Dv!AllLayers, Dv!Layers, Dv!Unset

(* What is offloaded of a model fits: all of it, or so many of its layers. *)
LEMMA OffloadedFits ==
  ASSUME NEW size \in Nat, NEW usable \in Nat
  PROVE  LET layers == Dv!Offloaded(size, usable)
         IN  \/ layers = Dv!AllLayers /\ size <= usable
             \/ layers \in 0 .. Dv!Layers /\ size * layers <= Dv!Layers * usable
<1> DEFINE q == (32 * usable) \div size
<1>1. CASE size <= usable
  BY <1>1 DEF Dv!Offloaded
<1>2. CASE size > usable /\ size <= 3 * usable
  <2>1. size \in Nat \ {0} /\ 32 * usable \in Nat
    BY <1>2
  <2>2. q \in Nat /\ size * q <= 32 * usable
    BY <2>1, QuotientIs
  <2>3. Dv!Offloaded(size, usable) = q
    BY <1>2 DEF Dv!Offloaded, Dv!Layers
  <2> HIDE DEF q
  <2>4. CASE 33 <= q
    <3>1. size * 33 <= size * q /\ size * q \in Nat
      BY <2>1, <2>2, <2>4, ProductGrows
    <3> QED BY <1>2, <2>1, <2>2, <3>1
  <2>5. CASE q <= 32
    BY <2>2, <2>3, <2>5 DEF Dv!Layers
  <2> QED BY <2>2, <2>4, <2>5
<1>3. CASE size > usable /\ size > 3 * usable
  <2>1. Dv!Offloaded(size, usable) = 0 /\ size * 0 = 0 /\ 0 <= 32 * usable
    BY <1>3 DEF Dv!Offloaded
  <2> QED BY <2>1 DEF Dv!Layers
<1> QED BY <1>1, <1>2, <1>3

LEMMA OffloadedGrows ==
  ASSUME NEW size \in Nat, NEW usable \in Nat, NEW more \in Nat, usable <= more
  PROVE  Dv!Offloaded(size, usable) <= Dv!Offloaded(size, more)
<1>1. CASE size <= more
  <2>1. Dv!Offloaded(size, more) = Dv!AllLayers
    BY <1>1 DEF Dv!Offloaded
  <2>2. Dv!Offloaded(size, usable) = Dv!AllLayers \/ Dv!Offloaded(size, usable) \in 0 .. Dv!Layers
    BY OffloadedFits
  <2> QED BY <2>1, <2>2, AllIsMost
<1>2. CASE size > more /\ size <= 3 * usable
  <2>1. size \in Nat \ {0} /\ 32 * usable \in Nat /\ 32 * more \in Nat /\ 32 * usable <= 32 * more
    BY <1>2
  <2>2. (32 * usable) \div size <= (32 * more) \div size
    BY <2>1, QuotientGrows
  <2>3. /\ Dv!Offloaded(size, usable) = (32 * usable) \div size
        /\ Dv!Offloaded(size, more) = (32 * more) \div size
    BY <1>2 DEF Dv!Offloaded, Dv!Layers
  <2> QED BY <2>2, <2>3
<1>3. CASE size > more /\ size > 3 * usable
  <2>1. Dv!Offloaded(size, usable) = 0
    BY <1>3 DEF Dv!Offloaded
  <2>2. Dv!Offloaded(size, more) = Dv!AllLayers \/ Dv!Offloaded(size, more) \in 0 .. Dv!Layers
    BY OffloadedFits
  <2> QED BY <2>1, <2>2, AllIsMost
<1> QED BY <1>1, <1>2, <1>3

LEMMA UsableIs ==
  ASSUME Reserve \in Nat, NEW free \in Nat, NEW more \in Nat, free <= more
  PROVE  /\ Dv!Usable(free) \in Nat /\ Dv!Usable(more) \in Nat /\ Dv!Usable(free) <= Dv!Usable(more)
         /\ Dv!Usable(free) # 0 => free > Reserve /\ Dv!Usable(free) = free - Reserve
BY DEF Dv!Usable

(* What goes to the card fits what is free of it beyond the reserve, unless *)
(* an administrator has said how much; more that is free is never less that *)
(* goes; and where a card was asked for and there is none to be had, it is  *)
(* told (device::resolve).                                                  *)
THEOREM LayersFit ==
  ASSUME Reserve \in Nat, Compiled \in BOOLEAN,
         NEW set \in [preference : Dv!Preferences, layers : Nat \cup {Dv!Unset}],
         NEW size \in Nat, NEW free \in Nat \cup {Dv!NoCard}
  PROVE  LET r == Dv!Resolve(set, free, size)
         IN  /\ r.active = "gpu" => Compiled /\ set.preference # "cpu" /\ free > Reserve /\ r.layers > 0
             /\ r.active = "gpu" /\ set.layers = Dv!Unset =>
                  \/ r.layers = Dv!AllLayers /\ size <= free - Reserve
                  \/ r.layers <= Dv!Layers /\ size * r.layers <= Dv!Layers * (free - Reserve)
             /\ r.fellBack <=> r.active = "cpu" /\ set.preference = "gpu" /\ set.layers # 0
             /\ \A more \in Nat : more >= free => Dv!Resolve(set, more, size).layers >= r.layers
<1> DEFINE Free(f)    == IF Compiled /\ f # Dv!NoCard THEN Dv!Usable(f) ELSE 0
           Chosen(f)  == IF set.layers = Dv!Unset THEN Dv!Offloaded(size, Free(f)) ELSE set.layers
           Card(f)    == set.preference # "cpu" /\ set.layers # 0 /\ Free(f) # 0 /\ Chosen(f) # 0
           Resolve(f) == Dv!Resolve(set, f, size)
<1>1. ASSUME NEW f \in Nat \cup {Dv!NoCard}
      PROVE  /\ Free(f) \in Nat /\ Chosen(f) \in Nat
             /\ Free(f) # 0 => Compiled /\ f > Reserve /\ Free(f) = f - Reserve
             /\ set.layers = Dv!Unset => \/ Chosen(f) = Dv!AllLayers /\ size <= Free(f)
                                         \/ Chosen(f) <= Dv!Layers /\ size * Chosen(f) <= Dv!Layers * Free(f)
  <2>1. /\ Free(f) \in Nat
        /\ Free(f) # 0 => Compiled /\ f > Reserve /\ Free(f) = f - Reserve
    BY UsableIs DEF Dv!NoCard
  <2> HIDE DEF Free
  <2>2. \/ Dv!Offloaded(size, Free(f)) = Dv!AllLayers /\ size <= Free(f)
        \/ /\ Dv!Offloaded(size, Free(f)) \in 0 .. Dv!Layers
           /\ size * Dv!Offloaded(size, Free(f)) <= Dv!Layers * Free(f)
    BY <2>1, OffloadedFits
  <2>3. Chosen(f) \in Nat
    BY <2>2, AllIsMost
  <2> QED BY <2>1, <2>2, <2>3, AllIsMost
<1>2. ASSUME NEW f \in Nat \cup {Dv!NoCard}
      PROVE  Resolve(f) = IF Card(f) THEN Dv!OnGpu(Chosen(f))
                          ELSE Dv!OnCpu(set.preference = "gpu" /\ set.layers # 0)
  BY DEF Dv!Resolve, Dv!Preferences
<1>3. ASSUME NEW more \in Nat, more >= free
      PROVE  Free(free) <= Free(more) /\ Chosen(free) <= Chosen(more)
  <2>1. Free(free) <= Free(more)
    BY <1>3, UsableIs DEF Dv!NoCard
  <2>2. Free(free) \in Nat /\ Free(more) \in Nat /\ Chosen(free) \in Nat
    BY <1>1
  <2> HIDE DEF Free
  <2>3. Dv!Offloaded(size, Free(free)) <= Dv!Offloaded(size, Free(more))
    BY <2>1, <2>2, OffloadedGrows
  <2> QED BY <2>1, <2>2, <2>3
<1> HIDE DEF Free, Chosen, Resolve
<1>4. ASSUME NEW f \in Nat \cup {Dv!NoCard}
      PROVE  /\ Resolve(f).active = "gpu" <=> Card(f)
             /\ Resolve(f).active = "cpu" <=> ~ Card(f)
             /\ Resolve(f).layers = IF Card(f) THEN Chosen(f) ELSE 0
             /\ Resolve(f).fellBack <=> ~ Card(f) /\ set.preference = "gpu" /\ set.layers # 0
  <2>1. CASE Card(f)
    <3>1. Resolve(f) = [active |-> "gpu", layers |-> Chosen(f), fellBack |-> FALSE]
      BY <1>2, <2>1 DEF Dv!OnGpu
    <3> HIDE DEF Card
    <3> QED BY <2>1, <3>1
  <2>2. CASE ~ Card(f)
    <3> DEFINE told == set.preference = "gpu" /\ set.layers # 0
    <3>1. Resolve(f) = [active |-> "cpu", layers |-> 0, fellBack |-> told]
      BY <1>2, <2>2 DEF Dv!OnCpu
    <3> HIDE DEF Card, told
    <3>2. Resolve(f).active = "cpu" /\ Resolve(f).layers = 0 /\ Resolve(f).fellBack = told
      BY <3>1
    <3>3. told \in BOOLEAN
      BY DEF told
    <3>4. Resolve(f).fellBack <=> told
      BY <3>2, <3>3
    <3> QED BY <2>2, <3>2, <3>4 DEF told
  <2> QED BY <2>1, <2>2
<1>5. ASSUME NEW more \in Nat, more >= free PROVE Resolve(more).layers >= Resolve(free).layers
  <2>1. Card(free) => Card(more)
    BY <1>1, <1>3, <1>5
  <2> QED BY <1>1, <1>3, <1>4, <1>5, <2>1
<1>6. Resolve(free).active = "gpu" => /\ Compiled /\ set.preference # "cpu" /\ free > Reserve
                                      /\ Resolve(free).layers > 0
  BY <1>1, <1>4
<1>7. Resolve(free).active = "gpu" /\ set.layers = Dv!Unset =>
        \/ Resolve(free).layers = Dv!AllLayers /\ size <= free - Reserve
        \/ Resolve(free).layers <= Dv!Layers /\ size * Resolve(free).layers <= Dv!Layers * (free - Reserve)
  BY <1>1, <1>4
<1> QED BY <1>4, <1>5, <1>6, <1>7 DEF Resolve
=============================================================================
