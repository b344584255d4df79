------------------------------ MODULE Inference ------------------------------
(***************************************************************************)
(* The local model and who asks for it.  A search leaves a token in the    *)
(* pending store; a summary request takes it and submits a job; a          *)
(* translation submits a job whose text is streamed back.  Jobs wait in a  *)
(* bounded queue for one of the engine's slots, each a thread with a       *)
(* context of its own.                                                     *)
(***************************************************************************)
EXTENDS Integers, FiniteSets, Sequences

CONSTANTS
  Summaries,      \* requests to POST /summary
  Translations,   \* requests to POST /translate
  Slots,
  QueueCapacity,
  MaxPending,     \* tokens the store holds
  MaxTokens,      \* tokens of output a job may produce
  MaxSearches     \* bound: searches that issue a token

Requests == Summaries \cup Translations
NoJob == "no job"

ASSUME InferenceAssumption ==
  /\ Summaries \cap Translations = {} /\ NoJob \notin Requests
  /\ IsFiniteSet(Slots) /\ Slots # {}
  /\ {QueueCapacity, MaxPending, MaxTokens} \subseteq Nat \ {0}
  /\ MaxSearches \in Nat

VARIABLES
  store,      \* the pending store
  request,    \* each request, with the job it submitted
  queue,      \* requests whose jobs wait for a slot, in order
  slot,       \* each slot, with the job it works on
  engine,     \* what AppState holds of the engine
  stopping    \* the process was told to stop

Tokens == INSTANCE PendingStore

vars == <<store, request, queue, slot, engine, stopping>>

NewRequest == [pc |-> "new", token |-> 0, reply |-> "none", late |-> 0, wasted |-> 0, answer |-> "none"]

(* How late a job is: within its deadline, past it, or past the margin     *)
(* after which its caller stops waiting as well.                           *)
InTime   == 0
Late     == 1
GivenUp  == 2

(* What comes of a job: "dropped" is a sender dropped without a word.  The  *)
(* reply "cancelled" goes only to a receiver that is gone.                  *)
Replies == {"none", "text", "failed", "dropped"}
Answers == {"none", "unknown_token", "no_passages", "untranslatable", "model_not_loaded", "busy",
            "shut down", "timeout", "generation_failed", "withheld", "text", "interrupted"}

Init ==
  /\ store = Tokens!Empty
  /\ request = [r \in Requests |-> NewRequest]
  /\ queue = <<>>
  /\ slot = [s \in Slots |-> [pc |-> "absent", job |-> NoJob, produced |-> 0]]
  /\ engine = "loading"
  /\ stopping = FALSE

Serving == ~stopping
AllEnded == \A s \in Slots : slot[s].pc = "ended"
AllAnswered == \A r \in Requests : request[r].pc \in {"new", "left", "answered"}

-----------------------------------------------------------------------------
(* A search with something to summarise on its first page.  A token that    *)
(* grew old is like one never issued, and is left to PendingStore.          *)
Search ==
  /\ Serving
  /\ store.issued < MaxSearches
  /\ store' = Tokens!Insert(store)
  /\ UNCHANGED <<request, queue, slot, engine, stopping>>

-----------------------------------------------------------------------------
(* The handlers, up to the job. *)

Answered(r, answer) == [request EXCEPT ![r].pc = "answered", ![r].answer = answer]

(* A summary takes its token, once and for all; its passages may be too    *)
(* weak to build a prompt from.                                            *)
Take(r) ==
  /\ r \in Summaries /\ request[r].pc = "new" /\ Serving
  /\ \E t \in 0 .. store.issued :
       /\ store' = Tokens!Take(store, t)
       /\ IF t \in Tokens!Fresh(store)
          THEN \/ request' = [request EXCEPT ![r].pc = "ready", ![r].token = t]
               \/ request' = [Answered(r, "no_passages") EXCEPT ![r].token = t]
          ELSE request' = Answered(r, "unknown_token")
  /\ UNCHANGED <<queue, slot, engine, stopping>>

Translate(r) ==
  /\ r \in Translations /\ request[r].pc = "new" /\ Serving
  /\ \/ request' = [request EXCEPT ![r].pc = "ready"]
     \/ request' = Answered(r, "untranslatable")
  /\ UNCHANGED <<store, queue, slot, engine, stopping>>

HasRoom == Len(queue) < QueueCapacity

(* Engine::generate and generate_stream: refused at once, or queued. *)
Submit(r) ==
  /\ request[r].pc = "ready"
  /\ IF engine = "ready" /\ ~AllEnded /\ HasRoom
     THEN /\ queue' = Append(queue, r)
          /\ request' = [request EXCEPT ![r].pc = "waiting"]
     ELSE /\ request' = Answered(r, CASE engine # "ready" -> "model_not_loaded"
                                      [] AllEnded -> "shut down"
                                      [] OTHER -> "busy")
          /\ UNCHANGED queue
  /\ UNCHANGED <<store, slot, engine, stopping>>

(* A summary is shown only if it passes validation; a stream's text has    *)
(* been shown when its end arrives.                                        *)
Hear(r) ==
  LET reply == request[r].reply IN
  /\ request[r].pc = "waiting" /\ reply # "none"
  /\ \E answer \in CASE reply = "text" -> {"text"} \cup (IF r \in Summaries THEN {"withheld"} ELSE {})
                     [] reply = "dropped" /\ r \in Translations -> {"interrupted"}
                     [] OTHER -> {"generation_failed"} :
       request' = [Answered(r, answer) EXCEPT ![r].reply = "none", ![r].late = InTime]
  /\ UNCHANGED <<store, queue, slot, engine, stopping>>

(* The guard against a worker that never replies.  Only a summary has one.  *)
GiveUp(r) ==
  /\ r \in Summaries /\ request[r].pc = "waiting" /\ request[r].reply = "none"
  /\ request[r].late = GivenUp
  /\ request' = Answered(r, "timeout")
  /\ UNCHANGED <<store, queue, slot, engine, stopping>>

(* The client disconnects, which drops the receiver of the reply. *)
Leave(r) ==
  /\ request[r].pc = "waiting"
  /\ request' = [request EXCEPT ![r].pc = "left"]
  /\ UNCHANGED <<store, queue, slot, engine, stopping>>

InQueue(r) == \E i \in DOMAIN queue : queue[i] = r
OnSlot(r) == \E s \in Slots : slot[s].job = r

TimePasses(r) ==
  /\ request[r].pc = "waiting" \/ InQueue(r) \/ OnSlot(r)
  /\ request[r].late < (IF r \in Summaries /\ request[r].pc = "waiting" THEN GivenUp ELSE Late)
  /\ request' = [request EXCEPT ![r].late = @ + 1]
  /\ UNCHANGED <<store, queue, slot, engine, stopping>>

-----------------------------------------------------------------------------
(* The slots. *)

Closed(r) == request[r].pc # "waiting"

(* What is sent to a receiver that is gone is lost. *)
Replied(req, reply) == IF req.pc = "waiting" THEN [req EXCEPT !.reply = reply] ELSE [req EXCEPT !.late = InTime]

(* Faulty: the jobs that wait for a slot outlive the last of the slots. *)
EndsAlone(s) ==
  /\ slot' = [slot EXCEPT ![s].pc = "ended"]
  /\ UNCHANGED <<queue, request>>

(* The receiver is shared by the slots, and goes with the last of them: so  *)
(* do the jobs it still holds.                                             *)
Ends(s) ==
  LET last == \A t \in Slots \ {s} : slot[t].pc = "ended" IN
  /\ slot' = [slot EXCEPT ![s].pc = "ended"]
  /\ queue' = IF last THEN <<>> ELSE queue
  /\ request' = [r \in Requests |-> IF last /\ InQueue(r) THEN Replied(request[r], "dropped")
                                    ELSE request[r]]

(* worker: its context is made, or it is not and the slot is gone. *)
Start(s) ==
  /\ slot[s].pc = "starting"
  /\ \/ slot' = [slot EXCEPT ![s].pc = "idle"] /\ UNCHANGED <<queue, request>>
     \/ Ends(s)
  /\ UNCHANGED <<store, engine, stopping>>

(* A job nobody waits for, or that waited too long, is let go unanswered.   *)
Receive(s) ==
  /\ slot[s].pc = "idle" /\ queue # <<>>
  /\ queue' = Tail(queue)
  /\ LET r == Head(queue) IN
     IF Closed(r) \/ request[r].late >= Late
     THEN /\ request' = [request EXCEPT ![r] = Replied(@, "dropped")]
          /\ UNCHANGED slot
     ELSE /\ slot' = [slot EXCEPT ![s] = [pc |-> "prefill", job |-> r, produced |-> 0]]
          /\ UNCHANGED request
  /\ UNCHANGED <<store, engine, stopping>>

Finish(s, reply) ==
  /\ slot' = [slot EXCEPT ![s] = [pc |-> "idle", job |-> NoJob, produced |-> 0]]
  /\ request' = [request EXCEPT ![slot[s].job] = Replied(@, reply)]

(* generate_one, up to its loop: rendered, tokenised, not over the window,  *)
(* the cache cleared, and decoded.                                         *)
Prefill(s) ==
  /\ slot[s].pc = "prefill"
  /\ \/ Finish(s, "failed")
     \/ slot' = [slot EXCEPT ![s].pc = "decode"] /\ UNCHANGED request
  /\ UNCHANGED <<store, queue, engine, stopping>>

(* The model ends its text, or fails. *)
EndText(s) ==
  /\ slot[s].pc = "decode"
  /\ \E reply \in {"text", "failed"} : Finish(s, reply)
  /\ UNCHANGED <<store, queue, engine, stopping>>

(* Faulty: a stream is not asked whether anybody still listens. *)
NobodyAsked(r) == FALSE
StreamGone(r) == r \in Translations /\ Closed(r)

(* One token more.  Only a stream learns here that nobody listens; a        *)
(* summary goes on to its deadline or its last token.                      *)
Decode(s) ==
  LET r     == slot[s].job
      heard == [request EXCEPT ![r].wasted = IF Closed(r) THEN @ + 1 ELSE @]
  IN
  /\ slot[s].pc = "decode"
  /\ IF StreamGone(r) \/ request[r].late >= Late \/ slot[s].produced + 1 = MaxTokens
     THEN /\ request' = [heard EXCEPT ![r] = Replied(@, "text")]
          /\ slot' = [slot EXCEPT ![s] = [pc |-> "idle", job |-> NoJob, produced |-> 0]]
     ELSE /\ request' = heard
          /\ slot' = [slot EXCEPT ![s].produced = @ + 1]
  /\ UNCHANGED <<store, queue, engine, stopping>>

-----------------------------------------------------------------------------
(* The engine's life. *)

(* spawn_model_load: in the background, while requests are served. *)
Load ==
  /\ engine = "loading"
  /\ \/ /\ engine' = "ready"
        /\ slot' = [s \in Slots |-> [slot[s] EXCEPT !.pc = "starting"]]
     \/ engine' = "missing" /\ UNCHANGED slot
  /\ UNCHANGED <<store, request, queue, stopping>>

(* SIGTERM: no new request is taken, and those under way are waited for. *)
Signal ==
  /\ Serving
  /\ stopping' = TRUE
  /\ UNCHANGED <<store, request, queue, slot, engine>>

(* Faulty: the slots are joined before the queue is closed. *)
MayCloseJoined == stopping /\ AllAnswered /\ AllEnded

MayClose == stopping /\ AllAnswered

(* Engine::drop closes the queue, which is what ends a slot, and then joins. *)
Close ==
  /\ engine \in {"ready", "missing"}
  /\ MayClose
  /\ engine' = IF engine = "ready" THEN "closing" ELSE "stopped"
  /\ UNCHANGED <<store, request, queue, slot, stopping>>

(* What was queued is received before the closing is. *)
Retire(s) ==
  /\ slot[s].pc = "idle" /\ queue = <<>> /\ engine = "closing"
  /\ Ends(s)
  /\ UNCHANGED <<store, engine, stopping>>

Joined ==
  /\ engine = "closing" /\ AllEnded
  /\ engine' = "stopped"
  /\ UNCHANGED <<store, request, queue, slot, stopping>>

-----------------------------------------------------------------------------
Handle(r) == Submit(r) \/ Hear(r) \/ GiveUp(r)
Work(s) == Start(s) \/ Receive(s) \/ Prefill(s) \/ EndText(s) \/ Decode(s) \/ Retire(s)

Next ==
  \/ Search \/ Load \/ Signal \/ Close \/ Joined
  \/ \E r \in Requests : Take(r) \/ Translate(r) \/ Handle(r) \/ Leave(r) \/ TimePasses(r)
  \/ \E s \in Slots : Work(s)

(* Threads and tasks are scheduled and time passes; that anybody asks,      *)
(* leaves or stops the process is not assumed.                             *)
Fairness ==
  /\ WF_vars(Load) /\ WF_vars(Close) /\ WF_vars(Joined)
  /\ \A r \in Requests : WF_vars(Handle(r)) /\ WF_vars(TimePasses(r))
  /\ \A s \in Slots : WF_vars(Work(s))

Spec == Init /\ [][Next]_vars /\ Fairness

-----------------------------------------------------------------------------
(* The types, with the queue never over its capacity and a job in one place *)
(* only: waiting for a slot, or on one.                                     *)
TypeOK ==
  /\ store.issued \in 0 .. MaxSearches /\ store.pending \subseteq 1 .. store.issued
  /\ request \in [Requests -> [pc : {"new", "ready", "waiting", "left", "answered"},
                               token : 0 .. store.issued, reply : Replies, late : InTime .. GivenUp,
                               wasted : 0 .. MaxTokens, answer : Answers]]
  /\ Len(queue) <= QueueCapacity
  /\ slot \in [Slots -> [pc : {"absent", "starting", "idle", "prefill", "decode", "ended"},
                         job : Requests \cup {NoJob}, produced : 0 .. MaxTokens - 1]]
  /\ engine \in {"loading", "ready", "missing", "closing", "stopped"}
  /\ \A r \in Requests : Cardinality({s \in Slots : slot[s].job = r})
                         + Cardinality({i \in DOMAIN queue : queue[i] = r}) <= 1

(* A search is summarised once at most, however often its token is sent. *)
SummarisedOnce ==
  \A r, q \in Summaries : request[r].token = request[q].token /\ request[r].token # 0 => r = q

(* A translation whose reader left costs its slot one token at most. *)
AbandonedStops == \A r \in Translations : request[r].wasted <= 1

(* Nobody waits for nothing: a request whose answer is still to come has its *)
(* job on a slot, or queued before a slot that lives; and the process stops  *)
(* with no slot left and nobody waiting, be it on SIGTERM or with every slot *)
(* lost (the receiver shared by the workers, Engine::drop).                  *)
NoneIsForgotten ==
  /\ \A r \in Requests : request[r].pc = "waiting" /\ request[r].reply = "none" =>
       OnSlot(r) \/ (InQueue(r) /\ \E s \in Slots : slot[s].pc \notin {"absent", "ended"})
  /\ engine = "stopped" => AllAnswered /\ \A s \in Slots : slot[s].pc \in {"absent", "ended"}

(* Every request is answered, or its client leaves, whatever becomes of its *)
(* job, of the slots and of the engine; and a process told to stop stops,   *)
(* with its slots joined (Engine::generate, Engine::drop).                  *)
ServingEnds ==
  /\ \A r \in Requests : request[r].pc \in {"ready", "waiting"} ~> request[r].pc \in {"left", "answered"}
  /\ stopping ~> engine = "stopped"
=============================================================================
