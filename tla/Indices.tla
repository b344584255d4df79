-------------------------------- MODULE Indices --------------------------------
(***************************************************************************)
(* The engine's indices and those who find them by their alias: the        *)
(* migration, which makes the first and gives it its settings; the writers, *)
(* which look the alias up when they start and then write batches (the      *)
(* worker, "seed" and "crawl"); and the API, which looks it up once.  The   *)
(* index of the alias's own name is number 0, its version N number N.      *)
(*                                                                         *)
(* The engine takes writes as tasks and runs them in the order they came;   *)
(* an index that is written to and is not there comes to be.  A request may *)
(* fail, before the engine has it or after.                                *)
(***************************************************************************)
EXTENDS Integers, Sequences, FiniteSetsExt

CONSTANTS Migrates,  \* runs of "migrate"
          Writers,   \* processes that write documents
          Api,       \* the process that serves searches
          Layouts,   \* which indices there may be to begin with
          MaxTasks   \* tasks in the engine's queue, at most

VARIABLES
  indices,    \* of each index there is, whose documents are in it
  configured, \* the indices that have their settings
  tasks,      \* what the engine has still to do, in order
  pc,         \* what each process is about to do
  target,     \* the index it found, where it has
  answered,   \* what became of the task it waits for
  acked,      \* the writers whose documents were acknowledged
  installed   \* a migration has been run to its end

engine == <<indices, configured, tasks>>
vars   == <<engine, pc, target, answered, acked, installed>>

(* A process has one part to play; versions are numbered from 1, and of    *)
(* those there are one is the newest.                                      *)
IndicesAssumption ==
  /\ Migrates \cap Writers = {} /\ Api \notin Migrates \cup Writers
  /\ "nobody" \notin Migrates \cup Writers \cup {Api}
  /\ \A layout \in Layouts : layout \subseteq Nat /\ (layout = {} \/ \E newest \in layout : \A i \in layout : i <= newest)

Processes == Migrates \cup Writers \cup {Api}
Alias     == 0
Nobody    == "nobody"
NotFound  == 0 - 1
Present   == DOMAIN indices

TypeOK ==
  /\ indices \in UNION {[present -> SUBSET Writers] : present \in SUBSET {0, 1, 2}}
  /\ configured \subseteq Present
  /\ Len(tasks) <= MaxTasks
  /\ pc \in [Processes -> {"idle", "looking", "listing", "again", "ensure", "creating", "settle", "settling",
                           "ready", "writing", "found", "failed", "done"}]
  /\ target \in [Processes -> {NotFound, 0, 1, 2}]
  /\ answered \in [Processes -> {"no", "succeeded", "failed"}]
  /\ acked \subseteq Writers
  /\ installed \in BOOLEAN

(* The seed list and the crawl come after "migrate" (Makefile, "seed:       *)
(* migrate"): nobody writes to an engine that was never set up.            *)
Init ==
  \E layout \in Layouts :
    /\ indices = [i \in layout |-> {}]
    /\ configured = layout
    /\ tasks = <<>>
    /\ pc = [p \in Processes |-> "idle"]
    /\ target = [p \in Processes |-> NotFound]
    /\ answered = [p \in Processes |-> "no"]
    /\ acked = {}
    /\ installed = (layout # {})

-----------------------------------------------------------------------------
(* Looking the alias up, two requests: is there an index of that very name, *)
(* and if not, which versions are there.                                   *)

Newest(present) == Max(present)

Start(p) ==
  /\ pc[p] \in {"idle", "failed", "done", "found"}
  /\ p \in Writers \cup {Api} => installed
  /\ pc' = [pc EXCEPT ![p] = "looking"]
  /\ target' = [target EXCEPT ![p] = NotFound]
  /\ UNCHANGED <<engine, answered, acked, installed>>

Onward(p) == CASE p \in Migrates -> "ensure" [] p \in Writers -> "ready" [] p = Api -> "found"

Found(p, index, step) ==
  /\ pc' = [pc EXCEPT ![p] = step]
  /\ target' = [target EXCEPT ![p] = index]
  /\ UNCHANGED <<engine, answered, acked, installed>>

LookForName(p) ==
  /\ pc[p] = "looking"
  /\ \/ Alias \in Present /\ Found(p, Alias, IF p \in Migrates THEN "again" ELSE Onward(p))
     \/ Alias \notin Present /\ Found(p, NotFound, "listing")

(* Where there is no version either the alias itself is taken for a name,  *)
(* and a migration asks once more whether it is one.                       *)
LookForVersions(p) ==
  /\ pc[p] = "listing"
  /\ LET versions == Present \ {Alias}
     IN  \/ versions # {} /\ Found(p, Newest(versions), Onward(p))
         \/ versions = {} /\ Found(p, Alias, IF p \in Migrates THEN "again" ELSE Onward(p))

First(present) == IF Alias \in present THEN Alias ELSE 1

LookAgain(p) == pc[p] = "again" /\ Found(p, First(Present), "ensure")

-----------------------------------------------------------------------------
(* A migration: the index, then its settings, each a task it waits for.    *)

Submit(p, op, index, documents, waiting) ==
  /\ Len(tasks) < MaxTasks
  /\ tasks' = Append(tasks, [op |-> op, index |-> index, documents |-> documents, by |-> p])
  /\ pc' = [pc EXCEPT ![p] = waiting]
  /\ answered' = [answered EXCEPT ![p] = "no"]
  /\ UNCHANGED <<indices, configured, target, acked, installed>>

EnsureIndex(p) ==
  /\ pc[p] = "ensure"
  /\ \/ target[p] \in Present /\ Found(p, target[p], "settle")
     \/ target[p] \notin Present /\ Submit(p, "create", target[p], {}, "creating")

(* That it is there already means that another migration made it. *)
Created(p) == pc[p] = "creating" /\ answered[p] # "no" /\ Found(p, target[p], "settle")

ApplySettings(p) == pc[p] = "settle" /\ Submit(p, "settings", target[p], {}, "settling")

Migrated(p) ==
  /\ pc[p] = "settling" /\ answered[p] = "succeeded"
  /\ pc' = [pc EXCEPT ![p] = "done"]
  /\ installed' = TRUE
  /\ UNCHANGED <<engine, target, answered, acked>>

-----------------------------------------------------------------------------
(* A writer: batch after batch, into the index it found. *)

(* Faulty: into the index of the alias's name. *)
DestinationByName(p) == Alias
Destination(p) == target[p]

WriteBatch(p) == pc[p] = "ready" /\ Submit(p, "add", Destination(p), {p}, "writing")

(* Only a task that succeeded counts as written. *)
Acknowledge(p) ==
  /\ pc[p] = "writing" /\ answered[p] = "succeeded"
  /\ pc' = [pc EXCEPT ![p] = "ready"]
  /\ acked' = acked \cup {p}
  /\ UNCHANGED <<engine, target, answered, installed>>

-----------------------------------------------------------------------------
(* The engine, and what may go wrong between it and a process. *)

AnswerTo(task, outcome) ==
  answered' = IF task.by = Nobody THEN answered ELSE [answered EXCEPT ![task.by] = outcome]

With(index) == Present \cup {index}
Made(index, documents) ==
  [i \in With(index) |-> (IF i \in Present THEN indices[i] ELSE {}) \cup (IF i = index THEN documents ELSE {})]

RunTask ==
  /\ tasks # <<>>
  /\ tasks' = Tail(tasks)
  /\ LET task == Head(tasks)
     IN  \/ /\ task.op = "create" /\ task.index \in Present
            /\ AnswerTo(task, "failed")
            /\ UNCHANGED <<indices, configured>>
         \/ /\ ~(task.op = "create" /\ task.index \in Present)
            /\ indices' = Made(task.index, task.documents)
            /\ configured' = IF task.op = "settings" THEN configured \cup {task.index} ELSE configured
            /\ AnswerTo(task, "succeeded")
  /\ UNCHANGED <<pc, target, acked, installed>>

(* A request fails, or the wait for a task is too long: the process ends    *)
(* with an error, and what it asked for may still be done.  The API goes on *)
(* with the alias for a name.                                              *)
Fail(p) ==
  /\ pc[p] \notin {"idle", "failed", "done", "found"}
  /\ pc' = [pc EXCEPT ![p] = "failed"]
  /\ target' = [target EXCEPT ![p] = NotFound]
  /\ answered' = [answered EXCEPT ![p] = "no"]
  /\ tasks' = [n \in DOMAIN tasks |-> IF tasks[n].by = p THEN [tasks[n] EXCEPT !.by = Nobody] ELSE tasks[n]]
  /\ UNCHANGED <<indices, configured, acked, installed>>

Step(p) ==
  \/ Start(p) \/ LookForName(p) \/ LookForVersions(p)
  \/ p \in Migrates /\ (LookAgain(p) \/ EnsureIndex(p) \/ Created(p) \/ ApplySettings(p) \/ Migrated(p))
  \/ p \in Writers /\ (WriteBatch(p) \/ Acknowledge(p))
  \/ Fail(p)

Next == RunTask \/ \E p \in Processes : Step(p)
Spec == Init /\ [][Next]_vars

-----------------------------------------------------------------------------
(* What a process that starts now takes the alias for. *)
Serving == IF Alias \in Present THEN Alias ELSE Max(Present)

(* What was acknowledged is where a process that starts now looks for it,   *)
(* whoever wrote it and however many migrations were run at once; and the   *)
(* API, where it found the index, reads that one, with its settings         *)
(* (MeiliClient::resolve, cmd_migrate, AppState::resolve_index).            *)
WritesAreRead ==
  /\ \A d \in acked : d \in indices[Serving]
  /\ pc[Api] = "found" => target[Api] = Serving /\ Serving \in configured
=============================================================================
