----------------------------- MODULE IndicesProofs -----------------------------
(***************************************************************************)
(* Proofs about Indices, for any number of migrations and writers at once, *)
(* any versions there may be to begin with and a queue of any length.      *)
(*                                                                         *)
(* All that anyone does is about one index, its home: the one the alias    *)
(* leads to, or version 1 where there is none yet.  It never moves.        *)
(***************************************************************************)
EXTENDS Indices, SequenceTheorems, TLAPS

Home == IF Present = {} THEN 1 ELSE Serving

Roles   == Processes \cup {Nobody}
Tasks   == [op : {"create", "settings", "add"}, index : Nat, documents : SUBSET Writers, by : Roles]
Steps   == {"idle", "looking", "listing", "again", "ensure", "creating", "settle", "settling",
            "ready", "writing", "found", "failed", "done"}
Placed  == {"ensure", "creating", "settle", "settling", "ready", "writing", "found"}

Types ==
  /\ indices \in [Present -> SUBSET Writers] /\ Present \subseteq Nat
  /\ configured \subseteq Present
  /\ tasks \in Seq(Tasks)
  /\ pc \in [Processes -> Steps]
  /\ target \in [Processes -> Int]
  /\ answered \in [Processes -> {"no", "succeeded", "failed"}]
  /\ acked \subseteq Writers
  /\ installed \in BOOLEAN

(* Of the indices there are one is the home, and the newest version is it  *)
(* unless one has the alias's name.                                        *)
Fits ==
  Present # {} =>
    /\ Home \in Present
    /\ Alias \notin Present => \A i \in Present : i <= Home

(* What a task is about, and who waits for it. *)
Awaited(t) ==
  /\ answered[t.by] = "no"
  /\ \/ t.op = "add" /\ pc[t.by] = "writing" /\ t.documents = {t.by}
     \/ t.op = "create" /\ pc[t.by] = "creating"
     \/ t.op = "settings" /\ pc[t.by] = "settling"

Queued ==
  /\ \A n \in DOMAIN tasks : tasks[n].index = Home /\ (tasks[n].by # Nobody => Awaited(tasks[n]))
  /\ \A m, n \in DOMAIN tasks : tasks[m].by = tasks[n].by /\ tasks[m].by # Nobody => m = n

(* What a process has found, and what it was told. *)
Knows(p) ==
  /\ pc[p] = "listing" => Alias \notin Present
  /\ pc[p] = "again" => Alias \in Present \/ Home = 1
  /\ pc[p] \in Placed => target[p] = Home
  /\ p \in Writers \cup {Api} /\ pc[p] \notin {"idle", "failed"} => installed
  /\ pc[p] = "writing" /\ answered[p] = "succeeded" => Home \in Present /\ p \in indices[Home]
  /\ pc[p] = "settling" /\ answered[p] = "succeeded" => Home \in configured

Kept ==
  /\ \A d \in acked : Home \in Present /\ d \in indices[Home]
  /\ installed => Home \in configured

Inv == Types /\ Fits /\ Queued /\ (\A p \in Processes : Knows(p)) /\ Kept
-----------------------------------------------------------------------------
(* The largest of a set of numbers that has one. *)
LEMMA LargestIs ==
  ASSUME NEW S \in SUBSET Nat, NEW m \in S, \A i \in S : i <= m
  PROVE  Max(S) = m
<1> DEFINE top == CHOOSE x \in S : \A y \in S : x >= y
<1>1. \A y \in S : m >= y
  OBVIOUS
<1>2. top \in S /\ \A y \in S : top >= y
  BY <1>1
<1>3. Max(S) = top
  BY DEF Max
<1> HIDE DEF top
<1> QED
  BY <1>1, <1>2, <1>3

(* The home depends on the indices there are. *)
LEMMA HomeIs ==
  ASSUME Present \subseteq Nat, NEW m \in Present, \A i \in Present : i <= m
  PROVE  Home = (IF Alias \in Present THEN Alias ELSE m) /\ Fits
<1>1. Max(Present) = m
  BY LargestIs
<1>2. Home = (IF Alias \in Present THEN Alias ELSE m)
  BY <1>1 DEF Home, Serving
<1> QED
  BY <1>2 DEF Fits

LEMMA HomeFacts ==
  ASSUME Types, Fits
  PROVE  /\ Home \in Nat
         /\ Alias \in Present => Home = Alias
         /\ Alias \notin Present => Home # Alias
         /\ Present = {} => Home = 1
         /\ Present # {} => Home \in Present /\ Home = Serving
<1>1. CASE Present = {}
  BY <1>1 DEF Home, Alias
<1>2. CASE Present # {}
  <2>1. Home = Serving /\ Home \in Present /\ Present \subseteq Nat
    BY <1>2 DEF Types, Fits, Home
  <2>2. Alias \in Present => Home = Alias
    BY <2>1 DEF Serving
  <2> QED
    BY <1>2, <2>1, <2>2
<1> QED
  BY <1>1, <1>2

(* The index all are about may come to be; nothing moves by it. *)
LEMMA HomeStays ==
  ASSUME Types, Fits, Present' = Present \cup {Home}
  PROVE  Home' = Home /\ Fits' /\ (Alias \in Present' <=> Alias \in Present)
<1>1. /\ Home \in Nat /\ Present \subseteq Nat /\ Present' # {}
      /\ Alias \in Present => Home = Alias
      /\ Alias \notin Present => Home # Alias
      /\ Present = {} => Home = 1
      /\ Present # {} => Home \in Present
  BY HomeFacts DEF Types
<1>2. CASE Present # {}
  BY <1>1, <1>2 DEF Fits, Home, Serving
<1>3. CASE Present = {}
  <2>1. Home = 1 /\ Present' = {1} /\ Present' \in SUBSET Nat
    BY <1>1, <1>3
  <2>2. Max(Present') = 1
    BY <2>1, LargestIs
  <2>3. Home' = 1 /\ Alias \notin Present'
    BY <2>1, <2>2 DEF Home, Serving, Alias
  <2> QED
    BY <1>3, <2>1, <2>3 DEF Fits
<1> QED
  BY <1>2, <1>3

LEMMA InitInv ==
  ASSUME IndicesAssumption, Init
  PROVE  Inv
<1>1. PICK layout \in Layouts : /\ indices = [i \in layout |-> {}] /\ configured = layout /\ installed = (layout # {})
  BY DEF Init
<1>2. Present = layout /\ Present \subseteq Nat /\ (Present = {} \/ \E m \in Present : \A i \in Present : i <= m)
  BY <1>1 DEF IndicesAssumption, Present
<1>3. Fits
  <2>1. CASE Present = {}
    BY <2>1 DEF Fits
  <2>2. CASE Present # {}
    BY <1>2, <2>2, HomeIs
  <2> QED
    BY <2>1, <2>2
<1>4. Types
  BY <1>1, <1>2 DEF Init, Types, Steps, Tasks, NotFound, Present
<1>5. Queued
  BY DEF Init, Queued
<1>6. \A p \in Processes : Knows(p)
  BY DEF Init, Knows, Placed
<1>7. Kept
  BY <1>1, <1>2, <1>3 DEF Init, Kept, Fits
<1> QED
  BY <1>3, <1>4, <1>5, <1>6, <1>7 DEF Inv

-----------------------------------------------------------------------------
(* A step of one process: what the others know does not change. *)

TasksOf(p) == {n \in DOMAIN tasks : tasks[n].by = p}

LEMMA ProcessFacts ==
  ASSUME IndicesAssumption, NEW p \in Processes
  PROVE  /\ p # Nobody
         /\ p \in Migrates => p \notin Writers \cup {Api} /\ Onward(p) = "ensure"
         /\ p \in Writers => Onward(p) = "ready"
         /\ p = Api => Onward(p) = "found"
         /\ p \in Migrates \/ p \in Writers \cup {Api}
BY DEF IndicesAssumption, Processes, Nobody, Onward

LEMMA NothingAwaited ==
  ASSUME IndicesAssumption, Inv, NEW p \in Processes,
         pc[p] \notin {"creating", "settling", "writing"} \/ answered[p] # "no"
  PROVE  TasksOf(p) = {}
BY ProcessFacts DEF Inv, Queued, Awaited, TasksOf

LEMMA SameHome ==
  ASSUME indices' = indices
  PROVE  Home' = Home /\ Present' = Present /\ (Fits => Fits')
BY DEF Home, Present, Serving, Fits

(* The others know what they knew, whatever p does. *)
LEMMA OthersKnow ==
  ASSUME Inv, NEW p \in Processes, UNCHANGED <<indices, configured>>, installed => installed',
         \A q \in Processes \ {p} : pc'[q] = pc[q] /\ target'[q] = target[q] /\ answered'[q] = answered[q]
  PROVE  \A q \in Processes \ {p} : Knows(q)'
BY SameHome DEF Inv, Knows

LEMMA MoveInv ==
  ASSUME IndicesAssumption, Inv, NEW p \in Processes, NEW step \in Steps, NEW index \in Int,
         TasksOf(p) = {}, UNCHANGED <<engine, answered>>,
         pc' = [pc EXCEPT ![p] = step], target' = [target EXCEPT ![p] = index],
         acked' \subseteq Writers, installed' \in BOOLEAN, installed => installed', Knows(p)', Kept'
  PROVE  Inv'
<1>1. /\ UNCHANGED <<indices, configured, tasks, answered>>
      /\ pc'[p] = step /\ target'[p] = index
      /\ \A q \in Processes \ {p} : pc'[q] = pc[q] /\ target'[q] = target[q]
      /\ pc' \in [Processes -> Steps] /\ target' \in [Processes -> Int]
  BY DEF engine, Inv, Types
<1>2. Home' = Home /\ Present' = Present /\ Fits'
  BY <1>1, SameHome DEF Inv
<1>3. Types'
  BY <1>1, <1>2 DEF Inv, Types
<1>4. Queued'
  <2>1. \A n \in DOMAIN tasks : tasks[n].by \in Roles
    <3>1. \A n \in DOMAIN tasks : tasks[n] \in Tasks
      BY DEF Inv, Types
    <3> QED
      BY <3>1 DEF Tasks
  <2>2. \A n \in DOMAIN tasks : tasks[n].by # Nobody => tasks[n].by \in Processes \ {p}
    BY <2>1 DEF TasksOf, Roles
  <2> QED
    BY <1>1, <1>2, <2>2 DEF Inv, Queued, Awaited
<1>5. \A q \in Processes : Knows(q)'
  BY <1>1, OthersKnow
<1> QED
  BY <1>2, <1>3, <1>4, <1>5 DEF Inv

(* What it takes to move on: that it is known where the home is. *)
LEMMA FoundInv ==
  ASSUME IndicesAssumption, Inv, NEW p \in Processes, NEW step \in Steps \ {"writing", "settling"}, NEW index \in Int,
         TasksOf(p) = {}, Found(p, index, step),
         step = "listing" => Alias \notin Present,
         step = "again" => Alias \in Present \/ Home = 1,
         step \in Placed => index = Home,
         p \in Writers \cup {Api} => installed
  PROVE  Inv'
<1>1. /\ UNCHANGED <<engine, answered, acked, installed, indices, configured>>
      /\ pc' = [pc EXCEPT ![p] = step] /\ target' = [target EXCEPT ![p] = index]
      /\ pc'[p] = step /\ target'[p] = index
  BY DEF Found, Inv, Types, engine
<1>2. Home' = Home /\ Present' = Present
  BY <1>1, SameHome
<1>3. Knows(p)'
  BY <1>1, <1>2 DEF Knows
<1>4. Kept' /\ acked' \subseteq Writers /\ installed' \in BOOLEAN
  BY <1>1, <1>2 DEF Inv, Types, Kept
<1> QED
  BY <1>1, <1>3, <1>4, MoveInv

LEMMA StartInv ==
  ASSUME IndicesAssumption, Inv, NEW p \in Processes, Start(p)
  PROVE  Inv'
<1>1. Found(p, NotFound, "looking") /\ (p \in Writers \cup {Api} => installed)
  BY DEF Start, Found
<1>2. TasksOf(p) = {}
  BY NothingAwaited DEF Start
<1> QED
  BY <1>1, <1>2, FoundInv DEF Steps, Placed, NotFound

LEMMA LookInv ==
  ASSUME IndicesAssumption, Inv, NEW p \in Processes, LookForName(p) \/ LookForVersions(p)
  PROVE  Inv'
<1>1. TasksOf(p) = {}
  BY NothingAwaited DEF LookForName, LookForVersions
<1>2. Types /\ Fits /\ Knows(p) /\ Alias \in Int /\ NotFound \in Int
  BY DEF Inv, Alias, NotFound
<1>3. p \in Writers \cup {Api} => installed
  BY <1>2 DEF Knows, LookForName, LookForVersions
<1>4. installed => Present # {}
  BY DEF Inv, Kept, Types
<1>5. Onward(p) \in {"ensure", "ready", "found"} /\ (p \notin Migrates => p \in Writers \cup {Api})
  BY ProcessFacts
<1>6. CASE LookForName(p)
  <2>1. CASE Alias \in Present /\ Found(p, Alias, IF p \in Migrates THEN "again" ELSE Onward(p))
    <3>1. Home = Alias
      BY <1>2, <2>1, HomeFacts
    <3> QED
      BY <1>1, <1>2, <1>3, <1>5, <2>1, <3>1, FoundInv DEF Steps
  <2>2. CASE Alias \notin Present /\ Found(p, NotFound, "listing")
    BY <1>1, <1>2, <1>3, <2>2, FoundInv DEF Steps, Placed
  <2> QED
    BY <1>6, <2>1, <2>2 DEF LookForName
<1>7. CASE LookForVersions(p)
  <2>1. Alias \notin Present /\ Present \ {Alias} = Present
    BY <1>2, <1>7 DEF LookForVersions, Knows
  <2>2. CASE Present # {} /\ Found(p, Newest(Present), Onward(p))
    <3>1. Newest(Present) = Home /\ Home \in Int
      BY <1>2, <2>1, <2>2, HomeFacts DEF Newest, Serving
    <3> QED
      BY <1>1, <1>3, <1>5, <2>2, <3>1, FoundInv DEF Steps
  <2>3. CASE Present = {} /\ Found(p, Alias, IF p \in Migrates THEN "again" ELSE Onward(p))
    <3>1. p \in Migrates /\ Home = 1
      BY <1>2, <1>3, <1>4, <1>5, <2>3, HomeFacts
    <3> QED
      BY <1>1, <1>2, <1>3, <2>3, <3>1, FoundInv DEF Steps, Placed
  <2> QED
    BY <1>7, <2>1, <2>2, <2>3 DEF LookForVersions
<1> QED
  BY <1>6, <1>7

-----------------------------------------------------------------------------
(* A process that asks for a task waits for that one, which is the last.   *)
LEMMA SubmitInv ==
  ASSUME IndicesAssumption, Inv, NEW p \in Processes, pc[p] \in {"ensure", "settle", "ready"},
         NEW op, NEW documents \in SUBSET Writers, NEW waiting \in Steps,
         Submit(p, op, target[p], documents, waiting),
         \/ op = "add" /\ waiting = "writing" /\ documents = {p}
         \/ op = "create" /\ waiting = "creating"
         \/ op = "settings" /\ waiting = "settling"
  PROVE  Inv'
<1> DEFINE task == [op |-> op, index |-> target[p], documents |-> documents, by |-> p]
<1>1. TasksOf(p) = {} /\ target[p] = Home /\ p # Nobody
  BY NothingAwaited, ProcessFacts DEF Inv, Knows, Placed
<1>2. /\ tasks' = Append(tasks, task)
      /\ pc'[p] = waiting /\ answered'[p] = "no" /\ target' = target
      /\ \A q \in Processes \ {p} : pc'[q] = pc[q] /\ answered'[q] = answered[q]
      /\ pc' \in [Processes -> Steps] /\ answered' \in [Processes -> {"no", "succeeded", "failed"}]
      /\ UNCHANGED <<indices, configured, acked, installed>>
  BY DEF Submit, Inv, Types
<1>3. Home' = Home /\ Present' = Present /\ Fits' /\ Home \in Nat
  BY <1>2, SameHome, HomeFacts DEF Inv
<1>4. task \in Tasks
  BY <1>1, <1>3 DEF Tasks, Roles
<1>5. /\ task.op = op /\ task.index = Home /\ task.documents = documents /\ task.by = p
  BY <1>1
<1> HIDE DEF task
<1>6. tasks \in Seq(Tasks) /\ tasks' \in Seq(Tasks) /\ Len(tasks') = Len(tasks) + 1 /\ Len(tasks) \in Nat
      /\ DOMAIN tasks = 1 .. Len(tasks) /\ DOMAIN tasks' = 1 .. Len(tasks) + 1
      /\ tasks'[Len(tasks) + 1] = task /\ \A n \in DOMAIN tasks : tasks'[n] = tasks[n]
  BY <1>2, <1>4 DEF Inv, Types
<1>7. Types'
  BY <1>2, <1>3, <1>6 DEF Inv, Types
<1>8. \A n \in DOMAIN tasks' : n \in DOMAIN tasks \/ (n = Len(tasks) + 1 /\ tasks'[n] = task)
  BY <1>6
<1>9. \A n \in DOMAIN tasks : tasks[n].by \in Roles \ {p}
  <2>1. \A n \in DOMAIN tasks : tasks[n] \in Tasks
    BY <1>6
  <2> QED
    BY <1>1, <2>1 DEF Tasks, TasksOf
<1>10. Queued'
  <2>1. ASSUME NEW n \in DOMAIN tasks'
        PROVE  tasks'[n].index = Home' /\ (tasks'[n].by # Nobody => Awaited(tasks[n])')
    <3>1. CASE n \in DOMAIN tasks
      <4>1. tasks'[n] = tasks[n] /\ tasks[n].index = Home /\ (tasks[n].by # Nobody => Awaited(tasks[n]))
        BY <1>6, <3>1 DEF Inv, Queued
      <4>2. tasks[n].by # Nobody => tasks[n].by \in Processes \ {p}
        BY <1>9, <3>1 DEF Roles
      <4> QED
        BY <1>2, <1>3, <4>1, <4>2 DEF Awaited
    <3>2. CASE n = Len(tasks) + 1 /\ tasks'[n] = task
      BY <1>2, <1>3, <1>5, <3>2 DEF Awaited
    <3> QED
      BY <1>8, <3>1, <3>2
  <2>2. ASSUME NEW m \in DOMAIN tasks', NEW n \in DOMAIN tasks', tasks'[m].by = tasks'[n].by, tasks'[m].by # Nobody
        PROVE  m = n
    BY <1>5, <1>6, <1>8, <1>9, <2>2 DEF Inv, Queued
  <2> QED
    BY <2>1, <2>2 DEF Queued
<1>11. \A q \in Processes : Knows(q)'
  <2>1. Knows(p)'
    <3>1. waiting \in Placed \ {"again", "listing"} /\ pc[p] \notin {"idle", "failed"} /\ Knows(p)
      BY DEF Inv, Placed
    <3> QED
      BY <1>1, <1>2, <1>3, <3>1 DEF Knows
  <2> QED
    BY <1>2, <2>1, OthersKnow
<1>12. Kept'
  BY <1>2, <1>3 DEF Inv, Kept
<1> QED
  BY <1>3, <1>7, <1>10, <1>11, <1>12 DEF Inv

LEMMA MigrateInv ==
  ASSUME IndicesAssumption, Inv, NEW p \in Migrates,
         LookAgain(p) \/ EnsureIndex(p) \/ Created(p) \/ ApplySettings(p) \/ Migrated(p)
  PROVE  Inv'
<1>1. p \in Processes /\ p \notin Writers \cup {Api} /\ Knows(p) /\ Types /\ Fits /\ Kept
  BY ProcessFacts DEF Processes, Inv
<1>2. target[p] \in Int /\ Home \in Int
  BY <1>1, HomeFacts DEF Types
<1>3. CASE LookAgain(p)
  <2>1. pc[p] = "again" /\ Found(p, First(Present), "ensure")
    BY <1>3 DEF LookAgain
  <2>2. First(Present) = Home
    BY <1>1, <2>1, HomeFacts DEF First, Knows
  <2> QED
    BY <1>1, <1>2, <2>1, <2>2, NothingAwaited, FoundInv DEF Steps
<1>4. CASE EnsureIndex(p)
  <2>1. pc[p] = "ensure" /\ target[p] = Home
    BY <1>1, <1>4 DEF EnsureIndex, Knows, Placed
  <2>2. CASE Found(p, target[p], "settle")
    BY <1>1, <1>2, <2>1, <2>2, NothingAwaited, FoundInv DEF Steps
  <2>3. CASE Submit(p, "create", target[p], {}, "creating")
    BY <1>1, <2>1, <2>3, SubmitInv DEF Steps
  <2> QED
    BY <1>4, <2>2, <2>3 DEF EnsureIndex
<1>5. CASE Created(p)
  <2>1. pc[p] = "creating" /\ answered[p] # "no" /\ target[p] = Home /\ Found(p, target[p], "settle")
    BY <1>1, <1>5 DEF Created, Knows, Placed
  <2> QED
    BY <1>1, <1>2, <2>1, NothingAwaited, FoundInv DEF Steps
<1>6. CASE ApplySettings(p)
  BY <1>1, <1>6, SubmitInv DEF ApplySettings, Steps
<1>7. CASE Migrated(p)
  <2>1. /\ pc[p] = "settling" /\ answered[p] = "succeeded" /\ target[p] = Home /\ Home \in configured
        /\ pc' = [pc EXCEPT ![p] = "done"] /\ target' = [target EXCEPT ![p] = Home]
        /\ installed' = TRUE /\ UNCHANGED <<engine, indices, configured, answered, acked>>
    BY <1>1, <1>7 DEF Migrated, Knows, Placed, engine, Types
  <2>2. Home' = Home /\ Present' = Present /\ pc'[p] = "done"
    BY <1>1, <2>1, SameHome DEF Types
  <2>3. Knows(p)' /\ Kept'
    BY <1>1, <2>1, <2>2 DEF Knows, Kept, Placed
  <2>4. "done" \in Steps /\ acked' \subseteq Writers /\ installed' \in BOOLEAN /\ (installed => installed')
    BY <1>1, <2>1 DEF Steps, Types
  <2> QED
    BY <1>1, <1>2, <2>1, <2>3, <2>4, NothingAwaited, MoveInv
<1> QED
  BY <1>3, <1>4, <1>5, <1>6, <1>7

LEMMA WriterInv ==
  ASSUME IndicesAssumption, Inv, NEW p \in Writers, WriteBatch(p) \/ Acknowledge(p)
  PROVE  Inv'
<1>1. p \in Processes /\ Knows(p) /\ Types /\ Fits /\ Kept
  BY DEF Processes, Inv
<1>2. target[p] \in Int /\ Home \in Int
  BY <1>1, HomeFacts DEF Types
<1>3. CASE WriteBatch(p)
  BY <1>1, <1>3, SubmitInv DEF WriteBatch, Destination, Steps
<1>4. CASE Acknowledge(p)
  <2>1. /\ pc[p] = "writing" /\ answered[p] = "succeeded" /\ target[p] = Home
        /\ Home \in Present /\ p \in indices[Home] /\ installed
        /\ pc' = [pc EXCEPT ![p] = "ready"] /\ target' = [target EXCEPT ![p] = Home]
        /\ acked' = acked \cup {p} /\ UNCHANGED <<engine, indices, configured, answered, installed>>
    BY <1>1, <1>4 DEF Acknowledge, Knows, Placed, engine, Types
  <2>2. Home' = Home /\ Present' = Present /\ pc'[p] = "ready" /\ target'[p] = Home
    BY <1>1, <2>1, SameHome DEF Types
  <2>3. Knows(p)'
    BY <2>1, <2>2 DEF Knows
  <2>4. Kept'
    BY <1>1, <2>1, <2>2 DEF Kept
  <2>5. "ready" \in Steps /\ acked' \subseteq Writers /\ installed' \in BOOLEAN
    BY <1>1, <2>1 DEF Steps, Types
  <2> QED
    BY <1>1, <1>2, <2>1, <2>3, <2>4, <2>5, NothingAwaited, MoveInv
<1> QED
  BY <1>3, <1>4

(* What a process that ended asked for is still done, but nobody waits.    *)
LEMMA FailInv ==
  ASSUME IndicesAssumption, Inv, NEW p \in Processes, Fail(p)
  PROVE  Inv'
<1> DEFINE left == [n \in DOMAIN tasks |-> IF tasks[n].by = p THEN [tasks[n] EXCEPT !.by = Nobody] ELSE tasks[n]]
<1>1. /\ pc'[p] = "failed" /\ tasks' = left
      /\ \A q \in Processes \ {p} : pc'[q] = pc[q] /\ target'[q] = target[q] /\ answered'[q] = answered[q]
      /\ pc' \in [Processes -> Steps] /\ target' \in [Processes -> Int]
      /\ answered' \in [Processes -> {"no", "succeeded", "failed"}]
      /\ UNCHANGED <<indices, configured, acked, installed>>
  BY DEF Fail, Inv, Types, Steps, NotFound
<1>2. Home' = Home /\ Present' = Present /\ Fits' /\ p # Nobody
  BY <1>1, SameHome, ProcessFacts DEF Inv
<1>3. tasks \in Seq(Tasks) /\ Len(tasks) \in Nat /\ DOMAIN tasks = 1 .. Len(tasks) /\ \A n \in DOMAIN tasks : tasks[n] \in Tasks
  BY DEF Inv, Types
<1>4. \A n \in DOMAIN tasks :
        /\ left[n] \in Tasks /\ left[n].index = tasks[n].index
        /\ left[n].by # Nobody => left[n] = tasks[n] /\ tasks[n].by \in Processes \ {p}
  <2> TAKE n \in DOMAIN tasks
  <2>1. tasks[n] \in Tasks
    BY <1>3
  <2>2. CASE tasks[n].by = p
    <3>1. left[n] = [tasks[n] EXCEPT !.by = Nobody]
      BY <2>2
    <3> QED
      BY <2>1, <3>1 DEF Tasks, Roles
  <2>3. CASE tasks[n].by # p
    <3>1. left[n] = tasks[n]
      BY <2>3
    <3> QED
      BY <2>1, <2>3, <3>1 DEF Tasks, Roles
  <2> QED
    BY <2>2, <2>3
<1>5. DOMAIN left = DOMAIN tasks /\ left \in Seq(Tasks)
  <2>1. left \in [1 .. Len(tasks) -> Tasks]
    BY <1>3, <1>4
  <2> QED
    BY <1>3, <2>1, IsASeq
<1> HIDE DEF left
<1>6. Types'
  BY <1>1, <1>2, <1>5 DEF Inv, Types
<1>7. Queued'
  <2>1. ASSUME NEW n \in DOMAIN tasks'
        PROVE  tasks'[n].index = Home' /\ (tasks'[n].by # Nobody => Awaited(tasks[n])')
    <3>1. n \in DOMAIN tasks /\ tasks'[n].index = tasks[n].index
      BY <1>1, <1>4, <1>5
    <3>2. tasks[n].index = Home /\ (tasks[n].by # Nobody => Awaited(tasks[n]))
      BY <3>1 DEF Inv, Queued
    <3>3. tasks'[n].by # Nobody => tasks'[n] = tasks[n] /\ tasks[n].by \in Processes \ {p}
      BY <1>1, <1>4, <3>1
    <3> QED
      BY <1>1, <1>2, <3>1, <3>2, <3>3 DEF Awaited
  <2>2. ASSUME NEW m \in DOMAIN tasks', NEW n \in DOMAIN tasks', tasks'[m].by = tasks'[n].by, tasks'[m].by # Nobody
        PROVE  m = n
    BY <1>1, <1>4, <1>5, <2>2 DEF Inv, Queued
  <2> QED
    BY <2>1, <2>2 DEF Queued
<1>8. \A q \in Processes : Knows(q)'
  <2>1. Knows(p)'
    BY <1>1 DEF Knows, Placed
  <2> QED
    BY <1>1, <2>1, OthersKnow
<1>9. Kept'
  BY <1>1, <1>2 DEF Inv, Kept
<1> QED
  BY <1>2, <1>6, <1>7, <1>8, <1>9 DEF Inv

-----------------------------------------------------------------------------
(* What the engine makes of a task: the index, if it was not there, with    *)
(* the documents it had and those of the task.                             *)
LEMMA MadeIs ==
  ASSUME Inv, NEW documents \in SUBSET Writers
  PROVE  /\ DOMAIN Made(Home, documents) = Present \cup {Home}
         /\ Made(Home, documents) \in [Present \cup {Home} -> SUBSET Writers]
         /\ \A i \in Present : indices[i] \subseteq Made(Home, documents)[i]
         /\ documents \subseteq Made(Home, documents)[Home]
BY DEF Made, With, Inv, Types

(* The answer to a task makes the one that waits for it know no less.      *)
LEMMA RunTaskInv ==
  ASSUME IndicesAssumption, Inv, RunTask
  PROVE  Inv'
<1> DEFINE task == Head(tasks)
<1>1. /\ tasks # <<>> /\ tasks \in Seq(Tasks) /\ Len(tasks) \in Nat \ {0}
      /\ DOMAIN tasks = 1 .. Len(tasks) /\ task = tasks[1] /\ 1 \in DOMAIN tasks /\ task \in Tasks
      /\ Types /\ Fits /\ Queued /\ Kept
  BY DEF RunTask, Inv, Types
<1>2. /\ tasks' = Tail(tasks) /\ UNCHANGED <<pc, target, acked, installed>>
      /\ tasks' \in Seq(Tasks) /\ DOMAIN tasks' = 1 .. Len(tasks) - 1
      /\ \A n \in DOMAIN tasks' : n + 1 \in DOMAIN tasks /\ tasks'[n] = tasks[n + 1] /\ n + 1 # 1
  BY <1>1 DEF RunTask
<1>3. task.index = Home /\ (task.by # Nobody => Awaited(task)) /\ task.documents \in SUBSET Writers /\ task.by \in Roles
  BY <1>1 DEF Queued, Tasks
<1>4. PICK outcome \in {"succeeded", "failed"} :
        /\ AnswerTo(task, outcome)
        /\ outcome = "failed" => task.op = "create" /\ UNCHANGED <<indices, configured>>
        /\ outcome = "succeeded" => /\ indices' = Made(task.index, task.documents)
                                    /\ configured' = IF task.op = "settings" THEN configured \cup {task.index} ELSE configured
  BY DEF RunTask
<1> HIDE DEF task
<1>5. /\ Present' = Present \/ Present' = Present \cup {Home}
      /\ indices' \in [Present' -> SUBSET Writers] /\ Present' \subseteq Nat
      /\ configured' \subseteq Present' /\ configured \subseteq configured'
      /\ \A i \in Present : i \in Present' /\ indices[i] \subseteq indices'[i]
      /\ outcome = "succeeded" =>
           /\ Home \in Present' /\ task.documents \subseteq indices'[Home]
           /\ task.op = "settings" => Home \in configured'
  <2>1. CASE outcome = "failed"
    <3>1. Present' = Present
      BY <1>4, <2>1 DEF Present
    <3> QED
      BY <1>1, <1>4, <2>1, <3>1 DEF Types
  <2>2. CASE outcome = "succeeded"
    <3>1. indices' = Made(Home, task.documents) /\ configured' = IF task.op = "settings" THEN configured \cup {Home} ELSE configured
      BY <1>3, <1>4, <2>2
    <3>2. Present' = Present \cup {Home}
      BY <1>3, <3>1, MadeIs DEF Present
    <3>3. Home \in Nat
      BY <1>1, HomeFacts
    <3> QED
      BY <1>1, <1>3, <2>2, <3>1, <3>2, <3>3, MadeIs DEF Types
  <2> QED
    BY <2>1, <2>2
<1>6. Home' = Home /\ Fits' /\ (Alias \in Present' <=> Alias \in Present)
  <2>1. CASE Present' = Present
    <3>1. CASE Present = {}
      BY <2>1, <3>1 DEF Home, Fits
    <3>2. CASE Present # {}
      <4>1. Present' = Present \cup {Home}
        BY <1>1, <2>1, <3>2, HomeFacts
      <4> QED
        BY <1>1, <4>1, HomeStays
    <3> QED
      BY <2>1, <3>1, <3>2
  <2>2. CASE Present' = Present \cup {Home}
    BY <1>1, <2>2, HomeStays
  <2> QED
    BY <1>5, <2>1, <2>2
<1>7. /\ answered' \in [Processes -> {"no", "succeeded", "failed"}]
      /\ \A q \in Processes : answered'[q] = IF q = task.by THEN outcome ELSE answered[q]
  <2>1. CASE task.by = Nobody
    <3>1. answered' = answered
      BY <1>4, <2>1 DEF AnswerTo
    <3> QED
      BY <1>1, <2>1, <3>1, ProcessFacts DEF Types
  <2>2. CASE task.by # Nobody
    <3>1. answered' = [answered EXCEPT ![task.by] = outcome] /\ task.by \in Processes
      BY <1>3, <1>4, <2>2 DEF AnswerTo, Roles
    <3> QED
      BY <1>1, <3>1 DEF Types
  <2> QED
    BY <2>1, <2>2
<1>8. Types'
  BY <1>1, <1>2, <1>5, <1>7 DEF Types
<1>9. \A n \in DOMAIN tasks' : tasks'[n].by # Nobody => tasks'[n].by \in Processes /\ tasks'[n].by # task.by
  <2> SUFFICES ASSUME NEW n \in DOMAIN tasks', tasks'[n].by # Nobody
               PROVE  tasks'[n].by \in Processes /\ tasks'[n].by # task.by
    OBVIOUS
  <2>1. tasks'[n] \in Tasks /\ tasks'[n] = tasks[n + 1] /\ n + 1 \in DOMAIN tasks /\ n + 1 # 1
    BY <1>2
  <2>2. tasks'[n].by \in Processes
    BY <2>1 DEF Tasks, Roles
  <2>3. task = tasks[1]
    BY <1>1
  <2> QED
    BY <1>1, <2>1, <2>2, <2>3 DEF Queued
<1>10. Queued'
  <2>1. ASSUME NEW n \in DOMAIN tasks'
        PROVE  tasks'[n].index = Home' /\ (tasks'[n].by # Nobody => Awaited(tasks[n])')
    <3>1. tasks'[n] = tasks[n + 1] /\ tasks[n + 1].index = Home /\ (tasks[n + 1].by # Nobody => Awaited(tasks[n + 1]))
      BY <1>1, <1>2 DEF Queued
    <3>2. tasks'[n].by # Nobody => answered'[tasks'[n].by] = answered[tasks'[n].by]
      BY <1>7, <1>9
    <3> QED
      BY <1>2, <1>6, <3>1, <3>2 DEF Awaited
  <2>2. ASSUME NEW m \in DOMAIN tasks', NEW n \in DOMAIN tasks', tasks'[m].by = tasks'[n].by, tasks'[m].by # Nobody
        PROVE  m = n
    <3>1. m + 1 = n + 1
      BY <1>1, <1>2, <2>2 DEF Queued
    <3>2. m \in Int /\ n \in Int
      BY <1>2
    <3> QED
      BY <3>1, <3>2
  <2> QED
    BY <2>1, <2>2 DEF Queued
<1>11. ASSUME NEW p \in Processes
       PROVE  Knows(p)'
  <2>1. Knows(p)
    BY DEF Inv
  <2>2. CASE p = task.by
    <3>1. Awaited(task) /\ answered'[p] = outcome
      BY <1>3, <1>7, <2>2, ProcessFacts
    <3>2. outcome = "succeeded" /\ pc[p] = "writing" => Home \in Present' /\ p \in indices'[Home]
      BY <1>5, <2>2, <3>1 DEF Awaited
    <3>3. outcome = "succeeded" /\ pc[p] = "settling" => Home \in configured'
      BY <1>5, <2>2, <3>1 DEF Awaited
    <3> QED
      BY <1>2, <1>6, <2>1, <3>1, <3>2, <3>3 DEF Knows
  <2>3. CASE p # task.by
    <3>1. answered'[p] = answered[p]
      BY <1>7, <2>3
    <3> QED
      BY <1>2, <1>5, <1>6, <2>1, <3>1 DEF Knows
  <2> QED
    BY <2>2, <2>3
<1>12. Kept'
  BY <1>1, <1>2, <1>5, <1>6 DEF Kept
<1> QED
  BY <1>6, <1>8, <1>10, <1>11, <1>12 DEF Inv

LEMMA NextInv == IndicesAssumption /\ Inv /\ [Next]_vars => Inv'
<1> SUFFICES ASSUME IndicesAssumption, Inv, [Next]_vars PROVE Inv'
  OBVIOUS
<1>1. CASE RunTask
  BY <1>1, RunTaskInv
<1>2. ASSUME NEW p \in Processes, Step(p) PROVE Inv'
  BY <1>2, StartInv, LookInv, MigrateInv, WriterInv, FailInv DEF Step
<1>3. CASE UNCHANGED vars
  <2>1. UNCHANGED <<indices, configured, tasks, pc, target, answered, acked, installed>>
    BY <1>3 DEF vars, engine
  <2> QED
    BY <2>1, SameHome DEF Inv, Types, Queued, Awaited, Knows, Kept
<1> QED
  BY <1>1, <1>2, <1>3 DEF Next

(* However many migrations and writers run at once, whatever fails, what   *)
(* was acknowledged is in the index a process that starts now takes the    *)
(* alias for, and the API reads that one, with its settings                *)
(* (MeiliClient::resolve, cmd_migrate, AppState::resolve_index).           *)
THEOREM AcknowledgedIsRead ==
  ASSUME IndicesAssumption
  PROVE  Spec => []WritesAreRead
<1>1. Inv => WritesAreRead
  <2> SUFFICES ASSUME Inv PROVE WritesAreRead
    OBVIOUS
  <2>1. Present # {} => Home = Serving
    BY DEF Home
  <2>2. \A d \in acked : d \in indices[Serving]
    BY <2>1 DEF Inv, Kept
  <2>3. pc[Api] = "found" => target[Api] = Serving /\ Serving \in configured
    <3> SUFFICES ASSUME pc[Api] = "found" PROVE target[Api] = Serving /\ Serving \in configured
      OBVIOUS
    <3>1. Knows(Api) /\ Api \in Writers \cup {Api}
      BY DEF Inv, Processes
    <3>2. installed /\ target[Api] = Home
      BY <3>1 DEF Knows, Placed
    <3>3. Home \in configured /\ Home \in Present
      BY <3>2 DEF Inv, Kept, Types
    <3> QED
      BY <2>1, <3>2, <3>3
  <2> QED
    BY <2>2, <2>3 DEF WritesAreRead
<1>2. Inv /\ [Next]_vars => Inv'
  BY NextInv
<1>3. Init => Inv
  BY InitInv
<1> QED
  BY <1>1, <1>2, <1>3, PTL DEF Spec
=============================================================================
