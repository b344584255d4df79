--------------------------- MODULE OperationsProofs ---------------------------
(***************************************************************************)
(* Proofs about Operations: the tool data, for any places, any readings a  *)
(* publisher may give and any ages and limits; the list of sources, for    *)
(* any administrators, lines and addresses; the log filter, for any         *)
(* filters and times; and with those of IndicesProofs and RateLimitProofs   *)
(* what all five promise together.                                         *)
(***************************************************************************)
EXTENDS Operations, TLAPS

Indexed == INSTANCE IndicesProofs
Limited == INSTANCE RateLimitProofs

-----------------------------------------------------------------------------
(* The tool data. *)

Entries == [value : Readings \cup {0}, age : Int, left : 0 .. CacheTtl]
Samples == [at : {"idle", "scanning"}, rest : SUBSET Places, oldest : Nat \cup {To!Unknown}, missed : BOOLEAN]

ToolTypes ==
  /\ cache \in [Places -> Entries]
  /\ sample \in Samples
  /\ gauge \in Nat \cup {To!Unknown}
  /\ told \in BOOLEAN

Withheld(p) == To!Cached(p) /\ To!Age(p) > Limit

(* A scan that has missed nothing has seen how old what it is past is, as  *)
(* far as that is too old.                                                 *)
Scanned ==
  sample.at = "scanning" /\ ~ sample.missed =>
    \A p \in Places \ sample.rest : Withheld(p) => sample.oldest > Limit

ToolsInv == ToolTypes /\ Scanned /\ To!WithheldIsTold

-----------------------------------------------------------------------------
LEMMA EntryFacts ==
  ASSUME To!ToolDataAssumption
  PROVE  /\ To!Nothing \in Entries
         /\ \A e \in Entries : /\ e.age \in Int /\ e.left \in 0 .. CacheTtl
                               /\ e.left > 1 => To!Aged(e) \in Entries
<1>1. CacheTtl \in Nat /\ 0 \in 0 .. CacheTtl /\ 0 \in Int /\ 0 \in Readings \cup {0}
  BY DEF To!ToolDataAssumption
<1>2. To!Nothing \in Entries
  BY <1>1 DEF To!Nothing, Entries
<1>3. ASSUME NEW e \in Entries
      PROVE  /\ e.age \in Int /\ e.left \in 0 .. CacheTtl
             /\ e.left > 1 => To!Aged(e) \in Entries
  <2>1. e.value \in Readings \cup {0} /\ e.age \in Int /\ e.left \in 0 .. CacheTtl /\ e = [value |-> e.value, age |-> e.age, left |-> e.left]
    BY DEF Entries
  <2> SUFFICES ASSUME e.left > 1 PROVE To!Aged(e) \in Entries
    BY <2>1
  <2> DEFINE a == e.age + 1
             l == e.left - 1
  <2>2. a \in Int /\ l \in 0 .. CacheTtl
    BY <1>1, <2>1
  <2> HIDE DEF a, l
  <2>3. [value |-> e.value, age |-> a, left |-> l] \in Entries
    BY <2>1, <2>2 DEF Entries
  <2> QED
    BY <2>3 DEF To!Aged, a, l
<1> QED
  BY <1>2, <1>3

(* The older of two ages. *)
LEMMA OlderOfTwo ==
  ASSUME NEW a \in Int, NEW b \in Int
  PROVE  To!Older(a, b) \in {a, b} /\ To!Older(a, b) >= a /\ To!Older(a, b) >= b
<1> DEFINE S == {a, b}
           m == CHOOSE x \in S : \A y \in S : x >= y
<1>1. \E x \in S : \A y \in S : x >= y
  <2>1. CASE a >= b
    BY <2>1
  <2>2. CASE ~ (a >= b)
    BY <2>2
  <2> QED
    BY <2>1, <2>2
<1>2. m \in S /\ \A y \in S : m >= y
  BY <1>1
<1>3. To!Older(a, b) = m
  BY DEF To!Older, To!Max
<1> HIDE DEF m
<1> QED
  BY <1>2, <1>3

LEMMA ToolsInit == To!ToolDataAssumption /\ To!Init => ToolsInv
<1> SUFFICES ASSUME To!ToolDataAssumption, To!Init PROVE ToolsInv
  OBVIOUS
<1>1. ToolTypes
  <2>1. cache \in [Places -> Entries]
    BY EntryFacts DEF To!Init
  <2>2. sample \in Samples
    BY DEF To!Init, Samples, To!Idle
  <2> QED
    BY <2>1, <2>2 DEF To!Init, ToolTypes
<1>2. Scanned /\ To!WithheldIsTold
  BY DEF To!Init, Scanned, To!WithheldIsTold, To!Idle
<1> QED
  BY <1>1, <1>2 DEF ToolsInv

(* What is not shown is what is withheld for its age. *)
LEMMA Told == To!WithheldIsTold <=> (told => \A p \in Places : Withheld(p) => gauge > Limit)
BY DEF To!WithheldIsTold, Withheld, To!Shown, To!Stale

(* A reading that is believed either is fresh enough to be shown, or makes *)
(* the scan under way and the last one miss something.                     *)
LEMMA AnsweredInv ==
  ASSUME To!ToolDataAssumption, ToolsInv, To!Answered
  PROVE  ToolsInv'
<1>1. PICK value \in Readings, lag \in Lags :
        /\ To!Believed(value, lag)
        /\ cache' = [p \in Places |-> IF p \in pass.place THEN [value |-> value, age |-> lag, left |-> CacheTtl] ELSE cache[p]]
        /\ told' = (told /\ lag <= Limit)
        /\ sample' = [sample EXCEPT !.missed = @ \/ lag > Limit]
  BY DEF To!Answered
<1>2. /\ lag \in Int /\ CacheTtl \in 0 .. CacheTtl /\ gauge' = gauge /\ Limit \in Nat
      /\ cache \in [Places -> Entries] /\ sample \in Samples /\ told \in BOOLEAN
  BY <1>1 DEF To!Believed, To!Timely, To!ToolDataAssumption, To!Answered, ToolsInv, ToolTypes
<1>3. cache' \in [Places -> Entries]
  <2>1. [value |-> value, age |-> lag, left |-> CacheTtl] \in Entries
    BY <1>2 DEF Entries
  <2> QED
    BY <1>1, <1>2, <2>1
<1>4. /\ sample'.at = sample.at /\ sample'.rest = sample.rest /\ sample'.oldest = sample.oldest
      /\ sample'.missed = (sample.missed \/ lag > Limit)
      /\ sample' \in Samples
  BY <1>1, <1>2 DEF Samples
<1>5. ToolTypes'
  <2>1. told' \in BOOLEAN
    BY <1>1, <1>2
  <2> QED
    BY <1>2, <1>3, <1>4, <2>1 DEF ToolsInv, ToolTypes
<1>6. lag <= Limit => \A p \in Places : Withheld(p)' => Withheld(p)
  BY <1>1, <1>2 DEF Withheld, To!Cached, To!Age
<1>7. Scanned'
  <2>1. CASE lag <= Limit
    BY <1>4, <1>6, <2>1 DEF ToolsInv, Scanned
  <2>2. CASE ~ (lag <= Limit)
    <3>1. lag > Limit
      BY <1>2, <2>2
    <3>2. sample'.missed
      BY <1>4, <3>1, Zenon
    <3> QED
      BY <3>2 DEF Scanned
  <2> QED
    BY <2>1, <2>2
<1>8. told' => told /\ \A p \in Places : Withheld(p)' => Withheld(p)
  BY <1>1, <1>6
<1>9. (told => \A p \in Places : Withheld(p) => gauge > Limit)'
  BY <1>2, <1>8, Told DEF ToolsInv
<1>10. To!WithheldIsTold'
  BY <1>9 DEF To!WithheldIsTold, Withheld, To!Shown, To!Stale, To!Cached
<1> QED
  BY <1>5, <1>7, <1>10 DEF ToolsInv

(* Of the place it looks at a scan sees the age, or it misses it. *)
LEMMA SampleOneInv ==
  ASSUME To!ToolDataAssumption, ToolsInv, To!SampleOne
  PROVE  ToolsInv'
<1>1. PICK p \in sample.rest :
        \/ sample' = [sample EXCEPT !.rest = @ \ {p}, !.oldest = IF To!Cached(p) THEN To!Older(To!Age(p), @) ELSE @]
        \/ sample' = [sample EXCEPT !.rest = @ \ {p}, !.missed = TRUE]
  BY DEF To!SampleOne
<1>2. /\ UNCHANGED <<cache, gauge, told>> /\ sample.at = "scanning" /\ p \in Places
      /\ sample \in Samples /\ cache \in [Places -> Entries] /\ To!Age(p) \in Nat /\ Limit \in Nat
      /\ sample.oldest \in Nat \cup {To!Unknown}
  BY DEF To!SampleOne, ToolsInv, ToolTypes, Samples, Entries, To!ToolDataAssumption, To!Age
<1>3. To!WithheldIsTold'
  BY <1>2 DEF ToolsInv, To!WithheldIsTold, To!Shown, To!Stale, To!Cached, To!Age
<1>4. \A q \in Places : Withheld(q)' = Withheld(q)
  BY <1>2 DEF Withheld, To!Cached, To!Age
<1>5. CASE sample' = [sample EXCEPT !.rest = @ \ {p}, !.missed = TRUE]
  <2>1. sample' \in Samples /\ sample'.missed
    BY <1>2, <1>5 DEF Samples
  <2> QED
    BY <1>2, <1>3, <2>1 DEF ToolsInv, ToolTypes, Scanned
<1>6. CASE sample' = [sample EXCEPT !.rest = @ \ {p}, !.oldest = IF To!Cached(p) THEN To!Older(To!Age(p), @) ELSE @]
  <2> DEFINE oldest == IF To!Cached(p) THEN To!Older(To!Age(p), sample.oldest) ELSE sample.oldest
  <2>1. /\ oldest \in Nat \cup {To!Unknown} /\ oldest >= sample.oldest
        /\ Withheld(p) => oldest > Limit
    <3>1. sample.oldest \in Int /\ To!Age(p) \in Int /\ sample.oldest >= 0 - 1
      BY <1>2 DEF To!Unknown
    <3>2. /\ To!Older(To!Age(p), sample.oldest) \in {To!Age(p), sample.oldest}
          /\ To!Older(To!Age(p), sample.oldest) >= To!Age(p)
          /\ To!Older(To!Age(p), sample.oldest) >= sample.oldest
      BY <3>1, OlderOfTwo
    <3>3. CASE To!Cached(p)
      BY <1>2, <3>1, <3>2, <3>3 DEF Withheld
    <3>4. CASE ~ To!Cached(p)
      BY <1>2, <3>1, <3>4 DEF Withheld
    <3> QED
      BY <3>3, <3>4
  <2>2. sample' = [sample EXCEPT !.rest = sample.rest \ {p}, !.oldest = oldest]
    BY <1>2, <1>6 DEF Samples
  <2> HIDE DEF oldest
  <2>3. /\ sample' \in Samples /\ sample'.rest = sample.rest \ {p} /\ sample'.oldest = oldest
        /\ sample'.missed = sample.missed /\ sample'.at = "scanning"
    BY <1>2, <2>1, <2>2 DEF Samples
  <2>4. Scanned'
    <3> SUFFICES ASSUME ~ sample.missed, NEW q \in Places \ (sample.rest \ {p}), Withheld(q)
                 PROVE  oldest > Limit
      BY <1>4, <2>3 DEF Scanned
    <3>1. CASE q = p
      BY <2>1, <3>1
    <3>2. CASE q # p
      <4>1. sample.oldest > Limit
        BY <1>2, <3>2 DEF ToolsInv, Scanned
      <4>2. oldest \in Int /\ sample.oldest \in Int
        BY <1>2, <2>1 DEF To!Unknown
      <4> QED
        BY <1>2, <2>1, <4>1, <4>2
    <3> QED
      BY <3>1, <3>2
  <2> QED
    BY <1>2, <1>3, <2>3, <2>4 DEF ToolsInv, ToolTypes
<1> QED
  BY <1>1, <1>5, <1>6, SMTT(60)

(* A scan that has seen everything tells what is too old. *)
LEMMA PublishInv ==
  ASSUME To!ToolDataAssumption, ToolsInv, To!Publish
  PROVE  ToolsInv'
<1>1. /\ sample.at = "scanning" /\ sample.rest = {} /\ cache' = cache /\ sample' = To!Idle
      /\ gauge' = (IF sample.oldest = To!Unknown THEN gauge ELSE sample.oldest)
      /\ told' = ~ sample.missed /\ sample \in Samples /\ Limit \in Nat
  BY DEF To!Publish, ToolsInv, ToolTypes, To!ToolDataAssumption
<1>2. ToolTypes'
  BY <1>1 DEF ToolsInv, ToolTypes, Samples, To!Idle, To!Unknown
<1>3. Scanned'
  BY <1>1 DEF Scanned, To!Idle
<1>4. \A p \in Places : Withheld(p)' = Withheld(p)
  BY <1>1 DEF Withheld, To!Cached, To!Age
<1>5. told' => \A p \in Places : Withheld(p) => gauge' > Limit
  <2> SUFFICES ASSUME ~ sample.missed, NEW p \in Places, Withheld(p)
               PROVE  gauge' > Limit
    BY <1>1
  <2>1. sample.oldest > Limit
    BY <1>1 DEF ToolsInv, Scanned
  <2>2. sample.oldest # To!Unknown
    BY <1>1, <2>1 DEF To!Unknown
  <2> QED
    BY <1>1, <2>1, <2>2
<1>6. To!WithheldIsTold'
  BY <1>4, <1>5 DEF To!WithheldIsTold, Withheld, To!Shown, To!Stale, To!Cached
<1> QED
  BY <1>2, <1>3, <1>6 DEF ToolsInv

LEMMA TickInv ==
  ASSUME To!ToolDataAssumption, ToolsInv, To!Tick
  PROVE  ToolsInv'
<1>1. /\ sample.at = "idle" /\ told' = FALSE /\ UNCHANGED <<sample, gauge>>
      /\ cache' = [p \in Places |-> IF cache[p].left > 1 THEN To!Aged(cache[p]) ELSE To!Nothing]
      /\ cache \in [Places -> Entries] /\ CacheTtl \in Nat
  BY DEF To!Tick, ToolsInv, ToolTypes, To!ToolDataAssumption
<1>2. cache' \in [Places -> Entries]
  <2>1. To!Nothing \in Entries
    BY EntryFacts
  <2>2. ASSUME NEW p \in Places, cache[p].left > 1
        PROVE  To!Aged(cache[p]) \in Entries
    <3>1. cache[p] \in Entries
      BY <1>1
    <3>2. \A e \in Entries : e.left > 1 => To!Aged(e) \in Entries
      BY EntryFacts
    <3> QED
      BY <2>2, <3>1, <3>2, Zenon
  <2> QED
    BY <1>1, <2>1, <2>2
<1> QED
  BY <1>1, <1>2 DEF ToolsInv, ToolTypes, Scanned, To!WithheldIsTold

(* What the fetcher does but for putting an entry into the cache. *)
LEMMA FetcherInv ==
  ASSUME ToolsInv, UNCHANGED <<cache, sample, gauge, told>>
  PROVE  ToolsInv'
BY DEF ToolsInv, ToolTypes, Scanned, Withheld, To!Cached, To!WithheldIsTold, To!Shown, To!Stale, To!Age

LEMMA StartScanInv ==
  ASSUME To!ToolDataAssumption, ToolsInv, To!StartScan
  PROVE  ToolsInv'
<1>1. sample' = [at |-> "scanning", rest |-> Places, oldest |-> To!Unknown, missed |-> FALSE] /\ UNCHANGED <<cache, gauge, told>>
  BY DEF To!StartScan, To!Idle
<1>2. ToolTypes' /\ Scanned'
  BY <1>1 DEF ToolsInv, ToolTypes, Samples, Scanned
<1>3. To!WithheldIsTold'
  BY <1>1 DEF ToolsInv, To!WithheldIsTold, To!Cached, To!Shown, To!Stale, To!Age
<1> QED
  BY <1>2, <1>3 DEF ToolsInv

LEMMA ToolsNext == To!ToolDataAssumption /\ ToolsInv /\ [To!Next]_(To!vars) => ToolsInv'
<1> SUFFICES ASSUME To!ToolDataAssumption, ToolsInv, [To!Next]_(To!vars) PROVE ToolsInv'
  BY SMTT(60)
<1>1. CASE To!StartPass \/ To!ReadPrevious \/ To!Kept \/ To!EndPass \/ To!Crash \/ UNCHANGED To!vars
  BY <1>1, FetcherInv DEF To!StartPass, To!ReadPrevious, To!Kept, To!EndPass, To!Crash, To!vars
<1> QED
  BY <1>1, AnsweredInv, StartScanInv, SampleOneInv, PublishInv, TickInv DEF To!Next

(* Where a card is withheld because its entry is too old the sampler has   *)
(* told of something too old, for any places and publishers, however many  *)
(* other entries are fresh and whether or not the fetcher runs (sample).   *)
LEMMA ToolsTell ==
  ASSUME To!ToolDataAssumption
  PROVE  To!Spec => []To!WithheldIsTold
<1>1. ToolsInv => To!WithheldIsTold
  BY DEF ToolsInv
<1>2. ToolsInv /\ [To!Next]_(To!vars) => ToolsInv'
  BY ToolsNext
<1>3. To!Init => ToolsInv
  BY ToolsInit
<1> QED
  BY <1>1, <1>2, <1>3, PTL DEF To!Spec

-----------------------------------------------------------------------------
(* The list of sources. *)

Ats == {"none", "read", "open", "fill", "rename", "queue", "answer"}

(* The request of an administrator is one for one line. *)
Formed(a) ==
  request[a] = So!NoRequest \/ /\ request[a].op \in {"add", "remove"} /\ request[a].at \in Ats \ {"none"}
                               /\ \E s \in So!Seeds : request[a].seed = {s}

(* Of that line it is not known what its last change will be answered, and *)
(* of two that are for the same line both are void.                        *)
Asked ==
  /\ file \subseteq So!Lines /\ tmp \subseteq SUBSET So!Lines
  /\ request \in [Admins -> So!Changes]
  /\ last \in [So!Seeds -> {"unknown", "added", "removed"}]
  /\ \A a \in Admins :
       /\ Formed(a)
       /\ request[a].at # "fill" => request[a].into = "none"
       /\ \A s \in request[a].seed : last[s] = "unknown"
       /\ \A b \in Admins \ {a} : request[a].seed \cap request[b].seed # {} => request[a].void

(* The only change under way: what was read is what is still there, and    *)
(* what is to take its place is that, changed.                             *)
Alone(a) ==
  /\ So!Others(a) = {}
  /\ request[a].at \in {"open", "fill"} => request[a].raw = file
  /\ request[a].at = "fill" => request[a].into = "tmp" /\ tmp = {{}}
  /\ request[a].at = "rename" =>
       tmp = {IF request[a].op = "add" THEN file \cup request[a].seed ELSE file \ request[a].seed}

(* Two changes have met: no answer counts, before they have ended or after. *)
Spoilt ==
  /\ torn /\ last = So!Unknown
  /\ \A a \in Admins : So!HasRead(a) => request[a].void

(* A change that is under way is the only one, or has met another. *)
Sure == Spoilt \/ \A a \in Admins : So!Changing(a) => Alone(a)

(* What has been done and is still to be answered is there. *)
Done ==
  \A a \in Admins : request[a].at \in {"queue", "answer"} /\ ~ request[a].void =>
    \A s \in request[a].seed : s \in file <=> request[a].op = "add"

SourcesInv == Asked /\ Sure /\ Done /\ So!ListIsKept

(* What is so of a request whatever else it is. *)
LEMMA OneRequest ==
  ASSUME Asked, NEW a \in Admins
  PROVE  /\ request[a] \in So!Changes
         /\ request[a].seed \subseteq So!Seeds /\ request[a].raw \subseteq So!Lines
         /\ So!Updated(a) \subseteq So!Lines
         /\ request[a].at = "none" => request[a] = So!NoRequest
         /\ request[a].at # "none" => /\ request[a].op \in {"add", "remove"}
                                      /\ \E s \in So!Seeds : request[a].seed = {s}
<1>1. request[a] \in So!Changes /\ Formed(a)
  BY DEF Asked
<1>2. request[a].seed \subseteq So!Seeds /\ request[a].raw \subseteq So!Lines
  BY <1>1 DEF So!Changes
<1>3. So!Updated(a) \subseteq So!Lines
  BY <1>2 DEF So!Updated, So!Lines
<1> QED
  BY <1>1, <1>2, <1>3 DEF Formed, So!NoRequest

LEMMA NoneAsked == So!NoRequest \in So!Changes /\ So!NoRequest.seed = {} /\ So!NoRequest.at = "none" /\ So!NoRequest.into = "none"
BY DEF So!NoRequest, So!Changes

LEMMA SourcesInit == So!Init => SourcesInv
<1> SUFFICES ASSUME So!Init PROVE SourcesInv
  OBVIOUS
<1>1. PICK byHand \in SUBSET (Sites \X {"typed"}) : file = Comments \cup byHand
  BY DEF So!Init
<1>2. byHand \subseteq So!Seeds
  BY DEF So!Seeds, So!Spellings
<1>3. /\ \A a \in Admins : request[a] = So!NoRequest
      /\ request \in [Admins -> So!Changes] /\ tmp = {}
      /\ last = [s \in So!Seeds |-> "unknown"] /\ Comments \subseteq file /\ file \subseteq So!Lines
  BY <1>1, <1>2, NoneAsked DEF So!Init, So!Lines, So!Unknown
<1>4. Asked
  BY <1>3, NoneAsked DEF Asked, Formed
<1>5. Sure /\ Done
  BY <1>3, NoneAsked DEF Sure, Done, So!Changing
<1>6. So!ListIsKept
  BY <1>3 DEF So!ListIsKept
<1> QED
  BY <1>4, <1>5, <1>6 DEF SourcesInv

(* A request that goes on is for the same line and of the same kind. *)
SameLine(b) == request'[b].op = request[b].op /\ request'[b].seed = request[b].seed
Onward(b) == SameLine(b) /\ (request[b].void => request'[b].void)

(* Steps of a request that is under way keep what is known of the lines.   *)
LEMMA AskedOn ==
  ASSUME Asked, request' \in [Admins -> So!Changes],
         \A b \in Admins : \/ request'[b] = So!NoRequest
                           \/ /\ Onward(b) /\ request[b].at # "none" /\ request'[b].at \in Ats \ {"none"}
                              /\ request'[b].at # "fill" => request'[b].into = "none"
                           \/ Onward(b) /\ request'[b].at = "none" /\ request'[b] = request[b],
         file' \subseteq So!Lines, tmp' \subseteq SUBSET So!Lines,
         last' \in [So!Seeds -> {"unknown", "added", "removed"}],
         \A s \in So!Seeds : last[s] = "unknown" =>
           last'[s] = "unknown" \/ \E b \in Admins : s \in request[b].seed /\ ~ request[b].void /\ request'[b] = So!NoRequest
  PROVE  Asked'
<1>1. ASSUME NEW a \in Admins
      PROVE  /\ Formed(a)' /\ (request'[a].at # "fill" => request'[a].into = "none")
             /\ request'[a].seed \in {{}, request[a].seed}
             /\ request'[a].seed # {} => (request[a].void => request'[a].void)
  BY OneRequest, NoneAsked DEF Formed, Onward, SameLine, Asked
<1>2. ASSUME NEW a \in Admins, NEW s \in request'[a].seed
      PROVE  last'[s] = "unknown"
  <2>1. /\ s \in request[a].seed /\ s \in So!Seeds /\ last[s] = "unknown"
        /\ request'[a] # So!NoRequest
    BY <1>1, <1>2, OneRequest, NoneAsked DEF Asked
  <2>2. ASSUME NEW b \in Admins, s \in request[b].seed, ~ request[b].void, request'[b] = So!NoRequest
        PROVE  FALSE
    <3>1. b # a
      BY <2>1, <2>2
    <3>2. request[b].seed \cap request[a].seed # {}
      BY <2>1, <2>2
    <3> QED
      BY <2>2, <3>1, <3>2 DEF Asked
  <2> QED
    BY <2>1, <2>2
<1>3. ASSUME NEW a \in Admins, NEW b \in Admins \ {a}, request'[a].seed \cap request'[b].seed # {}
      PROVE  request'[a].void
  <2>1. request'[a].seed = request[a].seed /\ request'[b].seed = request[b].seed /\ request'[a].seed # {}
    BY <1>1, <1>3
  <2>2. request[a].void
    BY <1>3, <2>1 DEF Asked
  <2> QED
    BY <1>1, <2>1, <2>2
<1> QED
  BY <1>1, <1>2, <1>3 DEF Asked

LEMMA AskAsked ==
  ASSUME Asked, NEW a \in Admins, NEW op \in {"add", "remove"}, NEW s \in So!Seeds, So!Ask(a, op, s)
  PROVE  /\ Asked'
         /\ request[a].at = "none" /\ request'[a].at = "read"
         /\ \A b \in Admins \ {a} : /\ Onward(b) /\ request'[b].at = request[b].at
                                    /\ request'[b].raw = request[b].raw /\ request'[b].into = request[b].into
<1>1. request[a] = So!NoRequest /\ UNCHANGED <<file, tmp, known, torn>> /\ last' = [last EXCEPT ![s] = "unknown"]
  BY DEF So!Ask
<1> DEFINE met == \E c \in Admins : request[c].seed = {s}
<1>2. request'[a] = [op |-> op, seed |-> {s}, raw |-> {}, at |-> "read", into |-> "none", void |-> met]
  BY DEF So!Ask, So!NoRequest
<1>3. ASSUME NEW b \in Admins \ {a}
      PROVE  request'[b] = [request[b] EXCEPT !.void = @ \/ request[b].seed = {s}]
  BY <1>3 DEF So!Ask
<1>4. ASSUME NEW b \in Admins \ {a}
      PROVE  /\ Onward(b) /\ request'[b].at = request[b].at
             /\ request'[b].raw = request[b].raw /\ request'[b].into = request[b].into
             /\ (request[b].seed = {s}) => request'[b].void
             /\ request'[b] \in So!Changes
             /\ Formed(b)'
  <2>1. request[b] \in So!Changes
    BY OneRequest
  <2>2. /\ request'[b].op = request[b].op /\ request'[b].seed = request[b].seed /\ request'[b].at = request[b].at
        /\ request'[b].raw = request[b].raw /\ request'[b].into = request[b].into
        /\ request'[b].void = (request[b].void \/ request[b].seed = {s})
        /\ request'[b] \in So!Changes
    BY <1>3, <2>1 DEF So!Changes
  <2>3. request[b] = So!NoRequest => request'[b] = So!NoRequest
    <3> SUFFICES ASSUME request[b] = So!NoRequest PROVE request'[b] = So!NoRequest
      OBVIOUS
    <3>1. /\ request[b].op = "none" /\ request[b].seed = {} /\ request[b].raw = {} /\ request[b].at = "none"
          /\ request[b].into = "none" /\ ~ request[b].void
      BY DEF So!NoRequest
    <3>2. ~ request'[b].void /\ request'[b].void \in BOOLEAN
      BY <2>2, <3>1 DEF So!Changes
    <3>3. request'[b].void = FALSE
      BY <3>2
    <3> QED
      BY <2>2, <3>1, <3>3 DEF So!NoRequest, So!Changes
  <2>4. Formed(b)'
    BY <2>2, <2>3 DEF Formed, Asked
  <2> QED
    BY <2>2, <2>4 DEF Onward, SameLine
<1>5. met \in BOOLEAN /\ request'[a] \in So!Changes
  BY <1>2 DEF So!Changes
<1>6. request' \in [Admins -> So!Changes]
  <2>1. request' = [b \in Admins |-> request'[b]]
    BY DEF So!Ask
  <2> QED
    BY <1>4, <1>5, <2>1
<1>7. Formed(a)' /\ request'[a].into = "none" /\ request'[a].seed = {s} /\ request'[a].at = "read" /\ (met => request'[a].void)
  BY <1>2 DEF Formed, Ats
<1> HIDE DEF met
<1>8. \A b \in Admins : \A t \in request'[b].seed : last'[t] = "unknown"
  <2> SUFFICES ASSUME NEW b \in Admins, NEW t \in request'[b].seed PROVE last'[t] = "unknown"
    OBVIOUS
  <2>1. last \in [So!Seeds -> {"unknown", "added", "removed"}]
    BY DEF Asked
  <2>2. CASE b = a
    BY <1>1, <1>7, <2>1, <2>2
  <2>3. CASE b # a
    <3>1. t \in request[b].seed /\ t \in So!Seeds /\ last[t] = "unknown"
      BY <1>4, <2>3, OneRequest DEF Onward, SameLine, Asked
    <3> QED
      BY <1>1, <2>1, <3>1
  <2> QED
    BY <2>2, <2>3
<1>9. ASSUME NEW b \in Admins, NEW c \in Admins \ {b}, request'[b].seed \cap request'[c].seed # {}
      PROVE  request'[b].void
  <2>1. CASE b = a
    <3>1. request'[c].seed = request[c].seed
      BY <1>4, <2>1 DEF Onward, SameLine
    <3>2. s \in request[c].seed
      BY <1>7, <1>9, <2>1, <3>1
    <3>3. request[c].seed = {s}
      BY <3>2, OneRequest, NoneAsked
    <3> QED
      BY <1>7, <2>1, <3>3 DEF met
  <2>2. CASE c = a
    <3>1. request'[b].seed = request[b].seed
      BY <1>4, <2>2 DEF Onward, SameLine
    <3>2. s \in request[b].seed
      BY <1>7, <1>9, <2>2, <3>1
    <3>3. request[b].seed = {s}
      BY <3>2, OneRequest, NoneAsked
    <3> QED
      BY <1>4, <2>2, <3>3
  <2>3. CASE b # a /\ c # a
    <3>1. request[b].void
      BY <1>4, <1>9, <2>3 DEF Onward, SameLine, Asked
    <3> QED
      BY <1>4, <2>3, <3>1 DEF Onward
  <2> QED
    BY <2>1, <2>2, <2>3
<1>10. /\ last' \in [So!Seeds -> {"unknown", "added", "removed"}]
       /\ file' \subseteq So!Lines /\ tmp' \subseteq SUBSET So!Lines
  BY <1>1 DEF Asked
<1>11. \A b \in Admins : Formed(b)' /\ (request'[b].at # "fill" => request'[b].into = "none")
  BY <1>4, <1>7 DEF Asked
<1>12. Asked'
  BY <1>6, <1>8, <1>9, <1>10, <1>11 DEF Asked
<1> QED
  BY <1>1, <1>4, <1>7, <1>12, NoneAsked

(* A step of one request that goes on, or ends, and of no other. *)
LEMMA StepAsked ==
  ASSUME Asked, NEW a \in Admins, NEW r \in So!Changes, request' = [request EXCEPT ![a] = r],
         \/ r = So!NoRequest
         \/ /\ r.op = request[a].op /\ r.seed = request[a].seed /\ (request[a].void => r.void)
            /\ request[a].at # "none" /\ r.at \in Ats \ {"none"} /\ (r.at # "fill" => r.into = "none"),
         file' \subseteq So!Lines, tmp' \subseteq SUBSET So!Lines,
         \/ last' = last
         \/ /\ r = So!NoRequest /\ last' \in [So!Seeds -> {"unknown", "added", "removed"}]
            /\ \A s \in So!Seeds : request[a].void \/ s \notin request[a].seed => last'[s] = last[s]
  PROVE  Asked' /\ request'[a] = r /\ \A b \in Admins \ {a} : request'[b] = request[b]
<1>1. /\ request \in [Admins -> So!Changes] /\ last \in [So!Seeds -> {"unknown", "added", "removed"}]
  BY DEF Asked
<1>2. request'[a] = r /\ (\A b \in Admins \ {a} : request'[b] = request[b]) /\ request' \in [Admins -> So!Changes]
  BY <1>1
<1>3. ASSUME NEW b \in Admins
      PROVE  \/ request'[b] = So!NoRequest
             \/ /\ Onward(b) /\ request[b].at # "none" /\ request'[b].at \in Ats \ {"none"}
                /\ request'[b].at # "fill" => request'[b].into = "none"
             \/ Onward(b) /\ request'[b].at = "none" /\ request'[b] = request[b]
  <2>1. CASE b = a
    BY <1>2, <2>1 DEF Onward, SameLine
  <2>2. CASE b # a
    <3>1. request'[b] = request[b]
      BY <1>2, <2>2
    <3> QED
      BY <3>1, OneRequest DEF Onward, SameLine, Asked, Formed, Ats
  <2> QED
    BY <2>1, <2>2
<1>4. last' \in [So!Seeds -> {"unknown", "added", "removed"}]
  BY <1>1
<1>5. ASSUME NEW s \in So!Seeds, last[s] = "unknown", last'[s] # "unknown"
      PROVE  \E b \in Admins : s \in request[b].seed /\ ~ request[b].void /\ request'[b] = So!NoRequest
  BY <1>2, <1>5
<1>6. Asked'
  BY <1>2, <1>3, <1>4, <1>5, AskedOn
<1> QED
  BY <1>2, <1>6

(* What is written to a file is lines. *)
LEMMA PutLines ==
  ASSUME Asked, NEW a \in Admins, NEW lines \in SUBSET So!Lines, So!Put(a, lines)
  PROVE  file' \subseteq So!Lines /\ tmp' \subseteq SUBSET So!Lines
<1>1. file \subseteq So!Lines /\ tmp \subseteq SUBSET So!Lines
  BY DEF Asked
<1>2. CASE request[a].into = "tmp"
  <2>1. PICK old \in tmp : \E rest \in SUBSET old : tmp' = {lines \cup rest}
    BY <1>2 DEF So!Put
  <2> QED
    BY <1>1, <1>2, <2>1 DEF So!Put
<1>3. CASE request[a].into = "file"
  <2>1. PICK rest \in SUBSET file : file' = lines \cup rest
    BY <1>3 DEF So!Put
  <2> QED
    BY <1>1, <1>3, <2>1 DEF So!Put
<1>4. CASE request[a].into \notin {"tmp", "file"}
  BY <1>1, <1>4 DEF So!Put
<1> QED
  BY <1>2, <1>3, <1>4

(* What a request that reads finds, and what it does to the others. *)
LEMMA ReadAsked ==
  ASSUME Asked, NEW a \in Admins, So!Read(a)
  PROVE  /\ Asked' /\ UNCHANGED <<file, tmp>> /\ request[a].at = "read"
         /\ SameLine(a) /\ (request[a].void => request'[a].void)
         /\ \A b \in Admins \ {a} : /\ Onward(b) /\ request'[b].at = request[b].at
                                    /\ request'[b].raw = request[b].raw /\ request'[b].into = request[b].into
         /\ request'[a].at \in {"open", "queue", "answer"}
         /\ request'[a].at = "queue" => request[a].op = "add" /\ (request'[a].void \/ request[a].seed \subseteq file)
         /\ request'[a].at = "answer" => request[a].op = "remove" /\ (request'[a].void \/ ~ (request[a].seed \subseteq file))
         /\ (\E c \in So!Others(a) : request[c].void) => request'[a].void
         /\ \/ /\ last' = last /\ (torn => torn')
               /\ request'[a].at = "open" => So!Others(a) = {} /\ request'[a].raw = file
            \/ /\ last' = So!Unknown /\ torn'
               /\ request'[a].void /\ \A b \in Admins : So!HasRead(b) => request'[b].void
<1>1. PICK readable \in BOOLEAN :
       LET raw   == IF readable THEN file ELSE {}
           step  == So!NextStep(a, raw)
           meets == step = "open" /\ (So!Others(a) # {} \/ ~readable)
           void  == request[a].void \/ ~readable \/ meets \/ \E c \in So!Others(a) : request[c].void
       IN  /\ request' = [b \in Admins |->
                IF b = a THEN [request[a] EXCEPT !.raw = IF step = "open" THEN raw ELSE {}, !.at = step, !.void = void]
                         ELSE [request[b] EXCEPT !.void = @ \/ (meets /\ So!HasRead(b))]]
           /\ last' = IF meets THEN So!Unknown ELSE last
           /\ torn' = (torn \/ meets)
  BY DEF So!Read
<1> DEFINE raw   == IF readable THEN file ELSE {}
           step  == So!NextStep(a, raw)
           meets == step = "open" /\ (So!Others(a) # {} \/ ~readable)
           void  == request[a].void \/ ~readable \/ meets \/ \E c \in So!Others(a) : request[c].void
           read  == IF step = "open" THEN raw ELSE {}
<1>2. /\ request' = [b \in Admins |->
           IF b = a THEN [request[a] EXCEPT !.raw = read, !.at = step, !.void = void]
                    ELSE [request[b] EXCEPT !.void = @ \/ (meets /\ So!HasRead(b))]]
      /\ last' = IF meets THEN So!Unknown ELSE last
      /\ torn' = (torn \/ meets)
  BY <1>1
<1>3. request[a].at = "read" /\ UNCHANGED <<file, tmp>>
  BY DEF So!Read
<1>4. request[a] \in So!Changes /\ request[a].op \in {"add", "remove"} /\ request[a].into = "none" /\ request[a].seed \subseteq So!Seeds
  BY <1>3, OneRequest DEF Asked
<1>5. raw \subseteq So!Lines /\ (readable => raw = file)
  BY DEF Asked
<1> HIDE DEF raw
<1>6. /\ step \in {"open", "queue", "answer"}
      /\ step = "queue" => request[a].op = "add" /\ request[a].seed \subseteq raw
      /\ step = "answer" => request[a].op = "remove" /\ ~ (request[a].seed \subseteq raw)
  BY <1>4 DEF So!NextStep, So!Parsed
<1>7. read \in SUBSET So!Lines /\ (step = "open" => read = raw)
  BY <1>5
<1>8. void \in BOOLEAN /\ meets \in BOOLEAN
  BY <1>4 DEF So!Changes
<1>9. /\ ~ readable => void
      /\ meets => void
      /\ request[a].void => void
      /\ (\E c \in So!Others(a) : request[c].void) => void
      /\ ~ meets /\ step = "open" => So!Others(a) = {} /\ readable
  OBVIOUS
<1> HIDE DEF step, read, void, meets
<1>10. /\ request'[a] \in So!Changes /\ SameLine(a) /\ request'[a].at = step /\ request'[a].void = void
       /\ request'[a].raw = read /\ request'[a].into = "none"
  <2>1. request'[a] = [request[a] EXCEPT !.raw = read, !.at = step, !.void = void]
    BY <1>2
  <2> QED
    BY <1>4, <1>6, <1>7, <1>8, <2>1 DEF SameLine, So!Changes
<1>11. ASSUME NEW b \in Admins \ {a}
       PROVE  /\ Onward(b) /\ request'[b].at = request[b].at
              /\ request'[b].raw = request[b].raw /\ request'[b].into = request[b].into
              /\ meets /\ So!HasRead(b) => request'[b].void
              /\ request'[b] \in So!Changes
              /\ request[b].at = "none" => request'[b] = So!NoRequest
  <2>1. request'[b] = [request[b] EXCEPT !.void = @ \/ (meets /\ So!HasRead(b))]
    BY <1>2
  <2>2. request[b] \in So!Changes
    BY OneRequest
  <2> DEFINE more == request[b].void \/ (meets /\ So!HasRead(b))
  <2>3. more \in BOOLEAN /\ (request[b].void => more) /\ (meets /\ So!HasRead(b) => more)
    BY <1>8, <2>2 DEF So!Changes
  <2>4. request'[b] = [request[b] EXCEPT !.void = more]
    BY <2>1
  <2>5. request[b].at = "none" => request'[b] = So!NoRequest
    <3> SUFFICES ASSUME request[b].at = "none" PROVE request'[b] = So!NoRequest
      OBVIOUS
    <3>1. request[b] = So!NoRequest
      BY OneRequest
    <3>2. ~ So!HasRead(b) /\ request[b].void = FALSE
      BY <3>1 DEF So!HasRead, So!Changing, So!NoRequest
    <3>3. more = FALSE
      BY <3>2
    <3> HIDE DEF more
    <3>4. /\ request[b].op = "none" /\ request[b].seed = {} /\ request[b].raw = {} /\ request[b].at = "none"
          /\ request[b].into = "none"
      BY <3>1 DEF So!NoRequest
    <3>5. request'[b] = [op |-> "none", seed |-> {}, raw |-> {}, at |-> "none", into |-> "none", void |-> more]
      BY <2>2, <2>4, <3>4 DEF So!Changes
    <3> QED
      BY <3>3, <3>5 DEF So!NoRequest
  <2> HIDE DEF more
  <2> QED
    BY <2>2, <2>3, <2>4, <2>5 DEF Onward, SameLine, So!Changes
<1>12. request' \in [Admins -> So!Changes]
  <2>1. request' = [b \in Admins |-> request'[b]]
    BY <1>2
  <2> QED
    BY <1>10, <1>11, <2>1
<1>13. last' \in [So!Seeds -> {"unknown", "added", "removed"}] /\ \A s \in So!Seeds : last[s] = "unknown" => last'[s] = "unknown"
  BY <1>2 DEF Asked, So!Unknown
<1>14. Asked'
  <2>1. ASSUME NEW b \in Admins
        PROVE  \/ request'[b] = So!NoRequest
               \/ /\ Onward(b) /\ request[b].at # "none" /\ request'[b].at \in Ats \ {"none"}
                  /\ request'[b].at # "fill" => request'[b].into = "none"
    <3>1. CASE b = a
      BY <1>3, <1>6, <1>9, <1>10, <3>1 DEF Onward, Ats
    <3>2. CASE b # a
      <4>1. CASE request[b].at = "none"
        BY <1>11, <3>2, <4>1
      <4>2. CASE request[b].at # "none"
        <5>1. request[b].at \in Ats \ {"none"} /\ (request[b].at # "fill" => request[b].into = "none")
          BY <4>2, NoneAsked DEF Asked, Formed
        <5> QED
          BY <1>11, <3>2, <4>2, <5>1
      <4> QED
        BY <4>1, <4>2
    <3> QED
      BY <3>1, <3>2
  <2>2. file' \subseteq So!Lines /\ tmp' \subseteq SUBSET So!Lines
    BY <1>3 DEF Asked
  <2> QED
    BY <1>12, <1>13, <2>1, <2>2, AskedOn
<1>15. \A b \in Admins : meets /\ So!HasRead(b) => request'[b].void
  BY <1>9, <1>10, <1>11
<1>16. \/ /\ last' = last /\ (torn => torn')
          /\ request'[a].at = "open" => So!Others(a) = {} /\ request'[a].raw = file
       \/ /\ last' = So!Unknown /\ torn'
          /\ request'[a].void /\ \A b \in Admins : So!HasRead(b) => request'[b].void
  <2>1. CASE meets
    <3>1. last' = So!Unknown /\ (torn' = (torn \/ TRUE))
      BY <1>2, <2>1
    <3> QED
      BY <1>9, <1>10, <1>15, <2>1, <3>1
  <2>2. CASE ~ meets
    <3>1. last' = last /\ (torn' = (torn \/ FALSE))
      BY <1>2, <2>2
    <3>2. request'[a].at = "open" => So!Others(a) = {} /\ request'[a].raw = file
      BY <1>5, <1>7, <1>9, <1>10, <2>2
    <3> QED
      BY <3>1, <3>2
  <2> QED
    BY <2>1, <2>2
<1>17. /\ request'[a].at = "queue" => request[a].op = "add" /\ (request'[a].void \/ request[a].seed \subseteq file)
       /\ request'[a].at = "answer" => request[a].op = "remove" /\ (request'[a].void \/ ~ (request[a].seed \subseteq file))
       /\ (request[a].void => request'[a].void)
       /\ (\E c \in So!Others(a) : request[c].void) => request'[a].void
       /\ request'[a].at \in {"open", "queue", "answer"}
  BY <1>5, <1>6, <1>9, <1>10
<1> QED
  BY <1>3, <1>10, <1>11, <1>14, <1>16, <1>17

(* What a request does that is under way, but for reading and renaming. *)
Works(a) == So!Open(a) \/ So!Fill(a) \/ So!Fail(a) \/ So!Queue(a) \/ So!Answer(a)

LEMMA WorkAsked ==
  ASSUME Asked, NEW a \in Admins, Works(a)
  PROVE  /\ Asked' /\ request[a].at # "none"
         /\ \A b \in Admins \ {a} : request'[b] = request[b]
         /\ \/ request'[a] = So!NoRequest
            \/ SameLine(a) /\ request'[a].void = request[a].void
         /\ So!HasRead(a)
         /\ request[a].void => last' = last
<1>1. /\ request[a] \in So!Changes /\ So!Updated(a) \in SUBSET So!Lines
      /\ request[a].at # "fill" => request[a].into = "none"
      /\ file \subseteq So!Lines /\ tmp \subseteq SUBSET So!Lines
      /\ last \in [So!Seeds -> {"unknown", "added", "removed"}]
  BY OneRequest DEF Asked
<1>2. CASE So!Open(a)
  <2> DEFINE r == [request[a] EXCEPT !.at = "fill", !.into = "tmp"]
  <2>1. r \in So!Changes /\ r.op = request[a].op /\ r.seed = request[a].seed /\ r.void = request[a].void /\ r.at = "fill"
    BY <1>1 DEF So!Changes
  <2>2. /\ request' = [request EXCEPT ![a] = r] /\ request[a].at = "open"
        /\ last' = last /\ file' \subseteq So!Lines /\ tmp' \subseteq SUBSET So!Lines
    BY <1>1, <1>2 DEF So!Open, Asked
  <2> HIDE DEF r
  <2>3. Asked' /\ request'[a] = r /\ \A b \in Admins \ {a} : request'[b] = request[b]
    BY <2>1, <2>2, StepAsked DEF Ats
  <2> QED
    BY <2>1, <2>2, <2>3 DEF SameLine, So!HasRead, So!Changing
<1>3. CASE So!Fill(a)
  <2> DEFINE r == [request[a] EXCEPT !.at = "rename", !.into = "none", !.raw = {}]
  <2>1. r \in So!Changes /\ r.op = request[a].op /\ r.seed = request[a].seed /\ r.void = request[a].void /\ r.at = "rename" /\ r.into = "none"
    BY <1>1 DEF So!Changes
  <2>2. request' = [request EXCEPT ![a] = r] /\ request[a].at = "fill" /\ last' = last /\ So!Put(a, So!Updated(a))
    BY <1>1, <1>3 DEF So!Fill, Asked
  <2>3. file' \subseteq So!Lines /\ tmp' \subseteq SUBSET So!Lines
    BY <1>1, <2>2, PutLines
  <2> HIDE DEF r
  <2>4. Asked' /\ request'[a] = r /\ \A b \in Admins \ {a} : request'[b] = request[b]
    BY <2>1, <2>2, <2>3, StepAsked DEF Ats
  <2> QED
    BY <2>1, <2>2, <2>4 DEF SameLine, So!HasRead, So!Changing
<1>4. CASE So!Fail(a)
  <2>1. PICK part \in SUBSET So!Updated(a) : So!Put(a, part)
    BY <1>4 DEF So!Fail
  <2>2. file' \subseteq So!Lines /\ tmp' \subseteq SUBSET So!Lines
    BY <1>1, <2>1, PutLines
  <2>3. request' = [request EXCEPT ![a] = So!NoRequest] /\ So!Changing(a) /\ last' = last
    BY <1>4 DEF So!Fail
  <2>4. Asked' /\ request'[a] = So!NoRequest /\ \A b \in Admins \ {a} : request'[b] = request[b]
    BY <2>2, <2>3, NoneAsked, StepAsked
  <2> QED
    BY <2>3, <2>4 DEF So!HasRead, So!Changing
<1>5. CASE So!Queue(a)
  <2> DEFINE r == [request[a] EXCEPT !.at = "answer"]
  <2>1. /\ r \in So!Changes /\ r.op = request[a].op /\ r.seed = request[a].seed /\ r.void = request[a].void /\ r.at = "answer"
        /\ r.into = request[a].into
    BY <1>1 DEF So!Changes
  <2>2. /\ request' = [request EXCEPT ![a] = r] /\ request[a].at = "queue"
        /\ last' = last /\ file' \subseteq So!Lines /\ tmp' \subseteq SUBSET So!Lines
    BY <1>1, <1>5 DEF So!Queue, So!Goes, Asked
  <2> HIDE DEF r
  <2>3. Asked' /\ request'[a] = r /\ \A b \in Admins \ {a} : request'[b] = request[b]
    BY <1>1, <2>1, <2>2, StepAsked DEF Ats
  <2> QED
    BY <2>1, <2>2, <2>3 DEF SameLine, So!HasRead
<1>6. CASE So!Answer(a)
  <2>1. /\ request' = [request EXCEPT ![a] = So!NoRequest] /\ request[a].at = "answer"
        /\ file' \subseteq So!Lines /\ tmp' \subseteq SUBSET So!Lines
    BY <1>1, <1>6 DEF So!Answer
  <2>2. /\ last' \in [So!Seeds -> {"unknown", "added", "removed"}]
        /\ \A s \in So!Seeds : request[a].void \/ s \notin request[a].seed => last'[s] = last[s]
    BY <1>1, <1>6 DEF So!Answer
  <2>3. Asked' /\ request'[a] = So!NoRequest /\ \A b \in Admins \ {a} : request'[b] = request[b]
    BY <2>1, <2>2, NoneAsked, StepAsked
  <2>4. request[a].void => last' = last
    BY <1>1, <2>2
  <2> QED
    BY <2>1, <2>3, <2>4 DEF So!HasRead
<1> QED
  BY <1>2, <1>3, <1>4, <1>5, <1>6 DEF Works

LEMMA RenameAsked ==
  ASSUME Asked, NEW a \in Admins, So!Rename(a)
  PROVE  /\ Asked' /\ request[a].at = "rename" /\ file' \in tmp /\ UNCHANGED <<last, torn>>
         /\ SameLine(a) /\ request'[a].void = request[a].void
         /\ request'[a].at = IF request[a].op = "add" THEN "queue" ELSE "answer"
         /\ \A b \in Admins \ {a} : SameLine(b) /\ request'[b].void = request[b].void /\ request'[b].at = request[b].at
<1>1. /\ request[a].at = "rename" /\ file' \in tmp /\ tmp' = {} /\ UNCHANGED <<last, torn>>
      /\ file' \subseteq So!Lines
  BY DEF So!Rename, Asked
<1>2. request[a] \in So!Changes /\ request[a].into = "none" /\ request[a].op \in {"add", "remove"}
  BY <1>1, OneRequest DEF Asked
<1>3. /\ SameLine(a) /\ request'[a].void = request[a].void /\ request'[a].into = "none" /\ request'[a] \in So!Changes
      /\ request'[a].at = IF request[a].op = "add" THEN "queue" ELSE "answer"
  <2>1. request'[a] = [request[a] EXCEPT !.at = IF request[a].op = "add" THEN "queue" ELSE "answer"]
    BY DEF So!Rename
  <2> QED
    BY <1>2, <2>1 DEF SameLine, So!Changes
<1>4. ASSUME NEW b \in Admins \ {a}
      PROVE  /\ SameLine(b) /\ request'[b].void = request[b].void /\ request'[b].at = request[b].at
             /\ request'[b] \in So!Changes /\ (request[b].into = "none" => request'[b] = request[b])
  <2>1. request'[b] = [request[b] EXCEPT !.into = So!Moved(@)] /\ request[b] \in So!Changes
    BY OneRequest DEF So!Rename
  <2>2. /\ So!Moved(request[b].into) \in {"none", "tmp", "file", "gone"}
        /\ request[b].into = "none" => So!Moved(request[b].into) = request[b].into
    BY <2>1 DEF So!Moved, So!Changes
  <2> QED
    BY <2>1, <2>2 DEF SameLine, So!Changes
<1>5. request' \in [Admins -> So!Changes]
  <2>1. request' = [b \in Admins |-> request'[b]]
    BY DEF So!Rename
  <2> QED
    BY <1>3, <1>4, <2>1
<1>6. ASSUME NEW b \in Admins
      PROVE  \/ request'[b] = So!NoRequest
             \/ /\ Onward(b) /\ request[b].at # "none" /\ request'[b].at \in Ats \ {"none"}
                /\ request'[b].at # "fill" => request'[b].into = "none"
  <2>1. CASE b = a
    BY <1>1, <1>3, <2>1 DEF Onward, Ats
  <2>2. CASE b # a /\ request[b].at = "none"
    <3>1. request[b] = So!NoRequest
      BY <2>2, OneRequest
    <3> QED
      BY <1>4, <2>2, <3>1, NoneAsked
  <2>3. CASE b # a /\ request[b].at # "none"
    <3>1. request[b].at \in Ats \ {"none"} /\ (request[b].at # "fill" => request[b].into = "none")
      BY <2>3, NoneAsked DEF Asked, Formed
    <3> QED
      BY <1>4, <2>3, <3>1 DEF Onward
  <2> QED
    BY <2>1, <2>2, <2>3
<1>7. last' \in [So!Seeds -> {"unknown", "added", "removed"}] /\ \A s \in So!Seeds : last[s] = "unknown" => last'[s] = "unknown"
  BY <1>1 DEF Asked
<1>8. Asked'
  BY <1>1, <1>5, <1>6, <1>7, AskedOn
<1> QED
  BY <1>1, <1>3, <1>4, <1>8

LEMMA StopAsked ==
  ASSUME Asked, request' = [a \in Admins |-> So!NoRequest], UNCHANGED <<file, tmp, last>>
  PROVE  Asked'
BY NoneAsked DEF Asked, Formed

(* After two changes have met nothing is sure for as long as one is under  *)
(* way: a request that reads in the meantime is void as well.              *)
LEMMA SpoiltNext ==
  ASSUME Asked, Spoilt, NEW c \in Admins, So!Changing(c), [So!Next]_(So!vars)
  PROVE  Spoilt'
<1>1. torn /\ last = So!Unknown /\ (\A a \in Admins : So!HasRead(a) => request[a].void) /\ request[c].void /\ request[c].at # "none"
  BY DEF Spoilt, So!HasRead, So!Changing
<1>2. ASSUME NEW a \in Admins, NEW s \in So!Seeds, NEW op \in {"add", "remove"}, So!Ask(a, op, s)
      PROVE  Spoilt'
  <2>1. torn' /\ last' = So!Unknown
    BY <1>1, <1>2 DEF So!Ask, So!Unknown
  <2>2. ASSUME NEW b \in Admins, So!HasRead(b)'
        PROVE  request'[b].void
    BY <1>1, <1>2, <2>2, AskAsked DEF So!HasRead, So!Changing, Onward
  <2> QED
    BY <2>1, <2>2 DEF Spoilt
<1>3. ASSUME NEW a \in Admins, So!Read(a)
      PROVE  Spoilt'
  <2>1. request[a].at = "read" /\ c # a /\ c \in So!Others(a)
    BY <1>3, ReadAsked DEF So!Changing, So!Others
  <2>2. request'[a].void
    BY <1>1, <1>3, <2>1, ReadAsked
  <2>3. ASSUME NEW b \in Admins, So!HasRead(b)'
        PROVE  request'[b].void
    BY <1>1, <1>3, <2>2, <2>3, ReadAsked DEF So!HasRead, So!Changing, Onward
  <2>4. torn' /\ last' = So!Unknown
    BY <1>1, <1>3, ReadAsked
  <2> QED
    BY <2>3, <2>4 DEF Spoilt
<1>4. ASSUME NEW a \in Admins, Works(a)
      PROVE  Spoilt'
  <2>1. torn' = torn
    BY <1>4 DEF Works, So!Open, So!Fill, So!Fail, So!Queue, So!Answer
  <2>2. last' = last
    BY <1>1, <1>4, WorkAsked
  <2>3. ASSUME NEW b \in Admins, So!HasRead(b)'
        PROVE  request'[b].void
    <3>1. CASE b = a
      BY <1>1, <1>4, <2>3, <3>1, WorkAsked, NoneAsked DEF So!HasRead, So!Changing
    <3>2. CASE b # a
      BY <1>1, <1>4, <2>3, <3>2, WorkAsked DEF So!HasRead, So!Changing
    <3> QED
      BY <3>1, <3>2
  <2> QED
    BY <1>1, <2>1, <2>2, <2>3 DEF Spoilt, So!Unknown
<1>5. ASSUME NEW a \in Admins, So!Rename(a)
      PROVE  Spoilt'
  <2>1. ASSUME NEW b \in Admins, So!HasRead(b)'
        PROVE  request'[b].void
    BY <1>1, <1>5, <2>1, RenameAsked DEF So!HasRead, So!Changing
  <2> QED
    BY <1>1, <1>5, <2>1, RenameAsked DEF Spoilt, So!Unknown
<1>6. CASE So!Stop
  BY <1>1, <1>6, NoneAsked DEF So!Stop, Spoilt, So!HasRead, So!Changing, So!Unknown
<1>7. CASE So!CrawlerStarts \/ UNCHANGED So!vars
  BY <1>1, <1>7 DEF So!CrawlerStarts, So!vars, Spoilt, So!HasRead, So!Changing, So!Unknown
<1>8. ASSUME NEW a \in Admins, NEW s \in So!Seeds, So!AskAdd(a, s) \/ So!AskRemove(a, s)
      PROVE  Spoilt'
  BY <1>2, <1>8 DEF So!AskAdd, So!AskRemove, So!Normal, So!Seeds, So!Spellings
<1> QED
  BY <1>3, <1>4, <1>5, <1>6, <1>7, <1>8 DEF So!Next, Works

(* From here on, changes that are under way are alone. *)
Orderly == \A a \in Admins : So!Changing(a) => Alone(a)
OrderlyInv == Asked /\ Orderly /\ Done /\ So!ListIsKept

(* A step that moves no request to, or on within, a change. *)
LEMMA StillOrderly ==
  ASSUME OrderlyInv, Asked', UNCHANGED <<file, tmp>>,
         \A b \in Admins : So!Changing(b)' =>
           So!Changing(b) /\ SameLine(b) /\ request'[b].at = request[b].at /\ request'[b].raw = request[b].raw /\ request'[b].into = request[b].into
  PROVE  Orderly'
<1> SUFFICES ASSUME NEW a \in Admins, So!Changing(a)' PROVE Alone(a)'
  BY DEF Orderly
<1>1. So!Changing(a) /\ Alone(a)
  BY DEF OrderlyInv, Orderly
<1>2. So!Others(a)' = {}
  BY <1>1 DEF Alone, So!Others
<1> QED
  BY <1>1, <1>2 DEF Alone, SameLine

LEMMA AskOrderly ==
  ASSUME OrderlyInv, NEW a \in Admins, NEW s \in So!Seeds, NEW op \in {"add", "remove"}, So!Ask(a, op, s)
  PROVE  SourcesInv'
<1>1. /\ Asked' /\ request'[a].at = "read" /\ UNCHANGED <<file, tmp, torn>> /\ last' = [last EXCEPT ![s] = "unknown"]
      /\ \A b \in Admins \ {a} : /\ Onward(b) /\ request'[b].at = request[b].at
                                 /\ request'[b].raw = request[b].raw /\ request'[b].into = request[b].into
      /\ last \in [So!Seeds -> {"unknown", "added", "removed"}]
  <2>1. Asked
    BY DEF OrderlyInv
  <2>2. UNCHANGED <<file, tmp, torn>> /\ last' = [last EXCEPT ![s] = "unknown"]
    BY DEF So!Ask
  <2> QED
    BY <2>1, <2>2, AskAsked DEF Asked
<1>2. Orderly'
  <2>1. \A b \in Admins : So!Changing(b)' =>
          So!Changing(b) /\ SameLine(b) /\ request'[b].at = request[b].at /\ request'[b].raw = request[b].raw /\ request'[b].into = request[b].into
    BY <1>1 DEF So!Changing, Onward
  <2> QED
    BY <1>1, <2>1, StillOrderly
<1>3. Done'
  BY <1>1 DEF OrderlyInv, Done, Onward, SameLine
<1>4. So!ListIsKept'
  BY <1>1 DEF OrderlyInv, So!ListIsKept
<1> QED
  BY <1>1, <1>2, <1>3, <1>4 DEF SourcesInv, Sure, Orderly

LEMMA ReadOrderly ==
  ASSUME OrderlyInv, NEW a \in Admins, So!Read(a)
  PROVE  SourcesInv'
<1>1. /\ Asked /\ Asked' /\ UNCHANGED <<file, tmp>> /\ request[a].at = "read" /\ SameLine(a)
      /\ \A b \in Admins \ {a} : /\ Onward(b) /\ request'[b].at = request[b].at
                                 /\ request'[b].raw = request[b].raw /\ request'[b].into = request[b].into
      /\ request'[a].at \in {"open", "queue", "answer"}
  BY ReadAsked DEF OrderlyInv
<1>2. CASE /\ last' = So!Unknown /\ torn'
           /\ request'[a].void /\ \A b \in Admins : So!HasRead(b) => request'[b].void
  <2>1. Spoilt'
    BY <1>1, <1>2 DEF Spoilt, So!HasRead, So!Changing, So!Unknown
  <2>2. (Sure /\ Done /\ So!ListIsKept)'
    BY <1>1, <2>1 DEF Spoilt, Sure, Done, So!HasRead, So!ListIsKept, So!Unknown
  <2> QED
    BY <1>1, <2>2 DEF SourcesInv
<1>3. CASE /\ last' = last /\ (torn => torn')
           /\ request'[a].at = "open" => So!Others(a) = {} /\ request'[a].raw = file
  <2>1. So!ListIsKept'
    BY <1>1, <1>3 DEF OrderlyInv, So!ListIsKept
  <2>2. Done'
    <3>1. PICK s \in So!Seeds : request[a].seed = {s}
      BY <1>1, OneRequest
    <3>2. request'[a].at \in {"queue", "answer"} /\ ~ request'[a].void => (s \in file <=> request'[a].op = "add")
      BY <1>1, <3>1, ReadAsked DEF SameLine
    <3> QED
      BY <1>1, <3>1, <3>2 DEF OrderlyInv, Done, Onward, SameLine
  <2>3. CASE request'[a].at = "open"
    <3>1. \A b \in Admins \ {a} : ~ So!Changing(b)'
      BY <1>1, <1>3, <2>3 DEF So!Others, So!Changing
    <3>2. Alone(a)'
      BY <1>1, <1>3, <2>3, <3>1 DEF Alone, So!Others
    <3>3. Orderly'
      BY <3>1, <3>2 DEF Orderly
    <3> QED
      BY <1>1, <2>1, <2>2, <3>3 DEF SourcesInv, Sure, Orderly
  <2>4. CASE request'[a].at # "open"
    <3>1. \A b \in Admins : So!Changing(b)' =>
            So!Changing(b) /\ SameLine(b) /\ request'[b].at = request[b].at /\ request'[b].raw = request[b].raw /\ request'[b].into = request[b].into
      BY <1>1, <2>4 DEF So!Changing, Onward
    <3>2. Orderly'
      BY <1>1, <3>1, StillOrderly
    <3> QED
      BY <1>1, <2>1, <2>2, <3>2 DEF SourcesInv, Sure, Orderly
  <2> QED
    BY <2>3, <2>4
<1> QED
  BY <1>1, <1>2, <1>3, ReadAsked

(* What is written is written to the temporary file, and to an empty one. *)
LEMMA ChangeOrderly ==
  ASSUME OrderlyInv, NEW a \in Admins, So!Open(a) \/ So!Fill(a) \/ So!Fail(a)
  PROVE  SourcesInv'
<1>1. /\ Asked /\ Asked' /\ (\A b \in Admins \ {a} : request'[b] = request[b])
      /\ UNCHANGED <<last, torn>> /\ So!Changing(a)
  BY WorkAsked DEF Works, OrderlyInv, So!Open, So!Fill, So!Fail, So!Changing
<1>2. So!Others(a) = {} /\ Alone(a)
  BY <1>1 DEF OrderlyInv, Orderly, Alone
<1>3. \A b \in Admins \ {a} : ~ So!Changing(b) /\ ~ So!Changing(b)'
  BY <1>1, <1>2 DEF So!Others, So!Changing
<1>4. So!Others(a)' = {}
  BY <1>3 DEF So!Others
<1>5. request[a] \in So!Changes /\ (request[a].at # "fill" => request[a].into = "none")
  BY <1>1, OneRequest DEF Asked
<1>6. file' = file /\ (So!Changing(a)' => Alone(a)') /\ request'[a].at \notin {"queue", "answer"}
  <2>1. CASE So!Open(a)
    <3>1. /\ request'[a].at = "fill" /\ request'[a].into = "tmp" /\ request'[a].raw = request[a].raw
          /\ request[a].at = "open" /\ file' = file /\ tmp' = {{}}
      BY <1>1, <1>5, <2>1 DEF So!Open, Asked, So!Changes
    <3> QED
      BY <1>2, <1>4, <3>1 DEF Alone
  <2>2. CASE So!Fill(a)
    <3>1. /\ request'[a].at = "rename" /\ request'[a].op = request[a].op /\ request'[a].seed = request[a].seed
          /\ request[a].at = "fill" /\ So!Put(a, So!Updated(a))
      BY <1>1, <1>5, <2>2 DEF So!Fill, Asked, So!Changes
    <3>2. file' = file /\ tmp' = {So!Updated(a)}
      <4>1. request[a].into = "tmp" /\ tmp = {{}}
        BY <1>2, <3>1 DEF Alone
      <4>2. file' = file /\ \E old \in tmp : \E new \in {So!Updated(a) \cup rest : rest \in SUBSET old} : tmp' = {new}
        BY <3>1, <4>1 DEF So!Put
      <4>3. PICK new \in {So!Updated(a) \cup rest : rest \in SUBSET {}} : tmp' = {new}
        BY <4>1, <4>2
      <4>4. new = So!Updated(a)
        BY <4>3
      <4> QED
        BY <4>2, <4>3, <4>4
    <3>3. So!Updated(a) = IF request[a].op = "add" THEN file \cup request[a].seed ELSE file \ request[a].seed
      BY <1>2, <3>1 DEF Alone, So!Updated
    <3> QED
      BY <1>4, <3>1, <3>2, <3>3 DEF Alone
  <2>3. CASE So!Fail(a)
    <3>1. PICK part \in SUBSET So!Updated(a) : So!Put(a, part)
      BY <2>3 DEF So!Fail
    <3>2. request[a].into # "file"
      BY <1>2, <1>5 DEF Alone
    <3>3. file' = file
      BY <3>1, <3>2 DEF So!Put
    <3>4. request'[a] = So!NoRequest
      BY <1>1, <2>3 DEF So!Fail, Asked
    <3> QED
      BY <3>3, <3>4, NoneAsked DEF So!Changing
  <2> QED
    BY <2>1, <2>2, <2>3
<1>7. Orderly'
  BY <1>3, <1>6 DEF Orderly
<1>8. Done'
  BY <1>1, <1>6 DEF OrderlyInv, Done
<1>9. So!ListIsKept'
  BY <1>1, <1>6 DEF OrderlyInv, So!ListIsKept
<1> QED
  BY <1>1, <1>7, <1>8, <1>9 DEF SourcesInv, Sure, Orderly

(* The list changes here, and only in the line that was asked about. *)
LEMMA RenameOrderly ==
  ASSUME So!SourcesAssumption, OrderlyInv, NEW a \in Admins, So!Rename(a)
  PROVE  SourcesInv'
<1>1. /\ Asked /\ Asked' /\ request[a].at = "rename" /\ file' \in tmp /\ UNCHANGED <<last, torn>> /\ SameLine(a)
      /\ request'[a].void = request[a].void
      /\ request'[a].at = IF request[a].op = "add" THEN "queue" ELSE "answer"
      /\ \A b \in Admins \ {a} : SameLine(b) /\ request'[b].void = request[b].void /\ request'[b].at = request[b].at
  BY RenameAsked DEF OrderlyInv
<1>2. Alone(a)
  BY <1>1 DEF OrderlyInv, Orderly, So!Changing
<1>3. file' = IF request[a].op = "add" THEN file \cup request[a].seed ELSE file \ request[a].seed
  BY <1>1, <1>2 DEF Alone
<1>4. PICK s \in So!Seeds : request[a].seed = {s} /\ last[s] = "unknown" /\ request[a].op \in {"add", "remove"}
  BY <1>1, OneRequest DEF Asked
<1>5. \A b \in Admins : ~ So!Changing(b)'
  BY <1>1, <1>2 DEF Alone, So!Others, So!Changing
<1>6. Done'
  <2> SUFFICES ASSUME NEW b \in Admins, request'[b].at \in {"queue", "answer"}, ~ request'[b].void, NEW t \in request'[b].seed
               PROVE  t \in file' <=> request'[b].op = "add"
    BY DEF Done
  <2>1. CASE b = a
    BY <1>1, <1>3, <1>4, <2>1 DEF SameLine
  <2>2. CASE b # a
    <3>1. /\ t \in request[b].seed /\ ~ request[b].void /\ request[b].at \in {"queue", "answer"} /\ request'[b].op = request[b].op
      BY <1>1, <2>2 DEF SameLine
    <3>2. t # s
      BY <1>1, <1>4, <2>2, <3>1 DEF Asked
    <3>3. t \in file <=> request[b].op = "add"
      BY <3>1 DEF OrderlyInv, Done
    <3> QED
      BY <1>3, <1>4, <3>1, <3>2, <3>3
  <2> QED
    BY <2>1, <2>2
<1>7. So!ListIsKept'
  <2>1. s \notin Comments
    BY DEF So!SourcesAssumption
  <2>2. ~ torn' => Comments \subseteq file'
    BY <1>1, <1>3, <1>4, <2>1 DEF OrderlyInv, So!ListIsKept
  <2>3. ASSUME NEW t \in So!Seeds
        PROVE  /\ last'[t] = "added" => t \in file'
               /\ last'[t] = "removed" => t \notin file'
    BY <1>1, <1>3, <1>4 DEF OrderlyInv, So!ListIsKept
  <2> QED
    BY <2>2, <2>3 DEF So!ListIsKept
<1> QED
  BY <1>1, <1>5, <1>6, <1>7 DEF SourcesInv, Sure

LEMMA AnswerOrderly ==
  ASSUME OrderlyInv, NEW a \in Admins, So!Queue(a) \/ So!Answer(a)
  PROVE  SourcesInv'
<1>1. /\ Asked /\ Asked' /\ (\A b \in Admins \ {a} : request'[b] = request[b])
      /\ UNCHANGED <<file, tmp, torn>> /\ request[a].at \in {"queue", "answer"}
  BY WorkAsked DEF Works, OrderlyInv, So!Queue, So!Goes, So!Answer
<1>2. request[a] \in So!Changes
  BY <1>1, OneRequest
<1>3. /\ So!Queue(a) => last' = last /\ SameLine(a) /\ request'[a].at = "answer" /\ request'[a].void = request[a].void
      /\ So!Answer(a) => request'[a] = So!NoRequest
  BY <1>1, <1>2 DEF So!Queue, So!Goes, So!Answer, SameLine, Asked, So!Changes
<1>4. Orderly'
  <2>1. \A b \in Admins : So!Changing(b)' =>
          So!Changing(b) /\ SameLine(b) /\ request'[b].at = request[b].at /\ request'[b].raw = request[b].raw /\ request'[b].into = request[b].into
    BY <1>1, <1>3, NoneAsked DEF So!Changing, SameLine
  <2> QED
    BY <1>1, <2>1, StillOrderly
<1>5. Done'
  BY <1>1, <1>3, NoneAsked DEF OrderlyInv, Done, SameLine
<1>6. So!ListIsKept'
  <2>1. CASE So!Queue(a)
    BY <1>1, <1>3, <2>1 DEF OrderlyInv, So!ListIsKept
  <2>2. CASE So!Answer(a)
    <3>1. last' = [s \in So!Seeds |->
            IF request[a].void \/ s \notin request[a].seed THEN last[s] ELSE IF request[a].op = "add" THEN "added" ELSE "removed"]
      BY <2>2 DEF So!Answer
    <3>2. ASSUME NEW s \in So!Seeds
          PROVE  /\ last'[s] = "added" => s \in file
                 /\ last'[s] = "removed" => s \notin file
      <4>1. CASE request[a].void \/ s \notin request[a].seed
        BY <3>1, <4>1 DEF OrderlyInv, So!ListIsKept
      <4>2. CASE ~ request[a].void /\ s \in request[a].seed
        <5>1. s \in file <=> request[a].op = "add"
          BY <1>1, <4>2 DEF OrderlyInv, Done
        <5>2. last'[s] = IF request[a].op = "add" THEN "added" ELSE "removed"
          BY <3>1, <4>2
        <5> QED
          BY <5>1, <5>2
      <4> QED
        BY <4>1, <4>2
    <3> QED
      BY <1>1, <3>2 DEF OrderlyInv, So!ListIsKept
  <2> QED
    BY <2>1, <2>2
<1> QED
  BY <1>1, <1>4, <1>5, <1>6 DEF SourcesInv, Sure, Orderly

LEMMA OrderlyNext ==
  ASSUME So!SourcesAssumption, OrderlyInv, [So!Next]_(So!vars)
  PROVE  SourcesInv'
<1>1. ASSUME NEW a \in Admins, NEW s \in So!Seeds, So!AskAdd(a, s) \/ So!AskRemove(a, s)
      PROVE  SourcesInv'
  <2>1. So!Normal(s) \in So!Seeds
    BY DEF So!Normal, So!Seeds, So!Spellings
  <2> QED
    BY <1>1, <2>1, AskOrderly DEF So!AskAdd, So!AskRemove
<1>2. CASE So!Stop
  <2>1. Asked' /\ UNCHANGED <<file, tmp, last, torn>> /\ \A a \in Admins : request'[a] = So!NoRequest
    BY <1>2, StopAsked DEF So!Stop, OrderlyInv
  <2> QED
    BY <2>1, NoneAsked DEF OrderlyInv, SourcesInv, Sure, Done, So!ListIsKept, So!Changing
<1>3. CASE So!CrawlerStarts \/ UNCHANGED So!vars
  <2>1. UNCHANGED <<file, tmp, request, last, torn>>
    BY <1>3 DEF So!CrawlerStarts, So!vars
  <2>2. Asked'
    BY <2>1 DEF OrderlyInv, Asked, Formed
  <2>3. Orderly'
    BY <2>1 DEF OrderlyInv, Orderly, Alone, So!Others, So!Changing
  <2>4. Done' /\ So!ListIsKept'
    BY <2>1 DEF OrderlyInv, Done, So!ListIsKept
  <2> QED
    BY <2>2, <2>3, <2>4 DEF SourcesInv, Sure, Orderly
<1> QED
  BY <1>1, <1>2, <1>3, ReadOrderly, ChangeOrderly, RenameOrderly, AnswerOrderly DEF So!Next

(* Every step keeps the invariant of the requests. *)
LEMMA AskedNext == Asked /\ [So!Next]_(So!vars) => Asked'
<1> SUFFICES ASSUME Asked, [So!Next]_(So!vars) PROVE Asked'
  OBVIOUS
<1>1. ASSUME NEW a \in Admins, NEW s \in So!Seeds, So!AskAdd(a, s) \/ So!AskRemove(a, s)
      PROVE  Asked'
  <2>1. So!Normal(s) \in So!Seeds
    BY DEF So!Normal, So!Seeds, So!Spellings
  <2> QED
    BY <1>1, <2>1, AskAsked DEF So!AskAdd, So!AskRemove
<1>2. CASE So!Stop
  BY <1>2, StopAsked DEF So!Stop
<1>3. CASE So!CrawlerStarts \/ UNCHANGED So!vars
  BY <1>3 DEF So!CrawlerStarts, So!vars, Asked, Formed
<1> QED
  BY <1>1, <1>2, <1>3, ReadAsked, WorkAsked, RenameAsked DEF So!Next, Works

LEMMA SourcesNext == So!SourcesAssumption /\ SourcesInv /\ [So!Next]_(So!vars) => SourcesInv'
<1> SUFFICES ASSUME So!SourcesAssumption, SourcesInv, [So!Next]_(So!vars) PROVE SourcesInv'
  OBVIOUS
<1>1. CASE Spoilt /\ \E c \in Admins : So!Changing(c)
  <2>1. Asked' /\ Spoilt'
    BY <1>1, SpoiltNext, AskedNext DEF SourcesInv
  <2> QED
    BY <2>1 DEF SourcesInv, Spoilt, Sure, Done, So!HasRead, So!ListIsKept, So!Unknown
<1>2. CASE ~ (Spoilt /\ \E c \in Admins : So!Changing(c))
  BY <1>2, OrderlyNext DEF SourcesInv, Sure, OrderlyInv, Orderly
<1> QED
  BY <1>1, <1>2

(* Until two changes meet, or one is made to a file that could not be read, *)
(* no comment is lost from it; and what was answered since two changes last *)
(* met holds, for any number of administrators, any lines and at whatever   *)
(* step the API stops (add_source, remove_source).                          *)
LEMMA SourcesKeep ==
  ASSUME So!SourcesAssumption
  PROVE  So!Spec => []So!ListIsKept
<1>1. SourcesInv => So!ListIsKept
  BY DEF SourcesInv
<1>2. SourcesInv /\ [So!Next]_(So!vars) => SourcesInv'
  BY SourcesNext
<1> QED
  BY <1>1, <1>2, SourcesInit, PTL DEF So!Spec

-----------------------------------------------------------------------------
(* The log filter. *)

(* An override has what is left of its time, and once that is over no more *)
(* than one round of the timer.                                            *)
LevelInv ==
  /\ left \in 0 .. Lo!Never /\ timer \in 0 .. Period /\ age \in Nat
  /\ left = Lo!Never => current = Baseline
  /\ left \in 1 .. OverrideTtl => age + left = OverrideTtl
  /\ left = 0 => age + timer <= OverrideTtl + Period

LEMMA LevelInit == Lo!LevelAssumption /\ Lo!Init => LevelInv
BY DEF Lo!LevelAssumption, Lo!Init, LevelInv, Lo!Never

LEMMA LevelNext == Lo!LevelAssumption /\ LevelInv /\ [Lo!Next]_(Lo!vars) => LevelInv'
<1> SUFFICES ASSUME Lo!LevelAssumption, LevelInv, [Lo!Next]_(Lo!vars) PROVE LevelInv'
  BY ZenonT(60)
<1> USE DEF Lo!LevelAssumption, LevelInv, Lo!Never
<1>1. ASSUME NEW f \in Filters, Lo!SetLevel(f)
      PROVE  LevelInv'
  BY <1>1 DEF Lo!SetLevel
<1>2. CASE Lo!AskRevert
  BY <1>2 DEF Lo!AskRevert, Lo!RevertLevel
<1>3. CASE Lo!Look
  BY <1>3 DEF Lo!Look, Lo!Expired
<1>4. CASE Lo!RevertFound
  BY <1>4 DEF Lo!RevertFound, Lo!RevertLevel
<1>5. CASE Lo!Tick
  <2>1. timer \in Nat /\ timer > 0 /\ timer' = timer - 1 /\ current' = current
    BY <1>5 DEF Lo!Tick
  <2>2. CASE left = Lo!Never
    BY <1>5, <2>1, <2>2 DEF Lo!Tick
  <2>3. CASE left = 0
    BY <1>5, <2>1, <2>3 DEF Lo!Tick
  <2>4. CASE left \in 1 .. OverrideTtl
    <3>1. age <= OverrideTtl + Period /\ age' = age + 1 /\ left' = left - 1
      BY <1>5, <2>4 DEF Lo!Tick
    <3> QED
      BY <2>1, <2>4, <3>1
  <2> QED
    BY <2>2, <2>3, <2>4
<1>6. CASE UNCHANGED Lo!vars
  BY <1>6 DEF Lo!vars
<1> QED
  BY <1>1, <1>2, <1>3, <1>4, <1>5, <1>6 DEF Lo!Next

(* No override outlives the time it is given by more than a round of the   *)
(* timer, for any filters and times, whatever is set or taken back between *)
(* the two steps of the timer (set_level, expire_override).                *)
LEMMA LevelEnds ==
  ASSUME Lo!LevelAssumption
  PROVE  Lo!Spec => []Lo!OverrideEnds
<1>1. LevelInv => Lo!OverrideEnds
  BY DEF Lo!LevelAssumption, LevelInv, Lo!OverrideEnds, Lo!Never
<1>2. LevelInv /\ [Lo!Next]_(Lo!vars) => LevelInv'
  BY LevelNext
<1>3. Lo!Init => LevelInv
  BY LevelInit
<1> QED
  BY <1>1, <1>2, <1>3, PTL DEF Lo!Spec
-----------------------------------------------------------------------------
(* All four. *)

(* What IndicesProofs says of the indices is said of those of Operations.  *)
LEMMA IndicesAreRead ==
  ASSUME Ix!IndicesAssumption
  PROVE  Ix!Spec => []Ix!WritesAreRead
<1>1. Indexed!IndicesAssumption
  BY DEF Ix!IndicesAssumption, Indexed!IndicesAssumption
<1>2. Ix!Init => Indexed!Init
  BY SMTT(60) DEF Ix!Init, Ix!Processes, Ix!NotFound, Indexed!Init, Indexed!Processes, Indexed!NotFound
<1>3. [Ix!Next]_(Ix!vars) => [Indexed!Next]_(Indexed!vars)
  BY DEF Ix!Next, Indexed!Next,
         Ix!RunTask, Ix!Step, Ix!Start, Ix!LookForName, Ix!LookForVersions, Ix!LookAgain, Ix!EnsureIndex,
         Ix!Created, Ix!ApplySettings, Ix!Migrated, Ix!WriteBatch, Ix!Acknowledge, Ix!Fail, Ix!Found,
         Ix!Submit, Ix!Onward, Ix!Newest, Ix!First, Ix!Destination, Ix!AnswerTo, Ix!With, Ix!Made,
         Ix!Max, Ix!Present, Ix!Processes, Ix!Alias, Ix!Nobody, Ix!NotFound, Ix!engine, Ix!vars,
         Indexed!RunTask, Indexed!Step, Indexed!Start, Indexed!LookForName, Indexed!LookForVersions,
         Indexed!LookAgain, Indexed!EnsureIndex, Indexed!Created, Indexed!ApplySettings,
         Indexed!Migrated, Indexed!WriteBatch, Indexed!Acknowledge, Indexed!Fail, Indexed!Found,
         Indexed!Submit, Indexed!Onward, Indexed!Newest, Indexed!First, Indexed!Destination,
         Indexed!AnswerTo, Indexed!With, Indexed!Made, Indexed!Max, Indexed!Present, Indexed!Processes,
         Indexed!Alias, Indexed!Nobody, Indexed!NotFound, Indexed!engine, Indexed!vars
<1>4. Indexed!WritesAreRead => Ix!WritesAreRead
  BY DEF Ix!WritesAreRead, Ix!Serving, Ix!Alias, Ix!Present, Ix!Max,
         Indexed!WritesAreRead, Indexed!Serving, Indexed!Alias, Indexed!Present, Indexed!Max
<1> QED
  BY <1>1, <1>2, <1>3, <1>4, Indexed!AcknowledgedIsRead, PTL DEF Ix!Spec, Indexed!Spec

(* And the same of the limiter. *)
LEMMA WindowsAreHeld ==
  ASSUME Rl!RateLimitAssumption
  PROVE  Rl!Spec => []Rl!WindowsHold
<1>1. Limited!RateLimitAssumption
  BY DEF Rl!RateLimitAssumption, Limited!RateLimitAssumption
<1>2. Rl!Init => Limited!Init
  BY SMTT(60) DEF Rl!Init, Rl!NoCall, Limited!Init, Limited!NoCall
<1>3. [Rl!Next]_(Rl!vars) => [Limited!Next]_(Limited!vars)
  BY DEF Rl!Next, Rl!TakeKey, Rl!ReadClock, Rl!Count, Rl!Tick, Rl!Swept, Rl!Full, Rl!Elapsed,
         Rl!Counted, Rl!Renewed, Rl!Grant, Rl!NoCall, Rl!vars, Rl!Cardinality, Limited!Cardinality,
         Limited!Next, Limited!TakeKey, Limited!ReadClock, Limited!Count, Limited!Tick, Limited!Swept,
         Limited!Full, Limited!Elapsed, Limited!Counted, Limited!Renewed, Limited!Grant, Limited!NoCall,
         Limited!vars
<1>4. Limited!WindowsHold => Rl!WindowsHold
  BY DEF Rl!WindowsHold, Rl!During, Rl!Span, Limited!WindowsHold, Limited!During, Limited!Span,
         Rl!Cardinality, Limited!Cardinality
<1> QED
  BY <1>1, <1>2, <1>3, <1>4, Limited!RequestsAreLimited, PTL DEF Rl!Spec, Limited!Spec

(* What changes none of one component's variables is a step of that        *)
(* component at which nothing happens.                                     *)
LEMMA StepOfEach ==
  ASSUME [Next]_vars
  PROVE  /\ [Ix!Next]_(Ix!vars) /\ [To!Next]_(To!vars) /\ [So!Next]_(So!vars)
         /\ [Lo!Next]_(Lo!vars) /\ [Rl!Next]_(Rl!vars)
<1>1. CASE UNCHANGED vars
  BY <1>1 DEF vars, indexVars, toolVars, sourceVars, levelVars, limitVars,
              Ix!vars, Ix!engine, To!vars, So!vars, Lo!vars, Rl!vars
<1>2. CASE IndicesStep
  BY <1>2 DEF IndicesStep, toolVars, sourceVars, levelVars, limitVars, To!vars, So!vars, Lo!vars, Rl!vars
<1>3. CASE ToolStep
  BY <1>3 DEF ToolStep, indexVars, sourceVars, levelVars, limitVars, Ix!vars, Ix!engine, So!vars, Lo!vars, Rl!vars
<1>4. CASE SourcesStep
  BY <1>4 DEF SourcesStep, indexVars, toolVars, levelVars, limitVars, Ix!vars, Ix!engine, To!vars, Lo!vars, Rl!vars
<1>5. CASE LevelStep
  BY <1>5 DEF LevelStep, indexVars, toolVars, sourceVars, limitVars, Ix!vars, Ix!engine, To!vars, So!vars, Rl!vars
<1>6. CASE LimiterStep
  BY <1>6 DEF LimiterStep, indexVars, toolVars, sourceVars, levelVars, Ix!vars, Ix!engine, To!vars, So!vars, Lo!vars
<1> QED
  BY <1>1, <1>2, <1>3, <1>4, <1>5, <1>6 DEF Next

(* Each of the five, seen by itself, behaves as its own module says.       *)
THEOREM EachIsItself == Spec => Ix!Spec /\ To!Spec /\ So!Spec /\ Lo!Spec /\ Rl!Spec
<1>1. Init => Ix!Init /\ To!Init /\ So!Init /\ Lo!Init /\ Rl!Init
  BY DEF Init
<1>2. [Next]_vars => /\ [Ix!Next]_(Ix!vars) /\ [To!Next]_(To!vars) /\ [So!Next]_(So!vars)
                     /\ [Lo!Next]_(Lo!vars) /\ [Rl!Next]_(Rl!vars)
  BY StepOfEach
<1> QED
  BY <1>1, <1>2, PTL DEF Spec, Ix!Spec, To!Spec, So!Spec, Lo!Spec, Rl!Spec

(* However many migrations and writers run at once, whatever fails, what   *)
(* was acknowledged is in the index a process that starts now takes the    *)
(* alias for, and the API reads that one, with its settings                *)
(* (MeiliClient::resolve, cmd_migrate, AppState::resolve_index).           *)
THEOREM AcknowledgedIsRead == Spec => []WritesAreRead
BY EachIsItself, IndicesAreRead, OperationsAssumption, PTL DEF WritesAreRead

(* Where a card is withheld because its entry is too old the sampler has   *)
(* told of something too old, for any places and publishers, however many  *)
(* other entries are fresh and whether or not the fetcher runs (sample).   *)
THEOREM WithheldIsReported == Spec => []WithheldIsTold
BY EachIsItself, ToolsTell, OperationsAssumption, PTL DEF WithheldIsTold

(* Until two changes meet, or one is made to a file that could not be      *)
(* read, no comment is lost from it; and what has been answered since two   *)
(* changes last met, for a line no other request was about, holds until the *)
(* line's next change: for any number of administrators whose requests lie  *)
(* beside each other in any way, for any lines, and at whatever step the    *)
(* API stops (add_source, remove_source).                                  *)
THEOREM SourcesAreKept == Spec => []ListIsKept
BY EachIsItself, SourcesKeep, OperationsAssumption, PTL DEF ListIsKept

(* No override outlives the time it is given by more than a round of the   *)
(* timer, for any filters and times, whatever is set or taken back between *)
(* the two steps of the timer (set_level, expire_override).                *)
THEOREM OverridesEnd == Spec => []OverrideEnds
BY EachIsItself, LevelEnds, OperationsAssumption, PTL DEF OverrideEnds

(* In the time of one window, less what a request may be late, a network   *)
(* is let through for less than two windows' requests, and for less than   *)
(* three where the salt was made anew, and the table stays within its cap, *)
(* for any networks, requests at once, limits, windows and tables          *)
(* (RateLimiter::check, client_key).                                       *)
THEOREM LimitsHold == Spec => []WindowsHold
BY EachIsItself, WindowsAreHeld, OperationsAssumption, PTL DEF WindowsHold
=============================================================================
