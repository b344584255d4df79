------------------------------ MODULE Delivery ------------------------------
(***************************************************************************)
(* What the index queue promises of the documents it is given: a sound one *)
(* comes to be found and stays so, any other comes to be buried, and one   *)
(* that is neither waits.  A sound one is buried only if it was misjudged, *)
(* nothing is taken away without an excuse, and what is buried is brought  *)
(* back all at once, by an operator who has read it and queued it again    *)
(* before he deletes.                                                      *)
(***************************************************************************)
CONSTANTS Docs,
          Sound     \* the documents the search engine takes

VARIABLES
  place,    \* "unknown", "waiting", "found", "buried" or "taken", of each document
  excused,  \* the documents that may be taken away
  misjudged,\* the documents an answer of the engine was held against wrongly
  phase     \* what the operator does next

vars == <<place, excused, misjudged, phase>>

Init ==
  /\ place = [d \in Docs |-> "unknown"]
  /\ excused = {} /\ misjudged = {} /\ phase = "idle"

(* Any other document is where it was, or was waiting and is taken away,   *)
(* which has to be excused.                                                *)
Kept(d) ==
  \/ place'[d] = place[d]
  \/ place[d] = "waiting" /\ place'[d] = "taken" /\ d \in excused'

Queue(d) ==
  /\ place[d] = "unknown" /\ place'[d] = "waiting"
  /\ \A e \in Docs \ {d} : Kept(e)
  /\ excused \subseteq excused' /\ UNCHANGED <<misjudged, phase>>

(* What was taken away may still be on its way, and what was misjudged be  *)
(* found after it was buried.                                              *)
Found(d) ==
  /\ d \in Sound /\ place'[d] = "found"
  /\ \/ place[d] \in {"waiting", "taken"}
     \/ place[d] = "buried" /\ d \in misjudged

Judged(d) ==
  /\ d \notin Sound \/ d \in misjudged
  /\ place[d] \in {"waiting", "taken"} /\ place'[d] = "buried"

(* There is no room for all that is buried. *)
Dropped(d) ==
  /\ place[d] = "buried" /\ place'[d] \in {"waiting", "taken"}
  /\ d \in excused'

Deliver ==
  /\ \A d \in Docs : Kept(d) \/ Found(d) \/ Judged(d) \/ Dropped(d)
  /\ excused \subseteq excused' /\ UNCHANGED <<misjudged, phase>>

(* A failure of the engine that is taken for the fault of one document.    *)
Misjudge(d) == misjudged' = misjudged \cup {d} /\ UNCHANGED <<place, excused, phase>>

(* Who was misjudged may be found and buried at once. *)
Read ==
  /\ phase = "idle" /\ phase' = "requeue"
  /\ \E d \in Docs : place[d] = "buried" \/ d \in misjudged
  /\ UNCHANGED <<place, excused, misjudged>>

(* What was read may have been dropped since. *)
Requeue ==
  /\ phase = "requeue" /\ phase' = "delete"
  /\ \A d \in Docs : \/ Kept(d)
                     \/ place[d] = "taken" /\ place'[d] = "waiting" /\ d \in excused
  /\ excused \subseteq excused' /\ UNCHANGED misjudged

Risen(d) ==
  IF place[d] = "buried" THEN \/ place'[d] = "waiting"
                              \/ place'[d] = "taken" /\ d \in excused'
  ELSE place'[d] = place[d]

(* The deletion may fail. *)
Delete ==
  /\ phase = "delete" /\ phase' = "idle"
  /\ \/ \A d \in Docs : Risen(d)
     \/ UNCHANGED place
  /\ excused \subseteq excused' /\ UNCHANGED misjudged

Next == \/ \E d \in Docs : Queue(d) \/ Misjudge(d)
        \/ Deliver \/ Read \/ Requeue \/ Delete

Spec == Init /\ [][Next]_vars
=============================================================================
