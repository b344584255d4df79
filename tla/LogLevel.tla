-------------------------------- MODULE LogLevel --------------------------------
(***************************************************************************)
(* The log filter: the configured one, or an override that an              *)
(* administrator set and that ends by itself.  A timer looks whether an     *)
(* override has expired and, in a second step that takes the lock again,    *)
(* puts the configured filter back.  The clock counts what is left until    *)
(* something falls due.                                                    *)
(***************************************************************************)
EXTENDS Naturals

CONSTANTS Filters,  \* what may be asked for
          Malformed,\* those of them that do not parse
          Baseline, \* the configured one
          Ttl,      \* how long an override lasts
          Period    \* how often the timer looks

VARIABLES
  current, \* the filter
  left,    \* how long the override has left, where there is one
  timer,   \* until the timer looks
  found,   \* the timer has found the override expired
  age      \* since the last override was set

(* Times are natural numbers. *)
LevelAssumption == Ttl \in Nat /\ Period \in Nat

vars == <<current, left, timer, found, age>>

Never == Ttl + 1

TypeOK == /\ current \in Filters \cup {Baseline} /\ left \in 0 .. Never /\ timer \in 0 .. Period
          /\ found \in BOOLEAN /\ age \in 0 .. Ttl + Period + 1

Init == current = Baseline /\ left = Never /\ timer = Period /\ found = FALSE /\ age = 0

(* set_level: one that does not parse changes nothing. *)
SetLevel(filter) ==
  /\ filter \notin Malformed
  /\ current' = filter /\ left' = Ttl /\ age' = 0
  /\ UNCHANGED <<timer, found>>

RevertLevel == current' = Baseline /\ left' = Never

(* An administrator asks for no filter at all. *)
AskRevert == RevertLevel /\ UNCHANGED <<timer, found, age>>

(* expire_override *)
(* Faulty: only at the very moment. *)
ExpiredNow(remaining) == remaining = 1
Expired(remaining) == remaining = 0

Look ==
  /\ timer = 0 /\ ~found
  /\ timer' = IF Expired(left) THEN 0 ELSE Period
  /\ found' = Expired(left)
  /\ UNCHANGED <<current, left, age>>

RevertFound ==
  /\ found /\ RevertLevel
  /\ found' = FALSE /\ timer' = Period
  /\ UNCHANGED age

(* The clock does not pass a moment at which the timer is to look. *)
Tick ==
  /\ timer > 0
  /\ timer' = timer - 1
  /\ left' = IF left \in {0, Never} THEN left ELSE left - 1
  /\ age' = IF age > Ttl + Period THEN age ELSE age + 1
  /\ UNCHANGED <<current, found>>

Next == \/ \E f \in Filters : SetLevel(f)
        \/ AskRevert \/ Look \/ RevertFound \/ Tick
Spec == Init /\ [][Next]_vars

(* An override ends by itself within the time it is given and one round of  *)
(* the timer, and is not forgotten, whatever was set before and between     *)
(* the two steps of the timer (set_level, expire_override).                *)
OverrideEnds == age > Ttl + Period => current = Baseline
=============================================================================
