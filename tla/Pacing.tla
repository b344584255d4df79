------------------------------- MODULE Pacing -------------------------------
(***************************************************************************)
(* What a fetcher promises a host: its callers take turns, each of which   *)
(* starts no sooner than the host's slot and pushes the slot past itself   *)
(* by at least the delay the host's rules ask for.  Nothing moves the slot *)
(* back but reading the rules anew, which starts over.                     *)
(***************************************************************************)
EXTENDS Integers

CONSTANTS Fetchers, Callers,
          FetcherOf    \* the fetcher of each caller

VARIABLES
  slot,   \* when each fetcher may next turn to the host
  gap,    \* the delay its rules ask for
  turn    \* when the turn of a waiting caller starts; NoTurn if it has none

vars == <<slot, gap, turn>>

NoTurn == 0 - 1

Init ==
  /\ slot = [f \in Fetchers |-> 0] /\ gap = [f \in Fetchers |-> 0]
  /\ turn = [c \in Callers |-> NoTurn]

Others(f, v, w) == \A g \in Fetchers \ {f} : w[g] = v[g]

TakeTurn(c) ==
  LET f == FetcherOf[c] IN
  /\ turn[c] = NoTurn /\ turn'[c] >= slot[f] /\ slot'[f] >= turn'[c] + gap[f]
  /\ \A d \in Callers \ {c} : turn'[d] = turn[d]
  /\ Others(f, slot, slot')
  /\ UNCHANGED gap

EndTurn(c) ==
  /\ turn' = [turn EXCEPT ![c] = NoTurn]
  /\ UNCHANGED <<slot, gap>>

Postpone(f) ==
  /\ slot'[f] >= slot[f] /\ Others(f, slot, slot')
  /\ UNCHANGED <<gap, turn>>

ReadRules(f) ==
  /\ Others(f, slot, slot') /\ Others(f, gap, gap')
  /\ UNCHANGED turn

Next ==
  \/ \E c \in Callers : TakeTurn(c) \/ EndTurn(c)
  \/ \E f \in Fetchers : Postpone(f) \/ ReadRules(f)

Spec == Init /\ [][Next]_vars
=============================================================================
