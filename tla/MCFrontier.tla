----------------------------- MODULE MCFrontier -----------------------------
(***************************************************************************)
(* Small instances of Frontier.  Discovery: a seed and two pages behind    *)
(* it that link to each other, on one host or on two.                      *)
(***************************************************************************)
EXTENDS Frontier, TLC

CONSTANTS h1, h2, u1, u2, u3

TwoHosts == u1 :> h1 @@ u2 :> h1 @@ u3 :> h2
Web      == u1 :> {u2, u3} @@ u2 :> {u3} @@ u3 :> {u2}

Solo     == u1 :> {}
SoloHost == u1 :> h1
Pair     == u1 :> {u2} @@ u2 :> {u1}
PairHost == u1 :> h1 @@ u2 :> h1
PairHosts == u1 :> h1 @@ u2 :> h2

WorkersAlike == Permutations(Workers)
=============================================================================
