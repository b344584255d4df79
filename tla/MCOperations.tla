----------------------------- MODULE MCOperations -----------------------------
(* Small instances of the five, and one way for those that stay as they are *)
(* to begin.                                                                *)
EXTENDS Operations, TLC

MCLayouts == {{}, {0}, {1}, {1, 2}, {0, 1}}
MCLags    == {-1, 1, 3}
MCColdest == -25

MCInit ==
  /\ Init
  /\ subject = "indices" \/ Ix!Present = {1}
  /\ subject = "sources" \/ file = Comments

(* No requests, no networks and no administrators differ but by name. *)
MCSymmetry == Permutations(Callers) \cup Permutations(Networks) \cup Permutations(Admins)

MCSpec == MCInit /\ [][Next]_vars
=============================================================================
