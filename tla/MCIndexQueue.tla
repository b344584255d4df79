---------------------------- MODULE MCIndexQueue ----------------------------
(***************************************************************************)
(* Small instances of IndexQueue.  Mixed: one document of each nature.     *)
(* They are as tight as RoomAssumption allows: the stream holds just what  *)
(* may be unread.                                                          *)
(***************************************************************************)
EXTENDS IndexQueue, TLC

CONSTANTS d1, d2, d3, d4

Mixed == d1 :> "sound" @@ d2 :> "rejected" @@ d3 :> "refused"
Pair  == d1 :> "sound" @@ d2 :> "rejected"
Sound == d1 :> "sound" @@ d2 :> "sound" @@ d3 :> "sound" @@ d4 :> "sound"

Alike == Permutations(Producers) \cup Permutations(Indexers)
=============================================================================
