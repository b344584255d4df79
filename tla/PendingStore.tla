---------------------------- MODULE PendingStore ----------------------------
(***************************************************************************)
(* The tokens searches leave for their summaries.  Tokens are numbered in  *)
(* the order they are issued, from 1; those up to "stale" are past their   *)
(* time to live.  Every operation holds the store's lock throughout.       *)
(***************************************************************************)
EXTENDS Integers, FiniteSets, FiniteSetsExt

CONSTANT MaxPending   \* tokens the store holds, at least one

Empty == [issued |-> 0, stale |-> 0, pending |-> {}]

Fresh(store) == {t \in store.pending : t > store.stale}

WithoutOldest(tokens) == IF Cardinality(tokens) >= MaxPending THEN tokens \ {Min(tokens)} ELSE tokens

(* Swept on every insertion, and only then. *)
Insert(store) ==
  [store EXCEPT !.issued = @ + 1, !.pending = WithoutOldest(Fresh(store)) \cup {store.issued + 1}]

(* Faulty: asked for, a token stays. *)
TakeCopy(store, t) == store

(* A token is gone once asked for, old or not. *)
Take(store, t) == [store EXCEPT !.pending = @ \ {t}]

(* Time passes: tokens grow old in the order they were issued in. *)
Age(store) == [store EXCEPT !.stale = IF @ < store.issued THEN @ + 1 ELSE @]
=============================================================================
