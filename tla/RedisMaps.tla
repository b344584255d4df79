----------------------------- MODULE RedisMaps -----------------------------
(***************************************************************************)
(* The Redis data types the crawler keeps its state in, as the code uses   *)
(* them.  A sorted set is a partial function from members to scores and a  *)
(* hash a partial function from fields to values, so both are functions    *)
(* whose domain is the set of members present.  Each operator is one       *)
(* command, which Redis executes atomically.                               *)
(***************************************************************************)
EXTENDS Naturals

(* f is a sorted set (or hash) with members in D and scores in R. *)
IsMap(f, D, R) == /\ DOMAIN f \subseteq D
                  /\ f \in [DOMAIN f -> R]

EmptyMap == [x \in {} |-> 0]

(* ZADD key s m, and HSET key m s: the last write wins. *)
Put(f, m, s) == [x \in DOMAIN f \cup {m} |-> IF x = m THEN s ELSE f[x]]

(* ZADD key NX s m: an existing member keeps its score. *)
PutNew(f, m, s) == IF m \in DOMAIN f THEN f ELSE Put(f, m, s)

(* ZADD key XX s m: only an existing member is rescored. *)
PutOld(f, m, s) == IF m \in DOMAIN f THEN Put(f, m, s) ELSE f

(* ZREM and HDEL, of every member of S. *)
Remove(f, S) == [x \in DOMAIN f \ S |-> f[x]]

(* The members with the lowest score among S: what a range from -inf with   *)
(* LIMIT 0 1, or ZPOPMIN, may return.  Redis breaks ties by member name,    *)
(* which no property depends on, so any of them is allowed.                 *)
Lowest(f, S) == {m \in S : \A n \in S : f[m] <= f[n]}

(* The members scored at or below s: ZRANGEBYSCORE key -inf s. *)
UpTo(f, s) == {m \in DOMAIN f : f[m] <= s}
=============================================================================
