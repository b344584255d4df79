---------------------------- MODULE MCPoliteness ----------------------------
EXTENDS Politeness, TLC

CONSTANTS worker, poller, f1, f2

(* A worker and the sitemap poller, each with a fetcher of its own. *)
MCFetcherOf == worker :> f1 @@ poller :> f2

MCDelayOf == [p \in Policies |-> IF p = "slow" THEN 2 ELSE NoDelay]

(* The two differ in nothing the model keeps. *)
Alike == {p \in Permutations({worker, poller, f1, f2}) :
            p[worker] \in Callers /\ p[MCFetcherOf[worker]] = MCFetcherOf[p[worker]]}
=============================================================================
