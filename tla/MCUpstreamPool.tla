---------------------------- MODULE MCUpstreamPool ----------------------------
(* Three backends: 1 actively checked, 2 passive with a budget of two      *)
(* probes, 3 passive and twice as heavy.  Two requests overlap.            *)
EXTENDS UpstreamPool, TLC

MCWeight == <<1, 1, 2>>
MCFailure == <<1, 2, 1>>
MCSuccess == <<1, 2, 1>>
MCKeyHash == [k \in Keys |-> IF k = NoKey THEN 0 ELSE 3]
MCReplicaHash == <<<<2, 5>>, <<4, 6>>, <<1, 7>>>>
(* A weighted schedule has one to three entries, a list that is explored two. *)
MCCursorWrap == [s \in Strategies |-> IF s = "round-robin" THEN 6 ELSE 2]
Symmetry == Permutations(Slots)

MCScenarios == {[strategy |-> "least-connections", members |-> {1, 2, 3}],
                [strategy |-> "round-robin", members |-> {2, 3}],
                [strategy |-> "random", members |-> {2, 3}],
                [strategy |-> "consistent-hash", members |-> {1, 2}],
                [strategy |-> "sticky-cid", members |-> {2, 3}],
                [strategy |-> "latency-aware", members |-> {2, 3}]}
===============================================================================
