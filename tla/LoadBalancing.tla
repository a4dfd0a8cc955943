---------------------------- MODULE LoadBalancing ----------------------------
(* The balancing strategies of an upstream pool (crates/lb/src/algorithms  *)
(* and load_balancing.rs), as operators over the list of healthy backends. *)
(* A strategy that caches a schedule, ring or cumulative table caches a    *)
(* function of that list, so `lb.members` stands for the cache and         *)
(* `lb.fresh` for "its epoch is the pool's membership epoch".              *)
EXTENDS Integers, Sequences, FiniteSets, Functions

CONSTANTS
    Weight,              \* configured weight of each backend
    Keys,                \* request keys; NoKey is the empty key
    NoKey,
    KeyHash, ReplicaHash,\* hash64 of a key and of a backend's replicas
    ExplorationInterval, \* 32 in the code
    UnsampledInterval,   \* 16 in the code
    CursorWrap           \* per strategy: its cursor is a counter modulo this

Strategies == {"round-robin", "consistent-hash", "random",
               "least-connections", "latency-aware", "sticky-cid"}

(* A cursor is only ever used modulo the length of a list.  It wraps at    *)
(* 2^64 in the code; an instance wraps it at a common multiple of the      *)
(* lengths its lists can have.                                             *)
Advanced(lb) == (lb.next + 1) % CursorWrap[lb.strategy]
ActivePenalty == 1

Least(S, lt(_, _)) == CHOOSE x \in S : \A y \in S \ {x} : lt(x, y)
IsBefore(a, b) == a[1] < b[1] \/ (a[1] = b[1] /\ a[2] < b[2])

LbInit(s) == [strategy |-> s, members |-> <<>>, fresh |-> FALSE, next |-> 0,
              selections |-> 0, unsampled |-> 0]

Divides(d, ws) == \A k \in DOMAIN ws : ws[k] % d = 0
Gcd(ws) == CHOOSE d \in 1..ws[1] :
             /\ Divides(d, ws)
             /\ \A e \in (d + 1)..ws[1] : ~Divides(e, ws)

(* Smooth weighted round robin over the healthy list: in every turn each   *)
(* backend gains its weight and the first of the heaviest is scheduled.    *)
Heaviest(cur) == CHOOSE k \in DOMAIN cur : \A j \in DOMAIN cur :
                   cur[j] < cur[k] \/ (cur[j] = cur[k] /\ k <= j)
Gain(cur, w) == [k \in DOMAIN w |-> cur[k] + w[k]]
Turns(w) == Cardinality(UNION {{k} \X (1..w[k]) : k \in DOMAIN w})
CurrentWeights(w) ==
    LET after[t \in 0..Turns(w)] ==
          IF t = 0 THEN [k \in DOMAIN w |-> 0]
          ELSE [Gain(after[t - 1], w) EXCEPT
                  ![Heaviest(Gain(after[t - 1], w))] = @ - Turns(w)]
    IN  after
BuildWeightedSequence(members) ==
    LET raw == [k \in DOMAIN members |-> Weight[members[k]]]
        w == [k \in DOMAIN members |-> raw[k] \div Gcd(raw)]
        before == CurrentWeights(w)
    IN  IF members = <<>> THEN <<>>
        ELSE [t \in 1..Turns(w) |-> members[Heaviest(Gain(before[t - 1], w))]]

AtCursor(seq, n) == IF seq = <<>> THEN {} ELSE {seq[(n % Len(seq)) + 1]}

RebuildRing(members) ==
    UNION {{<<ReplicaHash[b][r], b>> : r \in 1..Weight[b]} : b \in Range(members)}
(* A binary search finds any entry with the key's hash, or else the next   *)
(* entry in order, wrapping.                                               *)
RingLookup(members, key) ==
    LET ring == RebuildRing(members)
        exact == {e \in ring : e[1] = KeyHash[key]}
        above == {e \in ring : e[1] > KeyHash[key]}
    IN  IF ring = {} THEN {}
        ELSE IF exact # {} THEN {e[2] : e \in exact}
        ELSE {Least(IF above = {} THEN ring ELSE above, IsBefore)[2]}

(* The cumulative draw can return any member whose weight is positive.     *)
RandomDraw(members) == {b \in Range(members) : Weight[b] > 0}

LeastConnections(among, active) ==
    IF among = {} THEN {}
    ELSE {Least({<<active[b], b>> : b \in among}, IsBefore)[2]}

(* Sampled backends are ranked by latency plus load, unsampled ones by     *)
(* load.                                                                   *)
RankSampled(healthy, active, ewma) ==
    LET sampled == {b \in Range(healthy) : ewma[b] > 0}
        score(b) == ewma[b] + ActivePenalty * active[b]
        before(a, b) == IsBefore(<<score(a), active[a]>>, <<score(b), active[b]>>)
                        \/ (score(a) = score(b) /\ active[a] = active[b] /\ a < b)
    IN  IF sampled = {} THEN {} ELSE {Least(sampled, before)}
RankUnsampled(healthy, active, ewma) ==
    LeastConnections({b \in Range(healthy) : ewma[b] = 0}, active)

(* An unsampled backend c, scored at the mean sample, beats sampled b.     *)
Baseline(healthy, active, ewma, c, b) ==
    LET sampled == {x \in Range(healthy) : ewma[x] > 0}
        sum == FoldFunctionOnSet(+, 0, ewma, sampled)
        n == Cardinality(sampled)
    IN  sum + n * ActivePenalty * active[c] < n * (ewma[b] + ActivePenalty * active[b])

LatencyAwarePick(lb, healthy, active, ewma) ==
    LET sampled == RankSampled(healthy, active, ewma)
        unsampled == RankUnsampled(healthy, active, ewma)
        explore == /\ Len(healthy) >= 2
                   /\ (lb.selections + 1) % ExplorationInterval = 0
        probing == sampled # {} /\ unsampled # {} /\ ~explore
        probe == /\ probing
                 /\ \A b \in unsampled : active[b] = 0
                 /\ (lb.unsampled + 1) % UnsampledInterval = 0
    IN  [choice |-> CASE explore -> AtCursor(healthy, lb.next)
                      [] sampled = {} \/ probe -> unsampled
                      [] OTHER -> sampled,
         lb |-> [lb EXCEPT
                   !.selections = (@ + 1) % ExplorationInterval,
                   !.next = IF explore THEN Advanced(lb) ELSE @,
                   !.unsampled = IF probing THEN (@ + 1) % UnsampledInterval
                                 ELSE @]]

RingStrategies == {"consistent-hash", "sticky-cid"}

(* A cached strategy rebuilds when the epoch moved or its cache is empty.  *)
Refreshed(lb, healthy) ==
    IF lb.fresh /\ (lb.members # <<>> \/ lb.strategy \in RingStrategies)
    THEN lb ELSE [lb EXCEPT !.members = healthy, !.fresh = TRUE]

LbPick(lb, key, healthy, active, ewma) ==
    LET cached == Refreshed(lb, healthy)
        ring == [choice |-> RingLookup(cached.members, key), lb |-> cached]
    IN  CASE lb.strategy = "round-robin" ->
               [choice |-> IF healthy = <<>> THEN {}
                           ELSE AtCursor(BuildWeightedSequence(cached.members), lb.next),
                lb |-> [(IF healthy = <<>> THEN lb ELSE cached)
                          EXCEPT !.next = Advanced(lb)]]
          [] lb.strategy = "random" ->
               IF healthy = <<>> THEN [choice |-> {}, lb |-> lb]
               ELSE [choice |-> RandomDraw(cached.members), lb |-> cached]
          [] lb.strategy = "least-connections" ->
               [choice |-> LeastConnections(Range(healthy), active), lb |-> lb]
          [] lb.strategy = "latency-aware" ->
               LatencyAwarePick(lb, healthy, active, ewma)
          [] lb.strategy = "sticky-cid" /\ key = NoKey ->
               [choice |-> IF healthy = <<>> THEN {} ELSE {healthy[1]}, lb |-> lb]
          [] OTHER -> ring

(* pick_readonly: the round-robin read cursor is a counter of its own that *)
(* any earlier alternate request may have moved, so any position can be    *)
(* read; ring strategies offer no read-only pick.                          *)
PickReadonly(lb, healthy, active, ewma) ==
    CASE lb.strategy \in {"round-robin", "random"} -> RandomDraw(healthy)
      [] lb.strategy = "least-connections" -> LeastConnections(Range(healthy), active)
      [] lb.strategy = "latency-aware" ->
           LET s == RankSampled(healthy, active, ewma)
               u == RankUnsampled(healthy, active, ewma)
           IN  IF s = {} \/ (\E b \in s, c \in u :
                              Baseline(healthy, active, ewma, c, b))
               THEN u ELSE s
      [] OTHER -> {}

(* choose_alternate_backend: the read-only pick if it is not excluded,     *)
(* else the first healthy backend that is not.                             *)
ChooseAlternate(lb, healthy, active, ewma, excluded) ==
    LET readonly == PickReadonly(lb, healthy, active, ewma)
        rest == SelectSeq(healthy, LAMBDA b : b \notin excluded)
        fallback == IF rest = <<>> THEN {} ELSE {rest[1]}
    IN  (readonly \ excluded)
          \cup (IF readonly \subseteq excluded \/ readonly \cap excluded # {}
                THEN fallback ELSE {})
===============================================================================
