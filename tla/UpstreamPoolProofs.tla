-------------------------- MODULE UpstreamPoolProofs --------------------------
(***************************************************************************)
(* The operations of an upstream pool, for any number of backends,         *)
(* thresholds, weights and hashes: the lists and their positions, what an  *)
(* observation does to them, re-admission, trials, and that every strategy *)
(* picks from the healthy list.                                            *)
(***************************************************************************)
EXTENDS UpstreamPool, TLAPS, FiniteSetTheorems, SequenceTheorems

-------------------------------------------------------------------------------
(* Indices in ascending order.                                             *)

LEMMA BackendSets ==
  ASSUME NEW S \in SUBSET Backends
  PROVE  /\ IsFiniteSet(S) /\ Cardinality(S) \in Nat
         /\ \A b \in S : b \in Nat
<1>1. IsFiniteSet(Backends)
  BY PoolAssumption, FS_Interval DEF Backends
<1>2. IsFiniteSet(S)
  BY <1>1, FS_Subset
<1>3. Cardinality(S) \in Nat
  BY <1>2, FS_CardinalityType
<1>4. QED
  BY <1>2, <1>3 DEF Backends

(* Ranks count from 1 up to the size of the set, each once.                *)
LEMMA RankBijective ==
  ASSUME NEW S \in SUBSET Backends
  PROVE  /\ \A b \in S : RankIn(S, b) \in 1..Cardinality(S)
         /\ \A b, c \in S : RankIn(S, b) = RankIn(S, c) => b = c
         /\ \A k \in 1..Cardinality(S) : \E b \in S : RankIn(S, b) = k
<1> DEFINE Upto(b) == {c \in S : c <= b}
<1>1. ASSUME NEW b \in S PROVE IsFiniteSet(Upto(b)) /\ RankIn(S, b) \in 1..Cardinality(S)
  <2>1. Upto(b) \in SUBSET S /\ b \in Upto(b)
    BY BackendSets
  <2>2. IsFiniteSet(Upto(b)) /\ Cardinality(Upto(b)) \in Nat
    BY <2>1, BackendSets
  <2>3. Cardinality(Upto(b)) <= Cardinality(S)
    BY <2>1, BackendSets, FS_Subset
  <2>4. Cardinality(Upto(b)) # 0
    BY <2>1, <2>2, FS_EmptySet
  <2>5. QED
    BY <2>2, <2>3, <2>4, BackendSets DEF RankIn
<1>2. ASSUME NEW b \in S, NEW c \in S, b < c PROVE RankIn(S, b) # RankIn(S, c)
  <2>1. Upto(b) \subseteq Upto(c) /\ c \in Upto(c) /\ c \notin Upto(b)
    BY <1>2, BackendSets
  <2>2. Upto(b) # Upto(c)
    BY <2>1
  <2>3. QED
    BY <1>1, <2>1, <2>2, FS_Subset, ZenonT(30) DEF RankIn
<1>3. ASSUME NEW b \in S, NEW c \in S, RankIn(S, b) = RankIn(S, c) PROVE b = c
  BY <1>2, <1>3, BackendSets
<1> DEFINE f == [b \in S |-> RankIn(S, b)]
<1>4. f \in Injection(S, 1..Cardinality(S))
  BY <1>1, <1>3, ZenonT(30) DEF Injection, IsInjective
<1>5. IsFiniteSet(1..Cardinality(S)) /\ Cardinality(1..Cardinality(S)) = Cardinality(S)
  BY BackendSets, FS_Interval
<1>6. f \in Surjection(S, 1..Cardinality(S))
  <2> HIDE DEF f
  <2>1. QED
    BY <1>4, <1>5, FS_Injection
<1>7. QED
  BY <1>1, <1>3, <1>6, ZenonT(30) DEF Surjection

LEMMA InOrderElements ==
  ASSUME NEW S \in SUBSET Backends
  PROVE  /\ InOrder(S) \in Seq(Backends) /\ Len(InOrder(S)) = Cardinality(S)
         /\ \A k \in 1..Cardinality(S) : InOrder(S)[k] \in S /\ RankIn(S, InOrder(S)[k]) = k
<1>1. ASSUME NEW k \in 1..Cardinality(S)
      PROVE  InOrder(S)[k] \in S /\ RankIn(S, InOrder(S)[k]) = k
  BY RankBijective DEF InOrder
<1>2. Cardinality(S) \in Nat
  BY BackendSets
<1>3. QED
  BY <1>1, <1>2 DEF InOrder

-------------------------------------------------------------------------------
(* A list and the positions of its elements; a position of 0 is None.      *)
Indexed(seq, pos) ==
    /\ seq \in Seq(Backends) /\ pos \in [Backends -> Nat]
    /\ \A k \in 1..Len(seq) : pos[seq[k]] = k
    /\ \A b \in Backends : pos[b] # 0 => pos[b] \in 1..Len(seq) /\ seq[pos[b]] = b

(* The updates of mark_healthy and mark_probing.                           *)
LEMMA AppendIndexed ==
  ASSUME NEW seq, NEW pos, Indexed(seq, pos), NEW b \in Backends, pos[b] = 0
  PROVE  Indexed(Append(seq, b), [pos EXCEPT ![b] = Len(seq) + 1])
<1> DEFINE s == Append(seq, b)
           p == [pos EXCEPT ![b] = Len(seq) + 1]
<1>1. /\ seq \in Seq(Backends) /\ pos \in [Backends -> Nat] /\ Len(seq) \in Nat
      /\ \A k \in 1..Len(seq) : seq[k] \in Backends /\ pos[seq[k]] = k
  BY DEF Indexed
<1>2. /\ s \in Seq(Backends) /\ Len(s) = Len(seq) + 1 /\ s[Len(seq) + 1] = b
      /\ \A k \in 1..Len(seq) : s[k] = seq[k]
  BY <1>1
<1>3. /\ p \in [Backends -> Nat] /\ p[b] = Len(seq) + 1
      /\ \A c \in Backends \ {b} : p[c] = pos[c]
  BY <1>1
<1> HIDE DEF s, p
<1>4. ASSUME NEW k \in 1..Len(s) PROVE p[s[k]] = k
  <2>1. CASE k = Len(seq) + 1
    BY <1>2, <1>3, <2>1
  <2>2. CASE k \in 1..Len(seq)
    <3>1. s[k] = seq[k] /\ seq[k] \in Backends /\ pos[seq[k]] = k
      BY <1>1, <1>2, <2>2
    <3>2. seq[k] # b
      BY <2>2, <3>1
    <3>3. QED
      BY <1>3, <3>1, <3>2
  <2>3. QED
    BY <1>1, <1>2, <2>1, <2>2
<1>5. ASSUME NEW c \in Backends, p[c] # 0 PROVE p[c] \in 1..Len(s) /\ s[p[c]] = c
  <2>1. CASE c = b
    BY <1>1, <1>2, <1>3, <2>1
  <2>2. CASE c # b
    <3>1. p[c] = pos[c] /\ pos[c] \in 1..Len(seq) /\ seq[pos[c]] = c
      BY <1>3, <1>5, <2>2 DEF Indexed
    <3>2. QED
      BY <1>1, <1>2, <3>1
  <2>3. QED
    BY <2>1, <2>2
<1>6. QED
  BY <1>2, <1>3, <1>4, <1>5 DEF Indexed, s, p

(* The positions after swap_remove moved the last element to i.            *)
Repaired(seq, pos, b) ==
    [c \in Backends |-> IF c = b THEN 0
                        ELSE IF pos[b] <= Len(seq) - 1 /\ c = seq[Len(seq)] THEN pos[b]
                        ELSE pos[c]]

(* The updates of mark_unhealthy and mark_not_probing.                     *)
LEMMA RemoveIndexed ==
  ASSUME NEW seq, NEW pos, Indexed(seq, pos), NEW b \in Backends, pos[b] # 0
  PROVE  Indexed(SwapRemove(seq, pos[b]), Repaired(seq, pos, b))
<1> DEFINE s == SwapRemove(seq, pos[b])
           p == Repaired(seq, pos, b)
           n == Len(seq)
<1>1. /\ seq \in Seq(Backends) /\ pos \in [Backends -> Nat] /\ n \in Nat
      /\ \A k \in 1..n : seq[k] \in Backends /\ pos[seq[k]] = k
      /\ pos[b] \in 1..n /\ seq[pos[b]] = b
  BY DEF Indexed
<1>2. /\ s \in Seq(Backends) /\ Len(s) = n - 1
      /\ \A k \in 1..(n - 1) : s[k] = IF k = pos[b] THEN seq[n] ELSE seq[k]
  BY <1>1 DEF SwapRemove
<1>3. /\ p \in [Backends -> Nat] /\ p[b] = 0
      /\ \A c \in Backends \ {b} :
           p[c] = IF pos[b] <= n - 1 /\ c = seq[n] THEN pos[b] ELSE pos[c]
  BY <1>1 DEF Repaired
<1> HIDE DEF s, p
<1>4. ASSUME NEW k \in 1..(n - 1) PROVE p[s[k]] = k
  <2>1. CASE k = pos[b]
    <3>1. s[k] = seq[n] /\ seq[n] \in Backends /\ pos[seq[n]] = n
      BY <1>1, <1>2, <2>1, SMTT(30)
    <3>2. seq[n] # b
      BY <1>1, <2>1, <3>1
    <3>3. QED
      BY <1>1, <1>3, <2>1, <3>1, <3>2
  <2>2. CASE k # pos[b]
    <3>1. s[k] = seq[k] /\ seq[k] \in Backends /\ pos[seq[k]] = k /\ pos[seq[n]] = n
      BY <1>1, <1>2, <2>2, SMTT(30)
    <3>2. seq[k] # b /\ seq[k] # seq[n]
      BY <1>1, <2>2, <3>1
    <3>3. QED
      BY <1>3, <3>1, <3>2
  <2>3. QED
    BY <2>1, <2>2
<1>5. ASSUME NEW c \in Backends, p[c] # 0 PROVE p[c] \in 1..(n - 1) /\ s[p[c]] = c
  <2>1. c # b
    BY <1>3, <1>5
  <2>2. CASE pos[b] <= n - 1 /\ c = seq[n]
    <3>1. p[c] = pos[b] /\ pos[b] \in 1..(n - 1)
      BY <1>1, <1>3, <2>1, <2>2
    <3>2. QED
      BY <1>2, <2>2, <3>1
  <2>3. CASE ~(pos[b] <= n - 1 /\ c = seq[n])
    <3>1. p[c] = pos[c] /\ pos[c] \in 1..n /\ seq[pos[c]] = c
      BY <1>3, <1>5, <2>1, <2>3 DEF Indexed
    <3>2. pos[c] # pos[b]
      BY <1>1, <2>1, <3>1
    <3>3. pos[c] # n
      BY <1>1, <2>3, <3>1, <3>2
    <3>4. pos[c] \in 1..(n - 1)
      BY <1>1, <3>1, <3>3
    <3>5. QED
      BY <1>2, <3>1, <3>2, <3>4
  <2>4. QED
    BY <2>2, <2>3
<1>6. QED
  BY <1>2, <1>3, <1>4, <1>5 DEF Indexed, s, p

(* The updates of reconcile_readmit_at.                                    *)
LEMMA ConcatIndexed ==
  ASSUME NEW seq, NEW pos, Indexed(seq, pos), NEW S \in SUBSET Backends,
         \A b \in S : pos[b] = 0
  PROVE  Indexed(seq \o InOrder(S),
                 [b \in Backends |-> IF b \in S THEN Len(seq) + RankIn(S, b) ELSE pos[b]])
<1> DEFINE s == seq \o InOrder(S)
           p == [b \in Backends |-> IF b \in S THEN Len(seq) + RankIn(S, b) ELSE pos[b]]
           n == Len(seq)
           m == Cardinality(S)
<1>1. /\ seq \in Seq(Backends) /\ pos \in [Backends -> Nat] /\ n \in Nat /\ m \in Nat
      /\ \A k \in 1..n : seq[k] \in Backends /\ pos[seq[k]] = k
  BY BackendSets DEF Indexed
<1>2. /\ s \in Seq(Backends) /\ Len(s) = n + m
      /\ \A k \in 1..n : s[k] = seq[k]
      /\ \A k \in 1..m : s[n + k] = InOrder(S)[k]
  <2> DEFINE o == InOrder(S)
  <2>1. o \in Seq(Backends) /\ Len(o) = m
    BY InOrderElements
  <2> HIDE DEF o
  <2>2. seq \o o \in Seq(Backends) /\ Len(seq \o o) = n + m
    BY <1>1, <2>1, ConcatProperties, ZenonT(30)
  <2>3. ASSUME NEW k \in 1..m PROVE (seq \o o)[n + k] = o[k]
    BY <1>1, <2>1
  <2>4. ASSUME NEW k \in 1..n PROVE (seq \o o)[k] = seq[k]
    BY <1>1, <2>1
  <2>5. QED
    BY <2>2, <2>3, <2>4, ZenonT(30) DEF o
<1>3. \A b \in S : RankIn(S, b) \in 1..m
  BY RankBijective
<1>4. p \in [Backends -> Nat]
  BY <1>1, <1>3
<1> HIDE DEF s
<1>5. ASSUME NEW k \in 1..(n + m) PROVE p[s[k]] = k
  <2>1. CASE k \in 1..n
    <3>1. s[k] \in Backends \ S
      BY <1>1, <1>2, <2>1
    <3>2. QED
      BY <1>1, <1>2, <2>1, <3>1, SMTT(30)
  <2>2. CASE k - n \in 1..m
    <3>1. s[k] = InOrder(S)[k - n]
      BY <1>1, <1>2, <2>2
    <3>2. s[k] \in S /\ RankIn(S, s[k]) = k - n
      BY <2>2, <3>1, InOrderElements
    <3>3. p[s[k]] = n + RankIn(S, s[k])
      BY <3>2
    <3>4. QED
      BY <1>1, <3>2, <3>3
  <2>3. k \in 1..n \/ k - n \in 1..m
    BY <1>1
  <2>4. QED
    BY <2>1, <2>2, <2>3
<1>6. ASSUME NEW b \in Backends, p[b] # 0 PROVE p[b] \in 1..(n + m) /\ s[p[b]] = b
  <2>1. CASE b \in S
    <3>1. p[b] = n + RankIn(S, b) /\ RankIn(S, b) \in 1..m
      BY <1>3, <2>1
    <3>2. s[p[b]] = InOrder(S)[RankIn(S, b)]
      BY <1>2, <3>1
    <3>3. s[p[b]] \in S /\ RankIn(S, s[p[b]]) = RankIn(S, b)
      BY <3>1, <3>2, InOrderElements
    <3>4. s[p[b]] = b
      <4> DEFINE c == s[p[b]]
      <4>1. c \in S /\ RankIn(S, c) = RankIn(S, b)
        BY <3>3
      <4> HIDE DEF c
      <4>2. c = b
        BY <2>1, <4>1, RankBijective
      <4>3. QED
        BY <4>2 DEF c
    <3>5. QED
      BY <1>1, <3>1, <3>4
  <2>2. CASE b \notin S
    <3>1. p[b] = pos[b] /\ pos[b] \in 1..n /\ seq[pos[b]] = b
      BY <1>6, <2>2 DEF Indexed
    <3>2. QED
      BY <1>1, <1>2, <3>1, SMTT(30)
  <2>3. QED
    BY <2>1, <2>2
<1> HIDE DEF p
<1>7. QED
  BY <1>2, <1>4, <1>5, <1>6 DEF Indexed, s, p

-------------------------------------------------------------------------------
(* Types.                                                                  *)
Healths == {"healthy", "cooling", "cooled", "probing", "absent"}
BackendState == [health: Healths, fails: Nat, successes: Nat, budget: Nat,
                 active: Nat, ewma: Nat]
BackendPool == [state: [Backends -> BackendState],
                healthy: Seq(Backends), healthyPos: [Backends -> Nat],
                probing: Seq(Backends), probingPos: [Backends -> Nat],
                readmit: {"none", "pending", "elapsed"}, cursor: Nat]
Balancer == [strategy: Strategies, members: Seq(Backends), fresh: BOOLEAN, next: Nat,
             selections: Nat, unsampled: Nat]
Request == [stage: {"idle", "picked", "sent", "observed", "failed"}, target: 0..N]
Job == [pending: BOOLEAN, failures: 0..2]

TypeOK ==
    /\ pool \in BackendPool /\ lb \in Balancer
    /\ req \in [Slots -> Request] /\ job \in [ActiveCheck -> Job]
    /\ \A r \in Slots : req[r].stage = "idle" <=> req[r].target = 0

(* What an update of one of the lists does.                                *)
HealthyList(p, q, b, in) ==
    /\ q \in BackendPool
    /\ q.state = p.state /\ q.readmit = p.readmit /\ q.cursor = p.cursor
    /\ q.probing = p.probing /\ q.probingPos = p.probingPos
    /\ Indexed(q.healthy, q.healthyPos)
    /\ \A c \in Backends : q.healthyPos[c] # 0 <=> IF c = b THEN in
                                                   ELSE p.healthyPos[c] # 0
ProbingList(p, q, b, in) ==
    /\ q \in BackendPool
    /\ q.state = p.state /\ q.readmit = p.readmit
    /\ q.healthy = p.healthy /\ q.healthyPos = p.healthyPos
    /\ Indexed(q.probing, q.probingPos)
    /\ \A c \in Backends : q.probingPos[c] # 0 <=> IF c = b THEN in
                                                   ELSE p.probingPos[c] # 0

LEMMA MarkHealthyList ==
  ASSUME NEW p \in BackendPool, NEW b \in Backends, Indexed(p.healthy, p.healthyPos)
  PROVE  HealthyList(p, MarkHealthy(p, b), b, TRUE)
<1> DEFINE q == MarkHealthy(p, b)
<1>1. CASE p.healthyPos[b] # 0
  BY <1>1, SMTT(30) DEF MarkHealthy, HealthyList
<1>2. CASE p.healthyPos[b] = 0
  <2>1. q = [p EXCEPT !.healthyPos[b] = Len(p.healthy) + 1, !.healthy = Append(@, b)]
    BY <1>2 DEF MarkHealthy
  <2>2. /\ q.healthy = Append(p.healthy, b)
        /\ q.healthyPos = [p.healthyPos EXCEPT ![b] = Len(p.healthy) + 1]
        /\ q.state = p.state /\ q.readmit = p.readmit /\ q.cursor = p.cursor
        /\ q.probing = p.probing /\ q.probingPos = p.probingPos
    BY <2>1 DEF BackendPool
  <2>3. Indexed(q.healthy, q.healthyPos)
    BY <1>2, <2>2, AppendIndexed
  <2>4. q \in BackendPool
    <3>1. q.healthy \in Seq(Backends) /\ q.healthyPos \in [Backends -> Nat]
      BY <2>3 DEF Indexed
    <3>2. QED
      BY <2>1, <2>2, <3>1, ZenonT(30) DEF BackendPool
  <2>5. \A c \in Backends : q.healthyPos[c] # 0 <=> IF c = b THEN TRUE
                                                    ELSE p.healthyPos[c] # 0
    BY <2>2 DEF BackendPool
  <2> HIDE DEF q
  <2>6. QED
    BY <2>2, <2>3, <2>4, <2>5, ZenonT(30) DEF HealthyList, q
<1>3. QED
  BY <1>1, <1>2, ZenonT(30)

LEMMA MarkProbingList ==
  ASSUME NEW p \in BackendPool, NEW b \in Backends, Indexed(p.probing, p.probingPos)
  PROVE  ProbingList(p, MarkProbing(p, b), b, TRUE)
<1> DEFINE q == MarkProbing(p, b)
<1>1. CASE p.probingPos[b] # 0
  BY <1>1, SMTT(30) DEF MarkProbing, ProbingList
<1>2. CASE p.probingPos[b] = 0
  <2>1. q = [p EXCEPT !.probingPos[b] = Len(p.probing) + 1, !.probing = Append(@, b)]
    BY <1>2 DEF MarkProbing
  <2>2. /\ q.probing = Append(p.probing, b)
        /\ q.probingPos = [p.probingPos EXCEPT ![b] = Len(p.probing) + 1]
        /\ q.state = p.state /\ q.readmit = p.readmit
        /\ q.healthy = p.healthy /\ q.healthyPos = p.healthyPos
    BY <2>1 DEF BackendPool
  <2>3. Indexed(q.probing, q.probingPos)
    BY <1>2, <2>2, AppendIndexed
  <2>4. q \in BackendPool
    <3>1. q.probing \in Seq(Backends) /\ q.probingPos \in [Backends -> Nat]
      BY <2>3 DEF Indexed
    <3>2. QED
      BY <2>1, <2>2, <3>1, ZenonT(30) DEF BackendPool
  <2>5. \A c \in Backends : q.probingPos[c] # 0 <=> IF c = b THEN TRUE
                                                    ELSE p.probingPos[c] # 0
    BY <2>2 DEF BackendPool
  <2> HIDE DEF q
  <2>6. QED
    BY <2>2, <2>3, <2>4, <2>5, ZenonT(30) DEF ProbingList, q
<1>3. QED
  BY <1>1, <1>2, ZenonT(30)

(* The positions a removal writes are the repaired ones.                   *)
LEMMA RemovalRepairs ==
  ASSUME NEW seq, NEW pos, Indexed(seq, pos), NEW b \in Backends, pos[b] # 0,
         NEW rest, rest = SwapRemove(seq, pos[b])
  PROVE  [c \in Backends |->
            IF c = b THEN 0
            ELSE IF c \in (IF pos[b] <= Len(rest) THEN {rest[pos[b]]} ELSE {}) THEN pos[b]
            ELSE pos[c]] = Repaired(seq, pos, b)
<1>1. pos[b] \in 1..Len(seq) /\ Len(seq) \in Nat
  BY DEF Indexed
<1>2. Len(rest) = Len(seq) - 1
  BY <1>1 DEF SwapRemove
<1>3. pos[b] <= Len(seq) - 1 => rest[pos[b]] = seq[Len(seq)]
  BY <1>1 DEF SwapRemove
<1>4. QED
  BY <1>2, <1>3 DEF Repaired

LEMMA MarkUnhealthyList ==
  ASSUME NEW p \in BackendPool, NEW b \in Backends, Indexed(p.healthy, p.healthyPos)
  PROVE  HealthyList(p, MarkUnhealthy(p, b), b, FALSE)
<1> DEFINE q == MarkUnhealthy(p, b)
           pos == p.healthyPos
           rest == SwapRemove(p.healthy, pos[b])
<1>1. CASE pos[b] = 0
  BY <1>1, SMTT(30) DEF MarkUnhealthy, HealthyList
<1>2. CASE pos[b] # 0
  <2>1. q = [p EXCEPT !.healthy = rest, !.healthyPos = Repaired(p.healthy, pos, b)]
    <3>1. [c \in Backends |->
            IF c = b THEN 0
            ELSE IF c \in (IF pos[b] <= Len(rest) THEN {rest[pos[b]]} ELSE {}) THEN pos[b]
            ELSE pos[c]] = Repaired(p.healthy, pos, b)
      BY <1>2, RemovalRepairs
    <3>2. QED
      BY <1>2, <3>1, ZenonT(30) DEF MarkUnhealthy
  <2>2. /\ q.healthy = rest /\ q.healthyPos = Repaired(p.healthy, pos, b)
        /\ q.state = p.state /\ q.readmit = p.readmit /\ q.cursor = p.cursor
        /\ q.probing = p.probing /\ q.probingPos = p.probingPos
    BY <2>1 DEF BackendPool
  <2>3. Indexed(q.healthy, q.healthyPos)
    BY <1>2, <2>2, RemoveIndexed
  <2>4. q \in BackendPool
    <3>1. q.healthy \in Seq(Backends) /\ q.healthyPos \in [Backends -> Nat]
      BY <2>3 DEF Indexed
    <3>2. QED
      BY <2>1, <2>2, <3>1, ZenonT(30) DEF BackendPool
  <2>5. \A c \in Backends : q.healthyPos[c] # 0 <=> IF c = b THEN FALSE
                                                    ELSE pos[c] # 0
    BY <1>2, <2>2, SMTT(30) DEF Repaired, Indexed
  <2> HIDE DEF q
  <2>6. QED
    BY <2>2, <2>3, <2>4, <2>5, ZenonT(30) DEF HealthyList, q
<1>3. QED
  BY <1>1, <1>2, ZenonT(30)

LEMMA MarkNotProbingList ==
  ASSUME NEW p \in BackendPool, NEW b \in Backends, Indexed(p.probing, p.probingPos)
  PROVE  ProbingList(p, MarkNotProbing(p, b), b, FALSE)
<1> DEFINE q == MarkNotProbing(p, b)
           pos == p.probingPos
           rest == SwapRemove(p.probing, pos[b])
           cur == IF rest = <<>> THEN 0 ELSE p.cursor % Len(rest)
<1>1. CASE pos[b] = 0
  BY <1>1, SMTT(30) DEF MarkNotProbing, ProbingList
<1>2. CASE pos[b] # 0
  <2>1. q = [p EXCEPT !.probing = rest, !.probingPos = Repaired(p.probing, pos, b),
                      !.cursor = cur]
    <3>1. [c \in Backends |->
            IF c = b THEN 0
            ELSE IF c \in (IF pos[b] <= Len(rest) THEN {rest[pos[b]]} ELSE {}) THEN pos[b]
            ELSE pos[c]] = Repaired(p.probing, pos, b)
      BY <1>2, RemovalRepairs
    <3>2. QED
      BY <1>2, <3>1, ZenonT(30) DEF MarkNotProbing
  <2>2. /\ q.probing = rest /\ q.probingPos = Repaired(p.probing, pos, b)
        /\ q.state = p.state /\ q.readmit = p.readmit /\ q.cursor = cur
        /\ q.healthy = p.healthy /\ q.healthyPos = p.healthyPos
    BY <2>1 DEF BackendPool
  <2>3. Indexed(q.probing, q.probingPos)
    BY <1>2, <2>2, RemoveIndexed
  <2>4. q \in BackendPool
    <3>1. q.probing \in Seq(Backends) /\ q.probingPos \in [Backends -> Nat]
      BY <2>3 DEF Indexed
    <3>2. cur \in Nat
      <4>1. rest \in Seq(Backends)
        BY <2>2, <3>1
      <4> HIDE DEF rest
      <4>2. rest # <<>> => Len(rest) \in Nat \ {0}
        BY <4>1, EmptySeq
      <4>3. p.cursor \in Nat
        BY DEF BackendPool
      <4>4. QED
        BY <4>2, <4>3
    <3>3. QED
      BY <2>1, <2>2, <3>1, <3>2, ZenonT(30) DEF BackendPool
  <2>5. \A c \in Backends : q.probingPos[c] # 0 <=> IF c = b THEN FALSE
                                                    ELSE pos[c] # 0
    BY <1>2, <2>2 DEF Repaired, Indexed
  <2> HIDE DEF q
  <2>6. QED
    BY <2>2, <2>3, <2>4, <2>5, ZenonT(30) DEF ProbingList, q
<1>3. QED
  BY <1>1, <1>2, ZenonT(30)

(* The lists hold what their names say.                                    *)
ListsOK(p) ==
    /\ Indexed(p.healthy, p.healthyPos) /\ Indexed(p.probing, p.probingPos)
    /\ \A b \in Backends : /\ IsHealthy(p.state[b]) <=> p.healthyPos[b] # 0
                           /\ IsProbing(p.state[b]) <=> p.probingPos[b] # 0

Present(p) == {b \in Backends : p.state[b].health # "absent"}
ListedPresent(p) ==
    /\ \A k \in 1..Len(p.healthy) : p.healthy[k] \in Present(p)
    /\ \A k \in 1..Len(p.probing) : p.probing[k] \in Present(p)

(* The counters of a backend between two observations.                     *)
CountersOK(s, b) ==
    /\ s.fails < FailureThreshold[b]
    /\ s.health = "probing" => s.fails = 0 /\ s.successes < SuccessThreshold[b]
    /\ s.health # "probing" => s.successes = 0 /\ s.budget = 0

(* A pool of the build at hand: only one that evaluates the updates keeps  *)
(* its lists.                                                              *)
PoolOK(p) ==
    /\ p \in BackendPool /\ ListedPresent(p)
    /\ DebugAssertions => ListsOK(p)
    /\ \A b \in Backends : CountersOK(p.state[b], b)

LEMMA ListsPresent ==
  ASSUME NEW p \in BackendPool, ListsOK(p)
  PROVE  ListedPresent(p)
<1>1. ASSUME NEW k \in 1..Len(p.healthy) PROVE p.healthy[k] \in Present(p)
  <2>1. p.healthy[k] \in Backends /\ p.healthyPos[p.healthy[k]] = k
    BY DEF ListsOK, Indexed
  <2>2. IsHealthy(p.state[p.healthy[k]])
    BY <2>1 DEF ListsOK
  <2>3. QED
    BY <2>1, <2>2 DEF IsHealthy, Present
<1>2. ASSUME NEW k \in 1..Len(p.probing) PROVE p.probing[k] \in Present(p)
  <2>1. p.probing[k] \in Backends /\ p.probingPos[p.probing[k]] = k
    BY DEF ListsOK, Indexed
  <2>2. IsProbing(p.state[p.probing[k]])
    BY <2>1 DEF ListsOK
  <2>3. QED
    BY <2>1, <2>2 DEF IsProbing, Present
<1>3. QED
  BY <1>1, <1>2 DEF ListedPresent

(* What a new state of one backend does to its pool.                       *)
Reindexed(p, q, b, s) ==
    /\ q.state = [p.state EXCEPT ![b] = s] /\ q.readmit = p.readmit
    /\ IsHealthy(p.state[b]) = IsHealthy(s) => q.healthy = p.healthy

LEMMA ReindexOK ==
  ASSUME NEW p, PoolOK(p), NEW b \in Present(p),
         NEW s \in BackendState, s.health # "absent", CountersOK(s, b)
  PROVE  PoolOK(Reindex(p, b, s)) /\ Reindexed(p, Reindex(p, b, s), b, s)
<1> DEFINE was == p.state[b]
           p0 == [p EXCEPT !.state[b] = s]
           p1 == IF IsHealthy(was) = IsHealthy(s) THEN p0
                 ELSE InDebugAssert(p0, IF IsHealthy(s) THEN MarkHealthy(p0, b)
                                        ELSE MarkUnhealthy(p0, b))
           p2 == IF IsProbing(was) = IsProbing(s) THEN p1
                 ELSE InDebugAssert(p1, IF IsProbing(s) THEN MarkProbing(p1, b)
                                        ELSE MarkNotProbing(p1, b))
<1>1. Reindex(p, b, s) = p2
  BY DEF Reindex
<1>2. p \in BackendPool /\ b \in Backends /\ was \in BackendState
  BY DEF PoolOK, BackendPool, Present
<1>3. /\ p0 \in BackendPool /\ p0.state = [p.state EXCEPT ![b] = s]
      /\ p0.readmit = p.readmit
      /\ p0.healthy = p.healthy /\ p0.healthyPos = p.healthyPos
      /\ p0.probing = p.probing /\ p0.probingPos = p.probingPos
  BY <1>2, ZenonT(30) DEF BackendPool
<1> HIDE DEF p0
<1>4. \A c \in Backends : p0.state[c] = IF c = b THEN s ELSE p.state[c]
  BY <1>2, <1>3 DEF BackendPool
<1>5. \A c \in Backends : CountersOK(p0.state[c], c)
  BY <1>4 DEF PoolOK
<1>6. CASE ~DebugAssertions
  <2>1. p2 = p0
    BY <1>6 DEF InDebugAssert
  <2>2. Present(p0) = Present(p)
    BY <1>2, <1>4 DEF Present
  <2>3. ListedPresent(p0)
    BY <1>3, <2>2 DEF PoolOK, ListedPresent
  <2>4. QED
    BY <1>1, <1>3, <1>5, <1>6, <2>1, <2>3, ZenonT(30) DEF PoolOK, Reindexed
<1>7. CASE DebugAssertions
  <2>1. ListsOK(p)
    BY <1>7, SMTT(30) DEF PoolOK
  <2>2. /\ p1 \in BackendPool /\ p1.state = p0.state /\ p1.readmit = p0.readmit
        /\ p1.probing = p0.probing /\ p1.probingPos = p0.probingPos
        /\ Indexed(p1.healthy, p1.healthyPos)
        /\ \A c \in Backends : p1.healthyPos[c] # 0 <=> IF c = b THEN IsHealthy(s)
                                                        ELSE p0.healthyPos[c] # 0
        /\ IsHealthy(was) = IsHealthy(s) => p1.healthy = p0.healthy
    <3>1. CASE IsHealthy(was) = IsHealthy(s)
      BY <1>3, <2>1, <3>1, SMTT(30) DEF ListsOK
    <3>2. CASE IsHealthy(was) # IsHealthy(s) /\ IsHealthy(s)
      <4>1. p1 = MarkHealthy(p0, b)
        BY <1>7, <3>2 DEF InDebugAssert
      <4>2. HealthyList(p0, p1, b, TRUE)
        BY <1>2, <1>3, <2>1, <4>1, MarkHealthyList, ZenonT(30) DEF ListsOK
      <4>3. QED
        BY <3>2, <4>2, ZenonT(30) DEF HealthyList
    <3>3. CASE IsHealthy(was) # IsHealthy(s) /\ ~IsHealthy(s)
      <4>1. p1 = MarkUnhealthy(p0, b)
        BY <1>7, <3>3 DEF InDebugAssert
      <4>2. HealthyList(p0, p1, b, FALSE)
        BY <1>2, <1>3, <2>1, <4>1, MarkUnhealthyList, ZenonT(30) DEF ListsOK
      <4>3. QED
        BY <3>3, <4>2 DEF HealthyList
    <3>4. QED
      BY <3>1, <3>2, <3>3, ZenonT(30)
  <2> HIDE DEF p1
  <2>3. Indexed(p1.probing, p1.probingPos)
    BY <1>3, <2>1, <2>2 DEF ListsOK
  <2>4. /\ p2 \in BackendPool /\ p2.state = p1.state /\ p2.readmit = p1.readmit
        /\ p2.healthy = p1.healthy /\ p2.healthyPos = p1.healthyPos
        /\ Indexed(p2.probing, p2.probingPos)
        /\ \A c \in Backends : p2.probingPos[c] # 0 <=> IF c = b THEN IsProbing(s)
                                                        ELSE p1.probingPos[c] # 0
    <3>1. CASE IsProbing(was) = IsProbing(s)
      BY <1>3, <2>1, <2>2, <2>3, <3>1, SMTT(30) DEF ListsOK
    <3>2. CASE IsProbing(was) # IsProbing(s) /\ IsProbing(s)
      <4>1. p2 = MarkProbing(p1, b)
        BY <1>7, <3>2 DEF InDebugAssert
      <4>2. ProbingList(p1, p2, b, TRUE)
        BY <1>2, <2>2, <2>3, <4>1, MarkProbingList, ZenonT(30)
      <4>3. QED
        BY <3>2, <4>2 DEF ProbingList
    <3>3. CASE IsProbing(was) # IsProbing(s) /\ ~IsProbing(s)
      <4>1. p2 = MarkNotProbing(p1, b)
        BY <1>7, <3>3 DEF InDebugAssert
      <4>2. ProbingList(p1, p2, b, FALSE)
        BY <1>2, <2>2, <2>3, <4>1, MarkNotProbingList, ZenonT(30)
      <4>3. QED
        BY <3>3, <4>2 DEF ProbingList
    <3>4. QED
      BY <3>1, <3>2, <3>3, ZenonT(30)
  <2> HIDE DEF p2
  <2>5. ASSUME NEW c \in Backends
        PROVE  /\ IsHealthy(p2.state[c]) <=> p2.healthyPos[c] # 0
               /\ IsProbing(p2.state[c]) <=> p2.probingPos[c] # 0
    <3>1. p2.state[c] = IF c = b THEN s ELSE p.state[c]
      BY <1>4, <2>2, <2>4, SMTT(30)
    <3>2. QED
      BY <1>3, <2>1, <2>2, <2>4, <3>1, SMTT(30) DEF ListsOK
  <2>6. ListsOK(p2) /\ ListedPresent(p2)
    BY <2>2, <2>4, <2>5, ListsPresent, SMTT(30) DEF ListsOK
  <2>7. Reindexed(p, p2, b, s)
    BY <1>3, <2>2, <2>4 DEF Reindexed
  <2>8. QED
    BY <1>1, <1>5, <2>2, <2>4, <2>6, <2>7, SMTT(30) DEF PoolOK
<1>8. QED
  BY <1>6, <1>7, PoolAssumption

-------------------------------------------------------------------------------
(* Observations.                                                           *)

(* A success forgives failures, completes a trial or starts one; a failure *)
(* counts, or ejects at the threshold and on trial.                        *)
LEMMA ProbingStates ==
  ASSUME NEW b \in Backends, NEW s \in BackendState
  PROVE  /\ ToProbing(s, b) \in BackendState /\ CountersOK(ToProbing(s, b), b)
         /\ IsProbing(ToProbing(s, b))
<1> DEFINE t == ToProbing(s, b)
<1>1. FailureThreshold[b] \in Nat \ {0} /\ SuccessThreshold[b] \in Nat \ {0}
  BY PoolAssumption
<1>2. /\ t \in BackendState /\ t.health = "probing" /\ t.fails = 0 /\ t.successes = 0
  BY <1>1, ZenonT(30) DEF ToProbing, BackendState, Healths
<1> HIDE DEF t
<1>3. CountersOK(t, b) /\ IsProbing(t)
  BY <1>1, <1>2 DEF CountersOK, IsProbing
<1>4. QED
  BY <1>2, <1>3 DEF t

LEMMA ProbingSuccessStates ==
  ASSUME NEW b \in Backends, NEW s \in BackendState, CountersOK(s, b), IsProbing(s)
  PROVE  /\ RecordProbingSuccess(s, b) \in BackendState
         /\ CountersOK(RecordProbingSuccess(s, b), b)
         /\ RecordProbingSuccess(s, b).health \in {"healthy", "probing"}
<1> DEFINE t == RecordProbingSuccess(s, b)
<1>1. FailureThreshold[b] \in Nat \ {0} /\ SuccessThreshold[b] \in Nat \ {0}
  BY PoolAssumption
<1>2. s.health = "probing" /\ s.fails = 0 /\ s.successes \in Nat
  BY DEF CountersOK, IsProbing, BackendState
<1>3. CASE s.successes + 1 >= SuccessThreshold[b]
  <2>1. t = [s EXCEPT !.health = "healthy", !.fails = 0, !.successes = 0, !.budget = 0]
    BY <1>3 DEF RecordProbingSuccess
  <2> HIDE DEF t
  <2>2. t.health = "healthy" /\ t.fails = 0 /\ t.successes = 0 /\ t.budget = 0
    BY <2>1 DEF BackendState
  <2>3. t \in BackendState
    <3>1. t = [health |-> "healthy", fails |-> 0, successes |-> 0, budget |-> 0,
               active |-> s.active, ewma |-> s.ewma]
      BY <2>1, ZenonT(30) DEF BackendState
    <3>2. s.active \in Nat /\ s.ewma \in Nat
      BY DEF BackendState
    <3>3. QED
      BY <3>1, <3>2 DEF BackendState, Healths
  <2>4. QED
    BY <1>1, <2>2, <2>3 DEF CountersOK, t
<1>4. CASE ~(s.successes + 1 >= SuccessThreshold[b])
  <2>1. t = [s EXCEPT !.successes = @ + 1]
    BY <1>4 DEF RecordProbingSuccess
  <2>2. /\ t \in BackendState /\ t.health = "probing" /\ t.fails = 0
        /\ t.successes = s.successes + 1
    BY <1>2, <2>1 DEF BackendState, Healths
  <2> HIDE DEF t
  <2>3. t.successes < SuccessThreshold[b]
    BY <1>1, <1>2, <1>4, <2>2
  <2>4. QED
    BY <1>1, <2>2, <2>3 DEF CountersOK, t
<1>5. QED
  BY <1>3, <1>4

(* A success forgives failures, completes a trial or starts one; a failure *)
(* counts, or ejects at the threshold and on trial.                        *)
LEMMA SuccessStates ==
  ASSUME NEW b \in Backends, NEW s \in BackendState, CountersOK(s, b), s.health # "absent"
  PROVE  /\ RecordSuccess(s, b) \in BackendState /\ CountersOK(RecordSuccess(s, b), b)
         /\ \/ RecordSuccess(s, b).health \in {"healthy", "probing"}
            \/ RecordSuccess(s, b) = s
<1>1. CASE s.health = "healthy"
  <2> DEFINE t == RecordSuccess(s, b)
  <2>1. t = [s EXCEPT !.fails = 0]
    BY <1>1 DEF RecordSuccess, IsHealthy
  <2>2. /\ t \in BackendState /\ t.health = "healthy" /\ t.fails = 0
        /\ t.successes = s.successes /\ t.budget = s.budget
    BY <1>1, <2>1 DEF BackendState, Healths
  <2> HIDE DEF t
  <2>3. FailureThreshold[b] \in Nat \ {0}
    BY PoolAssumption
  <2>4. QED
    BY <1>1, <2>2, <2>3 DEF CountersOK, t
<1>2. CASE s.health = "cooling"
  BY <1>2 DEF RecordSuccess, IsHealthy
<1>3. CASE s.health = "cooled"
  <2>1. RecordSuccess(s, b) = RecordProbingSuccess(ToProbing(s, b), b)
    BY <1>3 DEF RecordSuccess, IsHealthy
  <2>2. QED
    BY <2>1, ProbingStates, ProbingSuccessStates
<1>4. CASE s.health = "probing"
  <2>1. RecordSuccess(s, b) = RecordProbingSuccess(s, b) /\ IsProbing(s)
    BY <1>4 DEF RecordSuccess, IsHealthy, IsProbing
  <2>2. QED
    BY <2>1, ProbingSuccessStates
<1>5. QED
  BY <1>1, <1>2, <1>3, <1>4 DEF BackendState, Healths

LEMMA FailureStates ==
  ASSUME NEW b \in Backends, NEW s \in BackendState, CountersOK(s, b), s.health # "absent"
  PROVE  /\ RecordFailure(s, b) \in BackendState /\ CountersOK(RecordFailure(s, b), b)
         /\ RecordFailure(s, b).health \in {"cooling", s.health}
<1> DEFINE t == RecordFailure(s, b)
<1>1. FailureThreshold[b] \in Nat \ {0} /\ s.fails \in Nat
  BY PoolAssumption DEF BackendState
<1>2. CASE ~IsProbing(s) /\ s.fails + 1 < FailureThreshold[b]
  <2>1. t = [s EXCEPT !.fails = @ + 1]
    BY <1>2 DEF RecordFailure
  <2>2. /\ t \in BackendState /\ t.health = s.health /\ t.fails = s.fails + 1
        /\ t.successes = s.successes /\ t.budget = s.budget
    BY <1>1, <2>1 DEF BackendState, Healths
  <2> HIDE DEF t
  <2>3. QED
    BY <1>2, <2>2 DEF CountersOK, IsProbing, t
<1>3. CASE ~(~IsProbing(s) /\ s.fails + 1 < FailureThreshold[b])
  <2>1. t = [s EXCEPT !.health = "cooling", !.fails = 0, !.successes = 0, !.budget = 0]
    BY <1>3 DEF RecordFailure, Eject
  <2> HIDE DEF t
  <2>2. t.health = "cooling" /\ t.fails = 0 /\ t.successes = 0 /\ t.budget = 0
    BY <2>1 DEF BackendState
  <2>3. t \in BackendState
    <3>1. t = [health |-> "cooling", fails |-> 0, successes |-> 0, budget |-> 0,
               active |-> s.active, ewma |-> s.ewma]
      BY <2>1, ZenonT(30) DEF BackendState
    <3>2. s.active \in Nat /\ s.ewma \in Nat
      BY DEF BackendState
    <3>3. QED
      BY <3>1, <3>2 DEF BackendState, Healths
  <2>4. QED
    BY <1>1, <2>2, <2>3 DEF CountersOK, t
<1>4. QED
  BY <1>2, <1>3

ReadmitOK(p) ==
    \A b \in Backends \ ActiveCheck :
      /\ p.state[b].health = "cooling" => p.readmit # "none"
      /\ p.state[b].health = "cooled" => p.readmit = "elapsed"

(* What every operation on the pool keeps.                                 *)
Kept(p, q) ==
    /\ PoolOK(q) /\ Present(q) = Present(p)
    /\ ReadmitOK(p) => ReadmitOK(q)
    /\ ~EpochMoved(p, q) => q.healthy = p.healthy

LEMMA MarkSuccessOK ==
  ASSUME NEW p, PoolOK(p), NEW b \in Present(p)
  PROVE  /\ Kept(p, MarkSuccess(p, b))
         /\ MarkSuccess(p, b).state = [p.state EXCEPT ![b] = RecordSuccess(p.state[b], b)]
<1> DEFINE s == RecordSuccess(p.state[b], b)
           q == MarkSuccess(p, b)
<1>1. b \in Backends /\ p.state \in [Backends -> BackendState] /\ p.state[b].health # "absent"
  BY DEF PoolOK, Present, BackendPool
<1>2. /\ s \in BackendState /\ CountersOK(s, b)
      /\ s.health \in {"healthy", "probing"} \/ s = p.state[b]
  BY <1>1, SuccessStates DEF PoolOK
<1>3. s.health # "absent"
  BY <1>1, <1>2
<1> HIDE DEF s
<1>4. PoolOK(q) /\ Reindexed(p, q, b, s)
  BY <1>2, <1>3, ReindexOK DEF MarkSuccess, s
<1> HIDE DEF q
<1>5. q.state = [p.state EXCEPT ![b] = s] /\ q.readmit = p.readmit
  BY <1>4 DEF Reindexed
<1>6. \A c \in Backends : q.state[c] = IF c = b THEN s ELSE p.state[c]
  BY <1>1, <1>5
<1>7. Present(q) = Present(p)
  BY <1>1, <1>3, <1>6, SMTT(30) DEF Present
<1>8. ReadmitOK(p) => ReadmitOK(q)
  BY <1>2, <1>5, <1>6 DEF ReadmitOK
<1>9. ~EpochMoved(p, q) => q.healthy = p.healthy
  BY <1>1, <1>4, <1>6 DEF EpochMoved, Reindexed
<1>10. QED
  BY <1>4, <1>5, <1>7, <1>8, <1>9 DEF Kept, q, s

LEMMA MarkFailureOK ==
  ASSUME NEW p, PoolOK(p), NEW b \in Present(p)
  PROVE  /\ Kept(p, MarkFailure(p, b))
         /\ MarkFailure(p, b).state = [p.state EXCEPT ![b] = RecordFailure(p.state[b], b)]
<1> DEFINE s == RecordFailure(p.state[b], b)
           moved == \/ IsHealthy(p.state[b]) # IsHealthy(s)
                    \/ IsProbing(p.state[b]) # IsProbing(s)
           q == Reindex(p, b, s)
           f == MarkFailure(p, b)
<1>1. b \in Backends /\ p.state \in [Backends -> BackendState] /\ p.state[b].health # "absent"
  BY DEF PoolOK, Present, BackendPool
<1>2. /\ s \in BackendState /\ CountersOK(s, b) /\ s.health \in {"cooling", p.state[b].health}
  BY <1>1, FailureStates DEF PoolOK
<1>3. s.health # "absent"
  BY <1>1, <1>2
<1>4. f = IF b \notin ActiveCheck /\ moved /\ q.readmit = "none"
          THEN [q EXCEPT !.readmit = "pending"] ELSE q
  BY DEF MarkFailure
<1> HIDE DEF s, f
<1>5. PoolOK(q) /\ Reindexed(p, q, b, s)
  BY <1>2, <1>3, ReindexOK
<1> HIDE DEF q
<1>6. /\ f \in BackendPool /\ f.state = q.state
      /\ f.healthy = q.healthy /\ f.healthyPos = q.healthyPos
      /\ f.probing = q.probing /\ f.probingPos = q.probingPos
      /\ f.readmit = IF b \notin ActiveCheck /\ moved /\ q.readmit = "none"
                     THEN "pending" ELSE q.readmit
  BY <1>4, <1>5, ZenonT(30) DEF PoolOK, BackendPool
<1>7. PoolOK(f)
  BY <1>5, <1>6 DEF PoolOK, ListsOK, ListedPresent, Present
<1>8. f.state = [p.state EXCEPT ![b] = s] /\ q.readmit = p.readmit
  BY <1>5, <1>6 DEF Reindexed
<1>9. \A c \in Backends : f.state[c] = IF c = b THEN s ELSE p.state[c]
  BY <1>1, <1>8, SMTT(30)
<1>10. Present(f) = Present(p)
  BY <1>1, <1>3, <1>9 DEF Present
<1>11. ASSUME ReadmitOK(p) PROVE ReadmitOK(f)
  <2>1. p.readmit # "none" => f.readmit = p.readmit
    BY <1>6, <1>8
  <2>2. ASSUME NEW c \in Backends \ ActiveCheck, c # b
        PROVE  /\ f.state[c].health = "cooling" => f.readmit # "none"
               /\ f.state[c].health = "cooled" => f.readmit = "elapsed"
    BY <1>9, <1>11, <2>1, <2>2, SMTT(30) DEF ReadmitOK
  <2>3. ASSUME b \notin ActiveCheck
        PROVE  /\ f.state[b].health = "cooling" => f.readmit # "none"
               /\ f.state[b].health = "cooled" => f.readmit = "elapsed"
    <3>1. CASE p.state[b].health \in {"healthy", "probing"}
      <4>1. s.health = "cooling" => moved
        BY <3>1 DEF IsHealthy, IsProbing
      <4>2. QED
        BY <1>1, <1>2, <1>6, <1>9, <2>3, <3>1, <4>1, SMTT(30)
    <3>2. CASE p.state[b].health \in {"cooling", "cooled"}
      BY <1>1, <1>2, <1>9, <1>11, <2>1, <2>3, <3>2, SMTT(30) DEF ReadmitOK
    <3>3. QED
      BY <1>1, <3>1, <3>2, SMTT(30) DEF BackendState, Healths
  <2>4. QED
    BY <2>2, <2>3 DEF ReadmitOK
<1>12. ~EpochMoved(p, f) => f.healthy = p.healthy
  BY <1>1, <1>5, <1>6, <1>9 DEF EpochMoved, Reindexed
<1>13. QED
  BY <1>7, <1>8, <1>10, <1>11, <1>12, SMTT(30) DEF Kept, f, s

(* Operations that leave healths, lists and the schedule alone.            *)
LEMMA TouchOK ==
  ASSUME NEW p, PoolOK(p), NEW q \in BackendPool,
         q.healthy = p.healthy, q.healthyPos = p.healthyPos,
         q.probing = p.probing, q.probingPos = p.probingPos, q.readmit = p.readmit,
         \A c \in Backends : q.state[c].health = p.state[c].health /\ CountersOK(q.state[c], c)
  PROVE  Kept(p, q)
<1>1. Present(q) = Present(p)
  BY DEF Present
<1>2. ListedPresent(q)
  BY <1>1 DEF PoolOK, ListedPresent
<1>3. DebugAssertions => ListsOK(q)
  BY DEF PoolOK, ListsOK, IsHealthy, IsProbing
<1>4. ReadmitOK(p) => ReadmitOK(q)
  BY DEF ReadmitOK
<1>5. QED
  BY <1>1, <1>2, <1>3, <1>4 DEF Kept, PoolOK

-------------------------------------------------------------------------------
(* Re-admission and picking.                                               *)

LEMMA LeastNatural ==
  ASSUME NEW T \in SUBSET Nat, T # {}
  PROVE  \E m \in T : \A n \in T : m <= n
<1> DEFINE R == OpToRel(<, Nat)
<1>1. IsWellFoundedOn(R, Nat)
  BY NatLessThanWellFounded
<1>2. \A x, y \in Nat : <<x, y>> \in R <=> x < y
  BY DEF OpToRel
<1> HIDE DEF R
<1>3. PICK m \in T : \A n \in T : ~(<<n, m>> \in R)
  BY <1>1, WFMin, ZenonT(30)
<1>4. ASSUME NEW n \in T PROVE m <= n
  <2>1. m \in Nat /\ n \in Nat
    OBVIOUS
  <2>2. ~(n < m)
    BY <1>2, <1>3, <2>1, Zenon
  <2>3. QED
    BY <2>1, <2>2
<1>5. QED
  BY <1>4

LEMMA ReconcileOK ==
  ASSUME NEW p, PoolOK(p)
  PROVE  /\ Kept(p, ReconcileReadmit(p)) /\ ReconcileReadmit(p).healthy = p.healthy
         /\ \A c \in Backends :
              ReconcileReadmit(p).state[c] =
                IF p.readmit = "elapsed" /\ c \notin ActiveCheck
                   /\ p.state[c].health = "cooled"
                THEN ToProbing(p.state[c], c) ELSE p.state[c]
<1> DEFINE due == {b \in Backends \ ActiveCheck : p.state[b].health = "cooled"}
           left == {b \in Backends \ ActiveCheck : p.state[b].health = "cooling"}
           new == {b \in due : p.probingPos[b] = 0}
           states == [b \in Backends |-> IF b \in due THEN ToProbing(p.state[b], b)
                                         ELSE p.state[b]]
           later == IF left = {} THEN "none" ELSE "pending"
           q == [p EXCEPT !.state = states, !.readmit = later]
           pos == [b \in Backends |-> IF b \in new THEN Len(q.probing) + RankIn(new, b)
                                      ELSE q.probingPos[b]]
           r == InDebugAssert(q, [q EXCEPT !.probing = @ \o InOrder(new),
                                           !.probingPos = pos])
<1>1. CASE p.readmit # "elapsed"
  BY <1>1 DEF ReconcileReadmit, Kept
<1>2. CASE p.readmit = "elapsed"
  <2>1. ReconcileReadmit(p) = r
    BY <1>2 DEF ReconcileReadmit
  <2>2. p \in BackendPool /\ \A b \in Backends : p.state[b] \in BackendState
    BY DEF PoolOK, BackendPool
  <2>3. \A b \in Backends : states[b] \in BackendState /\ CountersOK(states[b], b)
    BY <2>2, ProbingStates DEF PoolOK
  <2>4. \A b \in Backends : /\ IsProbing(states[b]) <=> b \in due \/ IsProbing(p.state[b])
                            /\ IsHealthy(states[b]) <=> IsHealthy(p.state[b])
                            /\ states[b].health = "absent" <=> p.state[b].health = "absent"
    BY <2>2, ProbingStates DEF IsProbing, IsHealthy
  <2>5. \A b \in Backends \ ActiveCheck : /\ states[b].health # "cooled"
                                          /\ states[b].health = "cooling" => b \in left
    BY <2>2, ProbingStates DEF IsProbing
  <2>6. /\ q \in BackendPool /\ q.state = states /\ q.readmit = later
        /\ q.healthy = p.healthy /\ q.healthyPos = p.healthyPos
        /\ q.probing = p.probing /\ q.probingPos = p.probingPos
    <3>1. states \in [Backends -> BackendState] /\ later \in {"none", "pending"}
      BY <2>3
    <3> HIDE DEF states, later
    <3>2. QED
      BY <2>2, <3>1, ZenonT(30) DEF BackendPool
  <2> HIDE DEF states, q
  <2>7. Present(q) = Present(p)
    BY <2>4, <2>6 DEF Present
  <2>8. ReadmitOK(q)
    BY <2>5, <2>6 DEF ReadmitOK
  <2>9. CASE ~DebugAssertions
    <3>1. r = q
      BY <2>9 DEF InDebugAssert
    <3>2. ListedPresent(q)
      BY <2>6, <2>7 DEF PoolOK, ListedPresent
    <3>3. QED
      BY <1>2, <2>1, <2>3, <2>6, <2>7, <2>8, <2>9, <3>1, <3>2, ZenonT(30) DEF Kept, PoolOK, states
  <2>10. CASE DebugAssertions
    <3>1. r = [q EXCEPT !.probing = q.probing \o InOrder(new), !.probingPos = pos]
      BY <2>10 DEF InDebugAssert
    <3>2. ListsOK(p)
      BY <2>10 DEF PoolOK
    <3>3. Indexed(q.probing \o InOrder(new), pos)
      <4>1. new \in SUBSET Backends /\ \A b \in new : q.probingPos[b] = 0
        BY <2>6
      <4>2. Indexed(q.probing, q.probingPos)
        BY <2>6, <3>2, SMTT(30) DEF ListsOK
      <4> HIDE DEF new
      <4>3. QED
        BY <4>1, <4>2, ConcatIndexed, SMTT(30)
    <3>4. q.probing \o InOrder(new) \in Seq(Backends) /\ pos \in [Backends -> Nat]
      BY <3>3, ZenonT(30) DEF Indexed
    <3>5. \A b \in Backends : pos[b] # 0 <=> b \in due \/ p.probingPos[b] # 0
      <4>1. \A b \in new : RankIn(new, b) \in 1..Cardinality(new)
        BY RankBijective
      <4>2. Len(q.probing) \in Nat /\ Cardinality(new) \in Nat
        BY <2>6, BackendSets DEF BackendPool
      <4>3. QED
        BY <2>6, <4>1, <4>2
    <3> HIDE DEF pos, new
    <3>6. /\ r \in BackendPool /\ r.state = states /\ r.readmit = later
          /\ r.healthy = p.healthy /\ r.healthyPos = p.healthyPos
          /\ r.probing = q.probing \o InOrder(new) /\ r.probingPos = pos
      BY <2>6, <3>1, <3>4, ZenonT(30) DEF BackendPool
    <3> HIDE DEF r
    <3>7. ListsOK(r)
      BY <2>4, <3>2, <3>3, <3>5, <3>6, SMTT(30) DEF ListsOK
    <3>8. ListedPresent(r) /\ Present(r) = Present(q) /\ ReadmitOK(r)
      BY <2>6, <2>8, <3>6, <3>7, ListsPresent DEF Present, ReadmitOK
    <3>9. QED
      BY <1>2, <2>1, <2>3, <2>7, <3>6, <3>7, <3>8 DEF Kept, PoolOK, states
  <2>11. QED
    BY <2>9, <2>10, PoolAssumption
<1>3. QED
  BY <1>1, <1>2

LEMMA RemainderRange ==
  ASSUME NEW a \in Nat, NEW n \in Nat \ {0}
  PROVE  a % n \in 0..(n - 1) /\ (a % n) + 1 \in 1..n
  OBVIOUS

(* A trial pick takes one grant of a listed backend.                       *)
LEMMA PickProbingOK ==
  ASSUME NEW p, PoolOK(p), PickProbing(p).choice # {}
  PROVE  \E b \in Present(p) :
           /\ PickProbing(p).choice = {b} /\ Kept(p, PickProbing(p).pool)
           /\ PickProbing(p).pool.healthy = p.healthy
           /\ p.state[b].budget > 0
           /\ DebugAssertions => IsProbing(p.state[b])
           /\ PickProbing(p).pool.state =
                [p.state EXCEPT ![b].budget = p.state[b].budget - 1]
<1> DEFINE len == Len(p.probing)
           at(k) == ((p.cursor + k) % len) + 1
           ready == {k \in 0..(len - 1) :
                       LET s == p.state[p.probing[at(k)]] IN s.active = 0 /\ s.budget > 0}
           first == CHOOSE k \in ready : \A j \in ready : k <= j
           b == p.probing[at(first)]
           q == [p EXCEPT !.state[b].budget = @ - 1, !.cursor = at(first)]
<1>1. /\ p \in BackendPool /\ len \in Nat /\ p.cursor \in Nat
      /\ p.state \in [Backends -> BackendState]
  BY DEF PoolOK, BackendPool
<1>2. len # 0 /\ ready # {}
  BY ZenonT(30) DEF PickProbing
<1>3. PickProbing(p).choice = {b} /\ PickProbing(p).pool = q
  BY <1>2, ZenonT(30) DEF PickProbing
<1>4. at(first) \in 1..len /\ first \in ready
  <2>1. ready \in SUBSET Nat
    BY <1>1
  <2> HIDE DEF ready
  <2>2. \E k \in ready : \A j \in ready : k <= j
    BY <1>2, <2>1, LeastNatural, SMTT(30)
  <2>3. first \in ready /\ first \in Nat
    BY <2>1, <2>2, ZenonT(30)
  <2> HIDE DEF first
  <2>4. p.cursor + first \in Nat /\ len \in Nat \ {0}
    BY <1>1, <1>2, <2>3
  <2>5. at(first) \in 1..len
    BY <2>4, RemainderRange, ZenonT(30)
  <2>6. QED
    BY <2>3, <2>5, SMTT(30)
<1> HIDE DEF first
<1>5. b \in Present(p) /\ p.state[b].budget > 0
  BY <1>4, SMTT(30) DEF PoolOK, ListedPresent
<1> HIDE DEF ready
<1>6. DebugAssertions => IsProbing(p.state[b])
  BY <1>4, SMTT(30) DEF PoolOK, ListsOK, Indexed
<1> HIDE DEF b
<1>7. /\ b \in Backends /\ p.state[b] \in BackendState /\ p.state[b].health = "probing"
      /\ CountersOK(p.state[b], b) /\ p.state[b].budget \in Nat
  BY <1>1, <1>5 DEF PoolOK, CountersOK, Present, BackendState
<1>8. /\ q.state = [p.state EXCEPT ![b].budget = p.state[b].budget - 1]
      /\ q.healthy = p.healthy /\ q.healthyPos = p.healthyPos
      /\ q.probing = p.probing /\ q.probingPos = p.probingPos /\ q.readmit = p.readmit
      /\ q.cursor = at(first)
  BY <1>1 DEF BackendPool
<1>9. [p.state[b] EXCEPT !.budget = p.state[b].budget - 1] \in BackendState
  BY <1>5, <1>7 DEF BackendState
<1>10. q \in BackendPool
  <2>1. [p.state EXCEPT ![b].budget = p.state[b].budget - 1] \in [Backends -> BackendState]
    BY <1>1, <1>7, <1>9
  <2>2. at(first) \in Nat
    BY <1>1, <1>4
  <2>3. QED
    BY <1>1, <2>1, <2>2, ZenonT(30) DEF BackendPool
<1>11. ASSUME NEW c \in Backends
       PROVE  q.state[c].health = p.state[c].health /\ CountersOK(q.state[c], c)
  BY <1>1, <1>7, <1>8, SMTT(30) DEF PoolOK, CountersOK, BackendState
<1> HIDE DEF q
<1>12. Kept(p, q)
  BY <1>8, <1>10, <1>11, TouchOK, ZenonT(30)
<1>13. QED
  BY <1>3, <1>5, <1>6, <1>8, <1>12, ZenonT(30)

-------------------------------------------------------------------------------
(* Least elements.                                                         *)

LEMMA RangeListed ==
  ASSUME NEW h \in Seq(Backends)
  PROVE  /\ Range(h) \in SUBSET Backends
         /\ \A k \in 1..Len(h) : h[k] \in Range(h)
         /\ \A b \in Range(h) : \E k \in 1..Len(h) : h[k] = b
<1>1. DOMAIN h = 1..Len(h) /\ \A k \in 1..Len(h) : h[k] \in Backends
  OBVIOUS
<1>2. QED
  BY <1>1, Zenon DEF Range

LEMMA LeastPair ==
  ASSUME NEW S, S # {}, S \subseteq Nat \X Nat
  PROVE  Least(S, IsBefore) \in S
<1> DEFINE A == {x[1] : x \in S}
<1>1. \A x \in S : x = <<x[1], x[2]>> /\ x[1] \in Nat /\ x[2] \in Nat
  OBVIOUS
<1>2. PICK a \in A : \A n \in A : a <= n
  <2>1. A \in SUBSET Nat /\ A # {}
    BY <1>1
  <2> HIDE DEF A
  <2>2. QED
    BY <2>1, LeastNatural
<1> DEFINE B == {x[2] : x \in {y \in S : y[1] = a}}
<1>3. PICK b \in B : \A n \in B : b <= n
  <2>1. B \in SUBSET Nat /\ B # {}
    BY <1>1, <1>2
  <2> HIDE DEF B
  <2>2. QED
    BY <2>1, LeastNatural
<1>4. PICK x \in S : x[1] = a /\ x[2] = b
  BY <1>3
<1>5. ASSUME NEW y \in S, y # x PROVE IsBefore(x, y)
  <2>1. a <= y[1] /\ (y[1] = a => b <= y[2])
    BY <1>2, <1>3
  <2>2. y[1] = a => y[2] # b
    BY <1>1, <1>4, <1>5
  <2>3. QED
    BY <1>1, <1>4, <2>1, <2>2 DEF IsBefore
<1>6. QED
  BY <1>5 DEF Least

LEMMA LeastConnectionsAmong ==
  ASSUME NEW S \in SUBSET Backends, NEW active \in [Backends -> Nat]
  PROVE  LeastConnections(S, active) \subseteq S
<1> DEFINE P == {<<active[b], b>> : b \in S}
<1>1. CASE S = {}
  BY <1>1 DEF LeastConnections
<1>2. CASE S # {}
  <2>1. P # {} /\ P \subseteq Nat \X Nat
    <3>1. \A b \in S : active[b] \in Nat /\ b \in Nat
      BY DEF Backends
    <3>2. \A x \in P : x \in Nat \X Nat
      BY <3>1
    <3>3. QED
      BY <1>2, <3>2, Zenon
  <2>2. LeastConnections(S, active) = {Least(P, IsBefore)[2]}
    BY <1>2 DEF LeastConnections
  <2>3. \A x \in P : x[2] \in S
    OBVIOUS
  <2> HIDE DEF P
  <2>4. QED
    BY <2>1, <2>2, <2>3, LeastPair
<1>3. QED
  BY <1>1, <1>2

LEMMA RankSampledAmong ==
  ASSUME NEW h \in Seq(Backends), NEW active \in [Backends -> Nat],
         NEW ewma \in [Backends -> Nat]
  PROVE  RankSampled(h, active, ewma) \subseteq Range(h)
<1> DEFINE S == {b \in Range(h) : ewma[b] > 0}
           score(b) == ewma[b] + ActivePenalty * active[b]
           before(x, y) == IsBefore(<<score(x), active[x]>>, <<score(y), active[y]>>)
                           \/ (score(x) = score(y) /\ active[x] = active[y] /\ x < y)
           least == CHOOSE x \in S : \A y \in S \ {x} : before(x, y)
<1>1. RankSampled(h, active, ewma) = IF S = {} THEN {} ELSE {least}
  BY DEF RankSampled, Least
<1>2. \A b \in S : b \in Nat /\ b \in Backends
  BY RangeListed DEF Backends
<1>3. \A b \in S : score(b) \in Nat /\ active[b] \in Nat
  BY <1>2 DEF ActivePenalty
<1>4. \A x, y \in S : before(x, y) <=>
        \/ score(x) < score(y)
        \/ score(x) = score(y) /\ active[x] < active[y]
        \/ score(x) = score(y) /\ active[x] = active[y] /\ x < y
  BY DEF IsBefore
<1>5. S \subseteq Range(h)
  OBVIOUS
<1> HIDE DEF S, score
<1>6. ASSUME S # {} PROVE least \in S
  <2> DEFINE A == {score(b) : b \in S}
  <2>1. PICK a \in A : \A n \in A : a <= n
    <3>1. A \in SUBSET Nat /\ A # {}
      BY <1>3, <1>6
    <3> HIDE DEF A
    <3>2. QED
      BY <3>1, LeastNatural
  <2> DEFINE B == {active[b] : b \in {c \in S : score(c) = a}}
  <2>2. PICK b \in B : \A n \in B : b <= n
    <3>1. B \in SUBSET Nat /\ B # {}
      BY <1>3, <2>1
    <3> HIDE DEF B
    <3>2. QED
      BY <3>1, LeastNatural
  <2> DEFINE C == {c \in S : score(c) = a /\ active[c] = b}
  <2>3. PICK c \in C : \A n \in C : c <= n
    <3>1. C \in SUBSET Nat /\ C # {}
      BY <1>2, <2>2
    <3> HIDE DEF C
    <3>2. QED
      BY <3>1, LeastNatural
  <2>4. ASSUME NEW y \in S, y # c PROVE before(c, y)
    <3>1. a <= score(y) /\ (score(y) = a => b <= active[y])
      BY <2>1, <2>2
    <3>2. score(y) = a /\ active[y] = b => c <= y
      BY <2>3
    <3>3. score(c) = a /\ active[c] = b /\ c \in S
      OBVIOUS
    <3>4. c \in Nat /\ y \in Nat /\ score(y) \in Nat /\ active[y] \in Nat /\ a \in Nat /\ b \in Nat
      BY <1>2, <1>3, <3>3
    <3>5. \/ score(c) < score(y)
          \/ score(c) = score(y) /\ active[c] < active[y]
          \/ score(c) = score(y) /\ active[c] = active[y] /\ c < y
      BY <2>4, <3>1, <3>2, <3>3, <3>4
    <3>6. QED
      BY <1>4, <3>3, <3>5
  <2> HIDE DEF before
  <2>5. QED
    BY <2>3, <2>4
<1> HIDE DEF least
<1>7. QED
  BY <1>1, <1>5, <1>6

-------------------------------------------------------------------------------
(* Smooth weighted round robin: the heaviest is always one of the members. *)

LEMMA HeaviestIn ==
  ASSUME NEW n \in Nat \ {0}, NEW cur \in [1..n -> Int]
  PROVE  Heaviest(cur) \in 1..n
<1> DEFINE Top(m, k) == \A j \in 1..m : cur[j] < cur[k] \/ (cur[j] = cur[k] /\ k <= j)
           Bad == {m \in 1..n : ~\E k \in 1..m : Top(m, k)}
<1>1. Bad = {}
  <2>1. SUFFICES ASSUME Bad # {} PROVE FALSE
    OBVIOUS
  <2>2. PICK m \in Bad : \A j \in Bad : m <= j
    <3>1. Bad \in SUBSET Nat
      OBVIOUS
    <3> HIDE DEF Bad
    <3>2. QED
      BY <2>1, <3>1, LeastNatural, SMTT(30)
  <2>3. m \in 1..n /\ ~\E k \in 1..m : Top(m, k)
    OBVIOUS
  <2>4. m # 1
    <3>1. cur[1] = cur[1] /\ 1 \in 1..1
      OBVIOUS
    <3>2. ASSUME m = 1 PROVE FALSE
      BY <2>3, <3>2
    <3>3. QED
      BY <3>2
  <2>5. m - 1 \in 1..n /\ m - 1 \notin Bad
    <3>1. m - 1 \in 1..n /\ ~(m <= m - 1)
      BY <2>3, <2>4
    <3> HIDE DEF Bad
    <3>2. QED
      BY <2>2, <3>1
  <2>6. PICK k \in 1..(m - 1) : Top(m - 1, k)
    BY <2>5
  <2>7. cur[k] \in Int /\ cur[m] \in Int /\ \A j \in 1..(m - 1) : cur[j] \in Int
    BY <2>3, <2>5
  <2>8. \A j \in 1..m : j = m \/ j \in 1..(m - 1)
    BY <2>3
  <2>9. CASE cur[m] > cur[k]
    <3>1. \A j \in 1..(m - 1) : cur[j] < cur[m]
      BY <2>6, <2>7, <2>9
    <3>2. Top(m, m)
      BY <2>3, <2>8, <3>1
    <3>3. QED
      BY <2>3, <3>2, SMTT(30)
  <2>10. CASE ~(cur[m] > cur[k])
    <3>1. Top(m, k)
      BY <2>3, <2>6, <2>7, <2>8, <2>10
    <3>2. QED
      BY <2>3, <3>1
  <2>11. QED
    BY <2>9, <2>10
<1>2. \E k \in 1..n : Top(n, k)
  <2>1. n \in 1..n /\ n \notin Bad
    <3> HIDE DEF Bad
    <3>1. QED
      BY <1>1
  <2> HIDE DEF Top
  <2>2. QED
    BY <2>1
<1>3. DOMAIN cur = 1..n
  OBVIOUS
<1>4. QED
  BY <1>2, <1>3, ZenonT(30) DEF Heaviest

LEMMA GcdIn ==
  ASSUME NEW n \in Nat \ {0}, NEW ws \in [1..n -> Nat \ {0}]
  PROVE  Gcd(ws) \in Nat \ {0}
<1> DEFINE D == {d \in 1..ws[1] : Divides(d, ws)}
           C == {ws[1] - d : d \in D}
<1>1. ws[1] \in Nat \ {0}
  OBVIOUS
<1>2. Divides(1, ws)
  <2>1. \A k \in 1..n : ws[k] \in Int
    OBVIOUS
  <2>2. \A x \in Int : x % 1 = 0
    OBVIOUS
  <2>3. QED
    BY <2>1, <2>2 DEF Divides
<1>3. PICK c \in C : \A e \in C : c <= e
  <2>1. \A d \in D : ws[1] - d \in Nat
    BY <1>1
  <2>2. 1 \in D
    BY <1>1, <1>2
  <2>3. C \in SUBSET Nat /\ C # {}
    BY <2>1, <2>2, Zenon
  <2> HIDE DEF C
  <2>4. QED
    BY <2>3, LeastNatural
<1>4. PICK d \in D : c = ws[1] - d
  OBVIOUS
<1>5. ASSUME NEW e \in (d + 1)..ws[1] PROVE ~Divides(e, ws)
  <2>1. e \in D => ws[1] - d <= ws[1] - e
    BY <1>3, <1>4
  <2>2. QED
    BY <1>1, <2>1
<1>6. d \in 1..ws[1] /\ Divides(d, ws)
  OBVIOUS
<1>7. Gcd(ws) \in 1..ws[1]
  BY <1>5, <1>6 DEF Gcd
<1>8. QED
  BY <1>1, <1>7

LEMMA TurnsNat ==
  ASSUME NEW n \in Nat, NEW w \in [1..n -> Nat]
  PROVE  Turns(w) \in Nat
<1> DEFINE of == [k \in 1..n |-> {k} \X (1..w[k])]
           T == {{k} \X (1..w[k]) : k \in 1..n}
<1>1. IsFiniteSet(1..n)
  BY FS_Interval
<1>2. of \in Surjection(1..n, T)
  BY Zenon DEF Surjection
<1>3. ASSUME NEW t \in T PROVE IsFiniteSet(t)
  <2>1. PICK k \in 1..n : t = {k} \X (1..w[k])
    OBVIOUS
  <2>2. IsFiniteSet({k})
    BY FS_Singleton, Zenon
  <2>3. IsFiniteSet(1..w[k])
    BY FS_Interval
  <2>4. QED
    BY <2>1, <2>2, <2>3, FS_Product
<1>4. Turns(w) = Cardinality(UNION T)
  BY DEF Turns
<1> HIDE DEF of, T
<1>5. IsFiniteSet(T)
  BY <1>1, <1>2, FS_Surjection
<1>6. QED
  BY <1>3, <1>4, <1>5, FS_UNION, FS_CardinalityType

(* The weights the turns start from are integers.                          *)
LEMMA CurrentWeightsType ==
  ASSUME NEW n \in Nat \ {0}, NEW w \in [1..n -> Nat]
  PROVE  \A t \in 0..Turns(w) : CurrentWeights(w)[t] \in [1..n -> Int]
<1> DEFINE T == Turns(w)
           Zero == [k \in DOMAIN w |-> 0]
           Step(c) == [Gain(c, w) EXCEPT ![Heaviest(Gain(c, w))] = @ - Turns(w)]
           Rec(f, m) == f = [t \in 0..m |-> IF t = 0 THEN Zero ELSE Step(f[t - 1])]
<1>1. T \in Nat
  BY TurnsNat
<1>2. CurrentWeights(w) = CHOOSE f : Rec(f, T)
  BY DEF CurrentWeights
<1>3. ASSUME NEW c \in [1..n -> Int] PROVE Step(c) \in [1..n -> Int]
  <2>1. DOMAIN w = 1..n
    OBVIOUS
  <2>2. Gain(c, w) \in [1..n -> Int]
    BY <2>1 DEF Gain
  <2>3. Heaviest(Gain(c, w)) \in 1..n
    BY <2>2, HeaviestIn
  <2> HIDE DEF T
  <2>4. QED
    BY <1>1, <2>2, <2>3 DEF T
<1>4. Zero \in [1..n -> Int]
  OBVIOUS
<1> HIDE DEF T, Zero, Step
<1>5. \E f : Rec(f, T)
  <2> DEFINE Bad == {m \in Nat : ~\E f : Rec(f, m)}
  <2>1. SUFFICES ASSUME Bad # {} PROVE FALSE
    BY <1>1, ZenonT(30)
  <2>2. PICK m \in Bad : \A j \in Bad : m <= j
    <3>1. Bad \in SUBSET Nat
      OBVIOUS
    <3> HIDE DEF Bad
    <3>2. QED
      BY <2>1, <3>1, LeastNatural, SMTT(30)
  <2>3. m \in Nat /\ ~\E f : Rec(f, m)
    OBVIOUS
  <2>4. m # 0
    <3>1. ASSUME m = 0 PROVE FALSE
      <4> DEFINE f == [t \in 0..0 |-> Zero]
      <4>1. Rec(f, 0)
        OBVIOUS
      <4>2. QED
        BY <2>3, <3>1, <4>1, Zenon
    <3>2. QED
      BY <3>1
  <2>5. m - 1 \in Nat /\ m - 1 \notin Bad
    <3>1. m - 1 \in Nat /\ ~(m <= m - 1)
      BY <2>3, <2>4
    <3> HIDE DEF Bad
    <3>2. QED
      BY <2>2, <3>1
  <2>6. PICK f : Rec(f, m - 1)
    BY <2>5, Zenon
  <2> DEFINE g == [t \in 0..m |-> IF t = m THEN Step(f[m - 1]) ELSE f[t]]
  <2>7. ASSUME NEW t \in 0..m PROVE g[t] = IF t = 0 THEN Zero ELSE Step(g[t - 1])
    <3>1. \A s \in 0..(m - 1) : /\ f[s] = IF s = 0 THEN Zero ELSE Step(f[s - 1])
                                /\ g[s] = f[s]
      BY <2>3, <2>5, <2>6
    <3>2. CASE t = m
      BY <2>4, <2>5, <3>1, <3>2
    <3>3. CASE t # m
      <4>1. t \in 0..(m - 1) /\ (t # 0 => t - 1 \in 0..(m - 1))
        BY <2>3, <2>5, <3>3
      <4>2. QED
        BY <3>1, <4>1, ZenonT(30)
    <3>4. QED
      BY <3>2, <3>3
  <2>8. DOMAIN g = 0..m /\ g = [t \in 0..m |-> g[t]]
    OBVIOUS
  <2> HIDE DEF g
  <2>9. Rec(g, m)
    BY <2>7, <2>8, Zenon
  <2>10. QED
    BY <2>3, <2>9, Zenon
<1> DEFINE h == CHOOSE f : Rec(f, T)
<1>6. Rec(h, T)
  BY <1>5, Zenon
<1> HIDE DEF h
<1>7. \A t \in 0..T : h[t] = IF t = 0 THEN Zero ELSE Step(h[t - 1])
  BY <1>6, ZenonT(30)
<1> DEFINE Bad == {t \in 0..T : h[t] \notin [1..n -> Int]}
<1>8. Bad = {}
  <2>1. SUFFICES ASSUME Bad # {} PROVE FALSE
    OBVIOUS
  <2>2. PICK m \in Bad : \A j \in Bad : m <= j
    <3>1. Bad \in SUBSET Nat
      BY <1>1
    <3> HIDE DEF Bad
    <3>2. QED
      BY <2>1, <3>1, LeastNatural
  <2>3. m \in 0..T /\ h[m] \notin [1..n -> Int]
    OBVIOUS
  <2>4. m # 0
    BY <1>4, <1>7, <2>3, SMTT(30)
  <2>5. m - 1 \in 0..T /\ m - 1 \notin Bad
    <3>1. m - 1 \in 0..T /\ ~(m <= m - 1)
      BY <1>1, <2>3, <2>4
    <3> HIDE DEF Bad
    <3>2. QED
      BY <2>2, <3>1
  <2>6. h[m - 1] \in [1..n -> Int]
    BY <2>5
  <2>7. QED
    BY <1>3, <1>7, <2>3, <2>4, <2>6, SMTT(30)
<1>9. QED
  BY <1>2, <1>8 DEF T, h

LEMMA AtCursorIn ==
  ASSUME NEW s \in Seq(Backends), NEW c \in Nat
  PROVE  AtCursor(s, c) \subseteq Range(s)
<1>1. CASE s = <<>>
  BY <1>1 DEF AtCursor
<1>2. CASE s # <<>>
  <2>1. Len(s) \in Nat \ {0}
    BY <1>2
  <2>2. (c % Len(s)) + 1 \in 1..Len(s)
    BY <2>1, RemainderRange
  <2>3. AtCursor(s, c) = {s[(c % Len(s)) + 1]}
    BY <1>2 DEF AtCursor
  <2>4. QED
    BY <2>2, <2>3, RangeListed
<1>3. QED
  BY <1>1, <1>2

(* Every turn schedules a member.                                          *)
LEMMA ScheduleIn ==
  ASSUME NEW m \in Seq(Backends), NEW c \in Nat
  PROVE  AtCursor(BuildWeightedSequence(m), c) \subseteq Range(m)
<1> DEFINE n == Len(m)
           raw == [k \in DOMAIN m |-> Weight[m[k]]]
           w == [k \in DOMAIN m |-> raw[k] \div Gcd(raw)]
           before == CurrentWeights(w)
           s == [t \in 1..Turns(w) |-> m[Heaviest(Gain(before[t - 1], w))]]
<1>1. CASE m = <<>>
  BY <1>1 DEF BuildWeightedSequence, AtCursor
<1>2. CASE m # <<>>
  <2>1. BuildWeightedSequence(m) = s
    BY <1>2 DEF BuildWeightedSequence
  <2>2. n \in Nat \ {0} /\ DOMAIN m = 1..n /\ \A k \in 1..n : m[k] \in Backends
    BY <1>2
  <2>3. raw \in [1..n -> Nat \ {0}]
    BY <2>2, PoolAssumption
  <2> HIDE DEF n, raw
  <2>4. Gcd(raw) \in Nat \ {0}
    BY <2>2, <2>3, GcdIn
  <2>5. \A x \in Nat \ {0} : x \div Gcd(raw) \in Nat
    BY <2>4
  <2>6. w \in [1..n -> Nat]
    BY <2>2, <2>3, <2>5
  <2> HIDE DEF w
  <2>7. Turns(w) \in Nat
    BY <2>2, <2>6, TurnsNat
  <2>8. ASSUME NEW t \in 1..Turns(w)
        PROVE  m[Heaviest(Gain(before[t - 1], w))] \in Range(m)
    <3>1. t - 1 \in 0..Turns(w)
      BY <2>7
    <3>2. before[t - 1] \in [1..n -> Int]
      BY <2>2, <2>6, <3>1, CurrentWeightsType, SMTT(30)
    <3> DEFINE cur == before[t - 1]
    <3> HIDE DEF before, cur
    <3>3. Gain(cur, w) \in [1..n -> Int]
      <4>1. DOMAIN w = 1..n /\ \A k \in 1..n : cur[k] + w[k] \in Int
        <5>1. cur \in [1..n -> Int]
          BY <3>2 DEF cur
        <5>2. \A k \in 1..n : cur[k] \in Int /\ w[k] \in Nat
          BY <2>6, <5>1
        <5>3. QED
          BY <2>6, <5>2
      <4>2. QED
        BY <4>1 DEF Gain
    <3>4. Heaviest(Gain(before[t - 1], w)) \in 1..n
      BY <2>2, <3>3, HeaviestIn DEF cur
    <3>5. QED
      BY <3>4, RangeListed DEF n
  <2> HIDE DEF before
  <2>9. s \in [1..Turns(w) -> Range(m)] /\ Range(m) \in SUBSET Backends
    BY <2>8, RangeListed
  <2>10. DOMAIN s = 1..Turns(w) /\ s \in Seq(Backends)
    BY <2>7, <2>9
  <2> HIDE DEF s
  <2>11. AtCursor(s, c) \subseteq Range(s)
    BY <2>10, AtCursorIn
  <2>12. Range(s) \subseteq Range(m)
    BY <2>9, <2>10, Zenon DEF Range
  <2>13. QED
    BY <2>1, <2>11, <2>12, SMTT(30)
<1>3. QED
  BY <1>1, <1>2

LEMMA RingLookupIn ==
  ASSUME NEW m \in Seq(Backends), NEW key \in Keys
  PROVE  RingLookup(m, key) \subseteq Range(m)
<1> DEFINE ring == RebuildRing(m)
           exact == {e \in ring : e[1] = KeyHash[key]}
           above == {e \in ring : e[1] > KeyHash[key]}
           from == IF above = {} THEN ring ELSE above
<1>1. ASSUME NEW e \in ring PROVE e \in Nat \X Nat /\ e[2] \in Range(m)
  <2>1. PICK b \in Range(m) : \E r \in 1..Weight[b] : e = <<ReplicaHash[b][r], b>>
    BY Zenon DEF RebuildRing
  <2>2. b \in Backends
    BY RangeListed
  <2>3. (\A r \in 1..Weight[b] : ReplicaHash[b][r] \in Nat) /\ b \in Nat
    BY <2>2, PoolAssumption DEF Backends
  <2>4. QED
    BY <2>1, <2>3
<1> HIDE DEF ring
<1>2. RingLookup(m, key) = IF ring = {} THEN {}
                           ELSE IF exact # {} THEN {e[2] : e \in exact}
                           ELSE {Least(from, IsBefore)[2]}
  BY DEF RingLookup, ring
<1>3. ASSUME ring # {} PROVE Least(from, IsBefore) \in ring
  <2>1. from # {} /\ from \subseteq ring
    BY <1>3
  <2> HIDE DEF from
  <2>2. from \subseteq Nat \X Nat
    BY <1>1, <2>1
  <2>3. QED
    BY <2>1, <2>2, LeastPair
<1> HIDE DEF from
<1>4. QED
  BY <1>1, <1>2, <1>3

-------------------------------------------------------------------------------
(* A pick by a strategy: from the healthy list, with a cache of that list. *)
Picked(h, out) ==
    /\ out.choice \subseteq Range(h)
    /\ out.lb \in Balancer
    /\ out.lb.fresh => out.lb.members = h

LEMMA LatencyAwareIn ==
  ASSUME NEW bal \in Balancer, NEW h \in Seq(Backends), bal.fresh => bal.members = h,
         NEW active \in [Backends -> Nat], NEW ewma \in [Backends -> Nat],
         Advanced(bal) \in Nat
  PROVE  Picked(h, LatencyAwarePick(bal, h, active, ewma))
<1> DEFINE sampled == RankSampled(h, active, ewma)
           unsampled == RankUnsampled(h, active, ewma)
           explore == /\ Len(h) >= 2
                      /\ (bal.selections + 1) % ExplorationInterval = 0
           probing == sampled # {} /\ unsampled # {} /\ ~explore
           probe == /\ probing
                    /\ \A b \in unsampled : active[b] = 0
                    /\ (bal.unsampled + 1) % UnsampledInterval = 0
           out == LatencyAwarePick(bal, h, active, ewma)
           l == [bal EXCEPT
                   !.selections = (bal.selections + 1) % ExplorationInterval,
                   !.next = IF explore THEN Advanced(bal) ELSE bal.next,
                   !.unsampled = IF probing THEN (bal.unsampled + 1) % UnsampledInterval
                                 ELSE bal.unsampled]
<1>1. /\ out.choice = CASE explore -> AtCursor(h, bal.next)
                        [] sampled = {} \/ probe -> unsampled
                        [] OTHER -> sampled
      /\ out.lb = l
  BY Zenon DEF LatencyAwarePick
<1>2. sampled \subseteq Range(h)
  BY RankSampledAmong, SMTT(30)
<1>3. unsampled \subseteq Range(h)
  <2> DEFINE S == {b \in Range(h) : ewma[b] = 0}
  <2>1. S \in SUBSET Backends /\ S \subseteq Range(h)
    BY RangeListed
  <2>2. unsampled = LeastConnections(S, active)
    BY DEF RankUnsampled
  <2> HIDE DEF S
  <2>3. QED
    BY <2>1, <2>2, LeastConnectionsAmong
<1>4. bal.next \in Nat /\ bal.selections \in Nat /\ bal.unsampled \in Nat
  BY DEF Balancer
<1>5. AtCursor(h, bal.next) \subseteq Range(h)
  BY <1>4, AtCursorIn
<1>6. l \in Balancer /\ l.fresh = bal.fresh /\ l.members = bal.members
  <2>1. (bal.selections + 1) % ExplorationInterval \in Nat
    BY <1>4, PoolAssumption
  <2>2. (bal.unsampled + 1) % UnsampledInterval \in Nat
    BY <1>4, PoolAssumption
  <2> HIDE DEF explore, probing
  <2>3. QED
    BY <1>4, <2>1, <2>2, ZenonT(30) DEF Balancer
<1> HIDE DEF sampled, unsampled, explore, l
<1>7. out.choice \subseteq Range(h)
  BY <1>1, <1>2, <1>3, <1>5
<1>8. QED
  BY <1>1, <1>6, <1>7, ZenonT(30) DEF Picked

LEMMA AdvancedNat ==
  ASSUME NEW bal \in Balancer
  PROVE  Advanced(bal) \in Nat
<1> DEFINE x == bal.next + 1
           y == CursorWrap[bal.strategy]
<1>1. x \in Nat /\ y \in Nat \ {0}
  BY PoolAssumption DEF Balancer
<1>2. Advanced(bal) = x % y
  BY SMTT(30) DEF Advanced
<1> HIDE DEF x, y
<1>3. QED
  BY <1>1, <1>2, RemainderRange

LEMMA LbPickIn ==
  ASSUME NEW bal \in Balancer, NEW h \in Seq(Backends), bal.fresh => bal.members = h,
         NEW key \in Keys,
         NEW active \in [Backends -> Nat], NEW ewma \in [Backends -> Nat]
  PROVE  Picked(h, LbPick(bal, key, h, active, ewma))
<1> DEFINE cached == Refreshed(bal, h)
           out == LbPick(bal, key, h, active, ewma)
<1>1. cached \in Balancer /\ cached.fresh /\ cached.members = h
  BY ZenonT(30) DEF Refreshed, Balancer
<1>2. Range(h) \in SUBSET Backends /\ Advanced(bal) \in Nat /\ bal.next \in Nat
  BY AdvancedNat, RangeListed DEF Balancer
<1> HIDE DEF cached
<1>3. CASE bal.strategy = "round-robin"
  <2> DEFINE base == IF h = <<>> THEN bal ELSE cached
             l == [base EXCEPT !.next = Advanced(bal)]
             choice == IF h = <<>> THEN {}
                       ELSE AtCursor(BuildWeightedSequence(cached.members), bal.next)
  <2>1. out = [choice |-> choice, lb |-> l]
    BY <1>3 DEF LbPick, cached
  <2>2. choice \subseteq Range(h)
    BY <1>1, <1>2, ScheduleIn
  <2>3. base \in Balancer /\ (base.fresh => base.members = h)
    BY <1>1
  <2> HIDE DEF base
  <2>4. l \in Balancer /\ (l.fresh => l.members = h)
    BY <1>2, <2>3, ZenonT(30) DEF Balancer
  <2> HIDE DEF l, choice
  <2>5. QED
    BY <2>1, <2>2, <2>4 DEF Picked
<1>4. CASE bal.strategy = "random"
  <2>1. out = IF h = <<>> THEN [choice |-> {}, lb |-> bal]
              ELSE [choice |-> RandomDraw(cached.members), lb |-> cached]
    BY <1>4 DEF LbPick, cached
  <2>2. RandomDraw(cached.members) \subseteq Range(h)
    BY <1>1 DEF RandomDraw
  <2>3. QED
    BY <1>1, <2>1, <2>2 DEF Picked
<1>5. CASE bal.strategy = "least-connections"
  <2>1. out = [choice |-> LeastConnections(Range(h), active), lb |-> bal]
    BY <1>5 DEF LbPick
  <2>2. QED
    BY <1>2, <2>1, LeastConnectionsAmong, SMTT(30) DEF Picked
<1>6. CASE bal.strategy = "latency-aware"
  <2>1. out = LatencyAwarePick(bal, h, active, ewma)
    BY <1>6 DEF LbPick
  <2>2. QED
    BY <1>2, <2>1, LatencyAwareIn, ZenonT(30)
<1>7. CASE bal.strategy = "sticky-cid" /\ key = NoKey
  <2>1. out = [choice |-> IF h = <<>> THEN {} ELSE {h[1]}, lb |-> bal]
    BY <1>7 DEF LbPick
  <2>2. h # <<>> => 1 \in 1..Len(h)
    OBVIOUS
  <2>3. h # <<>> => h[1] \in Range(h)
    BY <2>2, RangeListed
  <2>4. QED
    BY <2>1, <2>3 DEF Picked
<1>8. CASE (bal.strategy = "sticky-cid" /\ key # NoKey) \/ bal.strategy = "consistent-hash"
  <2>1. out = [choice |-> RingLookup(cached.members, key), lb |-> cached]
    BY <1>8 DEF LbPick, cached
  <2>2. QED
    BY <1>1, <2>1, RingLookupIn DEF Picked
<1>9. QED
  BY <1>3, <1>4, <1>5, <1>6, <1>7, <1>8, SMTT(30) DEF Balancer, Strategies
===============================================================================
