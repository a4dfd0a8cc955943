------------------------- MODULE BackendRotationProofs -------------------------
(***************************************************************************)
(* The upstream pool with its requests and health checks, for any number   *)
(* of backends, requests, thresholds, weights and hashes: the lists and    *)
(* the re-admission schedule stay right, and the pool implements           *)
(* BackendRotation.                                                        *)
(***************************************************************************)
EXTENDS UpstreamPoolProofs

-------------------------------------------------------------------------------
(* The inductive invariant.  Requests and checks refer to backends the     *)
(* upstream has, and a fresh cache is a cache of the healthy list.         *)
TargetsPresent ==
    /\ \A r \in Slots : req[r].stage # "idle" => req[r].target \in Present(pool)
    /\ \A b \in ActiveCheck : job[b].pending => b \in Present(pool)

CacheCurrent == lb.fresh => lb.members = pool.healthy

IInv == TypeOK /\ PoolOK(pool) /\ ReadmitOK(pool) /\ TargetsPresent /\ CacheCurrent

-------------------------------------------------------------------------------
(* Operations of a request.                                                *)

(* A backend's record changes in what neither lists nor thresholds read.   *)
SameRotation(s, t) == /\ t \in BackendState /\ t.health = s.health /\ t.fails = s.fails
                      /\ t.successes = s.successes /\ t.budget = s.budget
Touched(p, q, b, t) ==
    /\ Kept(p, q) /\ q.healthy = p.healthy /\ q.probing = p.probing
    /\ q.state = [p.state EXCEPT ![b] = t]

LEMMA TouchedOK ==
  ASSUME NEW p, PoolOK(p), NEW b \in Backends, NEW t, SameRotation(p.state[b], t),
         NEW q, q = [p EXCEPT !.state[b] = t]
  PROVE  Touched(p, q, b, t)
<1>1. p \in BackendPool /\ p.state \in [Backends -> BackendState] /\ t \in BackendState
  BY DEF PoolOK, BackendPool, SameRotation
<1>2. /\ q.state = [p.state EXCEPT ![b] = t]
      /\ q.healthy = p.healthy /\ q.healthyPos = p.healthyPos
      /\ q.probing = p.probing /\ q.probingPos = p.probingPos /\ q.readmit = p.readmit
      /\ q \in BackendPool
  BY <1>1, Zenon DEF BackendPool
<1>3. \A c \in Backends : q.state[c] = IF c = b THEN t ELSE p.state[c]
  BY <1>1, <1>2
<1>4. \A c \in Backends : q.state[c].health = p.state[c].health /\ CountersOK(q.state[c], c)
  BY <1>3 DEF PoolOK, CountersOK, SameRotation
<1>5. Kept(p, q)
  BY <1>2, <1>4, TouchOK, ZenonT(30)
<1>6. QED
  BY <1>2, <1>5 DEF Touched

LEMMA BeginOK ==
  ASSUME NEW p, PoolOK(p), NEW b \in Backends
  PROVE  \E t : SameRotation(p.state[b], t) /\ Touched(p, BeginRequest(p, b), b, t)
<1> DEFINE t == [p.state[b] EXCEPT !.active = p.state[b].active + 1]
<1>1. p.state[b] \in BackendState
  BY DEF PoolOK, BackendPool
<1>2. SameRotation(p.state[b], t)
  BY <1>1 DEF SameRotation, BackendState
<1>3. BeginRequest(p, b) = [p EXCEPT !.state[b] = t]
  BY DEF BeginRequest
<1> HIDE DEF t
<1>4. QED
  BY <1>2, <1>3, TouchedOK

LEMMA FinishOK ==
  ASSUME NEW p, PoolOK(p), NEW b \in Backends, NEW sampled \in BOOLEAN, NEW e \in Nat
  PROVE  \E t : /\ SameRotation(p.state[b], t)
                /\ Touched(p, FinishRequest(p, b, sampled, e), b, t)
<1> DEFINE a == IF p.state[b].active = 0 THEN 0 ELSE p.state[b].active - 1
           l == IF sampled THEN e ELSE p.state[b].ewma
           t == [p.state[b] EXCEPT !.active = a, !.ewma = l]
<1>1. /\ p \in BackendPool /\ p.state \in [Backends -> BackendState]
      /\ p.state[b] \in BackendState
  BY DEF PoolOK, BackendPool
<1>2. a \in Nat /\ l \in Nat
  BY <1>1 DEF BackendState
<1>3. FinishRequest(p, b, sampled, e) = [p EXCEPT !.state[b] = t]
  <2>1. FinishRequest(p, b, sampled, e) = [p EXCEPT !.state[b].active = a, !.state[b].ewma = l]
    BY <1>1 DEF FinishRequest, BackendPool, BackendState
  <2> HIDE DEF a, l
  <2>2. QED
    BY <1>1, <2>1, ZenonT(30) DEF BackendPool, BackendState
<1> HIDE DEF a, l
<1>4. SameRotation(p.state[b], t)
  BY <1>1, <1>2, ZenonT(30) DEF SameRotation, BackendState
<1> HIDE DEF t
<1>5. QED
  BY <1>3, <1>4, TouchedOK

(* An observation records a success, a failure or nothing.                 *)
Observed(p, q, b) ==
    /\ Kept(p, q)
    /\ \E t : /\ q.state = [p.state EXCEPT ![b] = t]
              /\ \/ SameRotation(RecordSuccess(p.state[b], b), t)
                 \/ SameRotation(RecordFailure(p.state[b], b), t)
                 \/ SameRotation(p.state[b], t)

LEMMA UnobservedOK ==
  ASSUME NEW p, PoolOK(p), NEW b \in Present(p)
  PROVE  Observed(p, p, b)
<1>1. p.state \in [Backends -> BackendState] /\ b \in Backends
  BY DEF PoolOK, BackendPool, Present
<1>2. SameRotation(p.state[b], p.state[b]) /\ p.state = [p.state EXCEPT ![b] = p.state[b]]
  BY <1>1 DEF SameRotation
<1>3. Kept(p, p)
  BY DEF Kept
<1>4. QED
  BY <1>2, <1>3, Zenon DEF Observed

LEMMA SuccessObserved ==
  ASSUME NEW p, PoolOK(p), NEW b \in Present(p)
  PROVE  Observed(p, MarkSuccess(p, b), b)
<1> DEFINE t == RecordSuccess(p.state[b], b)
<1>1. /\ p.state[b] \in BackendState /\ b \in Backends
      /\ CountersOK(p.state[b], b) /\ p.state[b].health # "absent"
  BY DEF PoolOK, BackendPool, Present
<1>2. t \in BackendState
  BY <1>1, SuccessStates
<1> HIDE DEF t
<1>3. SameRotation(t, t)
  BY <1>2 DEF SameRotation
<1>4. Kept(p, MarkSuccess(p, b)) /\ MarkSuccess(p, b).state = [p.state EXCEPT ![b] = t]
  BY MarkSuccessOK DEF t
<1>5. QED
  BY <1>3, <1>4, Zenon DEF Observed, t

LEMMA FailureObserved ==
  ASSUME NEW p, PoolOK(p), NEW b \in Present(p)
  PROVE  Observed(p, MarkFailure(p, b), b)
<1> DEFINE t == RecordFailure(p.state[b], b)
<1>1. /\ p.state[b] \in BackendState /\ b \in Backends
      /\ CountersOK(p.state[b], b) /\ p.state[b].health # "absent"
  BY DEF PoolOK, BackendPool, Present
<1>2. t \in BackendState
  BY <1>1, FailureStates
<1> HIDE DEF t
<1>3. SameRotation(t, t)
  BY <1>2 DEF SameRotation
<1>4. Kept(p, MarkFailure(p, b)) /\ MarkFailure(p, b).state = [p.state EXCEPT ![b] = t]
  BY MarkFailureOK DEF t
<1>5. QED
  BY <1>3, <1>4, Zenon DEF Observed, t

(* The latency penalty of a failed request comes on top.                   *)
LEMMA PenalisedObserved ==
  ASSUME NEW p, NEW q, NEW b \in Backends, NEW e \in Nat, PoolOK(p), Observed(p, q, b)
  PROVE  Observed(p, [q EXCEPT !.state[b].ewma = e], b)
<1> DEFINE t == [q.state[b] EXCEPT !.ewma = e]
           r == [q EXCEPT !.state[b] = t]
<1>1. PoolOK(q) /\ q.state[b] \in BackendState
  BY DEF Observed, Kept, PoolOK, BackendPool
<1>2. SameRotation(q.state[b], t)
  BY <1>1 DEF SameRotation, BackendState
<1>3. r = [q EXCEPT !.state[b].ewma = e]
  OBVIOUS
<1> HIDE DEF t
<1>4. Touched(q, r, b, t)
  BY <1>1, <1>2, TouchedOK
<1> HIDE DEF r
<1>5. Kept(p, q) /\ Kept(q, r) /\ r.healthy = q.healthy /\ r.state = [q.state EXCEPT ![b] = t]
  BY <1>4 DEF Observed, Touched
<1>6. PICK s : /\ q.state = [p.state EXCEPT ![b] = s]
               /\ \/ SameRotation(RecordSuccess(p.state[b], b), s)
                  \/ SameRotation(RecordFailure(p.state[b], b), s)
                  \/ SameRotation(p.state[b], s)
  BY DEF Observed
<1>7. p.state \in [Backends -> BackendState] /\ q.state \in [Backends -> BackendState]
  BY <1>1 DEF PoolOK, BackendPool
<1>8. q.state[b] = s /\ r.state = [p.state EXCEPT ![b] = t]
  BY <1>5, <1>6, <1>7, SMTT(30)
<1>9. \/ SameRotation(RecordSuccess(p.state[b], b), t)
      \/ SameRotation(RecordFailure(p.state[b], b), t)
      \/ SameRotation(p.state[b], t)
  BY <1>2, <1>6, <1>8, SMTT(30) DEF SameRotation
<1>10. Kept(p, r)
  <2>1. \A c \in Backends : IsHealthy(r.state[c]) = IsHealthy(q.state[c])
    BY <1>2, <1>5, <1>7 DEF IsHealthy, SameRotation
  <2>2. EpochMoved(p, r) <=> EpochMoved(p, q)
    BY <2>1 DEF EpochMoved
  <2>3. QED
    BY <1>5, <2>2 DEF Kept
<1>11. QED
  BY <1>3, <1>8, <1>9, <1>10, Zenon DEF Observed

LEMMA FeedbackOK ==
  ASSUME NEW b \in Present(pool), PoolOK(pool), NEW outcome \in Outcomes
  PROVE  Observed(pool, Feedback(pool, b, outcome), b)
<1>1. Observed(pool, MarkRequestSuccess(pool, b), b)
  BY UnobservedOK, SuccessObserved DEF MarkRequestSuccess
<1>2. Observed(pool, MarkRequestFailure(pool, b), b)
  BY UnobservedOK, FailureObserved DEF MarkRequestFailure
<1>3. Observed(pool, ObserveRequestFailure(pool, b), b)
  <2>1. b \in Backends /\ Sample(2) \in Nat
    BY DEF Present, Sample
  <2>2. QED
    BY <1>2, <2>1, PenalisedObserved DEF ObserveRequestFailure
<1>4. QED
  BY <1>1, <1>2, <1>3, UnobservedOK DEF Feedback, Outcomes

(* What a pick returns: a healthy backend or one grant of a trial, after   *)
(* the due trials have started.                                            *)
Chosen(p, p0, out, b) ==
    \/ b \in Range(p.healthy) /\ out.pool = p0
    \/ /\ p0.state[b].budget > 0 /\ (DebugAssertions => IsProbing(p0.state[b]))
       /\ out.pool.state = [p0.state EXCEPT ![b].budget = p0.state[b].budget - 1]
PickResult(p, p0, out) ==
    /\ Kept(p, out.pool) /\ out.pool.healthy = p.healthy
    /\ out.lb \in Balancer /\ (out.lb.fresh => out.lb.members = p.healthy)
    /\ out.choice \subseteq Present(p)
    /\ \A b \in out.choice : Chosen(p, p0, out, b)
    /\ out.choice = {} => out.pool = p0

LEMMA PickOK ==
  ASSUME PoolOK(pool), lb \in Balancer, CacheCurrent, NEW key \in Keys
  PROVE  PickResult(pool, ReconcileReadmit(pool), Pick(pool, key))
<1> DEFINE p0 == ReconcileReadmit(pool)
           trial == PickProbing(p0)
           drawn == LbPick(lb, key, p0.healthy, ActiveOf(p0), EwmaOf(p0))
           out == Pick(pool, key)
<1>1. out = IF trial.choice # {}
            THEN [choice |-> trial.choice, pool |-> trial.pool, lb |-> lb]
            ELSE [choice |-> drawn.choice, pool |-> p0, lb |-> drawn.lb]
  BY DEF Pick
<1>2. Kept(pool, p0) /\ p0.healthy = pool.healthy
  BY ReconcileOK
<1> HIDE DEF p0, out
<1>3. PoolOK(p0) /\ Present(p0) = Present(pool)
  BY <1>2 DEF Kept
<1>4. lb.fresh => lb.members = pool.healthy
  BY DEF CacheCurrent
<1>5. CASE trial.choice # {}
  <2>1. PICK b \in Present(p0) :
           /\ trial.choice = {b} /\ Kept(p0, trial.pool)
           /\ trial.pool.healthy = p0.healthy
           /\ p0.state[b].budget > 0
           /\ DebugAssertions => IsProbing(p0.state[b])
           /\ trial.pool.state = [p0.state EXCEPT ![b].budget = p0.state[b].budget - 1]
    BY <1>3, <1>5, PickProbingOK, ZenonT(30)
  <2> HIDE DEF trial
  <2>2. out.choice = {b} /\ out.pool = trial.pool /\ out.lb = lb
    BY <1>1, <1>5, <2>1
  <2>3. Kept(pool, out.pool)
    BY <1>2, <2>1, <2>2, SMTT(30) DEF Kept
  <2>4. Chosen(pool, p0, out, b)
    BY <2>1, <2>2 DEF Chosen
  <2>5. QED
    BY <1>2, <1>3, <1>4, <2>1, <2>2, <2>3, <2>4, SMTT(30) DEF PickResult, p0, out
<1>6. CASE trial.choice = {}
  <2>1. out.choice = drawn.choice /\ out.pool = p0 /\ out.lb = drawn.lb
    BY <1>1, <1>6
  <2>2. /\ p0.healthy \in Seq(Backends)
        /\ ActiveOf(p0) \in [Backends -> Nat] /\ EwmaOf(p0) \in [Backends -> Nat]
    BY <1>3, SMTT(30) DEF PoolOK, BackendPool, BackendState, ActiveOf, EwmaOf
  <2>3. Picked(p0.healthy, drawn)
    BY <1>2, <1>4, <2>2, LbPickIn
  <2> HIDE DEF drawn
  <2>4. ASSUME NEW b \in out.choice PROVE b \in Range(pool.healthy) /\ b \in Present(pool)
    <3>1. b \in Range(p0.healthy)
      BY <2>1, <2>3 DEF Picked
    <3>2. PICK k \in 1..Len(p0.healthy) : p0.healthy[k] = b
      BY <2>2, <3>1, RangeListed, SMTT(30)
    <3>3. QED
      BY <1>2, <1>3, <3>1, <3>2 DEF PoolOK, ListedPresent
  <2>5. \A b \in out.choice : Chosen(pool, p0, out, b)
    BY <2>1, <2>4 DEF Chosen
  <2>6. out.lb \in Balancer /\ (out.lb.fresh => out.lb.members = pool.healthy)
    BY <1>2, <2>1, <2>3 DEF Picked
  <2>7. QED
    BY <1>2, <2>1, <2>4, <2>5, <2>6, SMTT(30) DEF PickResult, p0, out
<1>7. QED
  BY <1>5, <1>6

LEMMA CooldownOK ==
  ASSUME PoolOK(pool), ReadmitOK(pool), NEW b \in Backends, CooldownElapses(b)
  PROVE  /\ Kept(pool, pool') /\ pool'.healthy = pool.healthy
         /\ \E t : /\ pool'.state = [pool.state EXCEPT ![b] = t]
                   /\ t = [pool.state[b] EXCEPT !.health = "cooled"]
                   /\ pool.state[b].health = "cooling"
<1> DEFINE t == [pool.state[b] EXCEPT !.health = "cooled"]
           due == IF pool.readmit = "pending" /\ b \notin ActiveCheck
                  THEN "elapsed" ELSE pool.readmit
           q == [pool EXCEPT !.state[b].health = "cooled", !.readmit = due]
<1>1. pool' = q /\ pool.state[b].health = "cooling"
  BY DEF CooldownElapses
<1>2. /\ pool \in BackendPool /\ pool.state \in [Backends -> BackendState]
      /\ pool.state[b] \in BackendState /\ CountersOK(pool.state[b], b)
  BY DEF PoolOK, BackendPool
<1>3. /\ t \in BackendState /\ t.health = "cooled" /\ t.fails = pool.state[b].fails
      /\ t.successes = pool.state[b].successes /\ t.budget = pool.state[b].budget
  BY <1>2 DEF BackendState, Healths
<1>4. /\ q.state = [pool.state EXCEPT ![b] = t]
      /\ q.healthy = pool.healthy /\ q.healthyPos = pool.healthyPos
      /\ q.probing = pool.probing /\ q.probingPos = pool.probingPos
      /\ q.readmit = due
  BY <1>2 DEF BackendPool
<1>5. q \in BackendPool
  <2>1. [pool.state EXCEPT ![b] = t] \in [Backends -> BackendState]
    BY <1>2, <1>3
  <2>2. pool.readmit \in {"none", "pending", "elapsed"}
    BY <1>2 DEF BackendPool
  <2>3. due \in {"none", "pending", "elapsed"}
    BY <2>2
  <2> HIDE DEF due
  <2>4. QED
    BY <1>2, <2>1, <2>3, ZenonT(30) DEF BackendPool
<1> HIDE DEF t
<1> HIDE DEF q
<1>6. \A c \in Backends : q.state[c] = IF c = b THEN t ELSE pool.state[c]
  BY <1>2, <1>4, SMTT(30)
<1>7. \A c \in Backends : CountersOK(q.state[c], c)
  BY <1>1, <1>2, <1>3, <1>6, SMTT(30) DEF PoolOK, CountersOK
<1>8. Present(q) = Present(pool)
  BY <1>1, <1>3, <1>6, SMTT(30) DEF Present
<1>9. ListedPresent(q)
  BY <1>4, <1>8, SMTT(30) DEF PoolOK, ListedPresent
<1>10. DebugAssertions => ListsOK(q)
  BY <1>1, <1>3, <1>4, <1>6 DEF PoolOK, ListsOK, IsHealthy, IsProbing
<1>11. ReadmitOK(q)
  <2>1. pool.readmit \in {"none", "pending", "elapsed"}
    BY <1>2 DEF BackendPool
  <2>2. ASSUME NEW c \in Backends \ ActiveCheck
        PROVE  /\ q.state[c].health = "cooling" => q.readmit # "none"
               /\ q.state[c].health = "cooled" => q.readmit = "elapsed"
    BY <1>1, <1>3, <1>4, <1>6, <2>1 DEF ReadmitOK
  <2>3. QED
    BY <2>2 DEF ReadmitOK
<1>12. QED
  BY <1>1, <1>4, <1>5, <1>7, <1>8, <1>9, <1>10, <1>11, ZenonT(30) DEF Kept, PoolOK, t

-------------------------------------------------------------------------------
(* The invariant holds initially and every step keeps it.                  *)

LEMMA PoolInitOK ==
  ASSUME NEW S \in SUBSET Backends
  PROVE  PoolOK(PoolInit(S)) /\ ReadmitOK(PoolInit(S))
<1> DEFINE p == PoolInit(S)
<1>1. \A b \in Backends : FailureThreshold[b] \in Nat \ {0}
  BY PoolAssumption
<1>2. /\ p.healthy = InOrder(S) /\ p.probing = <<>> /\ p.readmit = "none" /\ p.cursor = 0
      /\ p.healthyPos = [b \in Backends |-> IF b \in S THEN RankIn(S, b) ELSE 0]
      /\ p.probingPos = [b \in Backends |-> 0]
      /\ p.state = [b \in Backends |-> NewState(IF b \in S THEN "healthy" ELSE "absent")]
  BY DEF PoolInit
<1>3. \A b \in Backends : /\ p.state[b] \in BackendState /\ CountersOK(p.state[b], b)
                          /\ p.state[b].health = IF b \in S THEN "healthy" ELSE "absent"
  BY <1>1, <1>2 DEF NewState, BackendState, Healths, CountersOK
<1>4. Indexed(p.healthy, p.healthyPos)
  <2>1. /\ InOrder(S) \in Seq(Backends) /\ Len(InOrder(S)) = Cardinality(S)
        /\ \A k \in 1..Cardinality(S) : InOrder(S)[k] \in S /\ RankIn(S, InOrder(S)[k]) = k
    BY InOrderElements
  <2>2. /\ \A b \in S : RankIn(S, b) \in 1..Cardinality(S)
        /\ \A b, c \in S : RankIn(S, b) = RankIn(S, c) => b = c
    BY RankBijective
  <2>3. Cardinality(S) \in Nat
    BY BackendSets
  <2>4. \A b \in Backends : p.healthyPos[b] = IF b \in S THEN RankIn(S, b) ELSE 0
    BY <1>2
  <2>5. p.healthyPos \in [Backends -> Nat]
    BY <1>2, <2>2, <2>3
  <2>6. ASSUME NEW b \in Backends, p.healthyPos[b] # 0
        PROVE  p.healthyPos[b] \in 1..Len(InOrder(S)) /\ InOrder(S)[p.healthyPos[b]] = b
    BY <2>1, <2>2, <2>4, <2>6
  <2>7. \A k \in 1..Len(InOrder(S)) : p.healthyPos[InOrder(S)[k]] = k
    BY <2>1, <2>4
  <2>8. QED
    BY <1>2, <2>1, <2>5, <2>6, <2>7 DEF Indexed
<1>5. Indexed(p.probing, p.probingPos)
  BY <1>2 DEF Indexed
<1>6. \A b \in Backends : p.healthyPos[b] # 0 <=> b \in S
  <2>1. \A b \in S : RankIn(S, b) \in 1..Cardinality(S)
    BY RankBijective
  <2>2. QED
    BY <1>2, <2>1
<1>7. p \in BackendPool
  <2>1. p.state \in [Backends -> BackendState]
    BY <1>2, <1>3
  <2>2. p.healthy \in Seq(Backends) /\ p.healthyPos \in [Backends -> Nat]
    BY <1>4 DEF Indexed
  <2>3. p.probing \in Seq(Backends) /\ p.probingPos \in [Backends -> Nat]
    BY <1>5 DEF Indexed
  <2>4. p = [state |-> p.state, healthy |-> p.healthy, healthyPos |-> p.healthyPos,
             probing |-> p.probing, probingPos |-> p.probingPos,
             readmit |-> p.readmit, cursor |-> p.cursor]
    BY DEF PoolInit
  <2>5. p.readmit \in {"none", "pending", "elapsed"} /\ p.cursor \in Nat
    BY <1>2
  <2> HIDE DEF p
  <2>6. QED
    BY <2>1, <2>2, <2>3, <2>4, <2>5, ZenonT(30) DEF BackendPool
<1> HIDE DEF p
<1>8. ListsOK(p)
  BY <1>2, <1>3, <1>4, <1>5, <1>6, SMTT(30) DEF ListsOK, IsHealthy, IsProbing
<1>9. PoolOK(p)
  BY <1>3, <1>7, <1>8, ListsPresent DEF PoolOK
<1>10. ReadmitOK(p)
  BY <1>3 DEF ReadmitOK
<1>11. QED
  BY <1>9, <1>10 DEF p

LEMMA InvInit ==
  ASSUME Init
  PROVE  IInv
<1>1. PICK c \in Scenarios : pool = PoolInit(c.members) /\ lb = LbInit(c.strategy)
  BY DEF Init
<1>2. c.strategy \in Strategies /\ c.members \in SUBSET Backends
  BY PoolAssumption
<1>3. PoolOK(pool) /\ ReadmitOK(pool)
  BY <1>1, <1>2, PoolInitOK
<1>4. lb \in Balancer /\ lb.fresh = FALSE
  BY <1>1, <1>2 DEF LbInit, Balancer
<1>5. /\ req = [r \in Slots |-> [stage |-> "idle", target |-> 0]]
      /\ job = [b \in ActiveCheck |-> [pending |-> FALSE, failures |-> 0]]
  BY DEF Init, Idle
<1>6. 0 \in 0..N /\ 0 \in 0..2
  BY PoolAssumption
<1>7. req \in [Slots -> Request] /\ job \in [ActiveCheck -> Job]
  BY <1>5, <1>6 DEF Request, Job
<1>8. TypeOK
  BY <1>3, <1>4, <1>5, <1>7, SMTT(30) DEF TypeOK, PoolOK
<1>9. TargetsPresent /\ CacheCurrent
  BY <1>4, <1>5, SMTT(30) DEF TargetsPresent, CacheCurrent
<1>10. QED
  BY <1>3, <1>8, <1>9 DEF IInv

(* What is left to show of a step that keeps the pool.                     *)
LEMMA InvFromParts ==
  ASSUME IInv, Kept(pool, pool'), lb' \in Balancer, lb'.fresh => lb'.members = pool'.healthy,
         req' \in [Slots -> Request], job' \in [ActiveCheck -> Job],
         \A r \in Slots : /\ req'[r].stage = "idle" <=> req'[r].target = 0
                          /\ req'[r].stage # "idle" => req'[r].target \in Present(pool),
         \A b \in ActiveCheck : job'[b].pending => b \in Present(pool)
  PROVE  IInv'
<1>1. PoolOK(pool') /\ ReadmitOK(pool') /\ Present(pool') = Present(pool)
  BY DEF IInv, Kept
<1>2. TypeOK'
  BY <1>1 DEF TypeOK, PoolOK
<1>3. TargetsPresent' /\ CacheCurrent'
  BY <1>1 DEF TargetsPresent, CacheCurrent
<1>4. QED
  BY <1>1, <1>2, <1>3, SMTT(30) DEF IInv

LEMMA CacheAfter ==
  ASSUME IInv, Kept(pool, pool'), lb' = LbAfter(pool, pool')
  PROVE  lb' \in Balancer /\ (lb'.fresh => lb'.members = pool'.healthy)
<1>1. lb \in Balancer /\ (lb.fresh => lb.members = pool.healthy)
  BY DEF IInv, TypeOK, CacheCurrent
<1>2. ~EpochMoved(pool, pool') => pool'.healthy = pool.healthy
  BY DEF Kept
<1>3. CASE EpochMoved(pool, pool')
  BY <1>1, <1>3, ZenonT(30) DEF LbAfter, Balancer
<1>4. CASE ~EpochMoved(pool, pool')
  BY <1>1, <1>2, <1>4 DEF LbAfter
<1>5. QED
  BY <1>3, <1>4

(* Steps that leave the requests' targets and the checks alone.            *)
LEMMA InvSameTargets ==
  ASSUME IInv, Kept(pool, pool'), lb' \in Balancer, lb'.fresh => lb'.members = pool'.healthy,
         UNCHANGED <<req, job>>
  PROVE  IInv'
<1>1. /\ req' \in [Slots -> Request] /\ job' \in [ActiveCheck -> Job]
      /\ \A s \in Slots : /\ req'[s].stage = "idle" <=> req'[s].target = 0
                          /\ req'[s].stage # "idle" => req'[s].target \in Present(pool)
      /\ \A c \in ActiveCheck : job'[c].pending => c \in Present(pool)
  BY DEF IInv, TypeOK, TargetsPresent
<1>2. QED
  BY <1>1, InvFromParts

LEMMA NoHealthyServersKeeps ==
  ASSUME IInv, NEW r \in Slots, NEW key \in Keys, NoHealthyServers(r, key)
  PROVE  IInv'
<1> DEFINE out == Pick(pool, key)
<1>1. pool' = out.pool /\ lb' = out.lb /\ UNCHANGED <<req, job>>
  BY DEF NoHealthyServers
<1>2. PickResult(pool, ReconcileReadmit(pool), out)
  BY PickOK DEF IInv, TypeOK
<1> HIDE DEF out
<1>3. /\ Kept(pool, pool') /\ lb' \in Balancer /\ (lb'.fresh => lb'.members = pool'.healthy)
  BY <1>1, <1>2, SMTT(30) DEF PickResult
<1>4. QED
  BY <1>1, <1>3, InvSameTargets

(* A step of one request that keeps or drops its target.                   *)
LEMMA InvOneRequest ==
  ASSUME IInv, Kept(pool, pool'), lb' \in Balancer, lb'.fresh => lb'.members = pool'.healthy,
         NEW r \in Slots, UNCHANGED job, NEW q \in Request, req' = [req EXCEPT ![r] = q],
         \/ q.stage = "idle" /\ q.target = 0
         \/ q.stage # "idle" /\ q.target # 0 /\ q.target \in Present(pool)
  PROVE  IInv'
<1>1. req' \in [Slots -> Request]
  BY DEF IInv, TypeOK
<1>2. \A s \in Slots : req'[s] = IF s = r THEN q ELSE req[s]
  BY DEF IInv, TypeOK
<1>3. \A s \in Slots : /\ req'[s].stage = "idle" <=> req'[s].target = 0
                       /\ req'[s].stage # "idle" => req'[s].target \in Present(pool)
  BY <1>2, SMTT(30) DEF IInv, TypeOK, TargetsPresent
<1>4. job' \in [ActiveCheck -> Job] /\ \A c \in ActiveCheck : job'[c].pending => c \in Present(pool)
  BY DEF IInv, TypeOK, TargetsPresent
<1>5. QED
  BY <1>1, <1>3, <1>4, InvFromParts, SMTT(30)

LEMMA ResolveKeeps ==
  ASSUME IInv, NEW r \in Slots, NEW key \in Keys, NEW begin \in BOOLEAN,
         Resolve(r, key, begin)
  PROVE  IInv'
<1> DEFINE out == Pick(pool, key)
<1>1. /\ \E b \in out.choice :
           /\ pool' = IF begin THEN BeginRequest(out.pool, b) ELSE out.pool
           /\ req' = [req EXCEPT ![r] =
                        [stage |-> IF begin THEN "sent" ELSE "picked", target |-> b]]
      /\ lb' = out.lb /\ job' = job
  BY ZenonT(30) DEF Resolve
<1>2. PickResult(pool, ReconcileReadmit(pool), out)
  BY PickOK DEF IInv, TypeOK
<1> HIDE DEF out
<1>3. PICK b \in out.choice :
        /\ pool' = IF begin THEN BeginRequest(out.pool, b) ELSE out.pool
        /\ req' = [req EXCEPT ![r] =
                     [stage |-> IF begin THEN "sent" ELSE "picked", target |-> b]]
  BY <1>1, ZenonT(30)
<1>4. /\ Kept(pool, out.pool) /\ out.pool.healthy = pool.healthy
      /\ b \in Present(pool) /\ b \in Backends /\ PoolOK(out.pool)
  BY <1>2 DEF PickResult, Kept, Present
<1>5. Kept(pool, pool') /\ pool'.healthy = pool.healthy
  <2>1. CASE begin
    <3>1. PICK t : Touched(out.pool, pool', b, t)
      BY <1>3, <1>4, <2>1, BeginOK, SMTT(30)
    <3>2. QED
      BY <1>4, <3>1, SMTT(30) DEF Touched, Kept
  <2>2. CASE ~begin
    BY <1>3, <1>4, <2>2, SMTT(30)
  <2>3. QED
    BY <2>1, <2>2
<1>6. lb' \in Balancer /\ (lb'.fresh => lb'.members = pool'.healthy)
  BY <1>1, <1>2, <1>5, SMTT(30) DEF PickResult
<1> DEFINE q == [stage |-> IF begin THEN "sent" ELSE "picked", target |-> b]
<1>7. q \in Request /\ q.stage # "idle" /\ q.target # 0 /\ q.target \in Present(pool)
  BY <1>4 DEF Request, Backends
<1>8. req' = [req EXCEPT ![r] = q] /\ UNCHANGED job
  BY <1>1, <1>3, ZenonT(30)
<1> HIDE DEF q
<1>9. QED
  BY <1>5, <1>6, <1>7, <1>8, InvOneRequest, ZenonT(30)

LEMMA AdmissionRefusesKeeps ==
  ASSUME IInv, NEW r \in Slots, AdmissionRefuses(r)
  PROVE  IInv'
<1>1. UNCHANGED <<pool, lb, job>> /\ req' = [req EXCEPT ![r] = Idle]
  BY DEF AdmissionRefuses
<1>2. Idle \in Request /\ Idle.stage = "idle" /\ Idle.target = 0
  BY PoolAssumption, SMTT(30) DEF Idle, Request
<1>3. Kept(pool, pool') /\ lb' \in Balancer /\ (lb'.fresh => lb'.members = pool'.healthy)
  BY <1>1 DEF IInv, TypeOK, CacheCurrent, Kept
<1>4. QED
  BY <1>1, <1>2, <1>3, InvOneRequest, ZenonT(30)

LEMMA BeginForAccountingKeeps ==
  ASSUME IInv, NEW r \in Slots, BeginForAccounting(r)
  PROVE  IInv'
<1> DEFINE b == req[r].target
           q == [req[r] EXCEPT !.stage = "sent"]
<1>1. /\ req[r].stage = "picked" /\ pool' = BeginRequest(pool, b)
      /\ req' = [req EXCEPT ![r] = q] /\ lb' = lb /\ job' = job
  BY DEF BeginForAccounting
<1>2. req[r] \in Request /\ b \in Present(pool) /\ b \in Backends /\ b # 0
  BY <1>1 DEF IInv, TypeOK, TargetsPresent, Present
<1>3. q \in Request /\ q.stage # "idle" /\ q.target = b
  BY <1>2 DEF Request
<1> HIDE DEF b, q
<1>4. PICK t : Touched(pool, pool', b, t)
  BY <1>1, <1>2, BeginOK DEF IInv
<1>5. Kept(pool, pool') /\ pool'.healthy = pool.healthy
  BY <1>4, SMTT(30) DEF Touched
<1>6. lb' \in Balancer /\ (lb'.fresh => lb'.members = pool'.healthy)
  BY <1>1, <1>5, SMTT(30) DEF IInv, TypeOK, CacheCurrent
<1>7. QED
  BY <1>1, <1>2, <1>3, <1>5, <1>6, InvOneRequest, ZenonT(30)

LEMMA ObserveKeeps ==
  ASSUME IInv, NEW r \in Slots, NEW outcome \in Outcomes, Observe(r, outcome)
  PROVE  IInv'
<1> DEFINE b == req[r].target
           q == [req[r] EXCEPT !.stage = IF outcome = "status5xx" THEN "failed" ELSE "observed"]
<1>1. /\ req[r].stage = "sent" /\ pool' = Feedback(pool, b, outcome)
      /\ req' = [req EXCEPT ![r] = q] /\ lb' = LbAfter(pool, pool') /\ job' = job
  BY DEF Observe
<1>2. req[r] \in Request /\ b \in Present(pool) /\ b # 0
  BY <1>1 DEF IInv, TypeOK, TargetsPresent
<1>3. q \in Request /\ q.stage # "idle" /\ q.target = b
  BY <1>2 DEF Request
<1> HIDE DEF b, q
<1>4. Kept(pool, pool')
  BY <1>1, <1>2, FeedbackOK DEF IInv, Observed
<1>5. lb' \in Balancer /\ (lb'.fresh => lb'.members = pool'.healthy)
  BY <1>1, <1>4, CacheAfter, SMTT(30)
<1>6. QED
  BY <1>1, <1>2, <1>3, <1>4, <1>5, InvOneRequest, ZenonT(30)

LEMMA FinishKeeps ==
  ASSUME IInv, NEW r \in Slots, Finish(r)
  PROVE  IInv'
<1> DEFINE b == req[r].target
<1>1. /\ req[r].stage # "idle" /\ req' = [req EXCEPT ![r] = Idle] /\ lb' = lb /\ job' = job
      /\ \E e \in SampledFrom(pool.state[b].ewma) :
           pool' = FinishRequest(pool, b, req[r].stage # "failed", e)
  BY DEF Finish
<1>2. b \in Present(pool) /\ b \in Backends
  BY <1>1 DEF IInv, TargetsPresent, Present
<1> HIDE DEF b
<1>3. PICK e \in Nat : pool' = FinishRequest(pool, b, req[r].stage # "failed", e)
  BY <1>1 DEF SampledFrom, Sample
<1>4. PICK t : Touched(pool, pool', b, t)
  BY <1>2, <1>3, FinishOK, ZenonT(30) DEF IInv
<1>5. Kept(pool, pool') /\ pool'.healthy = pool.healthy
  BY <1>4 DEF Touched
<1>6. lb' \in Balancer /\ (lb'.fresh => lb'.members = pool'.healthy)
  BY <1>1, <1>5 DEF IInv, TypeOK, CacheCurrent
<1>7. Idle \in Request /\ Idle.stage = "idle" /\ Idle.target = 0
  BY PoolAssumption DEF Idle, Request
<1>8. QED
  BY <1>1, <1>5, <1>6, <1>7, InvOneRequest, ZenonT(30)

LEMMA CooldownElapsesKeeps ==
  ASSUME IInv, NEW b \in Backends, CooldownElapses(b)
  PROVE  IInv'
<1>1. Kept(pool, pool') /\ pool'.healthy = pool.healthy
  BY CooldownOK DEF IInv
<1>2. lb' = lb /\ UNCHANGED <<req, job>>
  BY DEF CooldownElapses
<1>3. lb' \in Balancer /\ (lb'.fresh => lb'.members = pool'.healthy)
  BY <1>1, <1>2, SMTT(30) DEF IInv, TypeOK, CacheCurrent
<1>4. QED
  BY <1>1, <1>2, <1>3, InvSameTargets

(* The health-check loop changes only its jobs, or one job and the pool.   *)
LEMMA InvOneJob ==
  ASSUME IInv, Kept(pool, pool'), lb' \in Balancer, lb'.fresh => lb'.members = pool'.healthy,
         UNCHANGED req, job' \in [ActiveCheck -> Job],
         \A c \in ActiveCheck : job'[c].pending => c \in Present(pool)
  PROVE  IInv'
<1>1. req' \in [Slots -> Request] /\ \A s \in Slots :
        /\ req'[s].stage = "idle" <=> req'[s].target = 0
        /\ req'[s].stage # "idle" => req'[s].target \in Present(pool)
  BY DEF IInv, TypeOK, TargetsPresent
<1>2. QED
  BY <1>1, InvFromParts, SMTT(30)

LEMMA HealthTickKeeps ==
  ASSUME IInv, NEW due \in SUBSET ActiveCheck, HealthTick(due)
  PROVE  IInv'
<1>1. /\ UNCHANGED <<pool, lb, req>> /\ \A b \in due : pool.state[b].health # "absent"
      /\ job' = [b \in ActiveCheck |-> [job[b] EXCEPT !.pending = b \in due]]
  BY DEF HealthTick
<1>2. \A b \in due : b \in Present(pool)
  BY <1>1, PoolAssumption DEF Present
<1>3. ASSUME NEW b \in ActiveCheck PROVE job'[b] \in Job /\ (job'[b].pending => b \in due)
  <2>1. job[b] \in Job
    BY DEF IInv, TypeOK
  <2>2. job'[b] = [job[b] EXCEPT !.pending = b \in due] /\ (b \in due) \in BOOLEAN
    BY <1>1
  <2>3. QED
    BY <2>1, <2>2, Zenon DEF Job
<1>4. job' \in [ActiveCheck -> Job]
  BY <1>1, <1>3
<1>5. Kept(pool, pool') /\ lb' \in Balancer /\ (lb'.fresh => lb'.members = pool'.healthy)
  BY <1>1 DEF IInv, TypeOK, CacheCurrent, Kept
<1>6. QED
  BY <1>1, <1>2, <1>3, <1>4, <1>5, InvOneJob, SMTT(30)

LEMMA JobDone ==
  ASSUME IInv, NEW b \in ActiveCheck, NEW f \in 0..2,
         job' = [job EXCEPT ![b] = [pending |-> FALSE, failures |-> f]]
  PROVE  /\ job' \in [ActiveCheck -> Job]
         /\ \A c \in ActiveCheck : job'[c].pending => c \in Present(pool)
<1>1. [pending |-> FALSE, failures |-> f] \in Job
  BY DEF Job
<1>2. job' \in [ActiveCheck -> Job]
  BY <1>1 DEF IInv, TypeOK
<1>3. \A c \in ActiveCheck : job'[c].pending => c \in Present(pool)
  BY DEF IInv, TypeOK, TargetsPresent
<1>4. QED
  BY <1>2, <1>3

LEMMA HealthJoinedKeeps ==
  ASSUME IInv, NEW b \in ActiveCheck, NEW outcome \in {"success", "neutral", "failure"},
         HealthJoined(b, outcome)
  PROVE  IInv'
<1> DEFINE f == NextFailures(job[b].failures, outcome)
<1>1. /\ job[b].pending /\ pool' = ApplyObservation(pool, b, outcome)
      /\ lb' = LbAfter(pool, pool') /\ UNCHANGED req
      /\ job' = [job EXCEPT ![b] = [pending |-> FALSE, failures |-> f]]
  BY DEF HealthJoined
<1>2. b \in Present(pool) /\ f \in 0..2
  BY <1>1 DEF IInv, TypeOK, TargetsPresent, Job, NextFailures
<1> HIDE DEF f
<1>3. Observed(pool, pool', b)
  BY <1>1, <1>2, UnobservedOK, SuccessObserved, FailureObserved, SMTT(30) DEF IInv, ApplyObservation
<1>4. Kept(pool, pool')
  BY <1>3, SMTT(30) DEF Observed
<1>5. lb' \in Balancer /\ (lb'.fresh => lb'.members = pool'.healthy)
  BY <1>1, <1>4, CacheAfter, SMTT(30)
<1>6. QED
  BY <1>1, <1>2, <1>4, <1>5, JobDone, InvOneJob, ZenonT(30)

LEMMA HealthInterruptedKeeps ==
  ASSUME IInv, NEW b \in ActiveCheck, HealthInterrupted(b)
  PROVE  IInv'
<1> DEFINE f == NextFailures(job[b].failures, "failure")
<1>1. /\ UNCHANGED <<pool, lb, req>>
      /\ job' = [job EXCEPT ![b] = [pending |-> FALSE, failures |-> f]]
  BY DEF HealthInterrupted
<1>2. f \in 0..2
  BY DEF IInv, TypeOK, Job, NextFailures
<1> HIDE DEF f
<1>3. Kept(pool, pool') /\ lb' \in Balancer /\ (lb'.fresh => lb'.members = pool'.healthy)
  BY <1>1 DEF IInv, TypeOK, CacheCurrent, Kept
<1>4. QED
  BY <1>1, <1>2, <1>3, JobDone, InvOneJob, ZenonT(30)

LEMMA InvNext ==
  ASSUME IInv, [Next]_vars
  PROVE  IInv'
<1>1. CASE UNCHANGED vars
  <2>1. UNCHANGED <<pool, lb, req, job>>
    BY <1>1, SMTT(30) DEF vars
  <2>2. Kept(pool, pool') /\ lb' \in Balancer /\ (lb'.fresh => lb'.members = pool'.healthy)
    BY <2>1 DEF IInv, TypeOK, CacheCurrent, Kept
  <2>3. QED
    BY <2>1, <2>2, InvSameTargets
<1>2. CASE \E r \in Slots : AdmissionRefuses(r) \/ BeginForAccounting(r) \/ Finish(r)
  BY <1>2, AdmissionRefusesKeeps, BeginForAccountingKeeps, FinishKeeps
<1>3. CASE \E r \in Slots : \E k \in Keys : NoHealthyServers(r, k)
  BY <1>3, NoHealthyServersKeeps
<1>4. CASE \E r \in Slots : \E k \in Keys, begin \in BOOLEAN : Resolve(r, k, begin)
  BY <1>4, ResolveKeeps
<1>5. CASE \E r \in Slots : \E o \in Outcomes : Observe(r, o) \/ AlternateAnswers(r, o)
  BY <1>5, ObserveKeeps DEF AlternateAnswers
<1>6. CASE \E b \in Backends : CooldownElapses(b)
  BY <1>6, CooldownElapsesKeeps
<1>7. CASE \E due \in SUBSET ActiveCheck : HealthTick(due)
  BY <1>7, HealthTickKeeps
<1>8. CASE \E b \in ActiveCheck : \/ HealthInterrupted(b)
                                  \/ \E o \in {"success", "neutral", "failure"} :
                                       HealthJoined(b, o)
  BY <1>8, HealthInterruptedKeeps, HealthJoinedKeeps
<1>9. QED
  BY <1>1, <1>2, <1>3, <1>4, <1>5, <1>6, <1>7, <1>8, SMTT(30) DEF Next

(* The invariant every later result rests on, in any build: types, listed  *)
(* backends that are present, re-admission times that cover every ejected  *)
(* backend, requests and check jobs that hold present backends only, and   *)
(* caches equal to the healthy list they were built from; and, where the   *)
(* list updates are evaluated, lists their position indices invert.        *)
THEOREM PoolInvariant == Spec => []IInv
<1>1. Init => IInv
  BY InvInit
<1>2. IInv /\ [Next]_vars => IInv'
  BY InvNext
<1>3. QED
  BY <1>1, <1>2, PTL DEF Spec

(* No wake-up is lost, in any build: an ejected backend without active     *)
(* checks has its re-admission scheduled, and due once its cooldown is     *)
(* over, whatever requests, observations and checks interleave.            *)
THEOREM ReadmissionScheduled == Spec => []ReadmitScheduled
<1>1. IInv => ReadmitScheduled
  BY DEF IInv, ReadmitOK, ReadmitScheduled
<1>2. QED
  BY <1>1, PoolInvariant, PTL

(* In a build that evaluates debug_assert!, the lists the pickers read     *)
(* hold exactly the backends in that state, and the positions invert them. *)
THEOREM ListsMatchStates ==
  ASSUME DebugAssertions
  PROVE  Spec => []RotationConsistent
<1>1. ASSUME IInv PROVE RotationConsistent
  <2>1. ListsOK(pool) /\ pool.healthy \in Seq(Backends) /\ pool.probing \in Seq(Backends)
    BY <1>1 DEF IInv, PoolOK, BackendPool
  <2>2. ASSUME NEW seq \in Seq(Backends), NEW pos, Indexed(seq, pos), NEW b \in Backends
        PROVE  /\ b \in Range(seq) <=> pos[b] # 0
               /\ \A k \in DOMAIN seq : seq[k] = b <=> pos[b] = k
    <3>1. DOMAIN seq = 1..Len(seq)
      OBVIOUS
    <3>2. /\ \A k \in 1..Len(seq) : pos[seq[k]] = k /\ seq[k] \in Backends
          /\ pos[b] # 0 => pos[b] \in 1..Len(seq) /\ seq[pos[b]] = b
      BY <2>2 DEF Indexed
    <3>3. b \in Range(seq) <=> \E k \in 1..Len(seq) : seq[k] = b
      BY RangeListed, SMTT(30)
    <3>4. QED
      BY <3>1, <3>2, <3>3
  <2>3. QED
    BY <2>1, <2>2 DEF RotationConsistent, ListsOK
<1>2. QED
  BY <1>1, PoolInvariant, PTL

-------------------------------------------------------------------------------
(* In a build that evaluates debug_assert!, the pool implements            *)
(* BackendRotation.                                                        *)
PlaceOf(s) == IF s.health \in {"healthy", "absent"} THEN "in"
              ELSE IF s.health = "probing" THEN "trial" ELSE "out"

LEMMA PlaceFollowsState ==
  ASSUME DebugAssertions, NEW p, PoolOK(p)
  PROVE  PlaceIn(p) = [b \in Backends |-> PlaceOf(p.state[b])]
<1>1. /\ ListsOK(p) /\ p.healthy \in Seq(Backends) /\ p.probing \in Seq(Backends)
      /\ \A b \in Backends : p.state[b].health \in Healths
  BY DEF PoolOK, BackendPool, BackendState
<1>2. ASSUME NEW seq \in Seq(Backends), NEW pos, Indexed(seq, pos), NEW b \in Backends
      PROVE  b \in Range(seq) <=> pos[b] # 0
  <2>1. /\ \A k \in 1..Len(seq) : pos[seq[k]] = k
        /\ pos[b] # 0 => pos[b] \in 1..Len(seq) /\ seq[pos[b]] = b
    BY <1>2, SMTT(30) DEF Indexed
  <2>2. b \in Range(seq) <=> \E k \in 1..Len(seq) : seq[k] = b
    BY RangeListed, SMTT(30)
  <2>3. QED
    BY <2>1, <2>2
<1>3. \A b \in Backends : /\ b \in Range(p.healthy) <=> p.state[b].health = "healthy"
                          /\ b \in Range(p.probing) <=> p.state[b].health = "probing"
  BY <1>1, <1>2, SMTT(30) DEF ListsOK, IsHealthy, IsProbing
<1>4. QED
  BY <1>1, <1>3, SMTT(30) DEF PlaceIn, PlaceOf, Healths

(* The abstract state before and after a step of the pool.                 *)
LEMMA AbstractStates ==
  ASSUME DebugAssertions, IInv, IInv'
  PROVE  /\ place = [b \in Backends |-> PlaceOf(pool.state[b])]
         /\ place' = [b \in Backends |-> PlaceOf(pool'.state[b])]
         /\ strikes = [b \in Backends |-> pool.state[b].fails]
         /\ strikes' = [b \in Backends |-> pool'.state[b].fails]
         /\ credits = [b \in Backends |-> pool.state[b].successes]
         /\ credits' = [b \in Backends |-> pool'.state[b].successes]
         /\ grants = [b \in Backends |-> pool.state[b].budget]
         /\ grants' = [b \in Backends |-> pool'.state[b].budget]
<1>1. PoolOK(pool) /\ PoolOK(pool')
  BY DEF IInv
<1>2. place = [b \in Backends |-> PlaceOf(pool.state[b])]
  BY <1>1, PlaceFollowsState DEF place
<1>3. place' = [b \in Backends |-> PlaceOf(pool'.state[b])]
  BY <1>1, PlaceFollowsState, SMTT(30) DEF place
<1>4. QED
  BY <1>2, <1>3 DEF strikes, credits, grants

(* A step that changes one backend's record.                               *)
OneMoves(b, s, t) ==
    /\ place \in [Backends -> {"in", "trial", "out"}] /\ strikes \in [Backends -> Nat]
    /\ credits \in [Backends -> Nat] /\ grants \in [Backends -> Nat]
    /\ place[b] = PlaceOf(s) /\ place' = [place EXCEPT ![b] = PlaceOf(t)]
    /\ strikes[b] = s.fails /\ strikes' = [strikes EXCEPT ![b] = t.fails]
    /\ credits[b] = s.successes /\ credits' = [credits EXCEPT ![b] = t.successes]
    /\ grants[b] = s.budget /\ grants' = [grants EXCEPT ![b] = t.budget]

LEMMA OneMovesOK ==
  ASSUME DebugAssertions, IInv, IInv', NEW b \in Backends, NEW t,
         pool'.state = [pool.state EXCEPT ![b] = t]
  PROVE  OneMoves(b, pool.state[b], t)
<1>1. /\ pool.state \in [Backends -> BackendState] /\ pool'.state \in [Backends -> BackendState]
      /\ \A c \in Backends : pool'.state[c] = IF c = b THEN t ELSE pool.state[c]
  BY DEF IInv, PoolOK, BackendPool
<1>2. /\ place = [c \in Backends |-> PlaceOf(pool.state[c])]
      /\ place' = [c \in Backends |-> PlaceOf(pool'.state[c])]
  BY AbstractStates
<1>3. place' = [place EXCEPT ![b] = PlaceOf(t)] /\ place[b] = PlaceOf(pool.state[b])
  BY <1>1, <1>2, SMTT(30)
<1>4. \A c \in Backends : PlaceOf(pool.state[c]) \in {"in", "trial", "out"}
  BY DEF PlaceOf
<1>5. place \in [Backends -> {"in", "trial", "out"}]
  BY <1>2, <1>4, SMTT(30)
<1>6. /\ strikes \in [Backends -> Nat] /\ strikes[b] = pool.state[b].fails
      /\ strikes' = [strikes EXCEPT ![b] = t.fails]
  BY <1>1, ZenonT(30) DEF strikes, BackendState
<1>7. /\ credits \in [Backends -> Nat] /\ credits[b] = pool.state[b].successes
      /\ credits' = [credits EXCEPT ![b] = t.successes]
  BY <1>1, ZenonT(30) DEF credits, BackendState
<1>8. /\ grants \in [Backends -> Nat] /\ grants[b] = pool.state[b].budget
      /\ grants' = [grants EXCEPT ![b] = t.budget]
  BY <1>1, ZenonT(30) DEF grants, BackendState
<1>9. QED
  BY <1>3, <1>5, <1>6, <1>7, <1>8, SMTT(30) DEF OneMoves

AbstractStep == Rotation!Next \/ UNCHANGED Rotation!rotation

LEMMA SuccessStep ==
  ASSUME DebugAssertions, NEW b \in Backends, NEW s \in BackendState, NEW t,
         s.health # "absent", CountersOK(s, b),
         SameRotation(RecordSuccess(s, b), t), OneMoves(b, s, t), assigned' = assigned
  PROVE  AbstractStep
<1>1. /\ SuccessThreshold[b] \in Nat \ {0}
      /\ s.fails \in Nat /\ s.successes \in Nat /\ s.budget \in Nat
  BY PoolAssumption DEF BackendState
<1>2. CASE s.health = "healthy"
  <2>1. /\ t.health = "healthy" /\ t.fails = 0
        /\ t.successes = s.successes /\ t.budget = s.budget
    BY <1>2 DEF RecordSuccess, IsHealthy, SameRotation, BackendState
  <2>2. Rotation!Forgive(b)
    BY <1>2, <2>1 DEF OneMoves, PlaceOf, Rotation!Forgive
  <2>3. QED
    BY <2>2 DEF AbstractStep, Rotation!Next
<1>3. CASE s.health = "cooling"
  <2>1. /\ t.health = s.health /\ t.fails = s.fails
        /\ t.successes = s.successes /\ t.budget = s.budget
    BY <1>3 DEF RecordSuccess, IsHealthy, SameRotation
  <2>2. UNCHANGED Rotation!rotation
    BY <2>1 DEF OneMoves, PlaceOf, Rotation!rotation
  <2>3. QED
    BY <2>2 DEF AbstractStep
<1>4. CASE s.health = "cooled"
  <2> DEFINE u == ToProbing(s, b)
  <2>1. /\ u \in BackendState /\ u.health = "probing" /\ u.fails = 0 /\ u.successes = 0
        /\ u.budget = SuccessThreshold[b]
    BY <1>1, Zenon DEF ToProbing, BackendState, Healths
  <2>2. RecordSuccess(s, b) = RecordProbingSuccess(u, b)
    BY <1>4 DEF RecordSuccess, IsHealthy
  <2> HIDE DEF u
  <2>3. CASE SuccessThreshold[b] = 1
    <3>1. t.health = "healthy" /\ t.fails = 0 /\ t.successes = 0 /\ t.budget = 0
      BY <2>1, <2>2, <2>3, SMTT(30) DEF RecordProbingSuccess, SameRotation, BackendState
    <3>2. Rotation!Credit(b, TRUE)
      BY <1>4, <2>3, <3>1, SMTT(30) DEF OneMoves, PlaceOf, Rotation!Credit
    <3>3. QED
      BY <3>2, ZenonT(30) DEF AbstractStep, Rotation!Next
  <2>4. CASE SuccessThreshold[b] # 1
    <3>1. ~(0 + 1 >= SuccessThreshold[b]) /\ 0 + 1 # SuccessThreshold[b]
      BY <1>1, <2>4
    <3>2. /\ t.health = "probing" /\ t.fails = 0 /\ t.successes = 1
          /\ t.budget = SuccessThreshold[b]
      BY <2>1, <2>2, <3>1, SMTT(30) DEF RecordProbingSuccess, SameRotation, BackendState
    <3>3. Rotation!Credit(b, TRUE)
      BY <1>4, <3>1, <3>2, SMTT(30) DEF OneMoves, PlaceOf, Rotation!Credit
    <3>4. QED
      BY <3>3, ZenonT(30) DEF AbstractStep, Rotation!Next
  <2>5. QED
    BY <2>3, <2>4
<1>5. CASE s.health = "probing"
  <2>1. RecordSuccess(s, b) = RecordProbingSuccess(s, b) /\ s.fails = 0
    BY <1>5 DEF RecordSuccess, IsHealthy, CountersOK
  <2>2. s.successes + 1 >= SuccessThreshold[b] <=> s.successes + 1 = SuccessThreshold[b]
    BY <1>1, <1>5 DEF CountersOK
  <2>3. CASE s.successes + 1 = SuccessThreshold[b]
    <3>1. t.health = "healthy" /\ t.fails = 0 /\ t.successes = 0 /\ t.budget = 0
      BY <2>1, <2>2, <2>3, SMTT(30) DEF RecordProbingSuccess, SameRotation, BackendState
    <3>2. Rotation!Credit(b, FALSE)
      BY <1>5, <2>3, <3>1, SMTT(30) DEF OneMoves, PlaceOf, Rotation!Credit
    <3>3. QED
      BY <3>2, ZenonT(30) DEF AbstractStep, Rotation!Next
  <2>4. CASE s.successes + 1 # SuccessThreshold[b]
    <3>1. /\ t.health = "probing" /\ t.fails = 0 /\ t.successes = s.successes + 1
          /\ t.budget = s.budget
      BY <1>5, <2>1, <2>2, <2>4, SMTT(30) DEF RecordProbingSuccess, SameRotation, BackendState
    <3>2. Rotation!Credit(b, FALSE)
      BY <1>5, <2>4, <3>1 DEF OneMoves, PlaceOf, Rotation!Credit
    <3>3. QED
      BY <3>2, ZenonT(30) DEF AbstractStep, Rotation!Next
  <2>5. QED
    BY <2>3, <2>4
<1>6. QED
  BY <1>2, <1>3, <1>4, <1>5, SMTT(30) DEF BackendState, Healths

LEMMA Remainders ==
  ASSUME NEW n \in Nat \ {0}
  PROVE  n % n = 0 /\ \A x \in 0..(n - 1) : x % n = x
  OBVIOUS

LEMMA FailureStep ==
  ASSUME DebugAssertions, NEW b \in Backends, NEW s \in BackendState, NEW t,
         s.health # "absent", CountersOK(s, b),
         SameRotation(RecordFailure(s, b), t), OneMoves(b, s, t), assigned' = assigned
  PROVE  AbstractStep
<1>1. /\ FailureThreshold[b] \in Nat \ {0}
      /\ s.fails \in Nat /\ s.successes \in Nat /\ s.budget \in Nat
      /\ s.fails < FailureThreshold[b]
  BY PoolAssumption DEF BackendState, CountersOK
<1>2. CASE s.health = "probing"
  <2>1. t.health = "cooling" /\ t.fails = 0 /\ t.successes = 0 /\ t.budget = 0
    BY <1>2, SMTT(30) DEF RecordFailure, IsProbing, Eject, SameRotation, BackendState
  <2>2. Rotation!FailTrial(b)
    BY <1>2, <2>1 DEF OneMoves, PlaceOf, Rotation!FailTrial
  <2>3. QED
    BY <2>2 DEF AbstractStep, Rotation!Next
<1>3. CASE s.health # "probing" /\ s.fails + 1 < FailureThreshold[b]
  <2>1. /\ t.health = s.health /\ t.fails = s.fails + 1
        /\ t.successes = s.successes /\ t.budget = s.budget
    BY <1>1, <1>3, SMTT(30) DEF RecordFailure, IsProbing, SameRotation, BackendState
  <2>2. (s.fails + 1) % FailureThreshold[b] = s.fails + 1 /\ s.fails + 1 # FailureThreshold[b]
    BY <1>1, <1>3, Remainders, SMTT(30)
  <2>3. Rotation!Strike(b)
    BY <1>3, <2>1, <2>2, ZenonT(30) DEF OneMoves, PlaceOf, Rotation!Strike
  <2>4. QED
    BY <2>3 DEF AbstractStep, Rotation!Next
<1>4. CASE s.health # "probing" /\ ~(s.fails + 1 < FailureThreshold[b])
  <2>1. t.health = "cooling" /\ t.fails = 0 /\ t.successes = 0 /\ t.budget = 0
    BY <1>4 DEF RecordFailure, IsProbing, Eject, SameRotation, BackendState
  <2>2. s.successes = 0 /\ s.budget = 0
    BY <1>4 DEF CountersOK
  <2>3. s.fails + 1 = FailureThreshold[b] /\ (s.fails + 1) % FailureThreshold[b] = 0
    BY <1>1, <1>4, Remainders, SMTT(30)
  <2>4. Rotation!Strike(b)
    BY <1>4, <2>1, <2>2, <2>3, ZenonT(30) DEF OneMoves, PlaceOf, Rotation!Strike
  <2>5. QED
    BY <2>4 DEF AbstractStep, Rotation!Next
<1>5. QED
  BY <1>2, <1>3, <1>4, SMTT(30)

LEMMA ObservedStep ==
  ASSUME DebugAssertions, IInv, IInv', NEW b \in Present(pool), Observed(pool, pool', b),
         assigned' = assigned
  PROVE  AbstractStep
<1> DEFINE s == pool.state[b]
<1>1. /\ b \in Backends /\ s \in BackendState /\ CountersOK(s, b) /\ s.health # "absent"
  BY DEF IInv, PoolOK, BackendPool, Present
<1>2. PICK t : /\ pool'.state = [pool.state EXCEPT ![b] = t]
               /\ \/ SameRotation(RecordSuccess(s, b), t)
                  \/ SameRotation(RecordFailure(s, b), t)
                  \/ SameRotation(s, t)
  BY SMTT(30) DEF Observed
<1>3. OneMoves(b, s, t)
  BY <1>1, <1>2, OneMovesOK, SMTT(30)
<1> HIDE DEF s
<1>4. CASE SameRotation(RecordSuccess(s, b), t)
  BY <1>1, <1>3, <1>4, SuccessStep, SMTT(30)
<1>5. CASE SameRotation(RecordFailure(s, b), t)
  BY <1>1, <1>3, <1>5, FailureStep, SMTT(30)
<1>6. CASE SameRotation(s, t)
  <2>1. UNCHANGED Rotation!rotation
    BY <1>3, <1>6 DEF SameRotation, OneMoves, PlaceOf, Rotation!rotation
  <2>2. QED
    BY <2>1 DEF AbstractStep
<1>7. QED
  BY <1>2, <1>4, <1>5, <1>6, SMTT(30)

(* Requests per backend.                                                   *)
LEMMA AssignedTypes ==
  /\ assigned \in [Backends -> Nat]
  /\ \A b \in Backends : /\ IsFiniteSet({r \in Slots : req[r].target = b})
                         /\ assigned[b] = Cardinality({r \in Slots : req[r].target = b})
<1>1. ASSUME NEW b \in Backends
      PROVE  /\ IsFiniteSet({r \in Slots : req[r].target = b})
             /\ Cardinality({r \in Slots : req[r].target = b}) \in Nat
  <2> DEFINE T == {r \in Slots : req[r].target = b}
  <2>1. IsFiniteSet(Slots) /\ T \subseteq Slots
    BY PoolAssumption
  <2> HIDE DEF T
  <2>2. IsFiniteSet(T)
    BY <2>1, FS_Subset
  <2>3. QED
    BY <2>2, FS_CardinalityType, SMTT(30) DEF T
<1>2. QED
  BY <1>1 DEF assigned

LEMMA AssignedSame ==
  ASSUME \A r \in Slots : req'[r].target = req[r].target
  PROVE  assigned' = assigned
<1>1. \A b \in Backends : {r \in Slots : req'[r].target = b} = {r \in Slots : req[r].target = b}
  OBVIOUS
<1>2. QED
  BY <1>1, Zenon DEF assigned

LEMMA AssignedOne ==
  ASSUME IInv, NEW r \in Slots, req[r].target = 0, NEW b \in Backends, NEW q,
         req' = [req EXCEPT ![r] = q], q.target = b
  PROVE  /\ assigned[b] < Cardinality(Slots)
         /\ assigned' = [assigned EXCEPT ![b] = assigned[b] + 1]
<1> DEFINE T(c) == {s \in Slots : req[s].target = c}
           U(c) == {s \in Slots : req'[s].target = c}
<1>1. /\ assigned \in [Backends -> Nat]
      /\ \A c \in Backends : IsFiniteSet(T(c)) /\ assigned[c] = Cardinality(T(c))
  BY AssignedTypes
<1>2. b # 0 /\ req \in [Slots -> Request]
  BY DEF Backends, IInv, TypeOK
<1>3. \A s \in Slots : req'[s].target = IF s = r THEN b ELSE req[s].target
  BY <1>2
<1>4. assigned' = [c \in Backends |-> Cardinality(U(c))]
  BY DEF assigned
<1>5. U(b) = T(b) \cup {r} /\ r \notin T(b) /\ \A c \in Backends \ {b} : U(c) = T(c)
  BY <1>2, <1>3, SMTT(30) DEF Backends
<1>6. T(b) \cup {r} \subseteq Slots /\ IsFiniteSet(Slots)
  BY PoolAssumption
<1> HIDE DEF T, U
<1>7. Cardinality(U(b)) = Cardinality(T(b)) + 1
  <2>1. IsFiniteSet(T(b))
    BY <1>1
  <2>2. Cardinality(T(b) \cup {r}) = Cardinality(T(b)) + 1
    BY <1>5, <2>1, FS_AddElement, SMTT(30)
  <2>3. QED
    BY <1>5, <2>2
<1>8. Cardinality(U(b)) <= Cardinality(Slots) /\ Cardinality(Slots) \in Nat
  BY <1>5, <1>6, FS_Subset, FS_CardinalityType
<1>9. assigned[b] < Cardinality(Slots)
  BY <1>1, <1>7, <1>8
<1>10. assigned' = [assigned EXCEPT ![b] = assigned[b] + 1]
  BY <1>1, <1>4, <1>5, <1>7, ZenonT(30)
<1>11. QED
  BY <1>9, <1>10

LEMMA ReleasedOne ==
  ASSUME IInv, NEW r \in Slots, NEW b \in Backends, req[r].target = b,
         req' = [req EXCEPT ![r] = Idle]
  PROVE  /\ assigned[b] > 0
         /\ assigned' = [assigned EXCEPT ![b] = assigned[b] - 1]
<1> DEFINE T(c) == {s \in Slots : req[s].target = c}
           U(c) == {s \in Slots : req'[s].target = c}
<1>1. /\ assigned \in [Backends -> Nat]
      /\ \A c \in Backends : IsFiniteSet(T(c)) /\ assigned[c] = Cardinality(T(c))
  BY AssignedTypes, ZenonT(30)
<1>2. b # 0 /\ req \in [Slots -> Request] /\ Idle.target = 0 /\ \A c \in Backends : c # 0
  BY DEF Backends, IInv, TypeOK, Idle
<1>3. \A s \in Slots : req'[s].target = IF s = r THEN 0 ELSE req[s].target
  BY <1>2
<1>4. assigned' = [c \in Backends |-> Cardinality(U(c))]
  BY DEF assigned
<1>5. U(b) = T(b) \ {r} /\ r \in T(b) /\ \A c \in Backends \ {b} : U(c) = T(c)
  BY <1>2, <1>3
<1> HIDE DEF T, U
<1>6. Cardinality(U(b)) = Cardinality(T(b)) - 1
  BY <1>1, <1>5, FS_RemoveElement, ZenonT(30)
<1>7. Cardinality(T(b)) # 0
  BY <1>1, <1>5, FS_EmptySet
<1>8. assigned' = [assigned EXCEPT ![b] = assigned[b] - 1]
  BY <1>1, <1>4, <1>5, <1>6, ZenonT(30)
<1>9. QED
  BY <1>1, <1>7, <1>8

(* The due trials start.                                                   *)
Opening(opened, p0) ==
    /\ \A c \in opened : place[c] = "out"
    /\ place' = [c \in Backends |-> IF c \in opened THEN "trial" ELSE place[c]]
    /\ strikes' = [c \in Backends |-> IF c \in opened THEN 0 ELSE strikes[c]]
    /\ credits' = credits
    /\ \A c \in Backends :
         /\ PlaceOf(p0.state[c]) = IF c \in opened THEN "trial" ELSE place[c]
         /\ p0.state[c].budget = IF c \in opened THEN SuccessThreshold[c] ELSE grants[c]

LEMMA OpeningOK ==
  ASSUME DebugAssertions, IInv, IInv',
         \A c \in Backends :
            /\ pool'.state[c].health = ReconcileReadmit(pool).state[c].health
            /\ pool'.state[c].fails = ReconcileReadmit(pool).state[c].fails
            /\ pool'.state[c].successes = ReconcileReadmit(pool).state[c].successes
  PROVE  \E opened \in SUBSET Backends : Opening(opened, ReconcileReadmit(pool))
<1> DEFINE p0 == ReconcileReadmit(pool)
           opened == {c \in Backends \ ActiveCheck :
                        pool.readmit = "elapsed" /\ pool.state[c].health = "cooled"}
<1>1. \A c \in Backends : p0.state[c] = IF c \in opened THEN ToProbing(pool.state[c], c)
                                        ELSE pool.state[c]
  BY ReconcileOK, SMTT(30) DEF IInv
<1> HIDE DEF p0
<1>2. \A c \in Backends : /\ pool'.state[c].health = p0.state[c].health
                          /\ pool'.state[c].fails = p0.state[c].fails
                          /\ pool'.state[c].successes = p0.state[c].successes
  BY SMTT(30) DEF p0
<1>3. /\ place = [b \in Backends |-> PlaceOf(pool.state[b])]
      /\ place' = [b \in Backends |-> PlaceOf(pool'.state[b])]
      /\ strikes = [b \in Backends |-> pool.state[b].fails]
      /\ strikes' = [b \in Backends |-> pool'.state[b].fails]
  BY AbstractStates, SMTT(30)
<1>4. /\ credits = [b \in Backends |-> pool.state[b].successes]
      /\ credits' = [b \in Backends |-> pool'.state[b].successes]
      /\ grants = [b \in Backends |-> pool.state[b].budget]
  BY AbstractStates, SMTT(30)
<1>5. ASSUME NEW c \in Backends
      PROVE  /\ c \in opened => /\ place[c] = "out" /\ credits[c] = 0
                                /\ p0.state[c].health = "probing" /\ p0.state[c].fails = 0
                                /\ p0.state[c].successes = 0
                                /\ p0.state[c].budget = SuccessThreshold[c]
             /\ c \notin opened => p0.state[c] = pool.state[c]
  <2>1. pool.state[c] \in BackendState /\ CountersOK(pool.state[c], c)
    BY DEF IInv, PoolOK, BackendPool
  <2>2. CASE c \in opened
    <3>1. pool.state[c].health = "cooled" /\ p0.state[c] = ToProbing(pool.state[c], c)
      BY <1>1, <2>2, SMTT(30)
    <3>2. place[c] = "out" /\ credits[c] = 0
      BY <1>3, <1>4, <2>1, <3>1, SMTT(30) DEF PlaceOf, CountersOK
    <3>3. QED
      BY <2>1, <2>2, <3>1, <3>2, SMTT(30) DEF ToProbing, BackendState
  <2>3. CASE c \notin opened
    BY <1>1, <2>3, SMTT(30)
  <2>4. QED
    BY <2>2, <2>3, SMTT(30)
<1> HIDE DEF opened
<1>6. place' = [c \in Backends |-> IF c \in opened THEN "trial" ELSE place[c]]
  BY <1>2, <1>3, <1>5, SMTT(30) DEF PlaceOf
<1>7. strikes' = [c \in Backends |-> IF c \in opened THEN 0 ELSE strikes[c]]
  BY <1>2, <1>3, <1>5, SMTT(30)
<1>8. credits' = credits
  BY <1>2, <1>4, <1>5, SMTT(30)
<1>9. \A c \in Backends :
         /\ PlaceOf(p0.state[c]) = IF c \in opened THEN "trial" ELSE place[c]
         /\ p0.state[c].budget = IF c \in opened THEN SuccessThreshold[c] ELSE grants[c]
  BY <1>3, <1>4, <1>5, SMTT(30) DEF PlaceOf
<1>10. opened \in SUBSET Backends
  BY SMTT(30) DEF opened
<1>11. Opening(opened, p0)
  BY <1>5, <1>6, <1>7, <1>8, <1>9, <1>10, SMTT(30) DEF Opening
<1>12. QED
  BY <1>10, <1>11, SMTT(30) DEF p0

LEMMA NoHealthyServersStep ==
  ASSUME DebugAssertions, IInv, IInv', NEW r \in Slots, NEW key \in Keys,
         NoHealthyServers(r, key)
  PROVE  AbstractStep
<1> DEFINE p0 == ReconcileReadmit(pool)
<1>1. pool' = p0 /\ UNCHANGED req
  <2>1. PickResult(pool, p0, Pick(pool, key))
    BY PickOK, SMTT(30) DEF IInv, TypeOK
  <2>2. QED
    BY <2>1, SMTT(30) DEF NoHealthyServers, PickResult
<1>2. PICK opened \in SUBSET Backends : Opening(opened, p0)
  BY <1>1, OpeningOK, SMTT(30)
<1>3. grants' = [c \in Backends |-> IF c \in opened THEN SuccessThreshold[c] ELSE grants[c]]
  <2>1. grants' = [c \in Backends |-> p0.state[c].budget]
    BY <1>1 DEF grants
  <2> HIDE DEF p0
  <2>2. QED
    BY <1>2, <2>1 DEF Opening
<1>4. assigned' = assigned
  BY <1>1, AssignedSame, SMTT(30)
<1> HIDE DEF p0
<1>5. Rotation!OpenTrials(opened)
  BY <1>2, <1>3, <1>4, SMTT(30) DEF Opening, Rotation!OpenTrials
<1>6. QED
  BY <1>2, <1>5, SMTT(30) DEF AbstractStep, Rotation!Next

LEMMA ResolveStep ==
  ASSUME DebugAssertions, IInv, IInv', NEW r \in Slots, NEW key \in Keys,
         NEW begin \in BOOLEAN, Resolve(r, key, begin)
  PROVE  AbstractStep
<1> DEFINE p0 == ReconcileReadmit(pool)
           out == Pick(pool, key)
<1>1. PICK b \in out.choice :
        /\ pool' = IF begin THEN BeginRequest(out.pool, b) ELSE out.pool
        /\ req' = [req EXCEPT ![r] =
                     [stage |-> IF begin THEN "sent" ELSE "picked", target |-> b]]
  BY ZenonT(30) DEF Resolve
<1>2. PickResult(pool, p0, out)
  BY PickOK, SMTT(30) DEF IInv, TypeOK
<1>3. Kept(pool, p0)
  BY ReconcileOK, SMTT(30) DEF IInv
<1> HIDE DEF p0, out
<1>4. b \in Backends /\ PoolOK(out.pool) /\ PoolOK(p0) /\ Chosen(pool, p0, out, b)
  BY <1>2, <1>3, SMTT(30) DEF PickResult, Kept, Present
<1>5. /\ out.pool.state \in [Backends -> BackendState]
      /\ p0.state \in [Backends -> BackendState]
  BY <1>4, SMTT(30) DEF PoolOK, BackendPool
<1>6. \A c \in Backends : /\ pool'.state[c].health = out.pool.state[c].health
                          /\ pool'.state[c].fails = out.pool.state[c].fails
                          /\ pool'.state[c].successes = out.pool.state[c].successes
                          /\ pool'.state[c].budget = out.pool.state[c].budget
  <2>1. CASE begin
    <3>1. PICK t : SameRotation(out.pool.state[b], t) /\ Touched(out.pool, pool', b, t)
      BY <1>1, <1>4, <2>1, BeginOK, SMTT(30)
    <3>2. \A c \in Backends : pool'.state[c] = IF c = b THEN t ELSE out.pool.state[c]
      BY <1>4, <1>5, <3>1, SMTT(30) DEF Touched
    <3>3. QED
      BY <3>1, <3>2, SMTT(30) DEF SameRotation
  <2>2. CASE ~begin
    BY <1>1, <2>2
  <2>3. QED
    BY <2>1, <2>2, SMTT(30)
<1>7. \/ /\ b \in Range(pool.healthy)
         /\ \A c \in Backends : out.pool.state[c] = p0.state[c]
      \/ /\ p0.state[b].budget > 0 /\ p0.state[b].health = "probing"
         /\ out.pool.state = [p0.state EXCEPT ![b].budget = p0.state[b].budget - 1]
  BY <1>4 DEF Chosen, IsProbing
<1>8. \A c \in Backends : /\ out.pool.state[c].health = p0.state[c].health
                          /\ out.pool.state[c].fails = p0.state[c].fails
                          /\ out.pool.state[c].successes = p0.state[c].successes
  BY <1>4, <1>5, <1>7, SMTT(30) DEF BackendState
<1>9. PICK opened \in SUBSET Backends : Opening(opened, p0)
  BY <1>6, <1>8, OpeningOK, SMTT(30) DEF p0
<1>10. /\ assigned[b] < Cardinality(Slots)
       /\ assigned' = [assigned EXCEPT ![b] = assigned[b] + 1]
  <2> DEFINE q == [stage |-> IF begin THEN "sent" ELSE "picked", target |-> b]
  <2>1. req[r].target = 0
    BY SMTT(30) DEF IInv, TypeOK, Resolve
  <2>2. req' = [req EXCEPT ![r] = q] /\ q.target = b
    BY <1>1, SMTT(30)
  <2> HIDE DEF q
  <2>3. QED
    BY <1>4, <2>1, <2>2, AssignedOne, ZenonT(30)
<1> DEFINE grants1 == [c \in Backends |-> IF c \in opened THEN SuccessThreshold[c] ELSE grants[c]]
           place1 == [c \in Backends |-> IF c \in opened THEN "trial" ELSE place[c]]
<1>11. \A c \in Backends : grants1[c] = p0.state[c].budget /\ place1[c] = PlaceOf(p0.state[c])
  BY <1>9, SMTT(30) DEF Opening
<1>12. grants' = [c \in Backends |-> out.pool.state[c].budget]
  BY <1>6 DEF grants
<1>13. \/ place1[b] = "in" /\ grants' = grants1
       \/ /\ place1[b] = "trial" /\ grants1[b] > 0
          /\ grants' = [grants1 EXCEPT ![b] = grants1[b] - 1]
  <2>1. CASE /\ b \in Range(pool.healthy)
             /\ \A c \in Backends : out.pool.state[c] = p0.state[c]
    <3>1. place[b] = "in"
      BY <1>4, <2>1, SMTT(30) DEF place, PlaceIn
    <3>2. b \notin opened
      BY <1>9, <3>1, SMTT(30) DEF Opening
    <3>3. place1[b] = "in"
      BY <1>4, <3>1, <3>2, SMTT(30)
    <3> HIDE DEF place1
    <3>4. grants' = grants1
      BY <1>11, <1>12, <2>1, SMTT(30)
    <3>5. QED
      BY <3>3, <3>4, SMTT(30)
  <2>2. CASE /\ p0.state[b].budget > 0 /\ p0.state[b].health = "probing"
             /\ out.pool.state = [p0.state EXCEPT ![b].budget = p0.state[b].budget - 1]
    <3>1. place1[b] = "trial" /\ grants1[b] > 0
      BY <1>4, <1>11, <2>2, SMTT(30) DEF PlaceOf
    <3>2. \A c \in Backends : out.pool.state[c].budget =
                                IF c = b THEN p0.state[b].budget - 1 ELSE p0.state[c].budget
      BY <1>4, <1>5, <2>2, SMTT(30) DEF BackendState
    <3> HIDE DEF place1
    <3>3. grants' = [grants1 EXCEPT ![b] = grants1[b] - 1]
      BY <1>4, <1>11, <1>12, <3>2, ZenonT(30)
    <3>4. QED
      BY <3>1, <3>3
  <2>3. QED
    BY <1>7, <2>1, <2>2, SMTT(30)
<1>14. place' = place1
  BY <1>9 DEF Opening
<1> HIDE DEF grants1, place1
<1>15. Rotation!Assign(b, opened)
  BY <1>9, <1>10, <1>13, <1>14, ZenonT(30) DEF Opening, Rotation!Assign, grants1, place1
<1>16. QED
  BY <1>4, <1>9, <1>15, ZenonT(30) DEF AbstractStep, Rotation!Next

(* Steps of a request that has its backend.                                *)
LEMMA TouchedStep ==
  ASSUME DebugAssertions, IInv, IInv', NEW b \in Backends, NEW t,
         pool'.state = [pool.state EXCEPT ![b] = t],
         PlaceOf(t) = PlaceOf(pool.state[b]), t.fails = pool.state[b].fails,
         t.successes = pool.state[b].successes, t.budget = pool.state[b].budget
  PROVE  place' = place /\ strikes' = strikes /\ credits' = credits /\ grants' = grants
<1>1. OneMoves(b, pool.state[b], t)
  BY OneMovesOK
<1>2. QED
  BY <1>1, SMTT(30) DEF OneMoves

LEMMA ReleaseStep ==
  ASSUME IInv, NEW r \in Slots, req[r].stage # "idle", req' = [req EXCEPT ![r] = Idle],
         place' = place, strikes' = strikes, credits' = credits, grants' = grants
  PROVE  AbstractStep
<1> DEFINE b == req[r].target
<1>1. b \in Backends
  BY DEF IInv, TargetsPresent, Present
<1> HIDE DEF b
<1>2. assigned[b] > 0 /\ assigned' = [assigned EXCEPT ![b] = assigned[b] - 1]
  BY <1>1, ReleasedOne, ZenonT(30) DEF b
<1>3. Rotation!Release(b)
  BY <1>2 DEF Rotation!Release
<1>4. QED
  BY <1>1, <1>3, SMTT(30) DEF AbstractStep, Rotation!Next

LEMMA RequestStep ==
  ASSUME DebugAssertions, IInv, IInv', NEW r \in Slots
  PROVE  /\ AdmissionRefuses(r) => AbstractStep
         /\ BeginForAccounting(r) => AbstractStep
         /\ Finish(r) => AbstractStep
         /\ \A o \in Outcomes : Observe(r, o) => AbstractStep
<1> DEFINE b == req[r].target
<1>1. req[r].stage # "idle" => b \in Present(pool) /\ b \in Backends
  BY DEF IInv, TargetsPresent, Present
<1>2. req \in [Slots -> Request]
  BY DEF IInv, TypeOK
<1>3. ASSUME AdmissionRefuses(r) PROVE AbstractStep
  <2>1. req[r].stage # "idle" /\ pool' = pool /\ req' = [req EXCEPT ![r] = Idle]
    BY <1>3 DEF AdmissionRefuses
  <2>2. place' = place /\ strikes' = strikes /\ credits' = credits /\ grants' = grants
    BY <2>1 DEF place, strikes, credits, grants
  <2>3. QED
    BY <2>1, <2>2, ReleaseStep, ZenonT(30)
<1>4. ASSUME BeginForAccounting(r) PROVE AbstractStep
  <2>1. /\ req[r].stage # "idle" /\ pool' = BeginRequest(pool, b)
        /\ req' = [req EXCEPT ![r].stage = "sent"]
    BY <1>4 DEF BeginForAccounting
  <2>2. \A s \in Slots : req'[s].target = req[s].target
    BY <1>2, <2>1 DEF Request
  <2> HIDE DEF b
  <2>3. PICK t : SameRotation(pool.state[b], t) /\ Touched(pool, pool', b, t)
    BY <1>1, <2>1, BeginOK, SMTT(30) DEF IInv
  <2>4. place' = place /\ strikes' = strikes /\ credits' = credits /\ grants' = grants
    BY <1>1, <2>1, <2>3, TouchedStep, SMTT(30) DEF SameRotation, Touched, PlaceOf
  <2>5. assigned' = assigned
    BY <2>2, AssignedSame, SMTT(30)
  <2>6. QED
    BY <2>4, <2>5 DEF AbstractStep, Rotation!rotation
<1>5. ASSUME Finish(r) PROVE AbstractStep
  <2>1. /\ req[r].stage # "idle" /\ req' = [req EXCEPT ![r] = Idle]
        /\ \E e \in SampledFrom(pool.state[b].ewma) :
             pool' = FinishRequest(pool, b, req[r].stage # "failed", e)
    BY <1>5 DEF Finish
  <2> HIDE DEF b
  <2>2. PICK e \in Nat : pool' = FinishRequest(pool, b, req[r].stage # "failed", e)
    BY <2>1, SMTT(30) DEF SampledFrom, Sample
  <2>3. PICK t : SameRotation(pool.state[b], t) /\ Touched(pool, pool', b, t)
    BY <1>1, <2>1, <2>2, FinishOK, ZenonT(30) DEF IInv
  <2>4. place' = place /\ strikes' = strikes /\ credits' = credits /\ grants' = grants
    BY <1>1, <2>1, <2>3, TouchedStep, SMTT(30) DEF SameRotation, Touched, PlaceOf
  <2>5. QED
    BY <2>1, <2>4, ReleaseStep, ZenonT(30)
<1>6. ASSUME NEW o \in Outcomes, Observe(r, o) PROVE AbstractStep
  <2> DEFINE end == IF o = "status5xx" THEN "failed" ELSE "observed"
  <2>1. /\ req[r].stage # "idle" /\ pool' = Feedback(pool, b, o)
        /\ req' = [req EXCEPT ![r].stage = end]
    BY <1>6 DEF Observe
  <2> HIDE DEF end
  <2>2. \A s \in Slots : req'[s].target = req[s].target
    BY <1>2, <2>1, SMTT(30) DEF Request
  <2> HIDE DEF b
  <2>3. assigned' = assigned
    BY <2>2, AssignedSame
  <2>4. Observed(pool, pool', b)
    BY <1>1, <2>1, FeedbackOK, SMTT(30) DEF IInv
  <2>5. QED
    BY <1>1, <2>1, <2>3, <2>4, ObservedStep, SMTT(30)
<1>7. QED
  BY <1>3, <1>4, <1>5, <1>6, SMTT(30)

LEMMA BackgroundStep ==
  ASSUME DebugAssertions, IInv, IInv', NEW b \in Backends
  PROVE  /\ CooldownElapses(b) => AbstractStep
         /\ b \in ActiveCheck => \A o \in {"success", "neutral", "failure"} :
                                   HealthJoined(b, o) => AbstractStep
<1>1. ASSUME CooldownElapses(b) PROVE AbstractStep
  <2>1. PICK t : /\ pool'.state = [pool.state EXCEPT ![b] = t]
                 /\ t = [pool.state[b] EXCEPT !.health = "cooled"]
                 /\ pool.state[b].health = "cooling"
    BY <1>1, CooldownOK, SMTT(30) DEF IInv
  <2>2. pool.state[b] \in BackendState
    BY DEF IInv, PoolOK, BackendPool
  <2>3. /\ t.health = "cooled" /\ t.fails = pool.state[b].fails
        /\ t.successes = pool.state[b].successes /\ t.budget = pool.state[b].budget
    BY <2>1, <2>2 DEF BackendState
  <2>4. PlaceOf(t) = PlaceOf(pool.state[b])
    BY <2>1, <2>3 DEF PlaceOf
  <2>5. place' = place /\ strikes' = strikes /\ credits' = credits /\ grants' = grants
    BY <2>1, <2>3, <2>4, TouchedStep, ZenonT(30)
  <2>6. assigned' = assigned
    BY <1>1, AssignedSame DEF CooldownElapses
  <2>7. QED
    BY <2>5, <2>6 DEF AbstractStep, Rotation!rotation
<1>2. ASSUME b \in ActiveCheck, NEW o \in {"success", "neutral", "failure"}, HealthJoined(b, o)
      PROVE  AbstractStep
  <2>1. job[b].pending /\ pool' = ApplyObservation(pool, b, o) /\ UNCHANGED req
    BY <1>2, SMTT(30) DEF HealthJoined
  <2>2. b \in Present(pool)
    BY <1>2, <2>1, SMTT(30) DEF IInv, TargetsPresent
  <2>3. Observed(pool, pool', b)
    BY <2>1, <2>2, UnobservedOK, SuccessObserved, FailureObserved, SMTT(30) DEF IInv, ApplyObservation
  <2>4. assigned' = assigned
    BY <2>1, AssignedSame, SMTT(30)
  <2>5. QED
    BY <2>2, <2>3, <2>4, ObservedStep, SMTT(30)
<1>3. QED
  BY <1>1, <1>2, SMTT(30)

LEMMA StepImplements ==
  ASSUME DebugAssertions, IInv, IInv', [Next]_vars
  PROVE  AbstractStep
<1>1. ASSUME UNCHANGED <<pool, req>> PROVE AbstractStep
  BY <1>1 DEF AbstractStep, Rotation!rotation, place, strikes, credits, grants, assigned
<1>2. CASE UNCHANGED vars
  BY <1>1, <1>2 DEF vars
<1>3. CASE \E r \in Slots : AdmissionRefuses(r) \/ BeginForAccounting(r) \/ Finish(r)
  BY <1>3, RequestStep
<1>4. CASE \E r \in Slots : \E k \in Keys : NoHealthyServers(r, k)
  BY <1>4, NoHealthyServersStep
<1>5. CASE \E r \in Slots : \E k \in Keys, begin \in BOOLEAN : Resolve(r, k, begin)
  BY <1>5, ResolveStep
<1>6. CASE \E r \in Slots : \E o \in Outcomes : Observe(r, o) \/ AlternateAnswers(r, o)
  BY <1>6, RequestStep DEF AlternateAnswers
<1>7. CASE \E b \in Backends : CooldownElapses(b)
  BY <1>7, BackgroundStep
<1>8. CASE \E due \in SUBSET ActiveCheck : HealthTick(due)
  BY <1>1, <1>8, SMTT(30) DEF HealthTick
<1>9. CASE \E b \in ActiveCheck : HealthInterrupted(b)
  BY <1>1, <1>9, SMTT(30) DEF HealthInterrupted
<1>10. CASE \E b \in ActiveCheck : \E o \in {"success", "neutral", "failure"} :
              HealthJoined(b, o)
  BY <1>10, BackgroundStep, PoolAssumption, SMTT(30)
<1>11. QED
  BY <1>2, <1>3, <1>4, <1>5, <1>6, <1>7, <1>8, <1>9, <1>10, SMTT(30) DEF Next

LEMMA InitImplements ==
  ASSUME DebugAssertions, Init
  PROVE  Rotation!Init
<1>1. IInv
  BY InvInit
<1>2. PICK c \in Scenarios : pool = PoolInit(c.members)
  BY SMTT(30) DEF Init
<1>3. \A b \in Backends : /\ pool.state[b].health \in {"healthy", "absent"}
                          /\ pool.state[b].fails = 0 /\ pool.state[b].successes = 0
                          /\ pool.state[b].budget = 0
  BY <1>2 DEF PoolInit, NewState
<1>4. place = [b \in Backends |-> PlaceOf(pool.state[b])]
  BY <1>1, PlaceFollowsState, SMTT(30) DEF IInv, place
<1>5. place = [b \in Backends |-> "in"]
  BY <1>3, <1>4 DEF PlaceOf
<1>6. strikes = [b \in Backends |-> 0]
  BY <1>3 DEF strikes
<1>7. credits = [b \in Backends |-> 0]
  BY <1>3 DEF credits
<1>8. grants = [b \in Backends |-> 0]
  BY <1>3 DEF grants
<1>9. assigned = [b \in Backends |-> 0]
  <2>1. \A r \in Slots : req[r].target = 0
    BY DEF Init, Idle
  <2>2. \A b \in Backends : {r \in Slots : req[r].target = b} = {}
    BY <2>1 DEF Backends
  <2>3. Cardinality({}) = 0
    BY FS_EmptySet
  <2>4. QED
    BY <2>2, <2>3, Zenon DEF assigned
<1>10. QED
  BY <1>5, <1>6, <1>7, <1>8, <1>9, SMTT(30) DEF Rotation!Init

(* In a build that evaluates debug_assert!, the pool implements            *)
(* BackendRotation: requests reach only backends in rotation or granted a  *)
(* trial, a backend leaves after its threshold of failures in a row and    *)
(* returns through a trial of its threshold of successes, under every      *)
(* strategy, interleaving and number of backends.                          *)
THEOREM PoolImplementsRotation ==
  ASSUME DebugAssertions
  PROVE  Spec => ImplementsRotation
<1>1. Init => Rotation!Init
  BY InitImplements
<1>2. IInv /\ IInv' /\ [Next]_vars => [Rotation!Next]_(Rotation!rotation)
  BY StepImplements DEF AbstractStep
<1>3. QED
  BY <1>1, <1>2, PoolInvariant, PTL DEF Spec, ImplementsRotation, Rotation!Spec
================================================================================
