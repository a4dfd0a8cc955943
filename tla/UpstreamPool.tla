----------------------------- MODULE UpstreamPool -----------------------------
(* One upstream pool: per-backend health, the healthy and probing lists    *)
(* with their position indices, passive re-admission, the balancing        *)
(* strategy, the requests that use the pool and the active health-check    *)
(* loop (crates/lb, edge/runtime/backend/lifecycle/health.rs,              *)
(* edge/quic_listener/health_check.rs).  Every operation runs under the    *)
(* pool's lock and is one step; resolving, admitting, observing and        *)
(* accounting a request take the lock separately.                          *)
EXTENDS LoadBalancing

CONSTANTS
    N,                \* backends are 1..N
    ActiveCheck,      \* backends whose health_check.interval is positive
    FailureThreshold, SuccessThreshold, \* per backend
    Slots,            \* concurrent requests
    Scenarios,        \* pools to consider: a strategy and the backends of the upstream
    DebugAssertions   \* whether debug_assert! evaluates its argument

Backends == 1..N

ASSUME PoolAssumption ==
    /\ N \in Nat \ {0} /\ ActiveCheck \subseteq Backends
    /\ FailureThreshold \in [Backends -> Nat \ {0}]
    /\ SuccessThreshold \in [Backends -> Nat \ {0}]
    /\ \A c \in Scenarios : c.strategy \in Strategies /\ c.members \subseteq Backends
    /\ DebugAssertions \in BOOLEAN /\ IsFiniteSet(Slots)
    /\ Weight \in [Backends -> Nat \ {0}] /\ KeyHash \in [Keys -> Nat]
    /\ \A b \in Backends : \A r \in 1..Weight[b] : ReplicaHash[b][r] \in Nat
    /\ ExplorationInterval \in Nat \ {0} /\ UnsampledInterval \in Nat \ {0}
    /\ CursorWrap \in [Strategies -> Nat \ {0}]

VARIABLES
    pool,  \* BackendPool
    lb,    \* LoadBalancing
    req,   \* per slot: the request's stage and backend (0: none)
    job    \* per actively checked backend: scheduler state of its check

vars == <<pool, lb, req, job>>

(* Latencies: 0 unsampled, 1 typical, 2 penalised.  Only the latency-aware *)
(* strategy reads them; under the others they are left at 0.               *)
Sample(e) == IF lb.strategy = "latency-aware" THEN e ELSE 0

-----------------------------------------------------------------------------
(* BackendState.  "cooling" and "cooled" are HealthState::Unhealthy before *)
(* and after `until`; a backend the upstream does not have is "absent".    *)
NewState(h) == [health |-> h, fails |-> 0, successes |-> 0, budget |-> 0,
             active |-> 0, ewma |-> 0]
IsHealthy(s) == s.health = "healthy"
IsProbing(s) == s.health = "probing"
IsEjected(s) == s.health \in {"cooling", "cooled"}

ToProbing(s, b) == [s EXCEPT !.health = "probing", !.fails = 0, !.successes = 0,
                             !.budget = SuccessThreshold[b]]
Eject(s) == [s EXCEPT !.health = "cooling", !.fails = 0, !.successes = 0, !.budget = 0]

RecordProbingSuccess(s, b) ==
    IF s.successes + 1 >= SuccessThreshold[b]
    THEN [s EXCEPT !.health = "healthy", !.fails = 0, !.successes = 0, !.budget = 0]
    ELSE [s EXCEPT !.successes = @ + 1]

RecordSuccess(s, b) ==
    CASE IsHealthy(s) -> [s EXCEPT !.fails = 0]
      [] s.health = "cooling" -> s
      [] s.health = "cooled" -> RecordProbingSuccess(ToProbing(s, b), b)
      [] OTHER -> RecordProbingSuccess(s, b)

RecordFailure(s, b) ==
    IF IsProbing(s) THEN Eject(s)
    ELSE IF s.fails + 1 < FailureThreshold[b] THEN [s EXCEPT !.fails = @ + 1]
    ELSE Eject(s)

-----------------------------------------------------------------------------
(* BackendPool.  A position of 0 is None.                                  *)
SwapRemove(seq, i) ==
    [k \in 1..(Len(seq) - 1) |-> IF k = i THEN seq[Len(seq)] ELSE seq[k]]

(* The indices of a set in ascending order, and the place of one of them.  *)
RankIn(members, b) == Cardinality({c \in members : c <= b})
InOrder(members) ==
    [k \in 1..Cardinality(members) |-> CHOOSE b \in members : RankIn(members, b) = k]

PoolInit(members) ==
            [state |-> [b \in Backends |->
                          NewState(IF b \in members THEN "healthy" ELSE "absent")],
             healthy |-> InOrder(members),
             healthyPos |-> [b \in Backends |->
                            IF b \in members THEN RankIn(members, b) ELSE 0],
             probing |-> <<>>, probingPos |-> [b \in Backends |-> 0],
             readmit |-> "none", cursor |-> 0]

MarkHealthy(p, b) ==
    IF p.healthyPos[b] # 0 THEN p
    ELSE [p EXCEPT !.healthyPos[b] = Len(p.healthy) + 1, !.healthy = Append(@, b)]

(* Variant: swap_remove without repairing the moved backend's position.    *)
MarkUnhealthyNoRepair(p, b) ==
    IF p.healthyPos[b] = 0 THEN p
    ELSE [p EXCEPT !.healthy = SwapRemove(p.healthy, p.healthyPos[b]),
                   !.healthyPos[b] = 0]

MarkUnhealthy(p, b) ==
    LET pos == p.healthyPos[b]
        rest == SwapRemove(p.healthy, pos)
        moved == IF pos <= Len(rest) THEN {rest[pos]} ELSE {}
    IN  IF pos = 0 THEN p
        ELSE [p EXCEPT !.healthy = rest,
                       !.healthyPos = [c \in Backends |->
                          IF c = b THEN 0 ELSE IF c \in moved THEN pos ELSE @[c]]]

MarkProbing(p, b) ==
    IF p.probingPos[b] # 0 THEN p
    ELSE [p EXCEPT !.probingPos[b] = Len(p.probing) + 1, !.probing = Append(@, b)]

MarkNotProbing(p, b) ==
    LET pos == p.probingPos[b]
        rest == SwapRemove(p.probing, pos)
        moved == IF pos <= Len(rest) THEN {rest[pos]} ELSE {}
    IN  IF pos = 0 THEN p
        ELSE [p EXCEPT !.probing = rest,
                       !.probingPos = [c \in Backends |->
                          IF c = b THEN 0 ELSE IF c \in moved THEN pos ELSE @[c]],
                       !.cursor = IF rest = <<>> THEN 0 ELSE @ % Len(rest)]

(* The four list updates are the arguments of debug_assert!, which a build *)
(* without debug assertions does not evaluate.                             *)
InDebugAssert(p, updated) == IF DebugAssertions THEN updated ELSE p

Reindex(p, b, s) ==
    LET was == p.state[b]
        p0 == [p EXCEPT !.state[b] = s]
        p1 == IF IsHealthy(was) = IsHealthy(s) THEN p0
              ELSE InDebugAssert(p0, IF IsHealthy(s) THEN MarkHealthy(p0, b)
                                     ELSE MarkUnhealthy(p0, b))
    IN  IF IsProbing(was) = IsProbing(s) THEN p1
        ELSE InDebugAssert(p1, IF IsProbing(s) THEN MarkProbing(p1, b)
                               ELSE MarkNotProbing(p1, b))

EpochMoved(p, q) == \E b \in Backends : IsHealthy(p.state[b]) # IsHealthy(q.state[b])
(* Variant: the epoch is not moved.                                        *)
LbAfterUnmoved(p, q) == lb
LbAfter(p, q) == IF EpochMoved(p, q) THEN [lb EXCEPT !.fresh = FALSE] ELSE lb

MarkSuccess(p, b) == Reindex(p, b, RecordSuccess(p.state[b], b))
MarkRequestSuccess(p, b) == IF b \in ActiveCheck THEN p ELSE MarkSuccess(p, b)

(* Variant: only leaving rotation schedules a re-admission.                *)
MarkFailureFirstEjection(p, b) ==
    LET s == RecordFailure(p.state[b], b)
        q == Reindex(p, b, s)
    IN  IF b \notin ActiveCheck /\ IsHealthy(p.state[b]) # IsHealthy(s) /\ q.readmit = "none"
        THEN [q EXCEPT !.readmit = "pending"] ELSE q

MarkFailure(p, b) ==
    LET s == RecordFailure(p.state[b], b)
        moved == \/ IsHealthy(p.state[b]) # IsHealthy(s)
                 \/ IsProbing(p.state[b]) # IsProbing(s)
        q == Reindex(p, b, s)
    IN  IF b \notin ActiveCheck /\ moved /\ q.readmit = "none"
        THEN [q EXCEPT !.readmit = "pending"] ELSE q
MarkRequestFailure(p, b) == IF b \in ActiveCheck THEN p ELSE MarkFailure(p, b)
ObserveRequestFailure(p, b) == [MarkRequestFailure(p, b) EXCEPT !.state[b].ewma = Sample(2)]

(* reconcile_readmit_at: the cooled passive backends start probing, in     *)
(* index order; readmit is the earliest expiry still ahead.                *)
ReconcileReadmit(p) ==
    LET due == {b \in Backends \ ActiveCheck : p.state[b].health = "cooled"}
        left == {b \in Backends \ ActiveCheck : p.state[b].health = "cooling"}
        new == {b \in due : p.probingPos[b] = 0}
        q == [p EXCEPT !.state = [b \in Backends |-> IF b \in due THEN ToProbing(@[b], b)
                                                     ELSE @[b]],
                       !.readmit = IF left = {} THEN "none" ELSE "pending"]
    IN  IF p.readmit # "elapsed" THEN p
        ELSE InDebugAssert(q, [q EXCEPT
               !.probing = @ \o InOrder(new),
               !.probingPos = [b \in Backends |-> IF b \in new
                                 THEN Len(q.probing) + RankIn(new, b) ELSE @[b]]])

ActiveOf(p) == [b \in Backends |-> p.state[b].active]
EwmaOf(p) == [b \in Backends |-> p.state[b].ewma]

(* pick_probing_backend: the positions from the cursor on, in turn.        *)
PickProbing(p) ==
    LET len == Len(p.probing)
        at(k) == ((p.cursor + k) % len) + 1
        ready == {k \in 0..(len - 1) :
                    LET s == p.state[p.probing[at(k)]] IN s.active = 0 /\ s.budget > 0}
        first == CHOOSE k \in ready : \A j \in ready : k <= j
    IN  IF len = 0 \/ ready = {} THEN [choice |-> {}, pool |-> p]
        ELSE LET b == p.probing[at(first)]
             IN  [choice |-> {b},
                  pool |-> [p EXCEPT !.state[b].budget = @ - 1,
                                     !.cursor = at(first)]]

(* pick / pick_without_begin up to begin_request.                          *)
Pick(p, key) ==
    LET p0 == ReconcileReadmit(p)
        trial == PickProbing(p0)
        drawn == LbPick(lb, key, p0.healthy, ActiveOf(p0), EwmaOf(p0))
    IN  IF trial.choice # {} THEN [choice |-> trial.choice, pool |-> trial.pool, lb |-> lb]
        ELSE [choice |-> drawn.choice, pool |-> p0, lb |-> drawn.lb]

BeginRequest(p, b) == [p EXCEPT !.state[b].active = @ + 1]

(* finish_request: saturating decrement; a 5xx leaves no latency sample,   *)
(* any other end moves the average towards the sample.                     *)
FinishRequest(p, b, sampled, ewma) ==
    [p EXCEPT !.state[b].active = IF @ = 0 THEN 0 ELSE @ - 1,
              !.state[b].ewma = IF sampled THEN ewma ELSE @]
SampledFrom(ewma) == IF ewma = 2 THEN {1, 2} ELSE {Sample(1)}

-----------------------------------------------------------------------------
(* Requests.                                                               *)
Idle == [stage |-> "idle", target |-> 0]

Init == /\ \E c \in Scenarios : pool = PoolInit(c.members) /\ lb = LbInit(c.strategy)
        /\ req = [r \in Slots |-> Idle]
        /\ job = [b \in ActiveCheck |-> [pending |-> FALSE, failures |-> 0]]

(* HTTP/3 resolves a target without counting it; the request may still be  *)
(* refused.  The bootstrap path counts at once.                            *)
Resolve(r, key, begin) ==
    LET out == Pick(pool, key)
    IN  /\ req[r].stage = "idle"
        /\ \E b \in out.choice :
             /\ pool' = IF begin THEN BeginRequest(out.pool, b) ELSE out.pool
             /\ req' = [req EXCEPT ![r] =
                          [stage |-> IF begin THEN "sent" ELSE "picked", target |-> b]]
        /\ lb' = out.lb
        /\ UNCHANGED job

NoHealthyServers(r, key) ==
    LET out == Pick(pool, key)
    IN  /\ req[r].stage = "idle"
        /\ out.choice = {}
        /\ pool' = out.pool
        /\ lb' = out.lb
        /\ UNCHANGED <<req, job>>

AdmissionRefuses(r) == /\ req[r].stage = "picked"
                       /\ req' = [req EXCEPT ![r] = Idle]
                       /\ UNCHANGED <<pool, lb, job>>

BeginForAccounting(r) == /\ req[r].stage = "picked"
                         /\ pool' = BeginRequest(pool, req[r].target)
                         /\ req' = [req EXCEPT ![r].stage = "sent"]
                         /\ UNCHANGED <<lb, job>>

Feedback(p, b, outcome) ==
    CASE outcome = "success" -> MarkRequestSuccess(p, b)
      [] outcome = "neutral" -> p
      [] outcome = "status5xx" -> MarkRequestFailure(p, b)
      [] outcome = "failure" -> ObserveRequestFailure(p, b)

Observe(r, outcome) ==
    /\ req[r].stage = "sent"
    /\ pool' = Feedback(pool, req[r].target, outcome)
    /\ lb' = LbAfter(pool, pool')
    /\ req' = [req EXCEPT ![r].stage = IF outcome = "status5xx" THEN "failed" ELSE "observed"]
    /\ UNCHANGED job

(* A retry or hedge answered by another backend is reported on the index   *)
(* of the request's own target.                                            *)
AlternateAnswers(r, outcome) ==
    /\ ChooseAlternate(lb, pool.healthy, ActiveOf(pool), EwmaOf(pool), {req[r].target}) # {}
    /\ Observe(r, outcome)

(* A request that is reset ends without an observation.                    *)
Finish(r) ==
    /\ req[r].stage \in {"sent", "observed", "failed"}
    /\ LET b == req[r].target
       IN  \E e \in SampledFrom(pool.state[b].ewma) :
             pool' = FinishRequest(pool, b, req[r].stage # "failed", e)
    /\ req' = [req EXCEPT ![r] = Idle]
    /\ UNCHANGED <<lb, job>>

-----------------------------------------------------------------------------
(* Time, and the active health-check loop: a tick starts the checks that   *)
(* are due and the loop waits for all of them before the next tick.        *)
CooldownElapses(b) ==
    /\ pool.state[b].health = "cooling"
    /\ pool' = [pool EXCEPT !.state[b].health = "cooled",
                            !.readmit = IF @ = "pending" /\ b \notin ActiveCheck
                                        THEN "elapsed" ELSE @]
    /\ UNCHANGED <<lb, req, job>>

HealthTick(due) ==
    /\ due # {} /\ \A b \in due : pool.state[b].health # "absent"
    /\ \A b \in ActiveCheck : ~job[b].pending
    /\ job' = [b \in ActiveCheck |-> [job[b] EXCEPT !.pending = b \in due]]
    /\ UNCHANGED <<pool, lb, req>>

(* evaluate_active_health_check: the interval doubles at most twice.       *)
NextFailures(f, outcome) == IF outcome # "failure" THEN 0 ELSE IF f < 2 THEN f + 1 ELSE 2

ApplyObservation(p, b, outcome) ==
    CASE outcome = "success" -> MarkSuccess(p, b)
      [] outcome = "failure" -> MarkFailure(p, b)
      [] OTHER -> p

HealthJoined(b, outcome) ==
    /\ job[b].pending
    /\ pool' = ApplyObservation(pool, b, outcome)
    /\ lb' = LbAfter(pool, pool')
    /\ job' = [job EXCEPT ![b] = [pending |-> FALSE,
                                  failures |-> NextFailures(@.failures, outcome)]]
    /\ UNCHANGED req

(* A check task that panicked only backs off.                              *)
HealthInterrupted(b) ==
    /\ job[b].pending
    /\ job' = [job EXCEPT ![b] = [pending |-> FALSE,
                                  failures |-> NextFailures(@.failures, "failure")]]
    /\ UNCHANGED <<pool, lb, req>>

Outcomes == {"success", "neutral", "status5xx", "failure"}

Next == \/ \E r \in Slots : \/ AdmissionRefuses(r)
                            \/ BeginForAccounting(r)
                            \/ Finish(r)
                            \/ \E k \in Keys : NoHealthyServers(r, k)
                            \/ \E k \in Keys, begin \in BOOLEAN : Resolve(r, k, begin)
                            \/ \E o \in Outcomes : Observe(r, o) \/ AlternateAnswers(r, o)
        \/ \E b \in Backends : CooldownElapses(b)
        \/ \E due \in SUBSET ActiveCheck : HealthTick(due)
        \/ \E b \in ActiveCheck : \/ HealthInterrupted(b)
                                  \/ \E o \in {"success", "neutral", "failure"} :
                                       HealthJoined(b, o)

Spec == Init /\ [][Next]_vars

-----------------------------------------------------------------------------
(* The healthy and probing lists hold exactly the backends in that state,  *)
(* once each, and the position indices invert them: swap_remove and the    *)
(* position updates of every interleaving of request feedback, active      *)
(* checks and re-admission leave the lists the pickers read exact.         *)
RotationConsistent ==
    \A b \in Backends :
      /\ IsHealthy(pool.state[b]) <=> b \in Range(pool.healthy)
      /\ IsProbing(pool.state[b]) <=> b \in Range(pool.probing)
      /\ \A k \in DOMAIN pool.healthy : pool.healthy[k] = b <=> pool.healthyPos[b] = k
      /\ \A k \in DOMAIN pool.probing : pool.probing[k] = b <=> pool.probingPos[b] = k

(* No wake-up is lost: while a backend without active checks is ejected,   *)
(* earliest_readmit is set, and it has elapsed once that backend's         *)
(* cooldown has, so the next pick re-admits it.                            *)
ReadmitScheduled ==
    \A b \in Backends \ ActiveCheck :
      /\ pool.state[b].health = "cooling" => pool.readmit # "none"
      /\ pool.state[b].health = "cooled" => pool.readmit = "elapsed"

(* The pool as its callers see it: the lists the pickers read are the      *)
(* rotation, and a request counts from its pick to its end.                *)
PlaceIn(p) == [b \in Backends |-> IF b \in Range(p.healthy) \/ p.state[b].health = "absent"
                                  THEN "in"
                                  ELSE IF b \in Range(p.probing) THEN "trial" ELSE "out"]
place == PlaceIn(pool)
strikes == [b \in Backends |-> pool.state[b].fails]
credits == [b \in Backends |-> pool.state[b].successes]
grants == [b \in Backends |-> pool.state[b].budget]
assigned == [b \in Backends |-> Cardinality({r \in Slots : req[r].target = b})]

(* The pool implements BackendRotation: no request is assigned outside the *)
(* rotation, no backend leaves it before its threshold or returns without  *)
(* its trial, and the schedules the strategies cache never outlive a       *)
(* membership change.                                                      *)
Rotation == INSTANCE BackendRotation WITH
    Members <- Backends, Strikes <- FailureThreshold, Credits <- SuccessThreshold,
    MaxLoad <- Cardinality(Slots)
ImplementsRotation == Rotation!Spec
===============================================================================
