-------------------------------- MODULE Quota --------------------------------
(* Quota admission: the policies of the quota and of the scoped rate       *)
(* limits evaluated for each request by the listener's workers, over one   *)
(* of the counter stores of edge/resilience: the in-process fixed windows  *)
(* (quota/memory.rs), Redis with its one EVAL per decision                 *)
(* (quota/redis.rs), Redis with a local fallback (quota/backend.rs), a     *)
(* store that could not be built, and the token buckets of the scoped rate *)
(* limits (scoped_rate_limit.rs).  Time is in seconds.                     *)
EXTENDS QuotaIdentity, FiniteSets, FiniteSetsExt, Bags, Functions, TLC

CONSTANTS
    QuotaWorkers,    \* threads that evaluate requests
    QuotaSetups,     \* configurations to consider, with the requests' contexts,
                     \* how many requests come (load) and how long (horizon)
    BurstWindow, SustainedWindow

(* The grace a counter outlives its window by, the interval between two    *)
(* prunes, and the age a reading of the clock may reach before it is used. *)
TtlGrace == 1
PruneInterval == 1
MaxStall == 1
ErrorsLimit == 8

ASSUME QuotaAssumption ==
    /\ BurstWindow \in Nat \ {0} /\ SustainedWindow \in Nat \ {0}
    /\ \A s \in QuotaSetups : /\ s.store \in {"memory", "redis", "broken", "scoped"}
                             /\ s.load \in Nat /\ s.horizon \in Nat

VARIABLES
    setup,     \* the configuration
    clock,
    memory,    \* bucket -> [used, expires]: the in-process store
    live,      \* its live_entries (live_buckets of the scoped store)
    prune,     \* its prune state: last prune and next shard
    scoped,    \* bucket -> [tokens, seen]: the scoped rate limits
    redis,     \* bucket -> [used, expires]: the server's keys
    wire,      \* commands on the connection, executed or not
    link,      \* the OnceCell connection: unset, up or dead
    work,      \* per worker: its request
    status,    \* introspection state: backend mode, availability, errors
    requests,  \* number of requests so far
    granted,   \* bag of the windows charged by an allowed request
    lost,      \* bag of the windows charged in Redis with the answer lost
    ideal      \* tokens of a scoped bucket that is never pruned

quotaVars == <<setup, clock, memory, live, prune, scoped, redis, wire, link, work,
               status, requests, granted, lost, ideal>>
storeVars == <<memory, live, prune, scoped>>
redisVars == <<redis, wire, link>>

Idle == [pc |-> "idle", ctx |-> <<>>, at |-> 1, t |-> 0, error |-> "none",
         outcome |-> "NotApplied", shadow |-> FALSE]

QuotaInit ==
    /\ setup \in QuotaSetups
    /\ clock = 0 /\ live = 0 /\ requests = 0
    /\ memory = <<>> /\ scoped = <<>> /\ redis = <<>>
    /\ prune = [at |-> 0, shard |-> 0]
    /\ wire = {} /\ link = "unset"
    /\ work = [w \in QuotaWorkers |-> Idle]
    /\ status = [mode |-> "none", available |-> TRUE, errors |-> 0]
    /\ granted = EmptyBag /\ lost = EmptyBag /\ ideal = <<>>

-----------------------------------------------------------------------------
(* Windows.  A bucket is named by its policy, kind, start and key.         *)
Policy(w) == setup.policies[work[w].at]
WindowOf(kind) == IF kind = "burst" THEN BurstWindow ELSE SustainedWindow

BuildWindowNoGrace(w, kind) ==
    LET start == work[w].t - (work[w].t % WindowOf(kind))
    IN  [kind |-> kind, limit |-> Policy(w)[kind],
         bucket |-> <<work[w].at, kind, start, CompositeKey(Policy(w), work[w].ctx).key>>,
         ttl |-> Max({start + WindowOf(kind) - work[w].t, 1})]

BuildWindow(w, kind) ==
    LET start == work[w].t - (work[w].t % WindowOf(kind))
    IN  [kind |-> kind, limit |-> Policy(w)[kind],
         bucket |-> <<work[w].at, kind, start, CompositeKey(Policy(w), work[w].ctx).key>>,
         ttl |-> Max({start + WindowOf(kind) - work[w].t, 1}) + TtlGrace]

(* Burst before sustained; a limit of 0 stands for an absent window.       *)
BuildWindows(w) ==
    LET kinds == SelectSeq(<<"burst", "sustained">>, LAMBDA k : Policy(w)[k] > 0)
    IN  [i \in 1..Len(kinds) |-> BuildWindow(w, kinds[i])]

(* The window as the caller sees it: charged to its raw identity.          *)
Charged(store, w) ==
    {<<store, work[w].at, win.kind, win.bucket[3],
       [i \in 1..Len(Policy(w).selector) |-> Extracted(Policy(w), work[w].ctx)[i]]>> :
        win \in Range(BuildWindows(w))}

Exhausted(windows, Used(_)) ==
    SelectSeq(windows, LAMBDA win : Used(win.bucket) + 1 > win.limit)

-----------------------------------------------------------------------------
(* From the answer of a store to the policy's decision, and on to the next *)
(* policy: a denial or a closed failure ends the request.                  *)
RejectionDecision == IF setup.enforce THEN "Denied" ELSE "ShadowDenied"
FailureDecision == IF setup.failOpen THEN "FailedOpen" ELSE "FailedClosed"

NextPolicy(r, decision) ==
    CASE decision \in {"Denied", "FailedClosed"} ->
            [r EXCEPT !.pc = "done", !.outcome = decision]
      [] decision = "ShadowDenied" ->
            [r EXCEPT !.pc = "policy", !.at = @ + 1, !.shadow = TRUE, !.error = "none"]
      [] OTHER ->
            [r EXCEPT !.pc = "policy", !.at = @ + 1, !.error = "none",
                      !.outcome = IF @ = "Allowed" THEN @ ELSE decision]

(* observe_quota_policy_outcome: what the control API will report.  An     *)
(* answer of the local fallback is recorded under a backend mode of its    *)
(* own, with the error that led to it.                                     *)
Observe(w, decision, local) ==
    LET failed == decision \in {"FailedOpen", "FailedClosed"}
    IN  status' = [mode |-> IF local THEN "fallback" ELSE setup.store,
                   available |-> ~local /\ ~failed,
                   errors |-> IF local \/ failed THEN Min({status.errors + 1, ErrorsLimit})
                              ELSE status.errors]

Decide(w, decision, local) ==
    /\ work' = [work EXCEPT ![w] = NextPolicy(@, decision)]
    /\ Observe(w, decision, local)

(* backend_status_snapshot: the recorded state counts only while it was    *)
(* recorded under the primary's mode; otherwise the store's default.       *)
StatusSnapshot ==
    CASE setup.store = "broken" -> "degraded"
      [] setup.store # "broken" /\ status.mode = setup.store ->
            IF status.available THEN "available" ELSE "degraded"
      [] OTHER -> IF setup.store = "redis" THEN "unknown" ELSE "available"

-----------------------------------------------------------------------------
(* A request reaches a worker, and the worker goes through the policies    *)
(* that apply to the request's route.                                      *)
Arrive(w) ==
    /\ work[w].pc = "idle" /\ requests < setup.load
    /\ \E ctx \in setup.contexts : work' = [work EXCEPT ![w] = [Idle EXCEPT !.pc = "policy", !.ctx = ctx]]
    /\ requests' = requests + 1
    /\ UNCHANGED <<setup, clock, storeVars, redisVars, status, granted, lost, ideal>>

SkipPolicy(w) ==
    /\ work[w].pc = "policy" /\ work[w].at <= Len(setup.policies)
    /\ ~AppliesToRoute(Policy(w), work[w].ctx)
    /\ work' = [work EXCEPT ![w].at = @ + 1]
    /\ UNCHANGED <<setup, clock, storeVars, redisVars, status, requests, granted, lost, ideal>>

RejectIdentity(w) ==
    /\ work[w].pc = "policy" /\ work[w].at <= Len(setup.policies)
    /\ AppliesToRoute(Policy(w), work[w].ctx)
    /\ CompositeKey(Policy(w), work[w].ctx).rejected # <<>>
    /\ work' = [work EXCEPT ![w] = NextPolicy(@, RejectionDecision)]
    /\ UNCHANGED <<setup, clock, storeVars, redisVars, status, requests, granted, lost, ideal>>

StartPolicy(w) ==
    /\ work[w].pc = "policy" /\ work[w].at <= Len(setup.policies)
    /\ AppliesToRoute(Policy(w), work[w].ctx)
    /\ CompositeKey(Policy(w), work[w].ctx).rejected = <<>>
    /\ work' = [work EXCEPT ![w].pc = IF setup.store = "redis" THEN "permit" ELSE setup.store,
                            ![w].t = clock]
    /\ UNCHANGED <<setup, clock, storeVars, redisVars, status, requests, granted, lost, ideal>>

(* Past the last policy a shadow denial stands for the whole request.      *)
Finish(w) ==
    /\ work[w].pc = "policy" /\ work[w].at > Len(setup.policies)
    /\ work' = [work EXCEPT ![w].pc = "done",
                            ![w].outcome = IF work[w].shadow THEN "ShadowDenied" ELSE @]
    /\ UNCHANGED <<setup, clock, storeVars, redisVars, status, requests, granted, lost, ideal>>

Leave(w) ==
    /\ work[w].pc = "done"
    /\ work' = [work EXCEPT ![w] = Idle]
    /\ UNCHANGED <<setup, clock, storeVars, redisVars, status, requests, granted, lost, ideal>>

-----------------------------------------------------------------------------
(* The in-process store.  The hash spreads buckets over shards; here the   *)
(* two kinds of window fall into two shards.                               *)
ShardOf(b) == IF b[2] = "burst" THEN 0 ELSE 1

PruneDue(w) == work[w].t - prune.at >= PruneInterval

Expired(w) == {b \in DOMAIN memory :
                 ShardOf(b) = prune.shard /\ memory[b].expires <= work[w].t}

PruneMemory(w) ==
    IF PruneDue(w)
    THEN /\ prune' = [at |-> work[w].t, shard |-> (prune.shard + 1) % 2]
         /\ memory' = Restrict(memory, DOMAIN memory \ Expired(w))
         /\ live' = live - Cardinality(Expired(w))
    ELSE UNCHANGED <<prune, memory, live>>

Prune(w) ==
    /\ work[w].pc = "memory"
    /\ PruneMemory(w)
    /\ work' = [work EXCEPT ![w].pc = "locked"]
    /\ UNCHANGED <<setup, clock, scoped, redisVars, status, requests, granted, lost, ideal>>

MemoryUsed(b) == IF b \in DOMAIN memory THEN memory[b].used ELSE 0
NewEntries(windows) == {win.bucket : win \in Range(windows)} \ DOMAIN memory

(* reserve_entries: the count of live entries never passes max_entries.    *)
CanReserve(n) == n = 0 \/ live + n <= setup.capacity

ChargeMemory(w, windows) ==
    LET charged == [b \in {win.bucket : win \in Range(windows)} |->
                      LET win == CHOOSE x \in Range(windows) : x.bucket = b
                      IN  [used |-> MemoryUsed(b) + 1, expires |-> work[w].t + win.ttl]]
    IN  charged @@ memory

FailPolicy(w, local) ==
    /\ Decide(w, FailureDecision, local)
    /\ UNCHANGED <<granted, ideal>>

(* Under the locks of every shard involved: all windows are read, then all *)
(* are charged or none is.                                                 *)
CountMemory(w) ==
    LET windows == BuildWindows(w)
        full == Exhausted(windows, MemoryUsed)
        local == setup.store # "memory"
    IN  /\ work[w].pc = "locked"
        /\ \/ /\ windows = <<>>
              /\ FailPolicy(w, FALSE)
              /\ UNCHANGED <<memory, live>>
           \/ /\ windows # <<>> /\ full # <<>>
              /\ Decide(w, RejectionDecision, local)
              /\ UNCHANGED <<memory, live, granted, ideal>>
           \/ /\ windows # <<>> /\ full = <<>>
              /\ CanReserve(Cardinality(NewEntries(windows)))
              /\ memory' = ChargeMemory(w, windows)
              /\ live' = live + Cardinality(NewEntries(windows))
              /\ granted' = granted (+) SetToBag(Charged("memory", w))
              /\ Decide(w, "Allowed", local)
              /\ UNCHANGED ideal
           \/ /\ windows # <<>> /\ full = <<>>
              /\ ~CanReserve(Cardinality(NewEntries(windows)))
              /\ FailPolicy(w, FALSE)
              /\ UNCHANGED <<memory, live>>
        /\ UNCHANGED <<setup, clock, prune, scoped, redisVars, requests, lost>>

-----------------------------------------------------------------------------
(* Redis.  A bounded number of evaluations hold a permit; the clock is     *)
(* read once it is held.  The connection is made once and kept for good.   *)
Evaluating == {w \in QuotaWorkers : work[w].pc \in {"connect", "waiting"}}

AcquirePermit(w) ==
    /\ work[w].pc = "permit" /\ Cardinality(Evaluating) < setup.permits
    /\ work' = [work EXCEPT ![w].pc = "connect", ![w].t = clock]
    /\ UNCHANGED <<setup, clock, storeVars, redisVars, status, requests, granted, lost, ideal>>

ShouldFallback(kind) == setup.fallback /\ kind \in {"timeout", "unavailable"}

(* The primary failed: the local store decides, or the failure policy.     *)
PrimaryFails(w, kind) ==
    \/ /\ ShouldFallback(kind)
       /\ work' = [work EXCEPT ![w].pc = "memory", ![w].t = clock, ![w].error = kind]
       /\ UNCHANGED status
    \/ /\ ~ShouldFallback(kind)
       /\ Decide(w, FailureDecision, FALSE)

Connect(w) ==
    /\ work[w].pc = "connect" /\ link = "unset"
    /\ \/ /\ link' = "up" /\ UNCHANGED <<work, status>>
       \/ /\ \E kind \in {"timeout", "unavailable"} : PrimaryFails(w, kind)
          /\ UNCHANGED link
    /\ UNCHANGED <<setup, clock, storeVars, redis, wire, requests, granted, lost, ideal>>

Send(w) ==
    /\ work[w].pc = "connect" /\ link # "unset"
    /\ \/ /\ BuildWindows(w) = <<>>
          /\ PrimaryFails(w, "error") /\ UNCHANGED wire
       \/ /\ BuildWindows(w) # <<>> /\ link = "up"
          /\ wire' = wire \cup {[owner |-> {w}, windows |-> BuildWindows(w), at |-> requests,
                                 charged |-> Charged("redis", w), answer |-> "none"]}
          /\ work' = [work EXCEPT ![w].pc = "waiting"] /\ UNCHANGED status
       \/ /\ BuildWindows(w) # <<>> /\ link = "dead"
          /\ PrimaryFails(w, "unavailable") /\ UNCHANGED wire
    /\ UNCHANGED <<setup, clock, storeVars, redis, link, requests, granted, lost, ideal>>

RedisUsed(b) == IF b \in DOMAIN redis /\ redis[b].expires > clock THEN redis[b].used ELSE 0

(* One key of the script: set with its time to live when new, otherwise    *)
(* incremented, the time to live only ever extended.                       *)
RedisCharge(win) ==
    IF RedisUsed(win.bucket) = 0
    THEN [used |-> 1, expires |-> clock + win.ttl]
    ELSE [used |-> redis[win.bucket].used + 1,
          expires |-> Max({redis[win.bucket].expires, clock + win.ttl})]

(* The script, atomic in the server: charges every window or none.  The    *)
(* charge counts as lost until its answer arrives.                         *)
RedisEval(c) ==
    LET full == Exhausted(c.windows, RedisUsed)
        buckets == {win.bucket : win \in Range(c.windows)}
        Answered(a) == IF c.owner = {} THEN wire \ {c}
                       ELSE (wire \ {c}) \cup {[c EXCEPT !.answer = a]}
    IN  /\ c.answer = "none"
        /\ IF full = <<>>
           THEN /\ redis' = [b \in buckets |-> RedisCharge(CHOOSE win \in Range(c.windows) : win.bucket = b)]
                            @@ redis
                /\ lost' = lost (+) SetToBag(c.charged)
                /\ wire' = Answered("allow")
           ELSE /\ wire' = Answered("deny") /\ UNCHANGED <<redis, lost>>
        /\ UNCHANGED <<setup, clock, storeVars, link, work, status, requests, granted, ideal>>

(* parse_eval_response: an answer the client understands, or an error.     *)
Reply(w) ==
    /\ work[w].pc = "waiting"
    /\ \E c \in wire :
        /\ c.owner = {w} /\ wire' = wire \ {c}
        /\ \/ /\ c.answer = "allow"
              /\ granted' = granted (+) SetToBag(c.charged)
              /\ lost' = lost (-) SetToBag(c.charged)
              /\ Decide(w, "Allowed", FALSE)
           \/ /\ c.answer = "deny"
              /\ Decide(w, RejectionDecision, FALSE)
              /\ UNCHANGED <<granted, lost>>
           \/ /\ c.answer = "none"
              /\ \E kind \in {"unavailable", "error"} : PrimaryFails(w, kind)
              /\ UNCHANGED <<granted, lost>>
    /\ UNCHANGED <<setup, clock, storeVars, redis, link, requests, ideal>>

(* The command timeout: the worker gives up, the command stays on the wire *)
(* and may still be executed.                                              *)
Timeout(w) ==
    /\ work[w].pc = "waiting"
    /\ \E c \in wire :
        /\ c.owner = {w}
        /\ wire' = IF c.answer = "none" THEN (wire \ {c}) \cup {[c EXCEPT !.owner = {}]}
                   ELSE wire \ {c}
    /\ PrimaryFails(w, "timeout")
    /\ UNCHANGED <<setup, clock, storeVars, redis, link, requests, granted, lost, ideal>>

(* The connection drops, with the commands and answers on it.              *)
LinkDrops ==
    /\ link = "up" /\ setup.drops
    /\ link' = "dead" /\ wire' = {}
    /\ UNCHANGED <<setup, clock, storeVars, redis, work, status, requests, granted, lost, ideal>>

ReplyLost(w) ==
    /\ work[w].pc = "waiting" /\ \A c \in wire : c.owner # {w}
    /\ PrimaryFails(w, "unavailable")
    /\ UNCHANGED <<setup, clock, storeVars, redisVars, requests, granted, lost, ideal>>

(* A store that could not be built answers every evaluation with its error.*)
Unavailable(w) ==
    /\ work[w].pc = "broken"
    /\ PrimaryFails(w, "error")
    /\ UNCHANGED <<setup, clock, storeVars, redisVars, requests, granted, lost, ideal>>

-----------------------------------------------------------------------------
(* The scoped rate limits: token buckets, pruned when idle, capped in      *)
(* number.                                                                 *)
ScopedBucket(w) == <<work[w].at, CompositeKey(Policy(w), work[w].ctx).key>>
ScopedRef(w) == <<work[w].at, Extracted(Policy(w), work[w].ctx)>>

IdleBuckets == {b \in DOMAIN scoped :
                  prune.shard = 0 /\ clock - scoped[b].seen >= setup.policies[b[1]].idle}

ScopedPruned == IF clock - prune.at < PruneInterval THEN {} ELSE IdleBuckets
ScopedKept == Restrict(scoped, DOMAIN scoped \ ScopedPruned)

Refill(tokens, since, p) == Min({p.burst, tokens + (clock - since) * p.rate})

(* ScopedRateLimitBucket::evaluate, on an existing or on a new bucket.     *)
TokensNow(w) ==
    LET b == ScopedBucket(w)
    IN  IF b \in DOMAIN ScopedKept THEN Refill(ScopedKept[b].tokens, ScopedKept[b].seen, Policy(w))
        ELSE Policy(w).burst

IdealNow(w) ==
    LET r == ScopedRef(w)
    IN  IF r \in DOMAIN ideal THEN Refill(ideal[r].tokens, ideal[r].seen, Policy(w))
        ELSE Policy(w).burst

EvaluateBucket(w) ==
    LET b == ScopedBucket(w)
        known == b \in DOMAIN ScopedKept
        base == live - Cardinality(ScopedPruned)
        allowed == TokensNow(w) >= 1
    IN  /\ work[w].pc = "scoped"
        /\ prune' = IF clock - prune.at < PruneInterval THEN prune
                    ELSE [at |-> clock, shard |-> (prune.shard + 1) % 2]
        /\ \/ /\ known \/ base < setup.capacity
              /\ live' = IF known THEN base ELSE base + 1
              /\ scoped' = (b :> [tokens |-> IF allowed THEN TokensNow(w) - 1 ELSE TokensNow(w),
                                  seen |-> clock]) @@ ScopedKept
              /\ Decide(w, IF allowed THEN "Allowed" ELSE RejectionDecision, FALSE)
              /\ ideal' = IF allowed
                          THEN (ScopedRef(w) :> [tokens |-> IdealNow(w) - 1, seen |-> clock]) @@ ideal
                          ELSE ideal
           \/ /\ ~known /\ base >= setup.capacity
              /\ live' = base /\ scoped' = ScopedKept
              /\ Decide(w, FailureDecision, FALSE)
              /\ UNCHANGED ideal
        /\ UNCHANGED <<setup, clock, memory, redisVars, requests, granted, lost>>

-----------------------------------------------------------------------------
(* Time passes, but never so far that a reading in use is older than       *)
(* MaxStall.                                                               *)
QuotaTick ==
    /\ clock < setup.horizon
    /\ \A w \in QuotaWorkers :
        work[w].pc \in {"memory", "locked", "connect", "waiting"} => clock < work[w].t + MaxStall
    /\ clock' = clock + 1
    /\ UNCHANGED <<setup, storeVars, redisVars, work, status, requests, granted, lost, ideal>>

QuotaNext ==
    \/ \E w \in QuotaWorkers :
        \/ Arrive(w) \/ SkipPolicy(w) \/ RejectIdentity(w) \/ StartPolicy(w)
        \/ Finish(w) \/ Leave(w) \/ Prune(w) \/ CountMemory(w) \/ AcquirePermit(w)
        \/ Connect(w) \/ Send(w) \/ Reply(w) \/ Timeout(w) \/ ReplyLost(w)
        \/ Unavailable(w) \/ EvaluateBucket(w)
    \/ \E c \in wire : RedisEval(c)
    \/ LinkDrops
    \/ QuotaTick

-----------------------------------------------------------------------------
(* A window of a policy never grants one caller more requests than its     *)
(* limit, in the store that decided: concurrent evaluations, a bucket      *)
(* pruned while a slow evaluation still refers to it, an answer lost after *)
(* Redis charged it and the switch to the local store do not add any.      *)
WindowsRespected ==
    \A g \in BagToSet(granted) : CopiesIn(g, granted) <= setup.policies[g[2]][g[3]]

(* Each counter holds exactly what was charged to it: callers share no     *)
(* counter, a denied request is charged nowhere, and only an answer that   *)
(* was lost leaves Redis ahead of the grants.                              *)
BucketOfCharge(g) == {<<g[2], g[3], g[4], k>> :
    k \in {CompositeKey(setup.policies[g[2]], ctx).key :
            ctx \in {c \in setup.contexts : Extracted(setup.policies[g[2]], c) = g[5]}}}
Running(g) == clock < g[4] + WindowOf(g[3])

CountersExact ==
    \A g \in BagToSet(granted (+) lost) : Running(g) =>
        \A b \in BucketOfCharge(g) :
            (IF g[1] = "memory" THEN MemoryUsed(b) ELSE RedisUsed(b))
                = CopiesIn(g, granted) + CopiesIn(g, lost)

(* The capacity accounting: the atomic count of live entries is the number *)
(* of entries in the shards, and stays within the configured maximum.      *)
CapacityKept ==
    /\ live = Cardinality(DOMAIN memory) + Cardinality(DOMAIN scoped)
    /\ live <= setup.capacity

(* A scoped rate limit lets through no more than a bucket that is never    *)
(* pruned would: forgetting an idle bucket is harmless.                    *)
ForgettingHarmless == \A r \in DOMAIN ideal : ideal[r].tokens >= 0

(* The quota of every request is decided and accounted as the contract     *)
(* says: limits hold per caller and window, counters are exact, stores     *)
(* stay bounded and idle buckets may be forgotten                          *)
(* (docs/architecture/quota-policy-contract.md, quota/mod.rs:184).         *)
QuotaAccounted == WindowsRespected /\ CountersExact /\ CapacityKept /\ ForgettingHarmless
===============================================================================
