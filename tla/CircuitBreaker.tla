---------------------------- MODULE CircuitBreaker ----------------------------
(***************************************************************************)
(* One backend's circuit breaker (resilience/circuit_breaker.rs) and the   *)
(* requests that hold its permits.  The breaker state sits behind a mutex, *)
(* so each method is one step under the lock; but allow_request and        *)
(* record_failure read the clock before they take the lock, and a permit   *)
(* may be resolved, or dropped, long after the breaker has moved on.       *)
(* A disabled breaker hands out permits that record nothing and is not     *)
(* modelled; neither is lock poisoning (no critical section can panic).    *)
(***************************************************************************)
EXTENDS Integers, FiniteSets

CONSTANTS
    Requests,           \* requests in flight to the backend
    FailureThreshold,   \* failure_threshold.max(1)
    OpenFor,            \* open_for, in clock ticks
    MaxProbes,          \* half_open_max_probes.max(1)
    MaxClock,           \* bound: how far the clock is explored
    None                \* Option::None: no instant, no probe generation

ASSUME BreakerAssumption ==
    /\ IsFiniteSet(Requests)
    /\ FailureThreshold \in Nat \ {0} /\ MaxProbes \in Nat \ {0}
    /\ OpenFor \in Nat /\ MaxClock \in Nat
    /\ None \notin Nat

VARIABLES
    failures,     \* consecutive_failures
    openUntil,    \* open_until
    inflight,     \* half_open_inflight
    halfOpen,     \* half_open
    generation,   \* half_open_generation
    clock,        \* Instant::now()
    req           \* what each request is doing, and with which permit

breaker == <<failures, openUntil, inflight, halfOpen, generation>>
vars == <<failures, openUntil, inflight, halfOpen, generation, clock, req>>

(* "asking" and "failing" have read the clock and wait for the lock;       *)
(* "held" and "failing" own a permit, a probe's when probe # None.         *)
Request == [pc : {"idle", "asking", "held", "failing"}, now : Nat,
            probe : Nat \cup {None}]

Idle == [pc |-> "idle", now |-> 0, probe |-> None]

TypeOK ==
    /\ failures \in Nat /\ inflight \in Nat /\ generation \in Nat
    /\ openUntil \in Nat \cup {None} /\ halfOpen \in BOOLEAN
    /\ clock \in Nat
    /\ req \in [Requests -> Request]

Init ==
    /\ failures = 0 /\ openUntil = None /\ inflight = 0
    /\ halfOpen = FALSE /\ generation = 0
    /\ clock = 0
    /\ req = [r \in Requests |-> Idle]

-------------------------------------------------------------------------------
Arrive(r) ==
    /\ req[r].pc = "idle"
    /\ req' = [req EXCEPT ![r] = [pc |-> "asking", now |-> clock, probe |-> None]]
    /\ UNCHANGED breaker /\ UNCHANGED clock

Grant(r, probe) == req' = [req EXCEPT ![r] = [@ EXCEPT !.pc = "held", !.probe = probe]]

(* allow_request.                                                          *)

(* The breaker is open for this request's clock reading.                   *)
DenyOpen(r) ==
    /\ req[r].pc = "asking"
    /\ openUntil # None /\ req[r].now < openUntil
    /\ req' = [req EXCEPT ![r] = Idle]
    /\ UNCHANGED breaker /\ UNCHANGED clock

(* Mutation of EnterHalfOpen: the probe generation is not advanced.        *)
EnterHalfOpenSameGeneration(r) ==
    /\ req[r].pc = "asking"
    /\ openUntil # None /\ req[r].now >= openUntil
    /\ openUntil' = None /\ halfOpen' = TRUE /\ failures' = 0
    /\ inflight' = 1
    /\ Grant(r, generation)
    /\ UNCHANGED <<generation, clock>>

(* The open period is over: half-open, in a new probe generation, and this *)
(* request is its first probe.                                             *)
EnterHalfOpen(r) ==
    /\ req[r].pc = "asking"
    /\ openUntil # None /\ req[r].now >= openUntil
    /\ openUntil' = None /\ halfOpen' = TRUE /\ failures' = 0
    /\ generation' = generation + 1
    /\ inflight' = 1
    /\ Grant(r, generation')
    /\ UNCHANGED clock

(* Half-open: at most MaxProbes at a time.                                 *)
AllowProbe(r) ==
    /\ req[r].pc = "asking"
    /\ openUntil = None /\ halfOpen
    /\ IF inflight < MaxProbes
       THEN inflight' = inflight + 1 /\ Grant(r, generation)
       ELSE inflight' = inflight /\ req' = [req EXCEPT ![r] = Idle]
    /\ UNCHANGED <<failures, openUntil, halfOpen, generation, clock>>

AllowClosed(r) ==
    /\ req[r].pc = "asking"
    /\ openUntil = None /\ ~halfOpen
    /\ Grant(r, None)
    /\ UNCHANGED breaker /\ UNCHANGED clock

-------------------------------------------------------------------------------
(* Outcomes.                                                               *)

(* A probe's outcome counts only in its own half-open generation.          *)
CurrentProbe(r) == halfOpen /\ req[r].probe = generation

(* An ordinary request's outcome counts only while the breaker is closed.  *)
ClosedOutcome(r) == req[r].probe = None /\ ~halfOpen /\ openUntil = None

Release(r) == req' = [req EXCEPT ![r] = Idle]

(* Mutation of RecordSuccess: any success closes the breaker.              *)
RecordSuccessAny(r) ==
    /\ req[r].pc = "held"
    /\ Release(r)
    /\ failures' = 0 /\ openUntil' = None /\ halfOpen' = FALSE /\ inflight' = 0
    /\ UNCHANGED <<generation, clock>>

(* record_success closes the breaker, or is stale and ignored.             *)
RecordSuccess(r) ==
    /\ req[r].pc = "held"
    /\ Release(r)
    /\ IF CurrentProbe(r) \/ ClosedOutcome(r)
       THEN failures' = 0 /\ openUntil' = None /\ halfOpen' = FALSE /\ inflight' = 0
       ELSE UNCHANGED <<failures, openUntil, halfOpen, inflight>>
    /\ UNCHANGED <<generation, clock>>

(* record_failure reads the clock, then waits for the lock.                *)
Fail(r) ==
    /\ req[r].pc = "held"
    /\ req' = [req EXCEPT ![r] = [@ EXCEPT !.pc = "failing", !.now = clock]]
    /\ UNCHANGED breaker /\ UNCHANGED clock

(* Mutation of RecordFailure: tripping the breaker leaves the count.       *)
RecordFailureKeepsCount(r) ==
    /\ req[r].pc = "failing"
    /\ Release(r)
    /\ CASE CurrentProbe(r) ->
              /\ openUntil' = req[r].now + OpenFor
              /\ halfOpen' = FALSE /\ inflight' = 0 /\ failures' = 0
         [] ClosedOutcome(r) ->
              /\ failures' = failures + 1
              /\ openUntil' = IF failures + 1 >= FailureThreshold
                              THEN req[r].now + OpenFor ELSE None
              /\ UNCHANGED <<halfOpen, inflight>>
         [] OTHER -> UNCHANGED <<failures, openUntil, halfOpen, inflight>>
    /\ UNCHANGED <<generation, clock>>

(* A failed probe reopens the breaker; an ordinary failure counts towards  *)
(* the threshold; a stale one is ignored.                                  *)
RecordFailure(r) ==
    /\ req[r].pc = "failing"
    /\ Release(r)
    /\ CASE CurrentProbe(r) ->
              /\ openUntil' = req[r].now + OpenFor
              /\ halfOpen' = FALSE /\ inflight' = 0 /\ failures' = 0
         [] ClosedOutcome(r) ->
              /\ IF failures + 1 >= FailureThreshold
                 THEN openUntil' = req[r].now + OpenFor /\ failures' = 0
                 ELSE failures' = failures + 1 /\ UNCHANGED openUntil
              /\ UNCHANGED <<halfOpen, inflight>>
         [] OTHER -> UNCHANGED <<failures, openUntil, halfOpen, inflight>>
    /\ UNCHANGED <<generation, clock>>

(* Mutation of DropPermit: an unresolved permit is forgotten.              *)
DropPermitLeaks(r) ==
    /\ req[r].pc = "held"
    /\ Release(r)
    /\ UNCHANGED breaker /\ UNCHANGED clock

(* A permit dropped without an outcome (cancelled request, early return)   *)
(* gives its probe slot back.                                              *)
DropPermit(r) ==
    /\ req[r].pc = "held"
    /\ Release(r)
    /\ inflight' = IF CurrentProbe(r) /\ inflight > 0 THEN inflight - 1 ELSE inflight
    /\ UNCHANGED <<failures, openUntil, halfOpen, generation, clock>>

Tick ==
    /\ clock < MaxClock
    /\ clock' = clock + 1
    /\ UNCHANGED breaker /\ UNCHANGED req

Ask(r) == DenyOpen(r) \/ EnterHalfOpen(r) \/ AllowProbe(r) \/ AllowClosed(r)

Resolve(r) == RecordSuccess(r) \/ Fail(r) \/ RecordFailure(r) \/ DropPermit(r)

Next == (\E r \in Requests : Arrive(r) \/ Ask(r) \/ Resolve(r)) \/ Tick

(* A request that asked gets the lock, and a permit is resolved or dropped *)
(* eventually: every upstream attempt is bounded by its timeouts.          *)
Spec ==
    /\ Init /\ [][Next]_vars
    /\ \A r \in Requests : WF_vars(Ask(r)) /\ WF_vars(Resolve(r))

-------------------------------------------------------------------------------
(* Properties.                                                             *)

Holders(g) == {r \in Requests : req[r].pc \in {"held", "failing"} /\ req[r].probe = g}

(* Probe slots are accounted for exactly: while half-open the counter is   *)
(* the number of unresolved permits of this generation and never exceeds   *)
(* the limit; permits of earlier generations, resolved late or dropped,    *)
(* neither free nor leak a slot.                                           *)
ProbeAccounting ==
    /\ halfOpen => inflight = Cardinality(Holders(generation))
    /\ ~halfOpen => inflight = 0
    /\ inflight <= MaxProbes

(* The three states exclude each other: an open breaker is not half-open   *)
(* and holds no failure count, and the count of a closed one is below the  *)
(* threshold that would have opened it.                                    *)
StatesExclusive ==
    /\ openUntil # None => ~halfOpen /\ failures = 0
    /\ halfOpen => failures = 0
    /\ failures < FailureThreshold

(* Half-open ends only by the outcome of a probe of that generation: no    *)
(* late outcome of an older request closes or reopens the breaker.         *)
OnlyProbesDecide ==
    [][halfOpen /\ ~halfOpen' =>
         \E r \in Requests : r \in Holders(generation) /\ r \notin Holders(generation)'
      ]_vars

(* A half-open breaker whose slots are all taken does not stay so: a slot  *)
(* is given back or the breaker leaves half-open.                          *)
ProbeSlotFrees == (halfOpen /\ inflight = MaxProbes) ~> (~halfOpen \/ inflight < MaxProbes)
===============================================================================
