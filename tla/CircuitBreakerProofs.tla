------------------------- MODULE CircuitBreakerProofs -------------------------
(***************************************************************************)
(* Probe accounting of the circuit breaker, for any number of requests,    *)
(* any threshold and any probe limit.  The invariant that makes it         *)
(* inductive says that no permit carries a probe generation the breaker    *)
(* has not reached, so a new half-open generation starts without holders.  *)
(***************************************************************************)
EXTENDS CircuitBreaker, FiniteSetTheorems, TLAPS

ProbesKnown == \A r \in Requests : req[r].probe # None => req[r].probe <= generation

BInv == TypeOK /\ ProbesKnown /\ ProbeAccounting /\ StatesExclusive

(* The holders of generation g after a step.                               *)
HoldersNext(g) ==
    {q \in Requests : req'[q].pc \in {"held", "failing"} /\ req'[q].probe = g}

(* Holders of a generation are finitely many.                              *)
LEMMA HoldersFinite ==
  ASSUME NEW g
  PROVE  IsFiniteSet(Holders(g)) /\ Cardinality(Holders(g)) \in Nat
<1>1. Holders(g) \subseteq Requests
  BY DEF Holders
<1>2. QED
  BY <1>1, BreakerAssumption, FS_Subset, FS_CardinalityType

(* Granting a permit of generation g adds its request to the holders.      *)
LEMMA HoldersGrant ==
  ASSUME TypeOK, NEW r \in Requests, NEW g, req[r].pc = "asking", Grant(r, g)
  PROVE  HoldersNext(g) = Holders(g) \cup {r} /\ r \notin Holders(g)
<1>1. req[r] \in Request /\ \A q \in Requests \ {r} : req'[q] = req[q]
  BY DEF TypeOK, Grant
<1>2. req'[r].pc = "held" /\ req'[r].probe = g
  BY <1>1 DEF Grant, TypeOK, Request
<1>3. QED
  BY <1>1, <1>2 DEF Holders, HoldersNext

(* Releasing a permit removes its request from the holders.                *)
LEMMA HoldersRelease ==
  ASSUME TypeOK, NEW r \in Requests, NEW g, Release(r)
  PROVE  HoldersNext(g) = Holders(g) \ {r}
<1>1. req'[r].pc = "idle" /\ \A q \in Requests \ {r} : req'[q] = req[q]
  BY DEF TypeOK, Release, Idle
<1>2. QED
  BY <1>1 DEF Holders, HoldersNext

LEMMA BInvInit == Init => BInv
<1> SUFFICES ASSUME Init PROVE BInv
  OBVIOUS
<1>1. Idle \in Request
  BY DEF Idle, Request
<1>2. TypeOK
  BY <1>1, ZenonT(30) DEF Init, TypeOK
<1>3. ProbesKnown
  BY DEF Init, ProbesKnown, Idle
<1>4. ProbeAccounting /\ StatesExclusive
  BY BreakerAssumption DEF Init, ProbeAccounting, StatesExclusive
<1>5. QED
  BY <1>2, <1>3, <1>4 DEF BInv

-------------------------------------------------------------------------------
(* The request side of a step: types, and no probe from the future.        *)

LEMMA GrantTypes ==
  ASSUME TypeOK, ProbesKnown, NEW r \in Requests, NEW g \in Nat \cup {None},
         Grant(r, g), generation' \in Nat, generation <= generation',
         g # None => g <= generation'
  PROVE  req' \in [Requests -> Request] /\ ProbesKnown'
<1>1. req[r] \in Request
  BY DEF TypeOK
<1>2. [req[r] EXCEPT !.pc = "held", !.probe = g] \in Request
  BY <1>1, ZenonT(30) DEF Request
<1>3. req' \in [Requests -> Request]
  BY <1>2 DEF Grant, TypeOK
<1>4. req'[r].probe = g /\ \A q \in Requests \ {r} : req'[q] = req[q]
  BY <1>1 DEF Grant, TypeOK, Request
<1>5. \A q \in Requests : req[q].probe \in Nat \cup {None}
  BY DEF TypeOK, Request
<1>6. ProbesKnown'
  BY <1>4, <1>5 DEF ProbesKnown, TypeOK
<1>7. QED
  BY <1>3, <1>6

LEMMA ReleaseTypes ==
  ASSUME TypeOK, ProbesKnown, NEW r \in Requests, Release(r), generation' = generation
  PROVE  req' \in [Requests -> Request] /\ ProbesKnown'
<1>1. Idle \in Request /\ Idle.probe = None
  BY DEF Idle, Request
<1>2. req' \in [Requests -> Request]
  BY <1>1 DEF Release, TypeOK
<1>3. req'[r].probe = None /\ \A q \in Requests \ {r} : req'[q] = req[q]
  BY <1>1 DEF Release, TypeOK
<1>4. QED
  BY <1>2, <1>3 DEF ProbesKnown

-------------------------------------------------------------------------------
(* A step that leaves the breaker alone and the current holders where they *)
(* are keeps the invariant.                                                *)
LEMMA BreakerFrame ==
  ASSUME BInv, UNCHANGED breaker, clock' \in Nat,
         req' \in [Requests -> Request], ProbesKnown',
         halfOpen => HoldersNext(generation) = Holders(generation)
  PROVE  BInv'
<1>1. TypeOK'
  BY DEF BInv, TypeOK, breaker
<1>2. StatesExclusive'
  BY DEF BInv, StatesExclusive, breaker
<1>3. (Holders(generation))' = HoldersNext(generation)
  BY DEF Holders, HoldersNext, breaker
<1>4. ProbeAccounting'
  BY <1>3 DEF BInv, ProbeAccounting, breaker
<1>5. QED
  BY <1>1, <1>2, <1>4 DEF BInv

LEMMA BInvStep == BInv /\ [Next]_vars => BInv'
<1> SUFFICES ASSUME BInv, [Next]_vars PROVE BInv'
  OBVIOUS
<1>a. TypeOK /\ ProbesKnown /\ ProbeAccounting /\ StatesExclusive
  BY DEF BInv
<1>1. ASSUME NEW r \in Requests, Arrive(r) PROVE BInv'
  <2> DEFINE a == [pc |-> "asking", now |-> clock, probe |-> None]
  <2>1. a \in Request
    BY <1>a DEF Request, TypeOK
  <2>2. req' \in [Requests -> Request] /\ req'[r] = a
        /\ \A q \in Requests \ {r} : req'[q] = req[q]
    BY <1>a, <1>1, <2>1 DEF Arrive, TypeOK
  <2>3. ProbesKnown'
    BY <1>a, <1>1, <2>2 DEF ProbesKnown, Arrive, breaker
  <2>4. HoldersNext(generation) = Holders(generation)
    BY <1>1, <2>2 DEF Holders, HoldersNext, Arrive
  <2>5. QED
    BY <1>a, <1>1, <2>2, <2>3, <2>4, BreakerFrame DEF Arrive, TypeOK
<1>2. ASSUME NEW r \in Requests, DenyOpen(r) PROVE BInv'
  <2>1. ~halfOpen
    BY <1>a, <1>2 DEF DenyOpen, StatesExclusive
  <2>2. Release(r) /\ UNCHANGED breaker /\ clock' = clock
    BY <1>2 DEF DenyOpen, Release
  <2>3. QED
    BY <1>a, <2>1, <2>2, ReleaseTypes, BreakerFrame DEF breaker, TypeOK
<1>3. ASSUME NEW r \in Requests, EnterHalfOpen(r) PROVE BInv'
  <2>1. generation + 1 \in Nat /\ generation <= generation + 1 /\ generation \in Nat
    BY <1>a DEF TypeOK
  <2>2. req' \in [Requests -> Request] /\ ProbesKnown'
    BY <1>a, <1>3, <2>1, GrantTypes DEF EnterHalfOpen
  <2>3. Holders(generation + 1) = {}
    <3>1. \A q \in Requests : req[q].probe # generation + 1
      BY <1>a, <2>1, BreakerAssumption DEF ProbesKnown
    <3>2. QED
      BY <3>1 DEF Holders
  <2>4. HoldersNext(generation + 1) = {r}
    BY <1>a, <1>3, <2>1, <2>3, HoldersGrant DEF EnterHalfOpen
  <2>5. (Holders(generation))' = HoldersNext(generation + 1)
    BY <1>3 DEF EnterHalfOpen, Holders, HoldersNext
  <2>6. Cardinality((Holders(generation))') = 1
    BY <2>4, <2>5, FS_Singleton
  <2>7. TypeOK'
    BY <1>a, <1>3, <2>1, <2>2 DEF EnterHalfOpen, TypeOK
  <2>8. StatesExclusive' /\ ProbeAccounting'
    BY <1>3, <2>6, BreakerAssumption DEF EnterHalfOpen, StatesExclusive, ProbeAccounting
  <2>9. QED
    BY <2>2, <2>7, <2>8 DEF BInv
<1>4. ASSUME NEW r \in Requests, AllowProbe(r) PROVE BInv'
  <2>1. CASE inflight < MaxProbes
    <3>1. Grant(r, generation) /\ generation' = generation /\ req[r].pc = "asking"
      BY <1>4, <2>1 DEF AllowProbe
    <3>2. generation \in Nat /\ inflight \in Nat
      BY <1>a DEF TypeOK
    <3>3. req' \in [Requests -> Request] /\ ProbesKnown'
      BY <1>a, <3>1, <3>2, GrantTypes
    <3>4. HoldersNext(generation) = Holders(generation) \cup {r} /\ r \notin Holders(generation)
      BY <1>a, <3>1, HoldersGrant
    <3>5. Cardinality(HoldersNext(generation)) = Cardinality(Holders(generation)) + 1
      BY <3>4, HoldersFinite, FS_AddElement
    <3>6. (Holders(generation))' = HoldersNext(generation)
      BY <3>1 DEF Holders, HoldersNext
    <3>7. TypeOK' /\ StatesExclusive'
      BY <1>a, <1>4, <2>1, <3>2, <3>3 DEF AllowProbe, TypeOK, StatesExclusive
    <3>8. ProbeAccounting'
      BY <1>a, <1>4, <2>1, <3>2, <3>5, <3>6, BreakerAssumption DEF AllowProbe, ProbeAccounting
    <3>9. QED
      BY <3>3, <3>7, <3>8 DEF BInv
  <2>2. CASE ~(inflight < MaxProbes)
    <3>1. Release(r) /\ UNCHANGED breaker /\ clock' = clock
      BY <1>4, <2>2 DEF AllowProbe, Release, breaker
    <3>2. r \notin Holders(generation)
      BY <1>4 DEF AllowProbe, Holders
    <3>3. HoldersNext(generation) = Holders(generation)
      BY <1>a, <3>1, <3>2, HoldersRelease
    <3>4. QED
      BY <1>a, <3>1, <3>3, ReleaseTypes, BreakerFrame DEF breaker, TypeOK
  <2>3. QED
    BY <2>1, <2>2
<1>5. ASSUME NEW r \in Requests, AllowClosed(r) PROVE BInv'
  <2>1. Grant(r, None) /\ UNCHANGED breaker /\ clock' = clock /\ ~halfOpen
    BY <1>5 DEF AllowClosed
  <2>2. /\ generation \in Nat /\ generation' = generation /\ generation <= generation'
        /\ None \in Nat \cup {None} /\ (None # None => None <= generation')
    BY <1>a, <2>1 DEF TypeOK, breaker
  <2>3. req' \in [Requests -> Request] /\ ProbesKnown'
    BY <1>a, <2>1, <2>2, GrantTypes, ZenonT(30)
  <2>4. QED
    BY <1>a, <2>1, <2>3, BreakerFrame DEF TypeOK
<1>6. ASSUME NEW r \in Requests, Fail(r) PROVE BInv'
  <2>1. req[r] \in Request /\ clock \in Nat
    BY <1>a DEF TypeOK
  <2>2. [req[r] EXCEPT !.pc = "failing", !.now = clock] \in Request
    BY <2>1, ZenonT(30) DEF Request
  <2>3. req' \in [Requests -> Request] /\ \A q \in Requests \ {r} : req'[q] = req[q]
    BY <1>a, <1>6, <2>2 DEF Fail, TypeOK
  <2>4. req[r].pc = "held" /\ req'[r].pc = "failing" /\ req'[r].probe = req[r].probe
    BY <1>a, <1>6, <2>1 DEF Fail, TypeOK, Request
  <2>5. ProbesKnown'
    BY <1>a, <1>6, <2>3, <2>4 DEF ProbesKnown, Fail, breaker
  <2>6. HoldersNext(generation) = Holders(generation)
    BY <2>3, <2>4 DEF Holders, HoldersNext
  <2>7. QED
    BY <1>6, <2>1, <2>3, <2>5, <2>6, BreakerFrame DEF Fail
<1>7. ASSUME NEW r \in Requests, RecordSuccess(r) \/ RecordFailure(r) \/ DropPermit(r)
      PROVE  BInv'
  <2>1. Release(r) /\ generation' = generation /\ clock' = clock
    BY <1>7 DEF RecordSuccess, RecordFailure, DropPermit
  <2>2. req[r].pc \in {"held", "failing"} /\ req[r] \in Request
    BY <1>a, <1>7 DEF RecordSuccess, RecordFailure, DropPermit, TypeOK
  <2>3. req' \in [Requests -> Request] /\ ProbesKnown'
    BY <1>a, <2>1, ReleaseTypes
  <2>4. HoldersNext(generation) = Holders(generation) \ {r}
    BY <1>a, <2>1, HoldersRelease
  <2>5. (Holders(generation))' = HoldersNext(generation)
    BY <2>1 DEF Holders, HoldersNext
  <2>6. Cardinality((Holders(generation))')
          = IF r \in Holders(generation) THEN Cardinality(Holders(generation)) - 1
                                         ELSE Cardinality(Holders(generation))
    <3>1. IsFiniteSet(Holders(generation))
      BY HoldersFinite, Zenon
    <3>2. Cardinality(Holders(generation) \ {r})
            = IF r \in Holders(generation) THEN Cardinality(Holders(generation)) - 1
                                           ELSE Cardinality(Holders(generation))
      BY <3>1, FS_RemoveElement, Zenon
    <3>3. QED
      BY <2>4, <2>5, <3>2, Zenon
  <2>7. halfOpen => (CurrentProbe(r) <=> r \in Holders(generation))
    BY <2>2 DEF CurrentProbe, Holders
  <2>8. Cardinality(Holders(generation)) \in Nat
        /\ (r \in Holders(generation) => Cardinality(Holders(generation)) > 0)
    BY HoldersFinite, FS_EmptySet
  <2>9. /\ inflight \in Nat /\ failures \in Nat /\ req[r].now + OpenFor \in Nat
        /\ halfOpen \in BOOLEAN /\ openUntil \in Nat \cup {None}
    BY <1>a, <2>2, BreakerAssumption DEF TypeOK, Request
  <2>10. CASE RecordSuccess(r)
    <3>1. TypeOK' /\ StatesExclusive'
      <4> DEFINE counts == CurrentProbe(r) \/ ClosedOutcome(r)
      <4>a. CASE counts
        <5>1. failures' = 0 /\ openUntil' = None /\ halfOpen' = FALSE /\ inflight' = 0
          BY <2>10, <4>a DEF RecordSuccess
        <5>2. halfOpen' \in BOOLEAN /\ ~halfOpen'
          BY <5>1, ZenonT(30)
        <5>3. 0 \in Nat /\ 0 < FailureThreshold
          BY BreakerAssumption
        <5>4. StatesExclusive'
          BY <5>1, <5>2, <5>3 DEF StatesExclusive
        <5>5. failures' \in Nat /\ inflight' \in Nat /\ openUntil' \in Nat \cup {None}
          BY <5>1
        <5>6. generation' \in Nat /\ clock' \in Nat
          BY <1>a, <2>1 DEF TypeOK
        <5>7. QED
          BY <2>3, <5>2, <5>4, <5>5, <5>6 DEF TypeOK
      <4>b. CASE ~counts
        <5>1. UNCHANGED <<failures, openUntil, halfOpen, inflight>>
          BY <2>10, <4>b DEF RecordSuccess
        <5>2. QED
          BY <1>a, <2>1, <2>3, <5>1 DEF TypeOK, StatesExclusive
      <4>q. QED
        BY <4>a, <4>b
    <3>2. ProbeAccounting'
      BY <1>a, <2>1, <2>6, <2>7, <2>8, <2>9, <2>10, BreakerAssumption
         DEF RecordSuccess, ProbeAccounting
    <3>3. QED
      BY <2>3, <3>1, <3>2 DEF BInv
  <2>11. CASE RecordFailure(r)
    <3>1. TypeOK' /\ StatesExclusive'
      <4>a. CASE CurrentProbe(r)
        <5>1. /\ openUntil' = req[r].now + OpenFor
              /\ halfOpen' = FALSE /\ inflight' = 0 /\ failures' = 0
          BY <2>11, <4>a DEF RecordFailure, CurrentProbe, ClosedOutcome
        <5>2. halfOpen' \in BOOLEAN /\ ~halfOpen'
          BY <5>1, ZenonT(30)
        <5>3. 0 \in Nat /\ 0 < FailureThreshold
          BY BreakerAssumption
        <5>4. StatesExclusive'
          BY <5>1, <5>2, <5>3 DEF StatesExclusive
        <5>5. failures' \in Nat /\ inflight' \in Nat /\ openUntil' \in Nat \cup {None}
          BY <2>9, <5>1
        <5>6. generation' \in Nat /\ clock' \in Nat
          BY <1>a, <2>1 DEF TypeOK
        <5>7. QED
          BY <2>3, <5>2, <5>4, <5>5, <5>6 DEF TypeOK
      <4>b. CASE ~CurrentProbe(r) /\ ClosedOutcome(r)
        <5>1. /\ \/ openUntil' = req[r].now + OpenFor /\ failures' = 0
                 \/ /\ failures + 1 < FailureThreshold /\ failures' = failures + 1
                    /\ openUntil' = openUntil
              /\ halfOpen' = halfOpen /\ inflight' = inflight
          BY <2>9, <2>11, <4>b, BreakerAssumption DEF RecordFailure
        <5>2. openUntil = None /\ ~halfOpen
          BY <4>b DEF ClosedOutcome
        <5>3. QED
          BY <1>a, <2>1, <2>3, <2>9, <5>1, <5>2, BreakerAssumption DEF TypeOK, StatesExclusive
      <4>c. CASE ~CurrentProbe(r) /\ ~ClosedOutcome(r)
        <5>1. UNCHANGED <<failures, openUntil, halfOpen, inflight>>
          BY <2>11, <4>c DEF RecordFailure
        <5>2. QED
          BY <1>a, <2>1, <2>3, <5>1 DEF TypeOK, StatesExclusive
      <4>q. QED
        BY <4>a, <4>b, <4>c
    <3>2. ProbeAccounting'
      BY <1>a, <2>1, <2>6, <2>7, <2>8, <2>9, <2>11, BreakerAssumption
         DEF RecordFailure, ProbeAccounting, ClosedOutcome
    <3>3. QED
      BY <2>3, <3>1, <3>2 DEF BInv
  <2>12. CASE DropPermit(r)
    <3>1. TypeOK' /\ StatesExclusive'
      BY <1>a, <2>1, <2>3, <2>9, <2>12 DEF DropPermit, TypeOK, StatesExclusive
    <3>2. ProbeAccounting'
      BY <1>a, <2>1, <2>6, <2>7, <2>8, <2>9, <2>12, BreakerAssumption
         DEF DropPermit, ProbeAccounting, CurrentProbe
    <3>3. QED
      BY <2>3, <3>1, <3>2 DEF BInv
  <2>13. QED
    BY <1>7, <2>10, <2>11, <2>12
<1>8. CASE Tick \/ UNCHANGED vars
  <2>1. UNCHANGED breaker /\ req' = req /\ clock' \in Nat
    BY <1>a, <1>8 DEF Tick, vars, breaker, TypeOK
  <2>2. ProbesKnown' /\ HoldersNext(generation) = Holders(generation)
    BY <1>a, <2>1 DEF ProbesKnown, breaker, Holders, HoldersNext
  <2>3. QED
    BY <1>a, <2>1, <2>2, BreakerFrame DEF TypeOK
<1>9. QED
  BY <1>1, <1>2, <1>3, <1>4, <1>5, <1>6, <1>7, <1>8 DEF Next, Ask, Resolve

LEMMA Invariance == Spec => []BInv
<1>1. QED
  BY BInvInit, BInvStep, PTL DEF Spec

-------------------------------------------------------------------------------
(* Every variable keeps its type.                                          *)
THEOREM BreakerTypeOK == Spec => []TypeOK
<1>1. BInv => TypeOK
  BY DEF BInv
<1>2. QED
  BY <1>1, Invariance, PTL

(* Half-open probe slots are counted exactly, whatever stale permits do.   *)
THEOREM BreakerProbeAccounting == Spec => []ProbeAccounting
<1>1. BInv => ProbeAccounting
  BY DEF BInv
<1>2. QED
  BY <1>1, Invariance, PTL

(* Closed, open and half-open exclude each other.                          *)
THEOREM BreakerStatesExclusive == Spec => []StatesExclusive
<1>1. BInv => StatesExclusive
  BY DEF BInv
<1>2. QED
  BY <1>1, Invariance, PTL

(* Only a probe of the current generation ends the half-open state.        *)
THEOREM BreakerOnlyProbesDecide == Spec => OnlyProbesDecide
<1> DEFINE Decides == halfOpen /\ ~halfOpen' =>
             \E r \in Requests : r \in Holders(generation) /\ r \notin Holders(generation)'
<1>1. ASSUME BInv, [Next]_vars PROVE [Decides]_vars
  <2>1. ASSUME NEW r \in Requests, RecordSuccess(r) \/ RecordFailure(r),
               halfOpen, ~halfOpen'
        PROVE  r \in Holders(generation) /\ r \notin Holders(generation)'
    <3>1. CurrentProbe(r) /\ Release(r) /\ req[r].pc \in {"held", "failing"}
      BY <2>1, ZenonT(30) DEF RecordSuccess, RecordFailure, ClosedOutcome
    <3>2. req'[r].pc = "idle"
      BY <1>1, <3>1 DEF Release, Idle, BInv, TypeOK
    <3>3. QED
      BY <3>1, <3>2 DEF Holders, CurrentProbe
  <2>2. ASSUME halfOpen, ~halfOpen', Next
        PROVE  \E r \in Requests : RecordSuccess(r) \/ RecordFailure(r)
    BY <1>1, <2>2, ZenonT(30) DEF BInv, StatesExclusive, Next, Ask, Resolve, Arrive, DenyOpen,
       EnterHalfOpen, AllowProbe, AllowClosed, Fail, DropPermit, Tick, breaker
  <2>3. QED
    BY <1>1, <2>1, <2>2
<1>2. QED
  BY <1>1, Invariance, PTL DEF Spec, OnlyProbesDecide
===============================================================================
