------------------------------ MODULE Resilience ------------------------------
(***************************************************************************)
(* The controllers that admit a request (resilience/*.rs), as operators    *)
(* over their states: adaptive admission, the route queue, the brownout    *)
(* switch and the retry budget.  Adaptive admission, the route queue and   *)
(* brownout change in one atomic operation or under one lock each.  The    *)
(* retry budget does not: it reserves a global slot, then takes the route  *)
(* lock, and gives the slot back when the route refuses, so its two halves *)
(* are two operators.  Latency is abstracted to "high" or not.             *)
(***************************************************************************)
EXTENDS Integers, FiniteSetsExt

CONSTANTS
    Routes,            \* upstream names
    Policy             \* the admission policy the runtime was built from

(* RuntimeResilience::from_policies and the constructors it calls: every   *)
(* limit is clamped before it is used.                                     *)
AtLeastOne(n) == Max({n, 1})

ResilienceOf(p) ==
    LET top == AtLeastOne(Max({p.maxLimit, p.minLimit})) IN
    [ adaptive     |-> p.adaptive,
      maxLimit     |-> top,
      minLimit     |-> Min({AtLeastOne(p.minLimit), top}),
      increaseStep |-> AtLeastOne(p.increaseStep),
      decreaseStep |-> AtLeastOne(p.decreaseStep),
      globalCap    |-> AtLeastOne(p.globalCap),
      routeCap     |-> [r \in Routes |-> AtLeastOne(p.routeCap[r])],
      brownout     |-> p.brownout,
      trigger      |-> Min({p.trigger, 100}),
      recover      |-> Min({p.recover, 100}),
      coreRoutes   |-> p.coreRoutes,
      budget       |-> p.budget,
      globalRatio  |-> p.globalRatio,
      routeRatio   |-> p.routeRatio ]

R == ResilienceOf(Policy)

-------------------------------------------------------------------------------
(* Adaptive admission: a = [limit, inflight].                              *)
AdaptiveInit == [limit |-> R.maxLimit, inflight |-> 0]

CanAcquireAdaptive(a) == ~R.adaptive \/ a.inflight < AtLeastOne(a.limit)

AcquireAdaptive(a) == [a EXCEPT !.inflight = @ + 1]

DropAdaptive(a) == [a EXCEPT !.inflight = @ - 1]

Observe(a, decrease) ==
    IF ~R.adaptive THEN a
    ELSE IF decrease
         THEN [a EXCEPT !.limit = Max({@ - R.decreaseStep, R.minLimit})]
         ELSE [a EXCEPT !.limit = Min({@ + R.increaseStep, R.maxLimit})]

InflightPercent(a) == Min({(a.inflight * 100) \div AtLeastOne(a.limit), 100})

-------------------------------------------------------------------------------
(* The route queue: q = [total, byRoute]; a route at 0 has no map entry.   *)
QueueInit == [total |-> 0, byRoute |-> [r \in Routes |-> 0]]

QueueRefusal(q, route) ==
    IF q.total >= R.globalCap THEN "GlobalCap"
    ELSE IF q.byRoute[route] >= R.routeCap[route] THEN "RouteCap"
    ELSE "None"

AcquireQueue(q, route) ==
    [q EXCEPT !.total = @ + 1, !.byRoute[route] = @ + 1]

DropQueue(q, route) ==
    IF q.byRoute[route] = 0 THEN q
    ELSE [q EXCEPT !.total = Max({@ - 1, 0}), !.byRoute[route] = @ - 1]

-------------------------------------------------------------------------------
(* Brownout: one flag with hysteresis.                                     *)
ObservePressure(active, percent) ==
    IF ~R.brownout THEN FALSE
    ELSE IF ~active THEN percent >= R.trigger
    ELSE percent > R.recover

RouteAllowed(active, route) == ~R.brownout \/ ~active \/ route \in R.coreRoutes

-------------------------------------------------------------------------------
(* The retry budget: b = [primary, retries, routePrimary, routeRetries].   *)
BudgetInit == [ primary |-> 0, retries |-> 0,
                routePrimary |-> [r \in Routes |-> 0],
                routeRetries |-> [r \in Routes |-> 0] ]

Allowance(primary, ratio) == (primary * ratio) \div 100 + 1

MarkGlobalPrimary(b) == [b EXCEPT !.primary = @ + 1]

MarkRoutePrimary(b, route) == [b EXCEPT !.routePrimary[route] = @ + 1]

(* The limit is computed from a primary count loaded earlier.              *)
GlobalSlotFree(b, seen) == b.retries < Allowance(seen, R.globalRatio)

ReserveGlobal(b) == [b EXCEPT !.retries = @ + 1]

RouteSlotFree(b, route) ==
    b.routeRetries[route] < Allowance(b.routePrimary[route], R.routeRatio[route])

TakeRouteSlot(b, route) == [b EXCEPT !.routeRetries[route] = @ + 1]

ReturnGlobal(b) == [b EXCEPT !.retries = @ - 1]
===============================================================================
