---------------------------- MODULE WatchdogProofs ----------------------------
(***************************************************************************)
(* The safe restart holds for any number of workers when the coordinator   *)
(* expects all of them and only the service asks for restarts.  Both       *)
(* conditions are needed: SafeRestart is violated with the workers of two  *)
(* listeners, and with a control API handler that asks too.                *)
(***************************************************************************)
EXTENDS Watchdog, FiniteSetTheorems, TLAPS

Marked == {w \in Workers : wk[w].marked}

(* A worker that is about to mark itself, or has, is quiet; it is counted  *)
(* once, because it only counts itself unmarked.                           *)
WorkersInv ==
    \A w \in Workers :
        /\ Quiet(w) => wk[w].pc # "poll"
        /\ wk[w].pc \in {"finish", "mark", "add"} \/ wk[w].marked => Quiet(w)
        /\ wk[w].pc \in {"mark", "add"} => ~wk[w].marked

(* Once the request has reset it, the count is at most the marks.          *)
CountInv ==
    requested /\ rq[Service].pc \notin {"store", "reset"} => drained <= Cardinality(Marked)

(* Where the service stands in its own request and decision.               *)
ServiceInv ==
    /\ rq[Service].pc # "idle" => svc.pc = "ask"
    /\ rq[Service].pc \in {"store", "reset"} => requested
    /\ svc.pc \in {"elapsed", "decide", "hook", "cleared"} => requested
    /\ svc.pc = "decide" /\ svc.over => GraceElapsed

WInv == TypeOK /\ WorkersInv /\ CountInv /\ ServiceInv

(* The instance SafeRestart is proved for.                                 *)
AllExpected == Admins = {} /\ Cardinality(Workers) <= Expected

ServiceState ==
    [pc : {"tick", "ask", "check", "elapsed", "decide", "hook", "cleared", "reset"},
     windows : 0..UnhealthyWindows - 1, over : BOOLEAN]

Caller == [pc : {"idle", "swap", "store", "reset"}, age : 0..Grace]

-------------------------------------------------------------------------------
(* Types.                                                                  *)

LEMMA TypeInit == Init => TypeOK
<1> SUFFICES ASSUME Init PROVE TypeOK
  OBVIOUS
<1> USE WatchdogAssumption
<1>1. 0 \in 0..Grace /\ 0 \in 0..DrainTimeout /\ 0 \in 0..UnhealthyWindows - 1
  OBVIOUS
<1>2. svc \in ServiceState
  BY <1>1 DEF Init, ServiceState
<1>3. [pc |-> "idle", age |-> 0] \in Caller
  BY <1>1 DEF Caller
<1>4. [pc |-> "clear", draining |-> FALSE, age |-> 0, marked |-> FALSE, load |-> "none"]
        \in Worker
  BY <1>1 DEF Worker, Loads
<1>5. rq \in [Requesters -> Caller] /\ wk \in [Workers -> Worker]
  BY <1>3, <1>4 DEF Init
<1>6. QED
  BY <1>2, <1>5, ZenonT(30) DEF Init, TypeOK, ServiceState, Caller, Age

(* The service and the callers keep their types whenever their new record  *)
(* is one of the values the actions build.                                 *)
LEMMA ReturnType ==
  ASSUME TypeOK, NEW a \in Requesters, Return(a)
  PROVE  svc' \in ServiceState
BY DEF TypeOK, Return, ServiceState

LEMMA OlderType ==
  ASSUME NEW cap \in Nat, NEW age \in Age(cap)
  PROVE  Older(age, cap) \in Age(cap) /\ (age # None => Older(age, cap) # None)
BY WatchdogAssumption DEF Older, Age

LEMMA TypeStep == TypeOK /\ [Next]_vars => TypeOK'
<1> SUFFICES ASSUME TypeOK, [Next]_vars PROVE TypeOK'
  OBVIOUS
<1>a. /\ requested \in BOOLEAN /\ drained \in Nat
      /\ requestAge \in Age(Grace) /\ restartAge \in Age(Cooldown)
      /\ svc \in ServiceState /\ rq \in [Requesters -> Caller] /\ wk \in [Workers -> Worker]
  BY DEF TypeOK, ServiceState, Caller
<1>c. /\ 0 \in Age(Grace) /\ 0 \in Age(Cooldown) /\ None \in Age(Grace)
      /\ 0 \in 0..Grace /\ 0 \in 0..DrainTimeout /\ 0 \in 0..UnhealthyWindows - 1
  BY WatchdogAssumption DEF Age
<1>d. Grace \in Nat /\ Cooldown \in Nat /\ DrainTimeout \in Nat /\ UnhealthyWindows \in Nat
      /\ None \notin Nat
  BY WatchdogAssumption
<1>1. ASSUME NEW a \in Requesters, RequestRestart(a) PROVE TypeOK'
  <2>1. [pc |-> "swap", age |-> 0] \in Caller
    BY <1>c DEF Caller
  <2>2. svc' \in ServiceState /\ rq' \in [Requesters -> Caller]
    BY <1>1, <1>a, <2>1, ReturnType DEF RequestRestart
  <2>3. QED
    BY <1>1, <1>a, <2>2 DEF RequestRestart, coordinator, TypeOK, ServiceState, Caller
<1>2. ASSUME NEW a \in Requesters, RequestSwap(a) PROVE TypeOK'
  <2>1. [pc |-> "idle", age |-> 0] \in Caller /\ [rq[a] EXCEPT !.pc = "store"] \in Caller
    BY <1>a, <1>c DEF Caller
  <2>2. rq' \in [Requesters -> Caller]
    BY <1>2, <1>a, <2>1 DEF RequestSwap
  <2>3. svc' \in ServiceState
    BY <1>2, <1>a, ReturnType DEF RequestSwap
  <2>4. QED
    BY <1>2, <1>a, <2>2, <2>3 DEF RequestSwap, TypeOK, ServiceState, Caller
<1>3. ASSUME NEW a \in Requesters, RequestStore(a) PROVE TypeOK'
  <2>1. [rq[a] EXCEPT !.pc = "reset"] \in Caller /\ rq[a].age \in Age(Grace)
    BY <1>a DEF Caller, Age
  <2>2. rq' \in [Requesters -> Caller]
    BY <1>3, <1>a, <2>1 DEF RequestStore
  <2>3. QED
    BY <1>3, <1>a, <2>1, <2>2 DEF RequestStore, TypeOK, ServiceState, Caller
<1>4. ASSUME NEW a \in Requesters, RequestReset(a) PROVE TypeOK'
  <2>1. [pc |-> "idle", age |-> 0] \in Caller
    BY <1>c DEF Caller
  <2>2. svc' \in ServiceState /\ rq' \in [Requesters -> Caller]
    BY <1>4, <1>a, <2>1, ReturnType DEF RequestReset
  <2>3. QED
    BY <1>4, <1>a, <2>2 DEF RequestReset, TypeOK, ServiceState, Caller
<1>5. ASSUME NEW bad \in BOOLEAN, Window(bad) PROVE TypeOK'
  <2>1. svc.windows \in 0..UnhealthyWindows - 1
    BY <1>a DEF ServiceState
  <2>2. svc.windows + 1 < UnhealthyWindows => svc.windows + 1 \in 0..UnhealthyWindows - 1
    BY <1>d, <2>1
  <2>3. svc' \in ServiceState
    <3>1. /\ [svc EXCEPT !.pc = "check", !.windows = 0] \in ServiceState
          /\ [svc EXCEPT !.pc = "ask", !.windows = 0] \in ServiceState
      BY <1>a, <1>c, ZenonT(30) DEF ServiceState
    <3>2. ~(svc.windows + 1 >= UnhealthyWindows)
            => [svc EXCEPT !.pc = "check", !.windows = @ + 1] \in ServiceState
      <4> DEFINE n == svc.windows + 1
      <4>1. ~(n >= UnhealthyWindows) => n \in 0..UnhealthyWindows - 1
        BY <1>d, <2>1, <2>2
      <4>2. [svc EXCEPT !.pc = "check", !.windows = @ + 1]
              = [svc EXCEPT !.pc = "check", !.windows = n]
        OBVIOUS
      <4> HIDE DEF n
      <4>4. n \in 0..UnhealthyWindows - 1
              => [svc EXCEPT !.pc = "check", !.windows = n] \in ServiceState
        BY <1>a, ZenonT(30) DEF ServiceState
      <4>5. QED
        BY <4>1, <4>2, <4>4 DEF n
    <3>3. QED
      BY <1>5, <3>1, <3>2 DEF Window
  <2>4. QED
    BY <1>5, <1>a, <2>3 DEF Window, coordinator, TypeOK, ServiceState, Caller
<1>6. CASE ServiceStep
  <2>1. GraceElapsed \in BOOLEAN
    BY <1>a DEF GraceElapsed
  <2>2. svc' \in ServiceState
    BY <1>6, <1>a, <2>1, ZenonT(30)
       DEF ServiceStep, CheckRequested, ReadElapsed, Decide, ClearRequested, ResetDrained, ServiceState
  <2>3. /\ rq' = rq /\ wk' = wk /\ requestAge' = requestAge /\ restartAge' = restartAge
        /\ drained' \in {0, drained}
    BY <1>6 DEF ServiceStep, CheckRequested, ReadElapsed, Decide, ClearRequested, ResetDrained,
                coordinator
  <2>4. requested' \in BOOLEAN
    BY <1>6, <1>a, ZenonT(30) DEF ServiceStep, CheckRequested, ReadElapsed, Decide, ClearRequested,
                      ResetDrained, coordinator
  <2>5. QED
    BY <1>a, <1>c, <2>2, <2>3, <2>4 DEF TypeOK, ServiceState, Caller
<1>7. ASSUME NEW ok \in HookResults, HookExit(ok) PROVE TypeOK'
  <2>1. svc' \in ServiceState
    BY <1>7, <1>a DEF HookExit, ServiceState
  <2>2. QED
    BY <1>7, <1>a, <1>c, <2>1 DEF HookExit, TypeOK, ServiceState, Caller
<1>8. ASSUME NEW w \in Workers, WorkerStep(w) PROVE TypeOK'
  <2>2. wk' \in [Workers -> Worker]
    <3>1. CASE PreambleClear(w)
      <4>1. (requested /\ wk[w].marked) \in BOOLEAN
        BY <1>a DEF Worker
      <4>2. [wk[w] EXCEPT !.pc = "enter", !.marked = requested /\ @] \in Worker
        BY <1>a, <4>1, ZenonT(30) DEF Worker
      <4>3. QED
        BY <3>1, <1>a, <4>2 DEF PreambleClear
    <3>2. CASE PreambleEnter(w)
      <4>1. [wk[w] EXCEPT !.pc = "drain", !.draining = TRUE, !.age = 0] \in Worker
            /\ [wk[w] EXCEPT !.pc = "drain"] \in Worker
        BY <1>a, <1>c, ZenonT(30) DEF Worker
      <4>2. QED
        BY <3>2, <1>a, <4>1 DEF PreambleEnter
    <3>3. CASE PreambleDrain(w)
      <4>1. [wk[w] EXCEPT !.pc = "finish", !.load = "none"] \in Worker
            /\ [wk[w] EXCEPT !.pc = "poll"] \in Worker
        BY <1>a, ZenonT(30) DEF Worker, Loads
      <4>2. QED
        BY <3>3, <1>a, <4>1 DEF PreambleDrain
    <3>4. CASE PreambleFinish(w)
      <4>1. [wk[w] EXCEPT !.pc = "mark"] \in Worker /\ [wk[w] EXCEPT !.pc = "clear"] \in Worker
        BY <1>a DEF Worker
      <4>2. QED
        BY <3>4, <1>a, <4>1 DEF PreambleFinish, Go
    <3>5. CASE MarkWorkerDrained(w) \/ AddDrained(w)
      <4>1. [wk[w] EXCEPT !.pc = "add"] \in Worker
            /\ [wk[w] EXCEPT !.pc = "clear", !.marked = TRUE] \in Worker
        BY <1>a, ZenonT(30) DEF Worker
      <4>2. QED
        BY <3>5, <1>a, <4>1, ZenonT(30) DEF MarkWorkerDrained, AddDrained
    <3>6. ASSUME NEW load \in Loads, Poll(w, load) PROVE wk' \in [Workers -> Worker]
      <4>1. [wk[w] EXCEPT !.pc = "clear", !.load = load] \in Worker
        BY <1>a, ZenonT(30) DEF Worker
      <4>2. QED
        BY <3>6, <1>a, <4>1 DEF Poll
    <3>7. QED
      BY <1>8, <3>1, <3>2, <3>3, <3>4, <3>5, <3>6 DEF WorkerStep
  <2>3. QED
    BY <1>8, <1>a, <2>2
       DEF WorkerStep, PreambleClear, PreambleEnter, PreambleDrain, PreambleFinish,
           MarkWorkerDrained, AddDrained, Poll, coordinator, TypeOK, ServiceState, Caller
<1>9. CASE Tick
  <2>1. ASSUME NEW a \in Requesters PROVE [rq[a] EXCEPT !.age = Older(@, Grace)] \in Caller
    BY <1>a, <1>d DEF Caller, Older
  <2>2. ASSUME NEW w \in Workers PROVE [wk[w] EXCEPT !.age = Older(@, DrainTimeout)] \in Worker
    BY <1>a, <1>d DEF Worker, Older
  <2>3. rq' \in [Requesters -> Caller] /\ wk' \in [Workers -> Worker]
    BY <1>9, <1>a, <2>1, <2>2 DEF Tick
  <2>4. QED
    BY <1>9, <1>a, <1>d, <2>3, OlderType DEF Tick, TypeOK, ServiceState, Caller
<1>10. CASE UNCHANGED vars
  BY <1>10, <1>a DEF vars, TypeOK
<1>11. QED
  BY <1>1, <1>2, <1>3, <1>4, <1>5, <1>6, <1>7, <1>8, <1>9, <1>10 DEF Next, Request

(* Every variable keeps its type, whoever asks for restarts.               *)
THEOREM WatchdogTypeOK == Spec => []TypeOK
<1>1. QED
  BY TypeInit, TypeStep, PTL DEF Spec

-------------------------------------------------------------------------------
(* Workers: quiet before they mark, and for ever.                          *)

LEMMA WorkersInit == Init => WorkersInv
BY DEF Init, WorkersInv, Quiet

(* What one worker's step does to that worker; the others do not move.     *)
LEMMA WorkerMoves ==
  ASSUME TypeOK, WorkersInv, NEW w \in Workers, WorkerStep(w)
  PROVE  /\ \A v \in Workers \ {w} : wk'[v] = wk[v]
         /\ Quiet(w)' => wk'[w].pc # "poll"
         /\ wk'[w].pc \in {"finish", "mark", "add"} \/ wk'[w].marked => Quiet(w)'
         /\ wk'[w].pc \in {"mark", "add"} => ~wk'[w].marked
<1>a. wk \in [Workers -> Worker] /\ wk[w] \in Worker
  BY DEF TypeOK
<1>b. /\ Quiet(w) => wk[w].pc # "poll"
      /\ wk[w].pc \in {"finish", "mark", "add"} \/ wk[w].marked => Quiet(w)
      /\ wk[w].pc \in {"mark", "add"} => ~wk[w].marked
  BY DEF WorkersInv
<1>1. CASE PreambleClear(w)
  BY <1>1, <1>a, <1>b DEF PreambleClear, Quiet, Worker
<1>2. CASE PreambleEnter(w)
  BY <1>2, <1>a, <1>b DEF PreambleEnter, Quiet, Worker
<1>3. CASE PreambleDrain(w)
  BY <1>3, <1>a, <1>b DEF PreambleDrain, DrainComplete, Quiet, Worker
<1>4. CASE PreambleFinish(w)
  BY <1>4, <1>a, <1>b DEF PreambleFinish, Go, Quiet, Worker
<1>5. CASE MarkWorkerDrained(w)
  BY <1>5, <1>a, <1>b DEF MarkWorkerDrained, Quiet, Worker
<1>6. CASE AddDrained(w)
  BY <1>6, <1>a, <1>b DEF AddDrained, Quiet, Worker
<1>7. ASSUME NEW load \in Loads, Poll(w, load)
      PROVE  /\ \A v \in Workers \ {w} : wk'[v] = wk[v]
             /\ Quiet(w)' => wk'[w].pc # "poll"
             /\ wk'[w].pc \in {"finish", "mark", "add"} \/ wk'[w].marked => Quiet(w)'
             /\ wk'[w].pc \in {"mark", "add"} => ~wk'[w].marked
  BY <1>7, <1>a, <1>b DEF Poll, Quiet, Worker
<1>8. QED
  BY <1>1, <1>2, <1>3, <1>4, <1>5, <1>6, <1>7 DEF WorkerStep

(* Only a worker's own steps change anything but the age of its record.    *)
LEMMA WorkersRest ==
  ASSUME TypeOK, [Next]_vars, ~\E w \in Workers : WorkerStep(w)
  PROVE  \A w \in Workers :
           /\ wk'[w].pc = wk[w].pc /\ wk'[w].draining = wk[w].draining
           /\ wk'[w].marked = wk[w].marked /\ wk'[w].load = wk[w].load
<1>1. CASE Tick
  <2> SUFFICES ASSUME NEW w \in Workers
               PROVE  /\ wk'[w].pc = wk[w].pc /\ wk'[w].draining = wk[w].draining
                      /\ wk'[w].marked = wk[w].marked /\ wk'[w].load = wk[w].load
    OBVIOUS
  <2>1. wk[w] \in Worker
    BY DEF TypeOK
  <2>2. wk'[w] = IF wk[w].draining THEN [wk[w] EXCEPT !.age = Older(@, DrainTimeout)] ELSE wk[w]
    BY <1>1 DEF Tick
  <2>3. QED
    BY <2>1, <2>2 DEF Worker
<1>2. CASE ~Tick
  <2>1. wk' = wk
    BY <1>2 DEF Next, Request, RequestRestart, RequestSwap, RequestStore, RequestReset, Window,
       ServiceStep, CheckRequested, ReadElapsed, Decide, ClearRequested, ResetDrained, HookExit, vars
  <2>2. QED
    BY <2>1
<1>3. QED
  BY <1>1, <1>2

LEMMA WorkersStep == TypeOK /\ WorkersInv /\ [Next]_vars => WorkersInv'
<1> SUFFICES ASSUME TypeOK, WorkersInv, [Next]_vars PROVE WorkersInv'
  OBVIOUS
<1>1. ASSUME NEW w \in Workers, WorkerStep(w) PROVE WorkersInv'
  BY <1>1, WorkerMoves DEF WorkersInv, Quiet
<1>2. CASE ~\E w \in Workers : WorkerStep(w)
  BY <1>2, WorkersRest DEF WorkersInv, Quiet
<1>3. QED
  BY <1>1, <1>2
-------------------------------------------------------------------------------
(* The service, when it alone asks for restarts.                           *)

LEMMA ServiceInit == Init => ServiceInv
BY DEF Init, ServiceInv, Requesters

LEMMA ServiceKeeps == ASSUME Admins = {} PROVE TypeOK /\ ServiceInv /\ [Next]_vars => ServiceInv'
<1> SUFFICES ASSUME TypeOK, ServiceInv, [Next]_vars PROVE ServiceInv'
  OBVIOUS
<1>a. Requesters = {Service}
  BY DEF Requesters
<1>b. rq \in [Requesters -> Caller] /\ rq[Service] \in Caller /\ svc \in ServiceState
  BY <1>a DEF TypeOK, Caller, ServiceState
<1>1. ASSUME NEW a \in Requesters, RequestRestart(a) PROVE ServiceInv'
  <2>1. a = Service
    BY <1>a
  <2>2. QED
    BY <1>1, <1>b, <2>1 DEF RequestRestart, Return, ServiceInv, GraceElapsed, coordinator,
       Caller, ServiceState
<1>2. ASSUME NEW a \in Requesters, RequestSwap(a) PROVE ServiceInv'
  <2>1. a = Service
    BY <1>a
  <2>2. QED
    BY <1>2, <1>b, <2>1 DEF RequestSwap, Return, ServiceInv, GraceElapsed, Caller, ServiceState
<1>3. ASSUME NEW a \in Requesters, RequestStore(a) PROVE ServiceInv'
  <2>1. a = Service
    BY <1>a
  <2>2. QED
    BY <1>3, <1>b, <2>1 DEF RequestStore, ServiceInv, Caller
<1>4. ASSUME NEW a \in Requesters, RequestReset(a) PROVE ServiceInv'
  <2>1. a = Service
    BY <1>a
  <2>2. QED
    BY <1>4, <1>b, <2>1 DEF RequestReset, Return, ServiceInv, Caller, ServiceState
<1>5. ASSUME NEW bad \in BOOLEAN, Window(bad) PROVE ServiceInv'
  BY <1>5, <1>b DEF Window, ServiceInv, ServiceState, coordinator, Caller
<1>6. CASE ServiceStep
  <2>1. CASE CheckRequested
    BY <2>1, <1>b DEF CheckRequested, ServiceInv, ServiceState, coordinator, Caller
  <2>2. CASE ReadElapsed
    BY <2>2, <1>b, ZenonT(30) DEF ReadElapsed, GraceElapsed, ServiceInv, ServiceState, coordinator, Caller
  <2>3. CASE Decide
    BY <2>3, <1>b DEF Decide, ServiceInv, ServiceState, coordinator, Caller
  <2>4. CASE ClearRequested
    BY <2>4, <1>b DEF ClearRequested, ServiceInv, ServiceState, Caller
  <2>5. CASE ResetDrained
    BY <2>5, <1>b DEF ResetDrained, ServiceInv, ServiceState, Caller
  <2>6. QED
    BY <1>6, <2>1, <2>2, <2>3, <2>4, <2>5 DEF ServiceStep
<1>7. ASSUME NEW ok \in HookResults, HookExit(ok) PROVE ServiceInv'
  BY <1>7, <1>b DEF HookExit, ServiceInv, ServiceState, Caller
<1>8. ASSUME NEW w \in Workers, WorkerStep(w) PROVE ServiceInv'
  <2>1. UNCHANGED <<requested, requestAge, svc, rq>>
    BY <1>8 DEF WorkerStep, PreambleClear, PreambleEnter, PreambleDrain, PreambleFinish,
       MarkWorkerDrained, AddDrained, Poll, coordinator
  <2>2. QED
    BY <2>1 DEF ServiceInv, GraceElapsed
<1>9. CASE Tick
  <2>1. rq'[Service].pc = rq[Service].pc
    <3>1. rq'[Service] = IF rq[Service].pc = "idle" THEN rq[Service]
                         ELSE [rq[Service] EXCEPT !.age = Older(@, Grace)]
      BY <1>9, <1>a DEF Tick
    <3>2. QED
      BY <1>b, <3>1 DEF Caller
  <2>2. GraceElapsed => GraceElapsed'
    BY <1>9, WatchdogAssumption DEF Tick, GraceElapsed, Older, TypeOK, Age
  <2>3. QED
    BY <1>9, <2>1, <2>2 DEF Tick, ServiceInv
<1>10. CASE UNCHANGED vars
  BY <1>10 DEF vars, ServiceInv, GraceElapsed
<1>11. QED
  BY <1>1, <1>2, <1>3, <1>4, <1>5, <1>6, <1>7, <1>8, <1>9, <1>10 DEF Next, Request
-------------------------------------------------------------------------------
(* The count of drained workers.                                           *)

MarkedNext == {w \in Workers : wk'[w].marked}

LEMMA MarkedFinite == IsFiniteSet(Marked) /\ Cardinality(Marked) \in Nat
<1>1. Marked \subseteq Workers
  BY DEF Marked
<1>2. QED
  BY <1>1, WatchdogAssumption, FS_Subset, FS_CardinalityType

LEMMA CountInit == Init => CountInv
BY DEF Init, CountInv

LEMMA CountKeeps ==
  ASSUME Admins = {}
  PROVE  TypeOK /\ WorkersInv /\ CountInv /\ [Next]_vars => CountInv'
<1> SUFFICES ASSUME TypeOK, WorkersInv, CountInv, [Next]_vars PROVE CountInv'
  OBVIOUS
<1>a. Requesters = {Service} /\ drained \in Nat
  BY DEF Requesters, TypeOK
<1>b. rq[Service] \in Caller /\ rq \in [Requesters -> Caller]
  BY <1>a DEF TypeOK, Caller
<1>c. Marked' = MarkedNext
  BY DEF Marked, MarkedNext
<1>d. 0 <= Cardinality(Marked)
  BY MarkedFinite
<1>e. ASSUME ~\E w \in Workers : WorkerStep(w) PROVE Marked' = Marked
  BY <1>c, <1>e, WorkersRest DEF Marked, MarkedNext
<1>1. ASSUME NEW w \in Workers, WorkerStep(w) PROVE CountInv'
  <2>1. rq' = rq /\ requested' = requested
    BY <1>1 DEF WorkerStep, PreambleClear, PreambleEnter, PreambleDrain, PreambleFinish,
       MarkWorkerDrained, AddDrained, Poll, coordinator
  <2>2. wk[w] \in Worker /\ \A v \in Workers \ {w} : wk'[v] = wk[v]
    BY <1>1, WorkerMoves DEF TypeOK
  <2>3. CASE AddDrained(w)
    <3>1. wk'[w].marked /\ w \notin Marked
      BY <2>2, <2>3 DEF AddDrained, TypeOK, Worker, WorkersInv, Marked
    <3>2. MarkedNext = Marked \cup {w}
      BY <2>2, <3>1 DEF Marked, MarkedNext
    <3>3. Cardinality(MarkedNext) = Cardinality(Marked) + 1
      BY <3>1, <3>2, MarkedFinite, FS_AddElement
    <3>4. drained' = drained + 1
      BY <2>3 DEF AddDrained
    <3>5. QED
      BY <1>a, <1>c, <2>1, <3>3, <3>4, MarkedFinite DEF CountInv
  <2>4. CASE ~AddDrained(w)
    <3>1. drained' = drained /\ (requested => wk'[w].marked = wk[w].marked)
      BY <1>1, <2>2, <2>4 DEF WorkerStep, PreambleClear, PreambleEnter, PreambleDrain,
         PreambleFinish, Go, MarkWorkerDrained, Poll, coordinator, TypeOK, Worker
    <3>2. requested => MarkedNext = Marked
      BY <2>2, <3>1 DEF Marked, MarkedNext
    <3>3. QED
      BY <1>c, <2>1, <3>1, <3>2 DEF CountInv
  <2>5. QED
    BY <2>3, <2>4
<1>2. CASE ~\E w \in Workers : WorkerStep(w)
  <2>a. Marked' = Marked
    BY <1>2, <1>e
  <2>1. ASSUME NEW a \in Requesters, Request(a) PROVE CountInv'
    <3>1. a = Service
      BY <1>a
    <3>2. CASE RequestRestart(Service)
      <4>1. UNCHANGED <<requested, drained>> /\ rq[Service].pc = "idle"
        BY <3>2 DEF RequestRestart, coordinator
      <4>2. QED
        BY <2>a, <4>1 DEF CountInv
    <3>3. CASE RequestSwap(Service)
      <4>1. CASE requested
        <5>1. drained' = drained /\ rq[Service].pc = "swap"
          BY <3>3 DEF RequestSwap
        <5>2. QED
          BY <2>a, <4>1, <5>1 DEF CountInv
      <4>2. CASE ~requested
        <5>1. rq'[Service].pc = "store"
          BY <1>a, <1>b, <3>3, <4>2 DEF RequestSwap, Caller
        <5>2. QED
          BY <5>1 DEF CountInv
      <4>3. QED
        BY <4>1, <4>2
    <3>4. CASE RequestStore(Service)
      <4>1. rq'[Service].pc = "reset"
        BY <1>a, <1>b, <3>4 DEF RequestStore, Caller
      <4>2. QED
        BY <4>1 DEF CountInv
    <3>5. CASE RequestReset(Service)
      <4>1. drained' = 0
        BY <3>5 DEF RequestReset
      <4>2. QED
        BY <1>d, <2>a, <4>1 DEF CountInv
    <3>6. QED
      BY <2>1, <3>1, <3>2, <3>3, <3>4, <3>5 DEF Request
  <2>2. ASSUME NEW bad \in BOOLEAN, Window(bad) PROVE CountInv'
    BY <2>a, <2>2 DEF Window, coordinator, CountInv
  <2>3. CASE ServiceStep
    BY <1>d, <2>a, <2>3, ZenonT(30) DEF ServiceStep, CheckRequested, ReadElapsed, Decide, ClearRequested,
       ResetDrained, coordinator, CountInv
  <2>4. ASSUME NEW ok \in HookResults, HookExit(ok) PROVE CountInv'
    BY <2>a, <2>4 DEF HookExit, CountInv
  <2>5. CASE Tick
    <3>1. rq'[Service] = IF rq[Service].pc = "idle" THEN rq[Service]
                         ELSE [rq[Service] EXCEPT !.age = Older(@, Grace)]
      BY <1>a, <2>5 DEF Tick
    <3>2. rq'[Service].pc = rq[Service].pc
      BY <1>b, <3>1 DEF Caller
    <3>3. QED
      BY <2>a, <2>5, <3>2 DEF Tick, CountInv
  <2>6. CASE UNCHANGED vars
    BY <2>a, <2>6 DEF vars, CountInv
  <2>7. QED
    BY <1>2, <2>1, <2>2, <2>3, <2>4, <2>5, <2>6 DEF Next
<1>3. QED
  BY <1>1, <1>2

-------------------------------------------------------------------------------
LEMMA Invariance == ASSUME Admins = {} PROVE Spec => []WInv
<1>1. Init => WInv
  BY TypeInit, WorkersInit, ServiceInit, CountInit DEF WInv
<1>2. WInv /\ [Next]_vars => WInv'
  BY TypeStep, WorkersStep, ServiceKeeps, CountKeeps DEF WInv
<1>3. QED
  BY <1>1, <1>2, PTL DEF Spec

(* As many marks as workers: every worker is quiet.                        *)
LEMMA FullCount ==
  ASSUME WInv, AllExpected, requested, rq[Service].pc = "idle", WorkersDrained
  PROVE  \A w \in Workers : Quiet(w)
<1>1. Marked \subseteq Workers /\ IsFiniteSet(Workers)
  BY WatchdogAssumption DEF Marked
<1>2. /\ Cardinality(Workers) \in Nat /\ Cardinality(Marked) \in Nat
      /\ Cardinality(Marked) <= Cardinality(Workers)
      /\ Cardinality(Marked) = Cardinality(Workers) => Marked = Workers
  BY <1>1, FS_Subset, FS_CardinalityType
<1>3. drained <= Cardinality(Marked) /\ drained \in Nat
  BY DEF WInv, CountInv, TypeOK
<1>4. Marked = Workers
  BY <1>2, <1>3, WatchdogAssumption DEF WorkersDrained, AllExpected
<1>5. QED
  BY <1>4 DEF WInv, WorkersInv, Marked

(* The restart command is not started over a worker that still has         *)
(* connections before the grace is over.                                   *)
THEOREM WatchdogSafeRestart == ASSUME AllExpected PROVE Spec => SafeRestart
<1> DEFINE Safe == svc.pc = "decide" /\ svc'.pc = "hook" =>
                     (\A w \in Workers : Quiet(w)) \/ GraceElapsed
<1>1. ASSUME WInv, [Next]_vars PROVE [Safe]_vars
  <2> SUFFICES ASSUME svc.pc = "decide", svc'.pc = "hook", Next
               PROVE  (\A w \in Workers : Quiet(w)) \/ GraceElapsed
    BY <1>1
  <2>a. Requesters = {Service}
    BY DEF AllExpected, Requesters
  <2>b. rq[Service] \in Caller /\ svc \in ServiceState
    BY <1>1, <2>a DEF WInv, TypeOK, Caller, ServiceState
  <2>1. requested /\ rq[Service].pc = "idle"
    BY <1>1 DEF WInv, ServiceInv
  <2>2. Decide
    <3>1. ASSUME NEW a \in Requesters, Request(a) PROVE FALSE
      BY <2>a, <2>1, <3>1, ZenonT(30) DEF Request, RequestRestart, RequestSwap, RequestStore, RequestReset
    <3>2. ASSUME NEW w \in Workers, WorkerStep(w) PROVE FALSE
      BY <3>2 DEF WorkerStep, PreambleClear, PreambleEnter, PreambleDrain, PreambleFinish,
         MarkWorkerDrained, AddDrained, Poll
    <3>3. ~(\E bad \in BOOLEAN : Window(bad)) /\ ~(\E ok \in HookResults : HookExit(ok)) /\ ~Tick
      BY DEF Window, HookExit, Tick
    <3>4. QED
      BY <3>1, <3>2, <3>3 DEF Next, ServiceStep, CheckRequested, ReadElapsed, ClearRequested,
         ResetDrained
  <2>3. WorkersDrained \/ svc.over
    BY <2>2, <2>b DEF Decide, ServiceState
  <2>4. CASE svc.over
    BY <1>1, <2>4 DEF WInv, ServiceInv
  <2>5. CASE WorkersDrained
    BY <1>1, <2>1, <2>5, FullCount
  <2>6. QED
    BY <2>3, <2>4, <2>5
<1>2. Spec => []WInv
  BY Invariance DEF AllExpected
<1>3. QED
  BY <1>1, <1>2, PTL DEF Spec, SafeRestart
-------------------------------------------------------------------------------
(* The cooldown read by the service's own request is still over when its   *)
(* compare_exchange takes effect.                                          *)
CoolInv == rq[Service].pc = "swap" => ~CoolingDown

LEMMA CoolKeeps ==
  ASSUME Admins = {}
  PROVE  WInv /\ CoolInv /\ [Next]_vars => CoolInv'
<1> SUFFICES ASSUME WInv, CoolInv, [Next]_vars, rq'[Service].pc = "swap"
             PROVE  ~CoolingDown'
  BY DEF CoolInv
<1>a. Requesters = {Service} /\ TypeOK /\ ServiceInv
  BY DEF Requesters, WInv
<1>b. rq[Service] \in Caller /\ rq \in [Requesters -> Caller] /\ restartAge \in Age(Cooldown)
  BY <1>a DEF TypeOK, Caller
<1>1. ASSUME NEW a \in Requesters, Request(a) PROVE ~CoolingDown'
  <2>1. a = Service /\ restartAge' = restartAge
    BY <1>1, <1>a DEF Request, RequestRestart, RequestSwap, RequestStore, RequestReset, coordinator
  <2>2. RequestRestart(Service)
    BY <1>1, <1>a, <1>b, <2>1 DEF Request, RequestSwap, RequestStore, RequestReset, Caller
  <2>3. ~CoolingDown
    BY <2>2 DEF RequestRestart
  <2>4. QED
    BY <2>1, <2>3 DEF CoolingDown
<1>2. CASE Tick
  <2>1. rq'[Service] = IF rq[Service].pc = "idle" THEN rq[Service]
                       ELSE [rq[Service] EXCEPT !.age = Older(@, Grace)]
    BY <1>2, <1>a DEF Tick
  <2>2. ~CoolingDown
    BY <1>b, <2>1 DEF CoolInv, Caller
  <2>3. restartAge' = Older(restartAge, Cooldown)
    BY <1>2 DEF Tick
  <2>4. QED
    BY <1>b, <2>2, <2>3, WatchdogAssumption DEF CoolingDown, Older, Age
<1>3. CASE ~Tick /\ ~\E a \in Requesters : Request(a)
  <2>1. rq' = rq
    BY <1>3, ZenonT(30) DEF Next, Window, ServiceStep, CheckRequested, ReadElapsed, Decide, ClearRequested,
       ResetDrained, HookExit, WorkerStep, PreambleClear, PreambleEnter, PreambleDrain,
       PreambleFinish, MarkWorkerDrained, AddDrained, Poll, vars
  <2>2. svc.pc = "ask"
    BY <1>a, <2>1, SMTT(30) DEF ServiceInv
  <2>3. restartAge' = restartAge
    BY <1>3, <2>2, ZenonT(30) DEF Next, Window, ServiceStep, CheckRequested, ReadElapsed, Decide,
       ClearRequested, ResetDrained, HookExit, WorkerStep, PreambleClear, PreambleEnter,
       PreambleDrain, PreambleFinish, MarkWorkerDrained, AddDrained, Poll, vars, coordinator
  <2>4. QED
    BY <2>1, <2>3 DEF CoolInv, CoolingDown
<1>4. QED
  BY <1>1, <1>2, <1>3

(* No restart is accepted within the cooldown of the last one, when only   *)
(* the service asks.                                                       *)
THEOREM WatchdogCooldown == ASSUME Admins = {} PROVE Spec => CooldownAfterRestart
<1> DEFINE Cool == ~requested /\ requested' => ~CoolingDown
<1>1. Init => CoolInv
  BY DEF Init, CoolInv, Requesters
<1>2. WInv /\ CoolInv /\ [Next]_vars => CoolInv'
  BY CoolKeeps
<1>3. ASSUME CoolInv, [Next]_vars PROVE [Cool]_vars
  <2> SUFFICES ASSUME ~requested, requested', Next PROVE ~CoolingDown
    BY <1>3
  <2>1. RequestSwap(Service)
    BY ZenonT(30) DEF Requesters, Next, Request, RequestRestart, RequestStore, RequestReset, Window,
       ServiceStep, CheckRequested, ReadElapsed, Decide, ClearRequested, ResetDrained, HookExit,
       WorkerStep, PreambleClear, PreambleEnter, PreambleDrain, PreambleFinish,
       MarkWorkerDrained, AddDrained, Poll, Tick, coordinator
  <2>2. QED
    BY <1>3, <2>1 DEF RequestSwap, CoolInv
<1>4. Spec => []WInv
  BY Invariance
<1>5. QED
  BY <1>1, <1>2, <1>3, <1>4, PTL DEF Spec, CooldownAfterRestart
===============================================================================
