------------------------------- MODULE Watchdog -------------------------------
(***************************************************************************)
(* The watchdog's safe restart (watchdog/coordinator.rs, service.rs and    *)
(* the workers' poll_preamble in quic_listener/shutdown.rs).  The service  *)
(* and the control API ask for a restart; every worker sees the request at *)
(* its next poll, drains and marks itself drained; the service runs the    *)
(* restart command once enough workers are drained or the grace is over.   *)
(* All of them share the coordinator's atomics, one load or store a step.  *)
(*                                                                         *)
(* An instant is kept as its age, which saturates at the one threshold it  *)
(* is compared with, so no bound on time is needed.  A restart command is  *)
(* configured.  The restart reason, the degraded flag and the wall-clock   *)
(* copy of the request time are only displayed and are left out; shutdown, *)
(* the other cause of draining, is in RuntimeLifecycle.                    *)
(***************************************************************************)
EXTENDS Integers, FiniteSets

CONSTANTS
    Workers,        \* data-plane threads that own a listener
    Expected,       \* expected_workers
    Service,        \* the watchdog service, as a caller of request_restart
    Admins,         \* control API handlers of POST /admin/runtime/restart
    UnhealthyWindows, \* unhealthy_consecutive_windows
    Grace,          \* drain_grace_ms
    Cooldown,       \* restart_cooldown_ms
    DrainTimeout,   \* shutdown_drain_timeout_ms
    HookResults,    \* may the restart command succeed (TRUE), fail (FALSE)
    None

ASSUME WatchdogAssumption ==
    /\ IsFiniteSet(Workers) /\ Service \notin Admins
    /\ {Expected, UnhealthyWindows, Grace, Cooldown, DrainTimeout} \subseteq Nat \ {0}
    /\ DrainTimeout <= Grace    \* validator/performance.rs
    /\ HookResults \subseteq BOOLEAN
    /\ None \notin Nat

Requesters == Admins \cup {Service}

VARIABLES
    requested,    \* restart_requested
    requestAge,   \* age of restart_requested_at_instant
    restartAge,   \* age of last_restart_at_instant
    drained,      \* drained_workers
    svc,          \* the service: where it is, degraded_windows
    rq,           \* callers of request_restart: where, age of now_instant
    wk            \* workers: where in poll_preamble, draining, ...

coordinator == <<requested, requestAge, restartAge, drained>>
vars == <<requested, requestAge, restartAge, drained, svc, rq, wk>>

Age(cap) == 0..cap \cup {None}

(* A worker's connections: none, open without streams, or active streams.  *)
Loads == {"none", "open", "active"}

Worker == [pc : {"clear", "enter", "drain", "finish", "mark", "add", "poll"},
           draining : BOOLEAN, age : 0..DrainTimeout, marked : BOOLEAN, load : Loads]

TypeOK ==
    /\ requested \in BOOLEAN /\ drained \in Nat
    /\ requestAge \in Age(Grace) /\ restartAge \in Age(Cooldown)
    /\ svc \in [pc : {"tick", "ask", "check", "elapsed", "decide", "hook", "cleared", "reset"},
                windows : 0..UnhealthyWindows - 1, over : BOOLEAN]
    /\ rq \in [Requesters -> [pc : {"idle", "swap", "store", "reset"}, age : 0..Grace]]
    /\ wk \in [Workers -> Worker]

Init ==
    /\ requested = FALSE /\ drained = 0
    /\ requestAge = None /\ restartAge = None
    /\ svc = [pc |-> "tick", windows |-> 0, over |-> FALSE]
    /\ rq = [a \in Requesters |-> [pc |-> "idle", age |-> 0]]
    /\ wk = [w \in Workers |-> [pc |-> "clear", draining |-> FALSE, age |-> 0,
                                marked |-> FALSE, load |-> "none"]]

-------------------------------------------------------------------------------
(* request_restart.                                                        *)

(* Calls that return at once: the service goes on to its drain check.      *)
Return(a) ==
    svc' = IF a = Service THEN [svc EXCEPT !.pc = "check"] ELSE svc

CoolingDown == restartAge # None /\ restartAge < Cooldown

(* Mutation of RequestRestart: no cooldown.                                *)
RequestRestartHot(a) ==
    /\ rq[a].pc = "idle" /\ (a = Service => svc.pc = "ask")
    /\ rq' = [rq EXCEPT ![a] = [pc |-> "swap", age |-> 0]]
    /\ UNCHANGED <<coordinator, svc, wk>>

(* Read now_instant and compare it with the last restart.                  *)
RequestRestart(a) ==
    /\ rq[a].pc = "idle" /\ (a = Service => svc.pc = "ask")
    /\ IF CoolingDown
       THEN Return(a) /\ UNCHANGED rq
       ELSE rq' = [rq EXCEPT ![a] = [pc |-> "swap", age |-> 0]] /\ UNCHANGED svc
    /\ UNCHANGED <<coordinator, wk>>

(* compare_exchange(false, true).                                          *)
RequestSwap(a) ==
    /\ rq[a].pc = "swap"
    /\ requested' = TRUE
    /\ IF requested
       THEN rq' = [rq EXCEPT ![a] = [pc |-> "idle", age |-> 0]] /\ Return(a)
       ELSE rq' = [rq EXCEPT ![a].pc = "store"] /\ UNCHANGED svc
    /\ UNCHANGED <<requestAge, restartAge, drained, wk>>

RequestStore(a) ==
    /\ rq[a].pc = "store"
    /\ requestAge' = rq[a].age
    /\ rq' = [rq EXCEPT ![a].pc = "reset"]
    /\ UNCHANGED <<requested, restartAge, drained, svc, wk>>

(* Mutation of RequestReset: the count of an earlier restart is kept.      *)
RequestResetKeepsCount(a) ==
    /\ rq[a].pc = "reset"
    /\ rq' = [rq EXCEPT ![a] = [pc |-> "idle", age |-> 0]]
    /\ Return(a)
    /\ UNCHANGED <<coordinator, wk>>

RequestReset(a) ==
    /\ rq[a].pc = "reset"
    /\ drained' = 0
    /\ rq' = [rq EXCEPT ![a] = [pc |-> "idle", age |-> 0]]
    /\ Return(a)
    /\ UNCHANGED <<requested, requestAge, restartAge, wk>>

Request(a) == RequestRestart(a) \/ RequestSwap(a) \/ RequestStore(a) \/ RequestReset(a)

-------------------------------------------------------------------------------
(* run_watchdog_service.                                                   *)

(* One window: stalled, timing out or overloaded is the environment's      *)
(* choice; enough bad windows in a row ask for a restart.                  *)
Window(bad) ==
    /\ svc.pc = "tick"
    /\ svc' = IF ~bad THEN [svc EXCEPT !.pc = "check", !.windows = 0]
              ELSE IF svc.windows + 1 >= UnhealthyWindows
              THEN [svc EXCEPT !.pc = "ask", !.windows = 0]
              ELSE [svc EXCEPT !.pc = "check", !.windows = @ + 1]
    /\ UNCHANGED <<coordinator, rq, wk>>

(* restart_requested().                                                    *)
CheckRequested ==
    /\ svc.pc = "check"
    /\ svc' = [svc EXCEPT !.pc = IF requested THEN "elapsed" ELSE "tick"]
    /\ UNCHANGED <<coordinator, rq, wk>>

GraceElapsed == requested /\ requestAge # None /\ requestAge >= Grace

WorkersDrained == drained >= Expected

ReadElapsed ==
    /\ svc.pc = "elapsed"
    /\ svc' = [svc EXCEPT !.pc = "decide", !.over = GraceElapsed]
    /\ UNCHANGED <<coordinator, rq, wk>>

(* Mutation of Decide: only drained workers start the command.             *)
DecideNoGrace ==
    /\ svc.pc = "decide"
    /\ svc' = [svc EXCEPT !.pc = IF WorkersDrained THEN "hook" ELSE "tick"]
    /\ UNCHANGED <<coordinator, rq, wk>>

(* Run the command when the workers are drained or the grace is over.      *)
Decide ==
    /\ svc.pc = "decide"
    /\ svc' = [svc EXCEPT !.pc = IF WorkersDrained \/ svc.over THEN "hook" ELSE "tick"]
    /\ UNCHANGED <<coordinator, rq, wk>>

(* The command ended: a failure keeps the restart pending.                 *)
HookExit(ok) ==
    /\ svc.pc = "hook"
    /\ IF ok
       THEN /\ restartAge' = 0 /\ requestAge' = None
            /\ svc' = [svc EXCEPT !.pc = "cleared"]
       ELSE UNCHANGED <<restartAge, requestAge>> /\ svc' = [svc EXCEPT !.pc = "tick"]
    /\ UNCHANGED <<requested, drained, rq, wk>>

(* The rest of complete_restart_cycle, store by store.                     *)
ClearRequested ==
    /\ svc.pc = "cleared"
    /\ requested' = FALSE
    /\ svc' = [svc EXCEPT !.pc = "reset"]
    /\ UNCHANGED <<requestAge, restartAge, drained, rq, wk>>

ResetDrained ==
    /\ svc.pc = "reset"
    /\ drained' = 0
    /\ svc' = [svc EXCEPT !.pc = "tick"]
    /\ UNCHANGED <<requested, requestAge, restartAge, rq, wk>>

ServiceStep == CheckRequested \/ ReadElapsed \/ Decide \/ ClearRequested \/ ResetDrained

-------------------------------------------------------------------------------
(* A worker's poll: poll_preamble, then the traffic of one poll.           *)

Go(w, pc) == wk' = [wk EXCEPT ![w].pc = pc]

(* No restart is pending: forget the mark of an earlier one.               *)
PreambleClear(w) ==
    /\ wk[w].pc = "clear"
    /\ wk' = [wk EXCEPT ![w].pc = "enter", ![w].marked = requested /\ @]
    /\ UNCHANGED <<coordinator, svc, rq>>

(* should_enter_draining, start_draining.                                  *)
PreambleEnter(w) ==
    /\ wk[w].pc = "enter"
    /\ wk' = IF requested /\ ~wk[w].draining
             THEN [wk EXCEPT ![w].pc = "drain", ![w].draining = TRUE, ![w].age = 0]
             ELSE [wk EXCEPT ![w].pc = "drain"]
    /\ UNCHANGED <<coordinator, svc, rq>>

(* Mutation of DrainComplete: no drain timeout.                            *)
DrainCompleteNoTimeout(w) == wk[w].draining /\ wk[w].load # "active"

(* drain_complete while draining: connections without streams, or past the *)
(* drain timeout, are closed.                                              *)
DrainComplete(w) ==
    wk[w].draining /\ (wk[w].load # "active" \/ wk[w].age >= DrainTimeout)

PreambleDrain(w) ==
    /\ wk[w].pc = "drain"
    /\ wk' = IF DrainComplete(w)
             THEN [wk EXCEPT ![w].pc = "finish", ![w].load = "none"]
             ELSE [wk EXCEPT ![w].pc = "poll"]
    /\ UNCHANGED <<coordinator, svc, rq>>

(* finish_watchdog_drain.                                                  *)
PreambleFinish(w) ==
    /\ wk[w].pc = "finish"
    /\ Go(w, IF requested /\ ~wk[w].marked THEN "mark" ELSE "clear")
    /\ UNCHANGED <<coordinator, svc, rq>>

(* mark_worker_drained looks at the request again; the worker remembers    *)
(* the mark whether or not it was counted.                                 *)
MarkWorkerDrained(w) ==
    /\ wk[w].pc = "mark"
    /\ wk' = IF requested THEN [wk EXCEPT ![w].pc = "add"]
             ELSE [wk EXCEPT ![w].pc = "clear", ![w].marked = TRUE]
    /\ UNCHANGED <<coordinator, svc, rq>>

AddDrained(w) ==
    /\ wk[w].pc = "add"
    /\ drained' = drained + 1
    /\ wk' = [wk EXCEPT ![w].pc = "clear", ![w].marked = TRUE]
    /\ UNCHANGED <<requested, requestAge, restartAge, svc, rq>>

(* The rest of a poll: streams start and end, connections close; a new     *)
(* connection is dropped while draining.                                   *)
Poll(w, load) ==
    /\ wk[w].pc = "poll"
    /\ wk[w].draining /\ wk[w].load = "none" => load = "none"
    /\ wk' = [wk EXCEPT ![w].pc = "clear", ![w].load = load]
    /\ UNCHANGED <<coordinator, svc, rq>>

WorkerStep(w) ==
    \/ PreambleClear(w) \/ PreambleEnter(w) \/ PreambleDrain(w) \/ PreambleFinish(w)
    \/ MarkWorkerDrained(w) \/ AddDrained(w)
    \/ \E load \in Loads : Poll(w, load)

-------------------------------------------------------------------------------
Older(age, cap) == IF age = None \/ age = cap THEN age ELSE age + 1

(* Time passes for every instant that is held.                             *)
Tick ==
    /\ requestAge' = Older(requestAge, Grace)
    /\ restartAge' = Older(restartAge, Cooldown)
    /\ rq' = [a \in Requesters |->
                IF rq[a].pc = "idle" THEN rq[a] ELSE [rq[a] EXCEPT !.age = Older(@, Grace)]]
    /\ wk' = [w \in Workers |->
                IF wk[w].draining THEN [wk[w] EXCEPT !.age = Older(@, DrainTimeout)] ELSE wk[w]]
    /\ UNCHANGED <<requested, drained, svc>>

Next ==
    \/ \E a \in Requesters : Request(a)
    \/ \E bad \in BOOLEAN : Window(bad)
    \/ ServiceStep
    \/ \E ok \in HookResults : HookExit(ok)
    \/ \E w \in Workers : WorkerStep(w)
    \/ Tick

(* The service ticks for ever and its calls return, a handler that has     *)
(* started returns, workers keep polling and time passes.  Nothing bounds  *)
(* the restart command, and nobody need ask for a restart.                 *)
Spec ==
    /\ Init /\ [][Next]_vars
    /\ WF_vars(\E bad \in BOOLEAN : Window(bad)) /\ WF_vars(ServiceStep)
    /\ WF_vars(Request(Service))
    /\ \A a \in Admins : WF_vars(rq[a].pc # "idle" /\ Request(a))
    /\ \A w \in Workers : WF_vars(WorkerStep(w))
    /\ WF_vars(Tick)

-------------------------------------------------------------------------------
(* Properties.                                                             *)

Quiet(w) == wk[w].draining /\ wk[w].load = "none"

(* A safe restart: the command is started only when every worker has       *)
(* drained its connections, or the drain grace of the request is over.     *)
SafeRestart ==
    [][svc.pc = "decide" /\ svc'.pc = "hook" =>
         (\A w \in Workers : Quiet(w)) \/ GraceElapsed]_vars

(* After a successful restart command no restart is accepted before the    *)
(* cooldown is over (restart_cooldown_ms).                                 *)
CooldownAfterRestart == [][~requested /\ requested' => ~CoolingDown]_vars

(* A requested restart is not forgotten: the command is started even when  *)
(* drain marks are lost or streams do not end.  ("cleared" is the end of a *)
(* restart that succeeded, its flag about to be lowered.)                  *)
RestartHappens == (requested /\ svc.pc # "cleared") ~> svc.pc = "hook"

(* A worker that begins to drain is without connections in the end, by     *)
(* force once the drain timeout is over.                                   *)
DrainEnds == \A w \in Workers : wk[w].draining ~> Quiet(w)
===============================================================================
