--------------------------- MODULE RuntimeLifecycle ---------------------------
(***************************************************************************)
(* The process lifecycle as the binary drives it: the main task of         *)
(* impulse/src/app.rs and the signal task it spawns share one AtomicU8     *)
(* (RuntimeLifecycleState) and one shutdown flag.  Every transition is a   *)
(* load followed by a compare-exchange, so the two tasks can interleave    *)
(* between the load and the exchange.                                      *)
(*                                                                         *)
(* `seen` holds the phase a task loaded and has not yet exchanged.         *)
(***************************************************************************)
EXTENDS LifecyclePhases

VARIABLES
    shutdown,          \* the AtomicBool the signal task sets for the main loop
    restartRequested,  \* WatchdogCoordinator.restart_requested
    workerFailed,      \* worker_failed of the main task
    groupsStopping,    \* request_shutdown was sent to the listener groups
    groupsJoined,      \* every worker of every listener group was joined
    mainPc, mainSeen,  \* the main task
    sigPc, sigSeen     \* the signal task

vars == <<phase, shutdown, restartRequested, workerFailed, groupsStopping,
          groupsJoined, mainPc, mainSeen, sigPc, sigSeen>>

mainVars == <<mainPc, mainSeen>>
sigVars  == <<sigPc, sigSeen>>
envVars  == <<restartRequested, workerFailed, groupsJoined>>

MainPcs == {"boot", "loop", "drain", "check", "stop", "exchange", "join",
            "finish", "exit"}
SigPcs  == {"wait", "load", "exchange", "flag", "done"}

TypeOK ==
    /\ phase \in Phases
    /\ shutdown \in BOOLEAN /\ restartRequested \in BOOLEAN
    /\ workerFailed \in BOOLEAN /\ groupsStopping \in BOOLEAN
    /\ groupsJoined \in BOOLEAN
    /\ mainPc \in MainPcs /\ mainSeen \in Phases
    /\ sigPc \in SigPcs /\ sigSeen \in Phases

LInit ==
    /\ Init
    /\ shutdown = FALSE /\ restartRequested = FALSE /\ workerFailed = FALSE
    /\ groupsStopping = FALSE /\ groupsJoined = FALSE
    /\ mainPc = "boot" /\ mainSeen = "Starting"
    /\ sigPc = "wait" /\ sigSeen = "Starting"

-------------------------------------------------------------------------------
(* The main task.                                                          *)

(* RuntimeBundleHandle::new marks the process running before anything else *)
(* can see the handle.                                                     *)
Boot ==
    /\ mainPc = "boot"
    /\ MarkRunning
    /\ mainPc' = "loop"
    /\ UNCHANGED <<shutdown, mainSeen, groupsStopping>> /\ UNCHANGED sigVars
    /\ UNCHANGED envVars

(* The loop head: leave once the flag is set, otherwise collect finished   *)
(* groups (a worker may have failed) and, when the watchdog wants a        *)
(* restart, load the phase for begin_drain.                                *)
LoopHead ==
    /\ mainPc = "loop"
    /\ IF shutdown
       THEN /\ mainPc' = "stop"
            /\ UNCHANGED <<workerFailed, mainSeen>>
       ELSE /\ workerFailed' \in {workerFailed, TRUE}
            /\ IF restartRequested
               THEN mainPc' = "drain" /\ mainSeen' = phase
               ELSE mainPc' = "check" /\ UNCHANGED mainSeen
    /\ UNCHANGED <<phase, shutdown, restartRequested, groupsStopping, groupsJoined>>
    /\ UNCHANGED sigVars

(* Mutation of ExchangeDrain: a plain store instead of the exchange.       *)
ExchangeDrainStore ==
    /\ mainPc = "drain"
    /\ mainPc' = "check"
    /\ phase' = IF mainSeen = "Running" THEN "Draining" ELSE phase
    /\ UNCHANGED <<shutdown, mainSeen, groupsStopping>> /\ UNCHANGED sigVars
    /\ UNCHANGED envVars

(* begin_drain: Running -> Draining when the loaded phase was Running and  *)
(* is still there; any other phase is a no-op or a rejection.              *)
ExchangeDrain ==
    /\ mainPc = "drain"
    /\ mainPc' = "check"
    /\ IF mainSeen = "Running" /\ phase = mainSeen
       THEN phase' = "Draining"
       ELSE UNCHANGED phase
    /\ UNCHANGED <<shutdown, mainSeen, groupsStopping>> /\ UNCHANGED sigVars
    /\ UNCHANGED envVars

(* Mutation of CheckWorkers: the loop ignores failed workers.              *)
CheckWorkersNever ==
    /\ mainPc = "check"
    /\ mainPc' = "loop"
    /\ UNCHANGED <<phase, shutdown, mainSeen, groupsStopping>>
    /\ UNCHANGED sigVars /\ UNCHANGED envVars

CheckWorkers ==
    /\ mainPc = "check"
    /\ mainPc' = IF workerFailed THEN "stop" ELSE "loop"
    /\ UNCHANGED <<phase, shutdown, mainSeen, groupsStopping>>
    /\ UNCHANGED sigVars /\ UNCHANGED envVars

(* begin_shutdown, load half: already stopping is a no-op.                 *)
MainLoad ==
    /\ mainPc = "stop"
    /\ mainSeen' = phase
    /\ IF phase \in {"Running", "Draining"}
       THEN mainPc' = "exchange" /\ UNCHANGED groupsStopping
       ELSE mainPc' = "join" /\ groupsStopping' = TRUE
    /\ UNCHANGED <<phase, shutdown>> /\ UNCHANGED sigVars /\ UNCHANGED envVars

(* begin_shutdown, exchange half, then request_shutdown on every group: a  *)
(* lost exchange is reported as a no-op and not retried.                   *)
MainExchange ==
    /\ mainPc = "exchange"
    /\ phase' = IF phase = mainSeen THEN "ShuttingDown" ELSE phase
    /\ mainPc' = "join"
    /\ groupsStopping' = TRUE
    /\ UNCHANGED <<shutdown, mainSeen>> /\ UNCHANGED sigVars /\ UNCHANGED envVars

(* Mutation of MainJoined: finish_shutdown uses the phase loaded by        *)
(* begin_shutdown.                                                         *)
MainJoinedStale ==
    /\ mainPc = "join" /\ groupsJoined
    /\ mainPc' = "finish"
    /\ UNCHANGED <<phase, shutdown, mainSeen, groupsStopping>>
    /\ UNCHANGED sigVars /\ UNCHANGED envVars

(* shutdown_listener_groups returns once every group is retired.           *)
MainJoined ==
    /\ mainPc = "join" /\ groupsJoined
    /\ mainPc' = "finish"
    /\ mainSeen' = phase
    /\ UNCHANGED <<phase, shutdown, groupsStopping>> /\ UNCHANGED sigVars
    /\ UNCHANGED envVars

(* finish_shutdown: ShuttingDown -> Terminated, then the process exits.    *)
FinishExchange ==
    /\ mainPc = "finish"
    /\ phase' = IF mainSeen = "ShuttingDown" /\ phase = mainSeen
                THEN "Terminated" ELSE phase
    /\ mainPc' = "exit"
    /\ UNCHANGED <<shutdown, mainSeen, groupsStopping>> /\ UNCHANGED sigVars
    /\ UNCHANGED envVars

-------------------------------------------------------------------------------
(* The signal task.                                                        *)

SignalArrives ==
    /\ sigPc = "wait" /\ mainPc # "boot"
    /\ sigPc' = "load"
    /\ UNCHANGED <<phase, shutdown, sigSeen, groupsStopping>>
    /\ UNCHANGED mainVars /\ UNCHANGED envVars

(* Mutation of SignalLoad: the flag is raised without begin_shutdown.      *)
SignalLoadSkips ==
    /\ sigPc = "load"
    /\ sigSeen' = phase
    /\ sigPc' = "flag"
    /\ UNCHANGED <<phase, shutdown, groupsStopping>>
    /\ UNCHANGED mainVars /\ UNCHANGED envVars

SignalLoad ==
    /\ sigPc = "load"
    /\ sigSeen' = phase
    /\ sigPc' = IF phase \in {"Running", "Draining"} THEN "exchange" ELSE "flag"
    /\ UNCHANGED <<phase, shutdown, groupsStopping>>
    /\ UNCHANGED mainVars /\ UNCHANGED envVars

SignalExchange ==
    /\ sigPc = "exchange"
    /\ phase' = IF phase = sigSeen THEN "ShuttingDown" ELSE phase
    /\ sigPc' = "flag"
    /\ UNCHANGED <<shutdown, sigSeen, groupsStopping>>
    /\ UNCHANGED mainVars /\ UNCHANGED envVars

SignalFlag ==
    /\ sigPc = "flag"
    /\ shutdown' = TRUE
    /\ sigPc' = "done"
    /\ UNCHANGED <<phase, sigSeen, groupsStopping>>
    /\ UNCHANGED mainVars /\ UNCHANGED envVars

-------------------------------------------------------------------------------
(* The rest of the process, as the lifecycle sees it: the watchdog raises  *)
(* and clears its restart request, and once told to stop the workers drain *)
(* (force-closing what outlives the drain timeout) and are joined.         *)

WatchdogToggles ==
    /\ restartRequested' = ~restartRequested
    /\ UNCHANGED <<phase, shutdown, workerFailed, groupsStopping, groupsJoined>>
    /\ UNCHANGED mainVars /\ UNCHANGED sigVars

GroupsJoin ==
    /\ groupsStopping /\ ~groupsJoined
    /\ groupsJoined' = TRUE
    /\ UNCHANGED <<phase, shutdown, restartRequested, workerFailed, groupsStopping>>
    /\ UNCHANGED mainVars /\ UNCHANGED sigVars

MainNext ==
    \/ Boot \/ LoopHead \/ ExchangeDrain \/ CheckWorkers \/ MainLoad
    \/ MainExchange \/ MainJoined \/ FinishExchange

SignalNext == SignalLoad \/ SignalExchange \/ SignalFlag

LNext == MainNext \/ SignalNext \/ SignalArrives \/ WatchdogToggles \/ GroupsJoin

(* Both tasks run on the multi-threaded Tokio runtime and never block      *)
(* except where modelled; a signal need never arrive, nor a restart.       *)
LSpec ==
    /\ LInit /\ [][LNext]_vars
    /\ WF_vars(MainNext) /\ WF_vars(SignalNext) /\ WF_vars(GroupsJoin)

-------------------------------------------------------------------------------
(* Properties.                                                             *)

(* The workers are told to stop, by the flag or by the main task, only     *)
(* after the reload gate is shut for good: a reload that reads the phase   *)
(* from then on is refused (app.rs: "This also gates any concurrent reload *)
(* commit").                                                               *)
GateClosedBeforeStop ==
    shutdown \/ groupsStopping => ~AllowsReload(phase) /\ phase # "Starting"

(* The process exits only through a completed shutdown: no lost exchange   *)
(* between the two tasks leaves the phase short of Terminated.             *)
ExitMeansTerminated == mainPc = "exit" => phase = "Terminated"

(* The fine-grained machine implements the forward-only transition table.  *)
ForwardOnly == Spec

(* A delivered signal, or a failed worker, always leads to termination.    *)
ShutdownCompletes ==
    (sigPc # "wait" \/ workerFailed) ~> phase = "Terminated"
===============================================================================
