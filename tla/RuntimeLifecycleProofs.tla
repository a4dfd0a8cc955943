------------------------ MODULE RuntimeLifecycleProofs ------------------------
(***************************************************************************)
(* The safety properties of RuntimeLifecycle, proved.                      *)
(*                                                                         *)
(* Neither property is inductive.  LInv adds what each task knows between  *)
(* a load and its exchange: a loaded phase can only have been overtaken    *)
(* forwards, by the other task's begin_shutdown.                           *)
(***************************************************************************)
EXTENDS RuntimeLifecycle, TLAPS

Stopping == {"ShuttingDown", "Terminated"}

(* Where the main task stands determines the phase up to the signal task's *)
(* begin_shutdown.                                                         *)
MainInv ==
    /\ mainPc = "boot" <=> phase = "Starting"
    /\ mainPc = "boot" => sigPc = "wait"
    /\ mainPc = "exchange" => /\ mainSeen \in {"Running", "Draining"}
                              /\ phase \in {mainSeen, "ShuttingDown"}
    /\ mainPc \in {"join", "finish", "exit"} => phase \in Stopping
    /\ mainPc = "finish" => mainSeen = "ShuttingDown"
    /\ phase = "Terminated" <=> mainPc = "exit"
    /\ groupsStopping <=> mainPc \in {"join", "finish", "exit"}

(* What the signal task loaded is never ahead of the phase, and once its   *)
(* begin_shutdown has returned the process is past Running.                *)
SignalInv ==
    /\ sigPc = "exchange" => /\ sigSeen \in {"Running", "Draining"}
                             /\ sigSeen = "Draining" => phase # "Running"
    /\ sigPc \in {"flag", "done"} => phase # "Running"
    /\ shutdown <=> sigPc = "done"

LInv == TypeOK /\ MainInv /\ SignalInv

LEMMA LInvInit == LInit => LInv
  BY ZenonT(30) DEF LInit, Init, LInv, TypeOK, MainInv, SignalInv, Phases, MainPcs, SigPcs, Stopping

(* Every step of either task, and of the environment, keeps LInv.          *)
LEMMA LInvStep == LInv /\ [LNext]_vars => LInv'
<1> SUFFICES ASSUME LInv, [LNext]_vars PROVE LInv'
  OBVIOUS
<1> USE DEF LInv, TypeOK, MainInv, SignalInv, Phases, MainPcs, SigPcs, Stopping,
            mainVars, sigVars, envVars
<1>1. CASE Boot
  BY <1>1 DEF Boot, MarkRunning
<1>2. CASE LoopHead
  <2>1. /\ mainPc = "loop" /\ phase' = phase /\ shutdown' = shutdown
        /\ restartRequested' = restartRequested /\ groupsStopping' = groupsStopping
        /\ groupsJoined' = groupsJoined /\ sigPc' = sigPc /\ sigSeen' = sigSeen
    BY <1>2 DEF LoopHead
  <2>2. mainPc' \in {"stop", "drain", "check"}
    BY <1>2, ZenonT(30) DEF LoopHead
  <2>3. workerFailed' \in BOOLEAN /\ mainSeen' \in Phases
    <3>1. CASE shutdown
      BY <1>2, <3>1 DEF LoopHead
    <3>2. CASE ~shutdown /\ restartRequested
      BY <1>2, <3>2, ZenonT(30) DEF LoopHead
    <3>3. CASE ~shutdown /\ ~restartRequested
      BY <1>2, <3>3, ZenonT(30) DEF LoopHead
    <3>4. QED
      BY <3>1, <3>2, <3>3
  <2>4. TypeOK'
    BY <2>1, <2>2, <2>3
  <2>5. MainInv'
    BY <2>1, <2>2
  <2>6. SignalInv'
    BY <2>1
  <2>7. QED
    BY <2>4, <2>5, <2>6
<1>3. CASE ExchangeDrain
  BY <1>3 DEF ExchangeDrain
<1>4. CASE CheckWorkers
  BY <1>4 DEF CheckWorkers
<1>5. CASE MainLoad
  <2>1. /\ mainPc = "stop" /\ mainSeen' = phase /\ phase' = phase /\ shutdown' = shutdown
        /\ UNCHANGED <<sigPc, sigSeen, restartRequested, workerFailed, groupsJoined>>
    BY <1>5 DEF MainLoad
  <2>2. CASE phase \in {"Running", "Draining"}
    <3>1. mainPc' = "exchange" /\ groupsStopping' = groupsStopping
      BY <1>5, <2>2 DEF MainLoad
    <3>2. QED
      BY <2>1, <2>2, <3>1
  <2>3. CASE phase \notin {"Running", "Draining"}
    <3>1. mainPc' = "join" /\ groupsStopping' = TRUE
      BY <1>5, <2>3 DEF MainLoad
    <3>2. QED
      BY <2>1, <2>3, <3>1
  <2>4. QED
    BY <2>2, <2>3
<1>6. CASE MainExchange
  BY <1>6 DEF MainExchange
<1>7. CASE MainJoined
  BY <1>7 DEF MainJoined
<1>8. CASE FinishExchange
  BY <1>8 DEF FinishExchange
<1>9. CASE SignalArrives
  BY <1>9 DEF SignalArrives
<1>10. CASE SignalLoad
  BY <1>10 DEF SignalLoad
<1>11. CASE SignalExchange
  BY <1>11 DEF SignalExchange
<1>12. CASE SignalFlag
  BY <1>12 DEF SignalFlag
<1>13. CASE WatchdogToggles
  BY <1>13 DEF WatchdogToggles
<1>14. CASE GroupsJoin
  BY <1>14 DEF GroupsJoin
<1>15. CASE UNCHANGED vars
  BY <1>15 DEF vars
<1>16. QED
  BY <1>1, <1>2, <1>3, <1>4, <1>5, <1>6, <1>7, <1>8, <1>9, <1>10, <1>11, <1>12,
     <1>13, <1>14, <1>15 DEF LNext, MainNext, SignalNext

LEMMA Invariance == LSpec => []LInv
<1>1. QED
  BY LInvInit, LInvStep, PTL DEF LSpec

(* Every variable keeps its type.                                          *)
THEOREM LifecycleTypeOK == LSpec => []TypeOK
<1>1. LInv => TypeOK
  BY DEF LInv
<1>2. QED
  BY <1>1, Invariance, PTL

(* Workers are told to stop only after the reload gate is shut             *)
(* (begin_shutdown before the flag and before request_shutdown).           *)
THEOREM LifecycleGateClosed == LSpec => []GateClosedBeforeStop
<1>1. LInv => GateClosedBeforeStop
  BY DEF LInv, MainInv, SignalInv, GateClosedBeforeStop, AllowsReload, Stopping
<1>2. QED
  BY <1>1, Invariance, PTL

(* The main task returns only with the phase at Terminated, whoever won    *)
(* the begin_shutdown race.                                                *)
THEOREM LifecycleExit == LSpec => []ExitMeansTerminated
<1>1. LInv => ExitMeansTerminated
  BY DEF LInv, MainInv, ExitMeansTerminated
<1>2. QED
  BY <1>1, Invariance, PTL

(* Every step of the two tasks is an edge of the forward-only table or     *)
(* leaves the phase alone.                                                 *)
LEMMA StepRefines == LInv /\ [LNext]_vars => [Next]_phase
<1> SUFFICES ASSUME LInv, [LNext]_vars PROVE [Next]_phase
  OBVIOUS
<1> USE DEF LInv, MainInv, SignalInv, Next, MarkRunning, BeginDrain, BeginShutdown,
            FinishShutdown
<1>1. CASE Boot \/ ExchangeDrain
  BY <1>1 DEF Boot, ExchangeDrain
<1>2. CASE MainExchange \/ SignalExchange \/ FinishExchange
  BY <1>2 DEF MainExchange, SignalExchange, FinishExchange
<1>3. CASE LoopHead \/ CheckWorkers \/ MainLoad \/ MainJoined
  BY <1>3, ZenonT(30) DEF LoopHead, CheckWorkers, MainLoad, MainJoined
<1>4. CASE SignalArrives \/ SignalLoad \/ SignalFlag \/ WatchdogToggles \/ GroupsJoin
  BY <1>4 DEF SignalArrives, SignalLoad, SignalFlag, WatchdogToggles, GroupsJoin
<1>5. CASE UNCHANGED vars
  BY <1>5 DEF vars
<1>6. QED
  BY <1>1, <1>2, <1>3, <1>4, <1>5 DEF LNext, MainNext, SignalNext

(* The load/compare-exchange machine implements the abstract lifecycle.    *)
THEOREM LifecycleForwardOnly == LSpec => ForwardOnly
<1>1. LInit => Init
  BY DEF LInit
<1>2. QED
  BY <1>1, StepRefines, Invariance, PTL DEF LSpec, Spec, ForwardOnly
===============================================================================
