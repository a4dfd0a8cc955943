--------------------------- MODULE LifecyclePhases ---------------------------
(***************************************************************************)
(* What the process lifecycle promises to everybody who reads the phase:   *)
(* it only ever moves forward, one legal edge at a time.  This is the      *)
(* transition table of RuntimeLifecycleState with every transition atomic; *)
(* RuntimeLifecycle gives the load/compare-exchange detail and is shown to *)
(* implement this specification.                                           *)
(***************************************************************************)
VARIABLE phase

Phases == {"Starting", "Running", "Draining", "ShuttingDown", "Terminated"}

(* Only a running process may commit a reload.                             *)
AllowsReload(p) == p = "Running"

Init == phase = "Starting"

MarkRunning == phase = "Starting" /\ phase' = "Running"

BeginDrain == phase = "Running" /\ phase' = "Draining"

BeginShutdown == phase \in {"Running", "Draining"} /\ phase' = "ShuttingDown"

FinishShutdown == phase = "ShuttingDown" /\ phase' = "Terminated"

Next == MarkRunning \/ BeginDrain \/ BeginShutdown \/ FinishShutdown

Spec == Init /\ [][Next]_phase
=============================================================================
