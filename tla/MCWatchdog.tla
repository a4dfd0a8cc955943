------------------------------ MODULE MCWatchdog ------------------------------
(* Small instances of the watchdog for TLC: the .cfg files give Workers,   *)
(* Admins and the thresholds.  Two workers are the fewest of which one can *)
(* be counted twice; one Admin is enough to race the service.              *)
EXTENDS Watchdog
===============================================================================
