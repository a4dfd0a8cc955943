--------------------------- MODULE MCCircuitBreaker ---------------------------
(* An instance of CircuitBreaker for TLC: three requests, so that two      *)
(* probes and an older permit can be outstanding at once.                  *)
EXTENDS CircuitBreaker
===============================================================================
