-------------------------- MODULE MCRuntimeLifecycle --------------------------
(* The lifecycle has no constants: TLC explores all of it.                 *)
EXTENDS RuntimeLifecycle
===============================================================================
