------------------------- MODULE MCRuntimeGeneration -------------------------
(* Instances of RuntimeGeneration for TLC.                                 *)
EXTENDS RuntimeGeneration, TLC

CONSTANTS o1, o2, c1, c2

MCConfigs == {c1, c2}
MCWorkersOf == [c \in Configs |-> IF c = c1 THEN 1 ELSE 2]
MCLevelOf == [c \in Configs |-> IF c = c1 THEN "info" ELSE "debug"]

(* Handlers are interchangeable; configs are not (BootConfig is one of     *)
(* them).                                                                  *)
Symmetry == Permutations(Operators)
===============================================================================
