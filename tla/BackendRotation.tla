--------------------------- MODULE BackendRotation ---------------------------
(* What an upstream pool promises its callers: the abstract specification  *)
(* that UpstreamPool implements.  A backend is in rotation, out of it, or  *)
(* on trial.  A backend leaves rotation only after Strikes[b] failures in  *)
(* a row, goes back only through a trial of Credits[b] successes in a row  *)
(* that started at the end of its cooldown, and new requests reach only    *)
(* backends in rotation or, at most Credits[b] of them, on trial.          *)
EXTENDS Naturals

CONSTANTS Members, Strikes, Credits, MaxLoad

VARIABLES
    place,    \* place[b] \in {"in", "out", "trial"}
    strikes,  \* failures in a row while in rotation or out of it
    credits,  \* successes in a row of the trial
    grants,   \* trial requests still allowed
    assigned  \* requests assigned to b and not finished

rotation == <<place, strikes, credits, grants, assigned>>

Init == /\ place = [b \in Members |-> "in"]
        /\ strikes = [b \in Members |-> 0]
        /\ credits = [b \in Members |-> 0]
        /\ grants = [b \in Members |-> 0]
        /\ assigned = [b \in Members |-> 0]

Strike(b) == /\ place[b] # "trial"
             /\ strikes' = [strikes EXCEPT ![b] = (@ + 1) % Strikes[b]]
             /\ place' = IF strikes[b] + 1 = Strikes[b]
                         THEN [place EXCEPT ![b] = "out"] ELSE place
             /\ UNCHANGED <<credits, grants, assigned>>

FailTrial(b) == /\ place[b] = "trial"
                /\ place' = [place EXCEPT ![b] = "out"]
                /\ strikes' = [strikes EXCEPT ![b] = 0]
                /\ credits' = [credits EXCEPT ![b] = 0]
                /\ grants' = [grants EXCEPT ![b] = 0]
                /\ UNCHANGED assigned

Forgive(b) == /\ place[b] = "in"
              /\ strikes' = [strikes EXCEPT ![b] = 0]
              /\ UNCHANGED <<place, credits, grants, assigned>>

Credit(b, fresh) ==
    LET have == IF fresh THEN 0 ELSE credits[b]
        done == have + 1 = Credits[b]
    IN  /\ place[b] = IF fresh THEN "out" ELSE "trial"
        /\ place' = [place EXCEPT ![b] = IF done THEN "in" ELSE "trial"]
        /\ credits' = [credits EXCEPT ![b] = IF done THEN 0 ELSE have + 1]
        /\ grants' = [grants EXCEPT ![b] = IF done THEN 0
                                           ELSE IF fresh THEN Credits[b] ELSE @]
        /\ strikes' = [strikes EXCEPT ![b] = 0]
        /\ UNCHANGED assigned

(* A request is assigned; the end of a cooldown may open trials first.     *)
Assign(b, opened) ==
    LET place1 == [c \in Members |-> IF c \in opened THEN "trial" ELSE place[c]]
        grants1 == [c \in Members |-> IF c \in opened THEN Credits[c] ELSE grants[c]]
    IN  /\ \A c \in opened : place[c] = "out"
        /\ \/ place1[b] = "in" /\ grants' = grants1
           \/ /\ place1[b] = "trial" /\ grants1[b] > 0
              /\ grants' = [grants1 EXCEPT ![b] = @ - 1]
        /\ place' = place1
        /\ strikes' = [c \in Members |-> IF c \in opened THEN 0 ELSE strikes[c]]
        /\ assigned[b] < MaxLoad
        /\ assigned' = [assigned EXCEPT ![b] = @ + 1]
        /\ UNCHANGED credits

OpenTrials(opened) ==
    /\ \A c \in opened : place[c] = "out"
    /\ place' = [c \in Members |-> IF c \in opened THEN "trial" ELSE place[c]]
    /\ grants' = [c \in Members |-> IF c \in opened THEN Credits[c] ELSE grants[c]]
    /\ strikes' = [c \in Members |-> IF c \in opened THEN 0 ELSE strikes[c]]
    /\ UNCHANGED <<credits, assigned>>

Release(b) == /\ assigned[b] > 0
              /\ assigned' = [assigned EXCEPT ![b] = @ - 1]
              /\ UNCHANGED <<place, strikes, credits, grants>>

Next == \/ \E b \in Members : \/ Strike(b) \/ FailTrial(b) \/ Forgive(b)
                              \/ Release(b)
                              \/ \E fresh \in BOOLEAN : Credit(b, fresh)
                              \/ \E opened \in SUBSET Members : Assign(b, opened)
        \/ \E opened \in SUBSET Members : OpenTrials(opened)

Spec == Init /\ [][Next]_rotation
===============================================================================
