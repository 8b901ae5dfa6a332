------------------------- MODULE MCValidationKernel -------------------------
(* Instances of ValidationKernel for TLC. *)
EXTENDS ValidationKernelReplay

CONSTANTS c1, c2

TwoChecks == <<c1, c2>>

OneCheck == <<c1>>

GatesOpen == [c \in Checks |-> "PASS"]

InOrder == [c \in Checks |-> IF c = c2 THEN {c1} ELSE {}]

(* What of the state can still make a difference: a run that has ended     *)
(* launches, applies, pauses and resumes nothing, so what only those read  *)
(* no longer matters; of the kind of the last event only its settlements   *)
(* read whether it was an ordinary one; and a process does nothing more    *)
(* once its launch is settled or the target will refuse it.                *)
Ended == life \in Terminal

Spent(v) == \/ proc[v] = "committed" /\ (Ended \/ val[v].intent = "SETTLED")
            \/ proc[v] = "contacted" /\ target[v] # Untouched

(* The usage that some settlement states for a result not yet observed. *)
Citable(v) == val[v].cited \cup Only(val[v].seen = "no" /\ val[v].fresh, CitedUsage(disp[v]))

Essential ==
  <<life, IF Ended THEN <<kind = "BUDGET_SETTLED">> ELSE <<cursor, head, gate>>, facts, launches,
    IF Ended THEN [v \in Launches |-> [val[v] EXCEPT !.stale = FALSE, !.fresh = FALSE,
                                                     !.reconciled = FALSE, !.cited = Citable(v)]]
    ELSE val,
    budgetVars, closingVars, pauses,
    IF Ended THEN {f \in fences : f.why \notin OtherScopes} ELSE fences,
    [v \in Launches |-> IF Spent(v) THEN "idle" ELSE proc[v]], target>>
=============================================================================
