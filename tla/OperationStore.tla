--------------------------- MODULE OperationStore ---------------------------
(***************************************************************************)
(* What the writer and the reader of the durable store share: the runs and *)
(* attempts, the fences with the scopes they name, and the queries over a  *)
(* set of fences.  The writer is OperationKernel; the reader, which        *)
(* re-derives every projection from the event log, is OperationReplay.     *)
(***************************************************************************)
EXTENDS Lifecycle

CONSTANTS
  Runs,          \* runs of one repository
  ItemOf,        \* the item each run's plan binds
  EffectOf,      \* the logical effect each run's plan binds
  MaxAttempts,   \* bound: generations of one run's effect
  MaxPauses,     \* bound: pauses requested of one run
  MaxSettlements, \* bound: settlements operators ask for
  Reserved,      \* reserved_units of an intent
  Worst,         \* worst_case_units of an intent
  Cap,           \* cap_units of an intent
  Amounts,       \* usages a receipt or a settlement may state
  None           \* no run, no attempt

Attempts == Runs \X (1..MaxAttempts)

ASSUME RunsAssumption ==
  /\ DOMAIN ItemOf = Runs /\ DOMAIN EffectOf = Runs
  /\ None \notin Runs /\ None \notin Runs \X (0..MaxAttempts)

ASSUME BoundsAssumption ==
  /\ MaxAttempts \in Nat \ {0}
  /\ MaxPauses \in Nat \ {0}
  /\ MaxSettlements \in Nat

(* IntentRequest.validate: reserved <= worst case <= cap. *)
ASSUME BudgetAssumption ==
  /\ Reserved \in Nat /\ Worst \in Nat /\ Cap \in Nat
  /\ Reserved <= Worst /\ Worst <= Cap
  /\ Amounts \subseteq Nat

RECON == "RECONCILIATION_REQUIRED"

UncertaintyKinds == {"OUTCOME", "ACTIVITY", "SOURCE_CONTROL", "BILLING"}

(* Fences that name neither an item nor an effect hold the repository. *)
RepoWide == {"CONTROL_PAUSE", "BUDGET_CAP_EXCEEDED", "LATE_ACCOUNTING", "ADDITIONAL_LIABILITY"}

ScopedPauses == {"LOCAL_PAUSE", "EXTERNAL_PAUSE", "RECONCILIATION_PAUSE"}

FenceKinds == RepoWide \cup ScopedPauses \cup UncertaintyKinds
              \cup {"STOPPED_RUN", "TERMINAL", "NONEXECUTION_CONTRADICTION", "RECOVERY_DISABLED"}

(* A fence is identified by the fact that raised it: the run's n-th pause, *)
(* or the attempt.  An additional liability's fence has n = 1 once a later *)
(* unknown settlement has become the head it would be resolved from.       *)
Fence(why, run, g, n) == [why |-> why, run |-> run, gen |-> g, n |-> n]

AllFences == [why : FenceKinds, run : Runs, gen : 0..MaxAttempts, n : 0..MaxPauses]

AttemptFence(why, a) == Fence(why, a[1], a[2], 0)

PauseFence(why, a, n) == Fence(why, a[1], a[2], n)

ControlFence(r, n) == Fence("CONTROL_PAUSE", r, 0, n)

Only(cond, f) == IF cond THEN {f} ELSE {}

(* The row of a pause that preserves nothing. *)
NoRow == [life |-> Absent, cursor |-> NullCursor]

Cursors == [kind : CursorKinds \cup {"none"}, gen : 0..MaxAttempts]

(* The blocker codes of _readiness_blockers. *)
BlockerCodes == {"INPUTS_NOT_READY", "TYPED_CURSOR_PENDING", "UNRESOLVED_BLOCKED_STATE",
                 "DISPATCH_FENCE_PRESENT", "OPERATION_SLOT_OCCUPIED"}

-----------------------------------------------------------------------------
(* Queries over fences. *)

SameItem(r, f) == ItemOf[f.run] = ItemOf[r]

SameEffect(r, f) == EffectOf[f.run] = EffectOf[r]

(* The fence query of a dispatch step: repository-wide, or naming the item *)
(* or the effect.                                                          *)
DispatchFenced(r, fs) ==
  \E f \in fs : f.why \in RepoWide \/ SameItem(r, f) \/ SameEffect(r, f)

(* _historical_repository_activity: the fences as readiness re-derives     *)
(* them from the log, which leaves out recorded uncertainties, disabled    *)
(* retries and terminal dispositions.                                      *)
ActivityFences(fs) ==
  {f \in fs : f.why \notin UncertaintyKinds \cup {"RECOVERY_DISABLED", "TERMINAL"}}

(* The fence query of readiness: every scope the fence names must match. *)
ReadinessFenced(r, fs) ==
  \E f \in fs : f.why \in RepoWide \/ (SameItem(r, f) /\ SameEffect(r, f))

-----------------------------------------------------------------------------
(* _reconciliation_route_at_prefix, which the writer and the reader share: *)
(* where a verified receipt leads the run when the fences fs stand and the *)
(* attempts of liable have an additional liability.                        *)

(* What keeps a reconciled run in reconciliation: an uncertainty on its    *)
(* item or effect, or accounting on both that contradicts a release or is  *)
(* still open.                                                             *)
KeepsReconciling(r, fs, liable) ==
  \/ \E f \in fs : f.why \in UncertaintyKinds /\ (SameItem(r, f) \/ SameEffect(r, f))
  \/ \E f \in fs : /\ f.why \in {"NONEXECUTION_CONTRADICTION", "LATE_ACCOUNTING"}
                   /\ SameItem(r, f) /\ SameEffect(r, f)
  \/ \E a \in liable : ItemOf[a[1]] = ItemOf[r] /\ EffectOf[a[1]] = EffectOf[r]

(* What blocks it: another run's pause, a breach or a stopped run. *)
BlocksReconciled(r, fs) ==
  \E f \in fs :
    \/ f.why = "CONTROL_PAUSE" /\ SameItem(r, f)
    \/ /\ f.why \in ScopedPauses \cup {"BUDGET_CAP_EXCEEDED", "STOPPED_RUN"}
       /\ SameItem(r, f) /\ SameEffect(r, f)

OwnPause(r, fs) == \E f \in fs : f.run = r /\ f.why \in ScopedPauses \cup {"CONTROL_PAUSE"}

(* The first that applies. *)
ReconciliationState(r, fs, liable) ==
  IF KeepsReconciling(r, fs, liable) THEN RECON
  ELSE IF OwnPause(r, fs) THEN "PAUSED"
  ELSE IF BlocksReconciled(r, fs) THEN "BLOCKED" ELSE "VALIDATING"
=============================================================================
