--------------------------- MODULE ValidationStore ---------------------------
(***************************************************************************)
(* The tables of the validation side of the store and what may be in them: *)
(* the vocabulary that the writer (ValidationKernel) and the reader        *)
(* (ValidationReplay) share.                                               *)
(***************************************************************************)
EXTENDS Lifecycle, Sequences, FiniteSets, FiniteSetsExt, SequencesExt

CONSTANTS
  CheckOrder,     \* validation_check_bindings: the plan's checks, in order
  DependsOn,      \* the checks each check depends on
  GateAtStart,    \* status of each check's launch gate, as recorded before validation
  MaxLaunches,    \* bound: validator intents of the run
  MaxPauses,      \* bound: pauses requested of the run
  MaxSettlements, \* bound: settlements operators ask for
  MaxFacts,       \* bound: launch gate facts and fences of other runs
  None            \* no check

Checks == Range(CheckOrder)

Launches == 1..MaxLaunches

Reservations == 0..MaxLaunches

ASSUME ChecksAssumption ==
  /\ CheckOrder \in Seq(Checks) /\ CheckOrder # << >> /\ IsInjective(CheckOrder)
  /\ DependsOn \in [Checks -> SUBSET Checks]
  /\ GateAtStart \in [Checks -> {"UNKNOWN", "PASS", "FAIL"}]
  /\ None \notin Checks

ASSUME ValidationBounds ==
  MaxLaunches \in Nat \ {0} /\ MaxPauses \in Nat /\ MaxSettlements \in Nat /\ MaxFacts \in Nat

RECON == "RECONCILIATION_REQUIRED"

(* The continuation cursors of a run under validation.  The code's typed   *)
(* string names a check, a launch, a result or a recovery; of is the check *)
(* or the launch it is about.                                              *)
At(cursorKind, of) == [kind |-> cursorKind, of |-> of]

Nowhere == At("none", 0)

Revalidate == At("VALIDATING", 0)

Finalizing == At("FINALIZING", 0)

CheckCursors == {"validation-check", "validation-launch", "validation-route"}

LaunchCursors == {"validator-intent", "validator-initiation-disabled", "validation-recovery",
                  "validation-application", "validator-cessation"}

RunCursors == [kind : CheckCursors, of : Checks] \cup [kind : LaunchCursors, of : Launches]
              \cup {Nowhere, Revalidate, Finalizing}

(* Fences of other runs, by what they hold: this run's item, the whole     *)
(* repository, or another item and effect.                                 *)
OtherScopes == {"OTHER_RUN", "OTHER_REPOSITORY", "OTHER_ITEM"}

FenceReasons == {"PAUSE", "RECONCILIATION_PAUSE", "ACTIVITY", "BILLING", "INITIATION_DISABLED",
                 "ADDITIONAL_LIABILITY", "LATE_ACCOUNTING", "NONEXECUTION_CONTRADICTION",
                 "STOPPED_RUN", "FAILED_FINAL"} \cup OtherScopes

(* A fence is identified by its reason and the pause, launch or            *)
(* reservation that raised it.                                             *)
Fence(why, n) == [why |-> why, n |-> n]

Only(cond, f) == IF cond THEN {f} ELSE {}

(* The fences that hold the whole repository or the run's own item or      *)
(* effect.                                                                 *)
InScope(fs) == {f \in fs : f.why # "OTHER_ITEM"}

(* The usage a settlement states for the result it cites. *)
CitedUsage(next) == IF next = "UNKNOWN" THEN "unknown" ELSE "known"

Unlaunched ==
  [check |-> None, intent |-> "none", stale |-> FALSE, contact |-> FALSE, cited |-> {},
   fresh |-> FALSE, seen |-> "no", ceased |-> "no", proof |-> "no", reconciled |-> FALSE,
   applied |-> "no", resolved |-> FALSE]

(* What the proofs of a launch that did not run amount to after one more:  *)
(* the last decides, and a certain one stays on record.  A complete claim  *)
(* of unknown accounting is unsure, an incomplete one leaves it open.      *)
ProofAfter(proof, certain, complete) ==
  IF certain THEN "certain"
  ELSE IF proof \in {"certain", "reopened"} THEN "reopened"
  ELSE IF complete THEN "unsure" ELSE "open"

(* validator_intents joined with adapter_contacts, the usage stated by the *)
(* settlements that cite a result not yet observed (those behind the head, *)
(* and does the head?), validator_observations (is its usage known, is the *)
(* settlement it cites the head?), validator_cessations (before or after   *)
(* the observation?), the last nonexecution proof, reconciliation_actions  *)
(* (is its settlement the head?), validation_applications, and whether a   *)
(* failed application or an interrupted launch has been recovered.         *)
LaunchRows ==
  [check : Checks \cup {None}, intent : {"none", "ACTIVE", "SETTLED"}, stale : BOOLEAN,
   contact : BOOLEAN, cited : SUBSET {"known", "unknown"}, fresh : BOOLEAN,
   seen : {"no", "known", "unknown"}, ceased : {"no", "before", "after"},
   proof : {"no", "open", "unsure", "certain", "reopened"}, reconciled : BOOLEAN,
   applied : {"no", "PASS", "RECOVERABLE", "FINAL"}, resolved : BOOLEAN]

Checkpoints == {"IDLE", "ELIGIBLE_RESULT_SETTLED", "CONTACTED_UNRESOLVED", "UNCONTACTED_UNRESOLVED"}

PauseRows ==
  [mode : {"validation", "active", "reconciliation"}, at : Checkpoints, launch : 0..MaxLaunches,
   kept : RunCursors, to : {"PAUSED", "PAUSING", RECON},
   settled : {"no", "NONLAUNCH", "RESULT_CESSATION", "INTERRUPTION_CESSATION"}]

SettlementSources == {"PLAN", "VALIDATION_APPLICATION", "VALIDATOR_OBSERVATION",
                      "VALIDATOR_CESSATION", "VALIDATOR_NONEXECUTION"}

(* _LIFECYCLE_ROUTES for the events this module appends. *)
ValidationRoutes ==
  LET Shared(k) == LifecycleRoutes[k]
  IN [ ADAPTER_CONTACT_CLAIMED        |-> Shared("ADAPTER_CONTACT_CLAIMED"),
       BLOCKER_RESOLVED               |-> Shared("BLOCKER_RESOLVED"),
       LATE_RECEIPT_RECORDED          |-> Shared("LATE_RECEIPT_RECORDED"),
       NONDISPATCH_PROVEN             |-> Shared("NONDISPATCH_PROVEN"),
       PAUSE_FENCE_RECORDED           |-> Shared("PAUSE_FENCE_RECORDED"),
       PAUSE_SETTLED                  |-> Shared("PAUSE_SETTLED"),
       RECONCILIATION_RECORDED        |-> Shared("RECONCILIATION_RECORDED"),
       RESUME_ACCEPTED                |-> Shared("RESUME_ACCEPTED"),
       STOP_RECORDED                  |-> Shared("STOP_RECORDED"),
       VALIDATION_APPLICATION_DENIED  |-> PreserveRoutes,
       VALIDATION_GATE_FACT_RECORDED  |-> PreserveRoutes,
       VALIDATION_LAUNCH_EVALUATED    |-> PreserveRoutes,
       VALIDATOR_CESSATION_RECORDED   |-> PreserveRoutes,
       VALIDATION_PASSED              |-> SpecializedRoutes,
       VALIDATION_FAILED              |-> SpecializedRoutes,
       OPERATION_FINALIZED            |-> {<<"BLOCKED", "COMPLETED">>},
       RECONCILIATION_PAUSE_RESUMED   |-> {"PAUSED"} \X {"VALIDATING", "PAUSED", "BLOCKED"},
       VALIDATION_PAUSE_CHECKPOINTED  |-> ({"VALIDATING"} \X {"PAUSING", "PAUSED", RECON})
                                          \cup {<<RECON, RECON>>},
       TERMINAL_VALIDATION_SETTLED    |-> {<<"STOPPED", "STOPPED">>, <<"FAILED_FINAL", "FAILED_FINAL">>},
       VALIDATION_CHECK_ROUTED        |-> {"VALIDATING"} \X {"VALIDATING", "BLOCKED"},
       VALIDATION_LAUNCH_BLOCKED      |-> {"VALIDATING", "BLOCKED"} \X {"BLOCKED"},
       VALIDATOR_INITIATION_DISABLED  |-> {"VALIDATING", RECON} \X {"BLOCKED"},
       VALIDATOR_INTENT_COMMITTED     |-> {<<"VALIDATING", RECON>>},
       VALIDATOR_OBSERVATION_RECORDED |-> PreserveRoutes \cup (Nonterminal \X {RECON}) ]

(* The cursor each resolution of a paused launch leaves. *)
SettledCursor(v, how) ==
  At(CASE how = "NONLAUNCH"              -> "validator-initiation-disabled"
       [] how = "RESULT_CESSATION"       -> "validation-application"
       [] how = "INTERRUPTION_CESSATION" -> "validator-cessation", v)

ReconciliationPauseRow(kept) ==
  [mode |-> "reconciliation", at |-> "IDLE", launch |-> 0, kept |-> kept, to |-> RECON, settled |-> "no"]

IsPause(f) == f.why \in {"PAUSE", "RECONCILIATION_PAUSE"}

Known(d, r) == d[r] \in KnownDispositions

-----------------------------------------------------------------------------
(* The routes that the writer and the reader compute with the same code.   *)

(* _derive_nonexecution_route for a launch, given whether it is active and *)
(* whether an unresolved pause names it.                                   *)
ValidatorNonexecutionRoute(state, cur, contradiction, uncertain, active, paused) ==
  LET recovery == IF cur.kind = "validator-initiation-disabled" THEN cur ELSE Revalidate
  IN IF state \in Terminal THEN <<state, cur>>
     ELSE IF contradiction \/ uncertain THEN <<RECON, recovery>>
     ELSE IF ~active THEN <<state, cur>>
     ELSE IF state = "PAUSED" \/ paused THEN <<"PAUSED", recovery>>
     ELSE IF state = "PAUSING" THEN <<state, cur>> ELSE <<"BLOCKED", recovery>>

(* _reconciliation_route_at_prefix for a result, once the fences fs        *)
(* remain: the first that applies.                                         *)
ReconciliationRoute(fs, liable, recoverable) ==
  IF liable \/ \E f \in fs : f.why \in {"ACTIVITY", "BILLING", "NONEXECUTION_CONTRADICTION",
                                       "LATE_ACCOUNTING"}
  THEN RECON
  ELSE IF \E f \in fs : IsPause(f) THEN "PAUSED"
  ELSE IF recoverable \/ \E f \in fs : f.why \in {"STOPPED_RUN", "FAILED_FINAL", "OTHER_RUN"}
  THEN "BLOCKED" ELSE "VALIDATING"

(* _derive_resume_route for the cursors of a run under validation. *)
ValidationResumeRoute(kept, blockers) ==
  IF blockers # {} THEN "BLOCKED"
  ELSE IF kept.kind \in {"none", "VALIDATING", "validation-application"} THEN "VALIDATING"
  ELSE Denied
=============================================================================
