-------------------------- MODULE ValidationReplay --------------------------
(***************************************************************************)
(* The reader of the validation side: the part of _verify_projections in   *)
(* storage.py that folds the events of validation back into the tables.    *)
(* As in OperationReplay a state is what a prefix of the log implies and a *)
(* step is one event the reader accepts: ...History is what the events     *)
(* before it must support, and the action adds the rows the reader expects *)
(* to find.  Where the body of an event is taken at its word, the value is *)
(* left open.                                                              *)
(*                                                                         *)
(* The reader knows no process and no target.  It learns the verdict of a  *)
(* launch from its observation and how it ended from its cessation, and it *)
(* keeps its own account of which launches are still active, in three      *)
(* places that do not agree with one another.                              *)
(***************************************************************************)
EXTENDS ValidationStore

VARIABLES
  life, cursor, kind, head, gate, slot, receipt, launches, rows, disp, open, settled, pauses, fences

launchVars  == <<launches, rows>>
budgetVars  == <<disp, open>>
closingVars == <<slot, receipt, settled>>
logVars     == <<life, cursor, kind, head, gate, closingVars, launchVars, budgetVars, pauses, fences>>

(* The row of a launch: as LaunchRows, without the staleness that only the *)
(* writer's contact looks at, and with the recorded verdict and ending.    *)
Unread ==
  [f \in DOMAIN Unlaunched \ {"stale"} |-> Unlaunched[f]] @@ [verdict |-> "none", halted |-> "no"]

(* Where validation starts: a receipt accepted with known accounting, or a *)
(* stop before the receipt.                                                *)
Init ==
  /\ \/ life = "VALIDATING" /\ receipt = TRUE /\ kind = "RECEIPT_RECORDED" /\ fences = {}
     \/ /\ life = "STOPPED" /\ receipt = FALSE /\ kind = "STOP_RECORDED"
        /\ fences = {Fence("STOPPED_RUN", 0)}
  /\ cursor = Nowhere /\ head = None /\ gate = GateAtStart
  /\ slot = TRUE /\ settled = [c \in Checks |-> "no"]
  /\ launches = 0 /\ rows = [v \in Launches |-> Unread]
  /\ disp = [r \in Reservations |-> IF r # 0 THEN "NONE" ELSE IF receipt THEN "CONSUMED" ELSE "UNKNOWN"]
  /\ open = [r \in Reservations |-> "no"]
  /\ pauses = << >>

-----------------------------------------------------------------------------
(* What the prefix says. *)

Intents == {v \in Launches : rows[v].intent # "none"}

LaunchesOf(c) == {v \in Intents : rows[v].check = c}

LatestLaunch(c) == Max(LaunchesOf(c) \cup {0})

TerminallySettledBy(v, sources) ==
  settled[rows[v].check] \in sources /\ v = LatestLaunch(rows[v].check)

EverPassed(c) == \E v \in LaunchesOf(c) : rows[v].applied = "PASS"

(* Has some proof ever shown, with certainty, that the launch did not run? *)
ProvedNotRun(v) == rows[v].proof \in {"certain", "reopened"}

ResolvedByPause(v, hows) == \E i \in DOMAIN pauses : pauses[i].launch = v /\ pauses[i].settled \in hows

(* _validator_intent_active_before *)
ActiveBefore(v) ==
  /\ v \in Intents /\ rows[v].applied = "no" /\ ~ProvedNotRun(v)
  /\ ~TerminallySettledBy(v, SettlementSources)
  /\ ~ResolvedByPause(v, {"NONLAUNCH", "INTERRUPTION_CESSATION"})

NoneActive == \A v \in Intents : ~ActiveBefore(v)

(* _historical_repository_activity: the launches it takes to be active,    *)
(* whatever a pause has settled, ...                                       *)
HistoricalValidators ==
  {v \in Intents : /\ rows[v].applied = "no" /\ ~ProvedNotRun(v)
                   /\ ~TerminallySettledBy(v, SettlementSources)}

(* ... and its fences.  It expects a fence in the settlement of every      *)
(* pause, finds none in that of a validation pause, and raises.            *)
HistoricalFences == {f \in fences : f.why \notin {"ACTIVITY", "BILLING", "INITIATION_DISABLED"}}

ActivityDerivable == \A i \in DOMAIN pauses : pauses[i].settled = "no"

(* The closure's view of a launch at a prefix: any proof counts that the   *)
(* run outlived, certain or not.  (Of a run that has ended each check's    *)
(* last launch must be settled anyway.)                                    *)
HistoricallySettled(v) == rows[v].intent = "SETTLED" \/ (rows[v].proof # "no" /\ life \notin Terminal)

(* What the closure accepts as the end of a launch. *)
Evidenced(v, source) ==
  IF rows[v].seen = "no"
  THEN \/ source = "VALIDATOR_CESSATION" \/ TerminallySettledBy(v, {"VALIDATOR_CESSATION"})
       \/ ResolvedByPause(v, {"INTERRUPTION_CESSATION"}) \/ rows[v].proof = "certain"
  ELSE \/ rows[v].applied # "no" \/ source = "VALIDATOR_OBSERVATION"
       \/ TerminallySettledBy(v, {"VALIDATOR_OBSERVATION"})

(* _accounting_closure_error at a prefix. *)
ClosedAtPrefix(d, observed, settling, source) ==
  /\ observed
  /\ \A r \in Reservations : d[r] # "NONE" =>
       Known(d, r) \/ (r # 0 /\ d[r] = "RELEASED" /\ rows[r].proof = "certain")
  /\ \A v \in Intents :
       /\ HistoricallySettled(v) \/ v = settling
       /\ Evidenced(v, IF v = settling THEN source ELSE "no")

ChecksSettledAtPrefix(settling) ==
  \A c \in Checks : \/ c = settling \/ settled[c] # "no"
                    \/ \E v \in LaunchesOf(c) : rows[v].applied \in {"PASS", "FINAL"}

(* _unresolved_contact_reservations before an event. *)
UnresolvedBefore == {v \in Intents : rows[v].contact /\ rows[v].seen = "no" /\ disp[v] # "RELEASED"}

(* _validator_pause_checkpoint before an event, on the historical activity. *)
EligibleBefore(v) ==
  /\ rows[v].contact /\ rows[v].seen # "no" /\ rows[v].applied = "no"
  /\ rows[v].ceased = "after" /\ rows[v].halted = "result"
  /\ (rows[v].seen = "known" /\ rows[v].fresh) \/ rows[v].reconciled
  /\ Known(disp, v)

CheckpointBefore ==
  IF HistoricalValidators = {} THEN "IDLE"
  ELSE LET v == Max(HistoricalValidators)
       IN IF EligibleBefore(v) THEN "ELIGIBLE_RESULT_SETTLED"
          ELSE IF rows[v].contact THEN "CONTACTED_UNRESOLVED" ELSE "UNCONTACTED_UNRESOLVED"

-----------------------------------------------------------------------------
(* The fold of an event into its run. *)

(* An event continues the run's last state, leaves no terminal state and   *)
(* takes a route of its kind.                                              *)
Fold(eventKind, state) ==
  /\ kind' = eventKind /\ life' = state
  /\ life \in Terminal => state = life
  /\ <<life, state>> \in ValidationRoutes[eventKind]

(* An event whose cursor the reader derives ... *)
FoldAt(eventKind, state, cur) == Fold(eventKind, state) /\ cursor' = cur /\ head' = None

(* ... and one whose cursor it takes from the body. *)
FoldTaken(eventKind, state) == Fold(eventKind, state) /\ cursor' \in RunCursors /\ head' = None

(* An event that moves nothing. *)
FoldKept(eventKind) == FoldAt(eventKind, life, cursor)

-----------------------------------------------------------------------------
(* Launching a check. *)

GateFactRead(c, status) ==
  /\ FoldKept("VALIDATION_GATE_FACT_RECORDED")
  /\ gate' = [gate EXCEPT ![c] = status]
  /\ UNCHANGED <<closingVars, launchVars, budgetVars, pauses, fences>>

(* An evaluation of the check's gates and dependencies is taken as it is. *)
EvaluationRead(c) ==
  /\ Fold("VALIDATION_LAUNCH_EVALUATED", life)
  /\ cursor' \in RunCursors /\ head' = c
  /\ UNCHANGED <<gate, closingVars, launchVars, budgetVars, pauses, fences>>

(* So is the decision that a check is blocked. *)
BlockedRead ==
  /\ FoldTaken("VALIDATION_LAUNCH_BLOCKED", "BLOCKED")
  /\ UNCHANGED <<gate, closingVars, launchVars, budgetVars, pauses, fences>>

(* An intent cites a clear evaluation of its check (the writer cites none  *)
(* but the run's head) and the effect's observation.  Whether another      *)
(* launch is active or a fence stands is not asked.                        *)
IntentHistory(c) == head = c /\ receipt

IntentRead(c) ==
  LET v == launches + 1
  IN /\ FoldTaken("VALIDATOR_INTENT_COMMITTED", RECON)
     /\ v \in Launches
     /\ IntentHistory(c)
     /\ launches' = v
     /\ rows' = [rows EXCEPT ![v] = [Unread EXCEPT !.check = c, !.intent = "ACTIVE"]]
     /\ disp' = [disp EXCEPT ![v] = "RESERVED"]
     /\ UNCHANGED <<gate, closingVars, open, pauses, fences>>

(* A contact belongs to an intent. *)
ContactRead(v) ==
  /\ FoldTaken("ADAPTER_CONTACT_CLAIMED", "VALIDATING")
  /\ v \in Intents
  /\ rows' = [rows EXCEPT ![v].contact = TRUE]
  /\ UNCHANGED <<gate, closingVars, launches, budgetVars, pauses, fences>>

DisabledRead(v) ==
  /\ FoldTaken("VALIDATOR_INITIATION_DISABLED", "BLOCKED")
  /\ v \in Intents
  /\ fences' = fences \cup {Fence("INITIATION_DISABLED", v)}
  /\ UNCHANGED <<gate, closingVars, launchVars, budgetVars, pauses>>

-----------------------------------------------------------------------------
(* The settlement chains. *)

(* An additional liability is open until the unknown accounting becomes    *)
(* known or is released.                                                   *)
LiabilityAfter(r, next) ==
  IF ExpectedAdditionalLiability(disp[r], next) THEN "head"
  ELSE IF disp[r] = "UNKNOWN" /\ next = "UNKNOWN" /\ open[r] # "no" THEN "open" ELSE "no"

(* The chain of reservation r continues with next. *)
Chain(r, next) ==
  /\ next \in SettlementTransitions[disp[r]]
  /\ disp' = [disp EXCEPT ![r] = next]
  /\ open' = [open EXCEPT ![r] = LiabilityAfter(r, next)]

(* The fences the chain implies: the liability's own goes with it, however *)
(* many unknown settlements lie in between.                                *)
ChainFences(r, next) ==
  (IF disp[r] = "UNKNOWN" /\ next # "UNKNOWN" THEN fences \ {Fence("ADDITIONAL_LIABILITY", r)} ELSE fences)
  \cup Only(ExpectedAdditionalLiability(disp[r], next), Fence("ADDITIONAL_LIABILITY", r))
  \cup Only(disp[r] = "RELEASED" /\ next # "RELEASED", Fence("LATE_ACCOUNTING", r))

(* A later settlement is what an observation or a reconciliation would     *)
(* have to cite.                                                           *)
Superseded(v) == [rows[v] EXCEPT !.fresh = FALSE, !.reconciled = FALSE]

(* An observation yet to come may cite any settlement of its launch that   *)
(* cites the result: the head, or one behind it.                           *)
Behind(v) == rows[v].cited \cup Only(rows[v].seen = "no" /\ rows[v].fresh, CitedUsage(disp[v]))

Cited(v, citing) ==
  [Superseded(v) EXCEPT !.cited = Behind(v), !.fresh = citing /\ rows[v].seen = "no"]

(* BUDGET_SETTLED carries no lifecycle. *)
BudgetRead(r, next, citing) ==
  /\ kind' = "BUDGET_SETTLED" /\ head' = None
  /\ r # 0 => r \in Intents
  /\ next # "RELEASED" /\ Chain(r, next)
  /\ rows' = IF r = 0 THEN rows ELSE [rows EXCEPT ![r] = Cited(r, citing)]
  /\ fences' = ChainFences(r, next)
  /\ UNCHANGED <<life, cursor, gate, closingVars, launches, pauses>>

(* An unresumed pause names the launch. *)
PauseNames(v) ==
  \E i \in DOMAIN pauses :
    pauses[i].mode = "validation" /\ pauses[i].launch = v /\ Fence("PAUSE", i) \in fences

(* A claim that contradicts a result may settle nothing. *)
NonexecutionHistory(v, next, all) ==
  /\ v \in Intents /\ next \in {"RELEASED", "UNKNOWN"}
  /\ rows[v].seen # "no" => next # "RELEASED" /\ ~all
  /\ next = "RELEASED" => Fence("LATE_ACCOUNTING", v) \notin fences

(* The status the reader expects of the intent: settled by a complete      *)
(* claim, even by one of unknown accounting.                               *)
IntentAfterProof(v, all) ==
  IF all /\ rows[v].seen = "no" /\ life \notin {"FAILED_FINAL", "STOPPED"} THEN "SETTLED"
  ELSE rows[v].intent

ProofRow(v, next, all) ==
  LET certain == rows[v].seen = "no" /\ next # "UNKNOWN" /\ all
  IN [Cited(v, FALSE) EXCEPT
        !.proof = ProofAfter(rows[v].proof, certain, all),
        !.intent = IntentAfterProof(v, all)]

(* The disabled initiation a certain proof resolves. *)
ProofResolves(v, next, all) ==
  Only(/\ rows[v].seen = "no" /\ next # "UNKNOWN" /\ all
       /\ life \notin {"FAILED_FINAL", "STOPPED"}, Fence("INITIATION_DISABLED", v))

NonexecutionRead(v, next, all) ==
  LET contradiction == rows[v].seen # "no"
      route == ValidatorNonexecutionRoute(life, cursor, contradiction, next = "UNKNOWN",
                                          ActiveBefore(v), PauseNames(v))
  IN /\ FoldAt("NONDISPATCH_PROVEN", route[1], route[2])
     /\ NonexecutionHistory(v, next, all)
     /\ Chain(v, next)
     /\ rows' = [rows EXCEPT ![v] = ProofRow(v, next, all)]
     /\ fences' = (ChainFences(v, next) \ ProofResolves(v, next, all))
                  \cup Only(contradiction, Fence("NONEXECUTION_CONTRADICTION", v))
     /\ UNCHANGED <<gate, closingVars, launches, pauses>>

-----------------------------------------------------------------------------
(* Results. *)

(* A cessation, with or without a result, once. *)
CessationRead(v, halted) ==
  /\ FoldKept("VALIDATOR_CESSATION_RECORDED")
  /\ v \in Intents /\ rows[v].ceased = "no"
  /\ rows' = [rows EXCEPT ![v].halted = halted,
                          ![v].ceased = IF rows[v].seen = "no" THEN "before" ELSE "after"]
  /\ UNCHANGED <<gate, closingVars, launches, budgetVars, pauses, fences>>

(* One observation per intent, and the settlement it cites before it: the  *)
(* usage is unknown exactly when that settlement's is.                     *)
ObservationHistory(v, usage, current) ==
  /\ v \in Intents /\ rows[v].seen = "no"
  /\ IF current THEN rows[v].fresh /\ usage = CitedUsage(disp[v]) ELSE usage \in rows[v].cited

(* Only a result with usage and a cessation before it is certain. *)
ObservedRoute(v, usage) ==
  IF life \in Terminal \/ (usage = "known" /\ rows[v].ceased # "no") THEN life ELSE RECON

ObservedUncertainties(v, usage) ==
  Only(rows[v].ceased = "no", Fence("ACTIVITY", v)) \cup Only(usage = "unknown", Fence("BILLING", v))

ObservationRead(v, verdict, usage, current) ==
  /\ FoldAt("VALIDATOR_OBSERVATION_RECORDED", ObservedRoute(v, usage), cursor)
  /\ ObservationHistory(v, usage, current)
  /\ rows' = [rows EXCEPT ![v].seen = usage, ![v].verdict = verdict,
                          ![v].cited = {}, ![v].fresh = current]
  /\ fences' = fences \cup ObservedUncertainties(v, usage)
  /\ UNCHANGED <<gate, closingVars, launches, budgetVars, pauses>>

(* A denial gives one of two reasons: the run is not validating, or it is  *)
(* and the head of the launch's accounting is not known.                   *)
DenialHistory(v) ==
  /\ v \in Intents /\ rows[v].seen # "no" /\ disp[v] # "RESERVED"
  /\ life = "VALIDATING" => ~Known(disp, v)

DenialRead(v) ==
  /\ FoldKept("VALIDATION_APPLICATION_DENIED")
  /\ DenialHistory(v)
  /\ UNCHANGED <<gate, closingVars, launchVars, budgetVars, pauses, fences>>

ApplicationHistory(v, outcome) ==
  /\ life = "VALIDATING"
  /\ ActiveBefore(v) /\ rows[v].seen # "no"
  /\ (outcome = "PASS") = (rows[v].verdict = "PASS")

AnotherPending(c) == \E d \in Checks \ {c} : ~EverPassed(d)

(* The second event of a pass with a check pending: it names the next      *)
(* check, ready or not, and is taken at its word.                          *)
CheckRouteRead(d) ==
  \/ FoldAt("VALIDATION_CHECK_ROUTED", "VALIDATING", At("validation-check", d))
  \/ FoldAt("VALIDATION_CHECK_ROUTED", "BLOCKED", At("validation-route", d))

(* The route of an application. *)
ApplicationFold(c, outcome) ==
  \/ outcome = "PASS" /\ ~AnotherPending(c) /\ FoldAt("VALIDATION_PASSED", "BLOCKED", Finalizing)
  \/ outcome = "PASS" /\ AnotherPending(c) /\ \E d \in Checks \ {c} : CheckRouteRead(d)
  \/ outcome = "RECOVERABLE" /\ FoldAt("VALIDATION_FAILED", "BLOCKED", Revalidate)
  \/ outcome = "FINAL" /\ FoldAt("VALIDATION_FAILED", "FAILED_FINAL", Nowhere)

(* A final failure gives the slot back exactly when nothing is owed. *)
ApplicationReleases(v, outcome) ==
  /\ outcome = "FINAL" /\ slot
  /\ ~AnotherPending(rows[v].check)
  /\ \A w \in Intents \ {v} : ~ActiveBefore(w)
  /\ ClosedAtPrefix(disp, receipt, v, "VALIDATOR_OBSERVATION")

AppliedRow(v, outcome) == [rows[v] EXCEPT !.applied = outcome, !.intent = "SETTLED"]

ApplicationRead(v, outcome) ==
  /\ ApplicationFold(rows[v].check, outcome)
  /\ ApplicationHistory(v, outcome)
  /\ rows' = [rows EXCEPT ![v] = AppliedRow(v, outcome)]
  /\ slot' = (slot /\ ~ApplicationReleases(v, outcome))
  /\ fences' = fences \cup Only(outcome = "FINAL", Fence("FAILED_FINAL", 0))
  /\ UNCHANGED <<gate, receipt, settled, launches, budgetVars, pauses>>

(* Every check has passed at some time and nothing is active or owed; no   *)
(* fence is looked for.                                                    *)
FinalizationHistory ==
  /\ life = "BLOCKED" /\ cursor = Finalizing
  /\ \A c \in Checks : EverPassed(c)
  /\ NoneActive

FinalizationClosed == slot /\ ClosedAtPrefix(disp, receipt, 0, "no")

FinalizationRead ==
  /\ FoldAt("OPERATION_FINALIZED", "COMPLETED", Nowhere)
  /\ FinalizationHistory /\ FinalizationClosed
  /\ slot' = FALSE
  /\ UNCHANGED <<gate, receipt, settled, launchVars, budgetVars, pauses, fences>>

-----------------------------------------------------------------------------
(* Recoveries (BLOCKER_RESOLVED). *)

RecoveryClosed == slot /\ NoneActive /\ ClosedAtPrefix(disp, receipt, 0, "no")

(* The last application of its check failed and may be retried. *)
ValidationRecoveryHistory(v) ==
  /\ life = "BLOCKED" /\ cursor = Revalidate
  /\ v \in Intents /\ rows[v].applied = "RECOVERABLE" /\ ~rows[v].resolved
  /\ \A w \in LaunchesOf(rows[v].check) : w > v => rows[w].applied = "no"

RecoveryUnfenced == InScope(fences) = {}

(* The launch of a settled pause did not run or was interrupted; no fence  *)
(* is looked for.                                                          *)
PauseRecoveryHistory(v) ==
  /\ life = "BLOCKED" /\ v \in Intents /\ ~rows[v].resolved
  /\ \E how \in {"NONLAUNCH", "INTERRUPTION_CESSATION"} :
       ResolvedByPause(v, {how}) /\ cursor = SettledCursor(v, how)

RecoveryRead(v) ==
  /\ FoldAt("BLOCKER_RESOLVED", "VALIDATING", At("validation-recovery", v))
  /\ (ValidationRecoveryHistory(v) /\ RecoveryUnfenced) \/ PauseRecoveryHistory(v)
  /\ RecoveryClosed
  /\ rows' = [rows EXCEPT ![v].resolved = TRUE]
  /\ UNCHANGED <<gate, closingVars, launches, budgetVars, pauses, fences>>

(* The run rests on a decision about check c. *)
LaunchRecoveryHistory(c) ==
  /\ life = "BLOCKED"
  /\ \/ cursor \in {At("validation-launch", c), At("validation-route", c)}
     \/ cursor.kind = "validator-initiation-disabled" /\ cursor.of \in LaunchesOf(c)

LaunchRecoveryRead(c) ==
  /\ FoldAt("BLOCKER_RESOLVED", "VALIDATING", At("validation-check", c))
  /\ LaunchRecoveryHistory(c)
  /\ UNCHANGED <<gate, closingVars, launchVars, budgetVars, pauses, fences>>

-----------------------------------------------------------------------------
(* Pauses and their resumption. *)

PauseRow(row, why) ==
  /\ pauses' = Append(pauses, row)
  /\ fences' = fences \cup {Fence(why, Len(pauses) + 1)}
  /\ UNCHANGED <<gate, closingVars>>

(* The pause's own unknown settlement of a contacted launch. *)
PauseCharge(row) ==
  IF row.at = "CONTACTED_UNRESOLVED" /\ disp[row.launch] = "RESERVED"
  THEN Chain(row.launch, "UNKNOWN") /\ rows' = [rows EXCEPT ![row.launch] = Cited(row.launch, FALSE)]
  ELSE UNCHANGED <<budgetVars, rows>>

(* The checkpoint is derived again from the history. *)
ValidationPauseRead ==
  LET at  == CheckpointBefore
      row == [mode |-> "validation", at |-> at, launch |-> Max(HistoricalValidators \cup {0}),
              kept |-> cursor, settled |-> "no",
              to |-> IF at \in {"IDLE", "ELIGIBLE_RESULT_SETTLED"} THEN "PAUSED" ELSE RECON]
  IN /\ FoldAt("VALIDATION_PAUSE_CHECKPOINTED", row.to, cursor)
     /\ ActivityDerivable
     /\ life \in {"VALIDATING", RECON}
     /\ PauseCharge(row)
     /\ PauseRow(row, "PAUSE")
     /\ UNCHANGED launches

(* A pause of an active launch names it. *)
ActivePauseRead(v) ==
  /\ FoldAt("VALIDATION_PAUSE_CHECKPOINTED", "PAUSING", cursor)
  /\ v \in Intents /\ rows[v].contact
  /\ PauseRow([mode |-> "active", at |-> "CONTACTED_UNRESOLVED", launch |-> v, kept |-> cursor,
               to |-> "PAUSING", settled |-> "no"], "PAUSE")
  /\ UNCHANGED <<launchVars, budgetVars>>

ReconciliationPauseRead ==
  /\ FoldAt("PAUSE_FENCE_RECORDED", RECON, cursor)
  /\ PauseRow(ReconciliationPauseRow(cursor), "RECONCILIATION_PAUSE")
  /\ UNCHANGED <<launchVars, budgetVars>>

(* How a pause may settle, by what is on record about its launch. *)
PauseEvidence(v, how) ==
  CASE how = "NONLAUNCH" -> disp[v] = "RELEASED" /\ rows[v].proof = "certain"
    [] how = "RESULT_CESSATION" ->
         /\ Known(disp, v) /\ rows[v].seen # "no" /\ rows[v].fresh
         /\ rows[v].ceased # "no" /\ rows[v].halted = "result"
    [] how = "INTERRUPTION_CESSATION" ->
         Known(disp, v) /\ rows[v].ceased # "no" /\ rows[v].halted = "interrupted"

PauseSettlementHistory(n, how) ==
  /\ n \in DOMAIN pauses /\ pauses[n].settled = "no" /\ pauses[n].launch # 0
  /\ pauses[n].mode = "active" \/ (pauses[n].mode = "validation" /\ how = "NONLAUNCH")
  /\ PauseEvidence(pauses[n].launch, how)

PauseSettlementRead(n, how) ==
  LET v == pauses[n].launch
  IN /\ FoldAt("PAUSE_SETTLED", "PAUSED", SettledCursor(v, how))
     /\ PauseSettlementHistory(n, how)
     /\ pauses' = [pauses EXCEPT ![n].settled = how]
     /\ rows' = IF how = "RESULT_CESSATION" THEN rows ELSE [rows EXCEPT ![v].intent = "SETTLED"]
     /\ UNCHANGED <<gate, closingVars, launches, budgetVars, fences>>

(* A pause's fence goes when its run resumes. *)
Unfenced(why, n) ==
  /\ Fence(why, n) \in fences
  /\ fences' = fences \ {Fence(why, n)}
  /\ UNCHANGED <<gate, closingVars, launchVars, budgetVars, pauses>>

(* After a settled pause the resulting state is the one the event names. *)
SettledPauseResumed(n) ==
  /\ \E state \in {"VALIDATING", "BLOCKED", "PAUSED"} : FoldTaken("RESUME_ACCEPTED", state)
  /\ n \in DOMAIN pauses /\ pauses[n].settled # "no"
  /\ Unfenced("PAUSE", n)

(* The blockers of an ordinary resume, computed again. *)
BlockersBefore(n) ==
  LET kept == pauses[n].kept
  IN Only(InScope(HistoricalFences) \ {Fence("PAUSE", n)} # {}, "NON_PAUSE_FENCE_PRESENT")
     \cup Only(\/ kept = Revalidate /\ \E v \in Intents : rows[v].applied = "RECOVERABLE"
               \/ kept.kind \in {"FINALIZING", "validation-recovery"}, "T16_OBLIGATION_PENDING")

ResumeHistory(n) ==
  /\ n \in DOMAIN pauses /\ pauses[n].mode = "validation" /\ pauses[n].to = "PAUSED"
  /\ ActivityDerivable
  /\ CheckpointBefore \in {"IDLE", "ELIGIBLE_RESULT_SETTLED"} /\ UnresolvedBefore = {}

ResumeRead(n) ==
  LET state == ValidationResumeRoute(pauses[n].kept, BlockersBefore(n))
  IN /\ FoldAt("RESUME_ACCEPTED", state, pauses[n].kept)
     /\ ResumeHistory(n) /\ state # Denied
     /\ Unfenced("PAUSE", n)

-----------------------------------------------------------------------------
(* Reconciliations. *)

UncertaintiesAbout(v) == {f \in fences : f.why \in {"ACTIVITY", "BILLING"} /\ f.n = v}

RouteAtPrefix(fs) ==
  ReconciliationRoute(fs, \E r \in Reservations : open[r] # "no",
                      \E v \in Intents : rows[v].applied = "RECOVERABLE" /\ ~rows[v].resolved)

ReconciliationHistory(v) ==
  /\ life = RECON /\ slot /\ v \in Intents
  /\ rows[v].seen # "no" /\ rows[v].applied = "no"
  /\ rows[v].ceased # "no" /\ rows[v].halted = "result" /\ Known(disp, v)
  /\ UncertaintiesAbout(v) # {}

(* The result's uncertainties, all resolved at once. *)
ReconciledRow(v) ==
  /\ rows' = [rows EXCEPT ![v].reconciled = TRUE]
  /\ fences' = fences \ UncertaintiesAbout(v)

ReconciliationRead(v) ==
  LET state == RouteAtPrefix(fences \ UncertaintiesAbout(v))
  IN /\ FoldAt("RECONCILIATION_RECORDED", state,
               IF state \in {"PAUSED", "VALIDATING"} THEN At("validation-application", v) ELSE cursor)
     /\ ReconciliationHistory(v)
     /\ ReconciledRow(v)
     /\ UNCHANGED <<gate, closingVars, launches, budgetVars, pauses>>

(* The pause came before the reconciliation that left the run paused. *)
ReconciliationResumeHistory(n) ==
  /\ n \in DOMAIN pauses /\ pauses[n].mode = "reconciliation"
  /\ life = "PAUSED" /\ cursor.kind = "validation-application" /\ rows[cursor.of].reconciled

ReconciliationPauseResumed(n) ==
  LET route == RouteAtPrefix(fences \ {Fence("RECONCILIATION_PAUSE", n)})
  IN /\ FoldAt("RECONCILIATION_PAUSE_RESUMED",
               IF route \in {"VALIDATING", "PAUSED"} THEN route ELSE "BLOCKED", cursor)
     /\ ReconciliationResumeHistory(n)
     /\ Unfenced("RECONCILIATION_PAUSE", n)

-----------------------------------------------------------------------------
(* The end of a run. *)

(* A stop charges no contact, or every unresolved one that is still held. *)
StopRead ==
  \E charged \in {{}, {v \in UnresolvedBefore : disp[v] = "RESERVED"}} :
    /\ FoldAt("STOP_RECORDED", "STOPPED", cursor)
    /\ disp' = [r \in Reservations |-> IF r \in charged THEN "UNKNOWN" ELSE disp[r]]
    /\ rows' = [v \in Launches |-> IF v \in charged THEN Cited(v, FALSE) ELSE rows[v]]
    /\ fences' = fences \cup {Fence("STOPPED_RUN", 0)}
    /\ UNCHANGED <<gate, closingVars, launches, open, pauses>>

(* A terminal settlement directly follows an event that carries the run's  *)
(* terminal state.                                                         *)
FollowsTerminalHistory == life \in {"STOPPED", "FAILED_FINAL"} /\ kind # "BUDGET_SETTLED"

(* A check is settled once, under the fence of the run's end. *)
TerminalObligation(c) ==
  /\ settled[c] = "no"
  /\ Fence(IF life = "STOPPED" THEN "STOPPED_RUN" ELSE life, 0) \in fences

(* What each source must have on record about the check's last launch. *)
SourceOnRecord(v, source) ==
  CASE source = "PLAN" -> v = 0
    [] source = "VALIDATION_APPLICATION" -> v # 0 /\ rows[v].applied # "no"
    [] source = "VALIDATOR_OBSERVATION" ->
         v # 0 /\ rows[v].seen # "no" /\ rows[v].applied = "no" /\ rows[v].halted = "result"
    [] source = "VALIDATOR_CESSATION" -> v # 0 /\ rows[v].applied = "no" /\ rows[v].ceased # "no"
    [] source = "VALIDATOR_NONEXECUTION" -> v # 0 /\ rows[v].applied = "no" /\ ProvedNotRun(v)

(* _terminal_release_error is None. *)
TerminalReleases(c, v, source) ==
  /\ ChecksSettledAtPrefix(c)
  /\ ClosedAtPrefix(disp, receipt, IF source = "VALIDATION_APPLICATION" THEN 0 ELSE v, source)

TerminalRow(c, source) ==
  /\ settled' = [settled EXCEPT ![c] = source]
  /\ rows' = IF LatestLaunch(c) = 0 THEN rows ELSE [rows EXCEPT ![LatestLaunch(c)].intent = "SETTLED"]

TerminalRead(c, source) ==
  LET v == LatestLaunch(c)
  IN /\ FoldKept("TERMINAL_VALIDATION_SETTLED")
     /\ FollowsTerminalHistory /\ TerminalObligation(c) /\ SourceOnRecord(v, source)
     /\ TerminalRow(c, source)
     /\ slot' = (slot /\ ~TerminalReleases(c, v, source))
     /\ UNCHANGED <<gate, receipt, launches, budgetVars, pauses, fences>>

(* _late_observation_release_error is None. *)
ReceiptReleases(d) == slot /\ ChecksSettledAtPrefix(None) /\ ClosedAtPrefix(d, TRUE, 0, "no")

LateReceiptRead(next) ==
  /\ FoldKept("LATE_RECEIPT_RECORDED")
  /\ ~receipt /\ life \in Terminal
  /\ receipt' = TRUE
  /\ Chain(0, next)
  /\ fences' = ChainFences(0, next) \cup Only(next = "UNKNOWN", Fence("BILLING", 0))
  /\ slot' = (slot /\ ~ReceiptReleases(disp'))
  /\ UNCHANGED <<gate, settled, launchVars, pauses>>

(* An event of another run.  Event numbers are counted run by run, and a   *)
(* recovery of this run is read as if every fence in its scope whose event *)
(* has a smaller number had come before it: only when there is no such     *)
(* recovery is a new one surely accepted.                                  *)
OtherRunRead(scope) ==
  /\ UNCHANGED <<life, cursor, kind, head, gate, closingVars, launchVars, budgetVars, pauses>>
  /\ \/ fences' = fences \ {Fence(scope, 0)}
     \/ /\ fences' = fences \cup {Fence(scope, 0)}
        /\ scope # "OTHER_ITEM" =>
             \A v \in Intents : rows[v].resolved => rows[v].applied # "RECOVERABLE"

-----------------------------------------------------------------------------
CheckRead(c) ==
  \/ \E status \in {"PASS", "FAIL"} : GateFactRead(c, status)
  \/ EvaluationRead(c) \/ IntentRead(c) \/ LaunchRecoveryRead(c)
  \/ \E source \in SettlementSources : TerminalRead(c, source)

LaunchRead(v) ==
  \/ ContactRead(v) \/ DisabledRead(v)
  \/ \E next \in Dispositions, all \in BOOLEAN : NonexecutionRead(v, next, all)
  \/ \E halted \in {"result", "interrupted"} : CessationRead(v, halted)
  \/ \E verdict \in {"PASS", "FAIL"}, usage \in {"known", "unknown"}, current \in BOOLEAN :
       ObservationRead(v, verdict, usage, current)
  \/ DenialRead(v) \/ RecoveryRead(v) \/ ReconciliationRead(v) \/ ActivePauseRead(v)
  \/ \E outcome \in {"PASS", "RECOVERABLE", "FINAL"} : ApplicationRead(v, outcome)

PauseRead(n) ==
  \/ \E how \in {"NONLAUNCH", "RESULT_CESSATION", "INTERRUPTION_CESSATION"} : PauseSettlementRead(n, how)
  \/ SettledPauseResumed(n) \/ ResumeRead(n) \/ ReconciliationPauseResumed(n)

RunRead ==
  \/ BlockedRead \/ FinalizationRead \/ ValidationPauseRead \/ ReconciliationPauseRead \/ StopRead
  \/ \E r \in Reservations, next \in Dispositions, citing \in BOOLEAN : BudgetRead(r, next, citing)
  \/ \E next \in {"ADJUSTED", "UNKNOWN"} : LateReceiptRead(next)
  \/ \E scope \in OtherScopes : OtherRunRead(scope)

Next ==
  \/ RunRead
  \/ \E c \in Checks : CheckRead(c)
  \/ \E v \in Launches : LaunchRead(v)
  \/ \E n \in DOMAIN pauses : PauseRead(n)
=============================================================================
