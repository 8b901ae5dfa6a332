-------------------------- MODULE ValidationKernel --------------------------
(***************************************************************************)
(* The validation side of the delivery control plane: what happens to a    *)
(* run once its effect has a receipt.  The checks of the accepted plan are *)
(* launched one at a time as validators (storage.py, dispatch.py), each    *)
(* with its own durable intent, reservation, contact, result, cessation    *)
(* and application, until the run completes, fails or is stopped; a run    *)
(* that has ended settles what is left, check by check, and only then      *)
(* gives its slot back.                                                    *)
(*                                                                         *)
(* As in OperationKernel a store operation is one action, and the process  *)
(* that launches a validator holds no lock between commit, contact and     *)
(* result; one that dies takes no further step.  There is one run with one *)
(* effect.  It starts either where its receipt was just accepted, or       *)
(* stopped with the receipt still to come.  Launches are numbered in the   *)
(* order of their intents; reservation 0 is the effect's own.  A launch    *)
(* gate stands for all gates of its check.                                 *)
(***************************************************************************)
EXTENDS ValidationStore

VARIABLES
  life,     \* runs.lifecycle_state
  cursor,   \* runs.continuation_cursor
  kind,     \* kind of the run's last event
  slot,     \* does the run own the outstanding slot
  receipt,  \* is the effect's observation recorded
  gate,     \* status of each check's launch gate
  facts,    \* gate facts and fences of other runs so far
  head,     \* check whose clear launch evaluation is the run's head
  launches, \* number of validator intents
  val,      \* validator_intents with what is recorded about each
  disp,     \* budget_reservations.disposition
  open,     \* is an additional liability unresolved
  asked,    \* settlements operators have asked for
  settled,  \* terminal_validation_settlements: the source of each
  pauses,   \* the pauses of the run, in order
  fences,   \* dispatch_fences
  proc,     \* the process launching each validator
  target    \* what the validator target holds about each launch

runVars     == <<life, cursor, kind, head>>
gateVars    == <<gate, facts>>
launchVars  == <<launches, val>>
budgetVars  == <<disp, open, asked>>
closingVars == <<slot, receipt, settled>>
vars == <<runVars, gateVars, launchVars, budgetVars, closingVars, pauses, fences, proc, target>>

Untouched == [result |-> "none", billed |-> FALSE, halted |-> "no", sealed |-> FALSE]

TypeOK ==
  /\ life \in LifecycleStates
  /\ cursor \in RunCursors
  /\ kind \in DOMAIN ValidationRoutes \cup {"RECEIPT_RECORDED", "BUDGET_SETTLED"}
  /\ slot \in BOOLEAN /\ receipt \in BOOLEAN
  /\ gate \in [Checks -> {"UNKNOWN", "PASS", "FAIL"}]
  /\ facts \in 0..MaxFacts
  /\ head \in Checks \cup {None}
  /\ launches \in 0..MaxLaunches
  /\ val \in [Launches -> LaunchRows]
  /\ disp \in [Reservations -> Dispositions \cup {"NONE"}]
  /\ open \in [Reservations -> {"no", "head", "open"}]
  /\ asked \in 0..MaxSettlements
  /\ settled \in [Checks -> SettlementSources \cup {"no"}]
  /\ pauses \in Seq(PauseRows) /\ Len(pauses) <= MaxPauses
  /\ fences \subseteq [why : FenceReasons, n : Nat]
  /\ proc \in [Launches -> {"idle", "committed", "contacted"}]
  /\ target \in [Launches -> [result : {"none", "PASS", "FAIL"}, billed : BOOLEAN,
                              halted : {"no", "result", "interrupted"}, sealed : BOOLEAN]]

(* The run as the operation kernel leaves it: its receipt accepted with    *)
(* known accounting, or stopped while the effect was still unaccounted     *)
(* for.                                                                    *)
Init ==
  /\ \/ life = "VALIDATING" /\ receipt = TRUE /\ fences = {}
     \/ life = "STOPPED" /\ receipt = FALSE /\ fences = {Fence("STOPPED_RUN", 0)}
  /\ disp = [r \in Reservations |-> IF r # 0 THEN "NONE" ELSE IF receipt THEN "CONSUMED" ELSE "UNKNOWN"]
  /\ cursor = Nowhere /\ slot = TRUE
  /\ kind = IF receipt THEN "RECEIPT_RECORDED" ELSE "STOP_RECORDED"
  /\ gate = GateAtStart /\ facts = 0
  /\ head = None
  /\ launches = 0
  /\ val = [v \in Launches |-> Unlaunched]
  /\ open = [r \in Reservations |-> "no"] /\ asked = 0
  /\ settled = [c \in Checks |-> "no"]
  /\ pauses = << >>
  /\ proc = [v \in Launches |-> "idle"]
  /\ target = [v \in Launches |-> Untouched]

-----------------------------------------------------------------------------
(* Reading the store. *)

Intents == {v \in Launches : val[v].intent # "none"}

Active == {v \in Launches : val[v].intent = "ACTIVE"}

LaunchesOf(c) == {v \in Intents : val[v].check = c}

(* _latest_validation_application: the launch, and its verdict. *)
LastApplied(c) == Max({v \in LaunchesOf(c) : val[v].applied # "no"} \cup {0})

LatestApplication(c) == IF LastApplied(c) = 0 THEN "none" ELSE val[LastApplied(c)].applied

Passed(c) == LatestApplication(c) = "PASS"

(* The first check, other than those excepted, that has not passed. *)
NextCheck(except) ==
  LET pending == {i \in DOMAIN CheckOrder : CheckOrder[i] \notin except /\ ~Passed(CheckOrder[i])}
  IN IF pending = {} THEN None ELSE CheckOrder[Min(pending)]

(* _validation_launch_vectors: is every dependency passed, with those      *)
(* about to pass, and the check's gate open?                               *)
LaunchReady(c, passing) ==
  gate[c] = "PASS" /\ \A d \in DependsOn[c] : Passed(d) \/ d \in passing

(* _unresolved_contact_reservations *)
UnresolvedContacts == {v \in Intents : val[v].contact /\ val[v].seen = "no" /\ disp[v] # "RELEASED"}

(* Was launch v settled by a terminal settlement of its check? *)
TerminallySettled(v, source) ==
  settled[val[v].check] = source /\ v = Max(LaunchesOf(val[v].check))

Interrupted(v) ==
  \E i \in DOMAIN pauses : pauses[i].launch = v /\ pauses[i].settled = "INTERRUPTION_CESSATION"

(* What must be on record about a launch before its run is closed, given   *)
(* the source that is settling it, if any.                                 *)
EvidenceClosed(v, source) ==
  IF val[v].seen = "no"
  THEN \/ source = "VALIDATOR_CESSATION" \/ TerminallySettled(v, "VALIDATOR_CESSATION")
       \/ Interrupted(v) \/ val[v].proof = "certain"
  ELSE \/ val[v].applied # "no" \/ source = "VALIDATOR_OBSERVATION"
       \/ TerminallySettled(v, "VALIDATOR_OBSERVATION")

(* _accounting_closure_error is None: the effect is observed, every        *)
(* reservation of the run is authoritative, and every launch is settled    *)
(* with evidence.                                                          *)
AccountingClosed(d, observed, settling, source) ==
  /\ observed
  /\ \A r \in Reservations : d[r] # "NONE" =>
       Known(d, r) \/ (r # 0 /\ d[r] = "RELEASED" /\ val[r].proof = "certain")
  /\ \A v \in Intents :
       /\ val[v].intent = "SETTLED" \/ v = settling
       /\ EvidenceClosed(v, IF v = settling THEN source ELSE "no")

(* _validation_checks_settled *)
ChecksSettled(settling) ==
  \A c \in Checks : \/ c \in settling \/ settled[c] # "no"
                    \/ \E v \in LaunchesOf(c) : val[v].applied \in {"PASS", "FINAL"}

(* ELIGIBLE_RESULT_SETTLED of _validator_pause_checkpoint: the result is   *)
(* recorded, its cessation came after it and its accounting is the head.   *)
Eligible(v) ==
  /\ val[v].contact /\ val[v].seen # "no" /\ val[v].applied = "no"
  /\ val[v].ceased = "after" /\ target[v].halted = "result"
  /\ (val[v].seen = "known" /\ val[v].fresh) \/ val[v].reconciled
  /\ Known(disp, v)

(* _validator_pause_checkpoint *)
Checkpoint ==
  IF Active = {} THEN "IDLE"
  ELSE LET v == Max(Active)
       IN IF Eligible(v) THEN "ELIGIBLE_RESULT_SETTLED"
          ELSE IF val[v].contact THEN "CONTACTED_UNRESOLVED" ELSE "UNCONTACTED_UNRESOLVED"

-----------------------------------------------------------------------------
(* Writing the store. *)

(* Append a lifecycle event; whatever was the head no longer is. *)
Record(eventKind, state, cur) ==
  /\ life' = state /\ cursor' = cur /\ kind' = eventKind
  /\ head' = None

(* Append an event that leaves the run's state and cursor alone. *)
Note(eventKind) == Record(eventKind, life, cursor)

(* Append a settlement, which says nothing of the run's state. *)
Unmoved == kind' = "BUDGET_SETTLED" /\ head' = None /\ UNCHANGED <<life, cursor>>

(* Append nothing to the run. *)
NoEvent == UNCHANGED <<life, cursor, kind>>

(* Append a settlement to reservation r, which may cite the result of its  *)
(* launch as evidence; older settlements are no longer the head.           *)
OpenAfter(r, next) ==
  IF ExpectedAdditionalLiability(disp[r], next) THEN "head"
  ELSE IF disp[r] = "UNKNOWN" /\ next = "UNKNOWN" /\ open[r] # "no" THEN "open" ELSE "no"

Settlement(r, next) ==
  /\ disp' = [disp EXCEPT ![r] = next]
  /\ open' = [open EXCEPT ![r] = OpenAfter(r, next)]

(* What the settlements of launch v say of its result once one more is     *)
(* appended.  Until the result is observed any of them may be cited.       *)
Cites(v, citing) ==
  IF val[v].seen = "no"
  THEN [val[v] EXCEPT !.cited = @ \cup Only(val[v].fresh, CitedUsage(disp[v])),
                      !.fresh = citing, !.reconciled = FALSE]
  ELSE [val[v] EXCEPT !.fresh = FALSE, !.reconciled = FALSE]

(* The fences a settlement deletes and raises. *)
FencesAfter(r, next) ==
  (IF disp[r] = "UNKNOWN" /\ open[r] = "head" /\ next # "UNKNOWN"
   THEN fences \ {Fence("ADDITIONAL_LIABILITY", r)} ELSE fences)
  \cup Only(ExpectedAdditionalLiability(disp[r], next), Fence("ADDITIONAL_LIABILITY", r))
  \cup Only(disp[r] = "RELEASED" /\ next # "RELEASED", Fence("LATE_ACCOUNTING", r))

-----------------------------------------------------------------------------
(* Launching a check. *)

(* record_validation_gate_fact: in any state of the run.  The evidence an  *)
(* uncontacted launch was prepared with is no longer current.              *)
RecordGateFact(c, status) ==
  /\ facts < MaxFacts
  /\ facts' = facts + 1
  /\ gate' = [gate EXCEPT ![c] = status]
  /\ val' = [v \in Launches |-> IF v \in Active /\ val[v].check = c /\ ~val[v].contact
                                 THEN [val[v] EXCEPT !.stale = TRUE] ELSE val[v]]
  /\ Note("VALIDATION_GATE_FACT_RECORDED")
  /\ UNCHANGED <<launches, budgetVars, closingVars, pauses, fences, proc, target>>

(* The check prepare_validation_launch (T27) may evaluate. *)
Preparable(c) == life = "VALIDATING" /\ c = NextCheck({})

(* ... its evaluation, when the check is ready: it stays the run's head    *)
(* until anything else is appended ...                                     *)
EvaluateLaunch(c) ==
  /\ Preparable(c) /\ LaunchReady(c, {})
  /\ cursor' = IF cursor.kind = "validation-recovery" THEN cursor ELSE At("validation-check", c)
  /\ kind' = "VALIDATION_LAUNCH_EVALUATED" /\ head' = c
  /\ UNCHANGED <<life, gateVars, launchVars, budgetVars, closingVars, pauses, fences, proc, target>>

(* ... and its decision, when it is not. *)
BlockLaunch(c) ==
  /\ Preparable(c) /\ ~LaunchReady(c, {})
  /\ Authorized("T27", life, "BLOCKED")
  /\ Record("VALIDATION_LAUNCH_BLOCKED", "BLOCKED", At("validation-launch", c))
  /\ UNCHANGED <<gateVars, launchVars, budgetVars, closingVars, pauses, fences, proc, target>>

(* Which cursors let check c be launched: its own, or the recovery of the  *)
(* launch it retries.                                                      *)
CursorAllows(c) ==
  LET recovers == /\ cursor.kind = "validation-recovery"
                  /\ cursor.of \in LaunchesOf(c)
  IN \/ /\ LatestApplication(c) = "none"
        /\ \/ cursor \in {Nowhere, Revalidate, At("validation-check", c)}
           \/ recovers /\ val[cursor.of].applied = "no"
     \/ LatestApplication(c) = "RECOVERABLE" /\ recovers /\ val[cursor.of].applied = "RECOVERABLE"

(* The launch snapshot is the run's head and what it saw still holds. *)
SnapshotCurrent(c) == head = c /\ LaunchReady(c, {})

(* A variant with a bug: an active predecessor does not matter. *)
LaunchPermittedAnyway(c) ==
  /\ life = "VALIDATING" /\ slot /\ receipt
  /\ c = NextCheck({}) /\ CursorAllows(c)
  /\ fences = {}
  /\ SnapshotCurrent(c)

(* What commit_validator_intent requires; a fence of any scope refuses it. *)
LaunchPermitted(c) ==
  /\ life = "VALIDATING" /\ slot /\ receipt
  /\ c = NextCheck({}) /\ CursorAllows(c)
  /\ Active = {}
  /\ fences = {}
  /\ SnapshotCurrent(c)

(* commit_validator_intent: the reservation, the intent, and the process   *)
(* that goes on to contact the target.                                     *)
CommitValidator(c) ==
  LET v == launches + 1
  IN /\ launches < MaxLaunches
     /\ LaunchPermitted(c)
     /\ launches' = v
     /\ val' = [val EXCEPT ![v] = [Unlaunched EXCEPT !.check = c, !.intent = "ACTIVE"]]
     /\ disp' = [disp EXCEPT ![v] = "RESERVED"]
     /\ proc' = [proc EXCEPT ![v] = "committed"]
     /\ Record("VALIDATOR_INTENT_COMMITTED", RECON, At("validator-intent", v))
     /\ UNCHANGED <<gateVars, open, asked, closingVars, pauses, fences, target>>

(* A second contact of the same launch is told so and changes nothing. *)
FirstContact(v) == ~val[v].contact

(* The run still waits for this very contact: nothing has moved it, the    *)
(* reservation is untouched and the slot is held.                          *)
AwaitsContact(v) ==
  /\ life = RECON /\ cursor = At("validator-intent", v)
  /\ disp[v] = "RESERVED" /\ slot

(* What _contact_committed_validator requires before it looks at the       *)
(* launch evidence and the fences.                                         *)
Contactable(v) ==
  /\ proc[v] = "committed"
  /\ val[v].intent = "ACTIVE" /\ FirstContact(v)
  /\ AwaitsContact(v)

(* Has what the launch snapshot saw changed since the intent? *)
LaunchStale(v) == val[v].stale

(* _claim_adapter_contact: the claim is durable before the target is       *)
(* called; the reservation stays held.                                     *)
ClaimContact(v) ==
  /\ val' = [val EXCEPT ![v].contact = TRUE]
  /\ proc' = [proc EXCEPT ![v] = "contacted"]
  /\ Record("ADAPTER_CONTACT_CLAIMED", "VALIDATING", Nowhere)
  /\ UNCHANGED <<gateVars, launches, budgetVars, closingVars, pauses, fences, target>>

(* _contact_committed_validator *)
Contact(v) ==
  /\ Contactable(v)
  /\ ~LaunchStale(v) /\ InScope(fences) = {}
  /\ ClaimContact(v)

(* _record_validator_initiation_disabled: the evidence changed in between. *)
DisableInitiation(v) ==
  /\ Contactable(v)
  /\ LaunchStale(v)
  /\ fences' = fences \cup {Fence("INITIATION_DISABLED", v)}
  /\ proc' = [proc EXCEPT ![v] = "idle"]
  /\ Record("VALIDATOR_INITIATION_DISABLED", "BLOCKED", At("validator-initiation-disabled", v))
  /\ UNCHANGED <<gateVars, launchVars, budgetVars, closingVars, pauses, target>>

-----------------------------------------------------------------------------
(* The launching process and the validator target. *)

(* contact() of _execute_committed: refused once the claim is sealed, has  *)
(* ceased or has a result.                                                 *)
Produce(v, verdict, billed) ==
  /\ proc[v] = "contacted"
  /\ target[v] = Untouched
  /\ target' = [target EXCEPT ![v].result = verdict, ![v].billed = billed]
  /\ proc' = [proc EXCEPT ![v] = "idle"]
  /\ NoEvent
  /\ UNCHANGED <<head, gateVars, launchVars, budgetVars, closingVars, pauses, fences>>

(* seal_nonexecution: once, and never after a result. *)
SealNonexecution(v) ==
  /\ v \in Intents /\ target[v].result = "none" /\ ~target[v].sealed
  /\ target' = [target EXCEPT ![v].sealed = TRUE]
  /\ NoEvent
  /\ UNCHANGED <<head, gateVars, launchVars, budgetVars, closingVars, pauses, fences, proc>>

(* seal_cessation: once, and it says whether there is a result. *)
SealCessation(v) ==
  /\ v \in Intents /\ target[v].halted = "no"
  /\ target' = [target EXCEPT ![v].halted = IF target[v].result = "none" THEN "interrupted"
                                            ELSE "result"]
  /\ NoEvent
  /\ UNCHANGED <<head, gateVars, launchVars, budgetVars, closingVars, pauses, fences, proc>>

-----------------------------------------------------------------------------
(* Accounting, cessation and results. *)

(* An operator asks for a settlement. *)
Ask == asked < MaxSettlements /\ asked' = asked + 1

(* settle_budget of a launch without a claim of non-dispatch; a known      *)
(* settlement that cites the result states the usage the result states.    *)
SettleValidator(v, next, citing) ==
  /\ v \in Intents
  /\ next \in SettlementTransitions[disp[v]] \ {"RELEASED"}
  /\ citing => target[v].result # "none" /\ (next # "UNKNOWN" => target[v].billed)
  /\ Ask
  /\ Settlement(v, next)
  /\ val' = [val EXCEPT ![v] = Cites(v, citing)]
  /\ fences' = FencesAfter(v, next)
  /\ Unmoved
  /\ UNCHANGED <<gateVars, launches, closingVars, pauses, proc, target>>

(* settle_budget of the effect's own reservation. *)
SettleOperation(next) ==
  /\ next \in SettlementTransitions[disp[0]] \ {"RELEASED"}
  /\ Ask
  /\ Settlement(0, next)
  /\ fences' = FencesAfter(0, next)
  /\ Unmoved
  /\ UNCHANGED <<gateVars, launchVars, closingVars, pauses, proc, target>>

(* Does an unresolved pause of the run name launch v? *)
PausedAt(v) ==
  \E i \in DOMAIN pauses :
    pauses[i].mode = "validation" /\ pauses[i].launch = v /\ Fence("PAUSE", i) \in fences

(* _local_nonexecution_contradiction: is there a result on record? *)
Contradicted(v) == val[v].seen # "no"

(* What settle_budget requires of a claim that launch v never ran: the     *)
(* target's seal once it was contacted, and no result on record unless the *)
(* claim settles nothing.                                                  *)
ValidatorNonexecutionPermitted(v, next, all) ==
  /\ v \in Intents
  /\ next \in SettlementTransitions[disp[v]] \cap {"RELEASED", "UNKNOWN"}
  /\ val[v].contact => target[v].sealed
  /\ Contradicted(v) => next # "RELEASED" /\ ~all
  /\ next = "RELEASED" => Fence("LATE_ACCOUNTING", v) \notin fences   \* never released before

(* settle_budget with non_dispatch_proven (T25), for a launch. *)
ProveNonexecution(v, next, all) ==
  LET contradiction == Contradicted(v)
      route == ValidatorNonexecutionRoute(life, cursor, contradiction, next = "UNKNOWN",
                                          v \in Active, PausedAt(v))
      certain == ~contradiction /\ next # "UNKNOWN" /\ all
      closes == certain /\ life \notin {"FAILED_FINAL", "STOPPED"}
      proven == [Cites(v, FALSE) EXCEPT !.proof = ProofAfter(val[v].proof, certain, all),
                                              !.intent = IF closes THEN "SETTLED" ELSE @]
  IN /\ ValidatorNonexecutionPermitted(v, next, all)
     /\ Ask
     /\ Authorized("T25", life, route[1])
     /\ Settlement(v, next)
     /\ val' = [val EXCEPT ![v] = proven]
     /\ fences' = (FencesAfter(v, next) \ Only(closes, Fence("INITIATION_DISABLED", v)))
                  \cup Only(contradiction, Fence("NONEXECUTION_CONTRADICTION", v))
     /\ Record("NONDISPATCH_PROVEN", route[1], route[2])
     /\ UNCHANGED <<gateVars, launches, closingVars, pauses, proc, target>>

(* The same cessation again is answered from the record. *)
FirstCessation(v) == val[v].ceased = "no"

(* The target's cessation, which says whether there is a result, once. *)
CessationKnown(v) == v \in Intents /\ target[v].halted # "no" /\ FirstCessation(v)

(* record_validator_cessation (T24): in any state, and it moves nothing. *)
RecordCessation(v) ==
  /\ CessationKnown(v)
  /\ val' = [val EXCEPT ![v].ceased = IF val[v].seen = "no" THEN "before" ELSE "after"]
  /\ Note("VALIDATOR_CESSATION_RECORDED")
  /\ UNCHANGED <<gateVars, launches, budgetVars, closingVars, pauses, fences, proc, target>>

(* The state a result leaves (_record_validator_observation). *)
ObservedState(known, ceased) ==
  IF life \in Terminal \/ (known /\ ceased) THEN life ELSE RECON

(* The same result again is answered from the record, and a launch has no  *)
(* second one.                                                             *)
FirstResult(v) == val[v].seen = "no"

(* The result of a launch that is active or was settled when its run       *)
(* ended, not yet recorded.                                                *)
Observable(v) ==
  /\ target[v].result # "none" /\ FirstResult(v)
  /\ \/ val[v].intent = "ACTIVE"
     \/ \E source \in SettlementSources : TerminallySettled(v, source)

(* Has the validator ceased?  A result that follows a cessation without a  *)
(* result would raise a policy obligation; the target never produces one.  *)
ActivityKnown(v) == val[v].ceased # "no"

UsageStated(v) == IF target[v].billed THEN "known" ELSE "unknown"

(* The settlement that the observation names, the head or an older one,    *)
(* cites the result and states the usage it states.                        *)
UsageAgrees(v, current) ==
  IF current THEN val[v].fresh /\ CitedUsage(disp[v]) = UsageStated(v)
  ELSE UsageStated(v) \in val[v].cited

(* A variant with a bug: unknown usage raises nothing. *)
ResultFencesUnbilled(v, known, ceased) == Only(~ceased, Fence("ACTIVITY", v))

(* What is unknown about a result becomes an uncertainty with a fence. *)
ResultFences(v, known, ceased) ==
  Only(~ceased, Fence("ACTIVITY", v)) \cup Only(~known, Fence("BILLING", v))

(* The row of a result, which is not applied yet. *)
ObservationRow(v, current) ==
  /\ val' = [val EXCEPT ![v].seen = UsageStated(v), ![v].cited = {}, ![v].fresh = current]
  /\ UNCHANGED <<gateVars, launches, budgetVars, closingVars, pauses, proc, target>>

(* _record_validator_observation (T24): one result per launch. *)
RecordObservation(v, current) ==
  LET known  == target[v].billed
      ceased == ActivityKnown(v)
      state  == ObservedState(known, ceased)
  IN /\ Observable(v) /\ UsageAgrees(v, current)
     /\ Authorized("T24", life, state)
     /\ ObservationRow(v, current)
     /\ fences' = fences \cup ResultFences(v, known, ceased)
     /\ Record("VALIDATOR_OBSERVATION_RECORDED", state, cursor)

-----------------------------------------------------------------------------
(* Applying a result. *)

(* The same application again is answered from the record, be it accepted  *)
(* or refused.                                                             *)
FirstApplication(v) == val[v].applied = "no"

(* Is the result's accounting settled, by its own settlement or by the     *)
(* reconciliation of the result?                                           *)
ObservationAccounted(v) ==
  \/ val[v].seen = "known" /\ disp[v] \notin {"RESERVED", "UNKNOWN"}
  \/ val[v].reconciled /\ Known(disp, v)

(* _record_validation_application_denial: an application out of turn is    *)
(* refused on the record.                                                  *)
DenyApplication(v) ==
  /\ val[v].seen # "no" /\ FirstApplication(v) /\ disp[v] # "RESERVED"
  /\ \/ life # "VALIDATING"
     \/ val[v].intent = "ACTIVE" /\ ~ObservationAccounted(v)
  /\ Note("VALIDATION_APPLICATION_DENIED")
  /\ UNCHANGED <<gateVars, launchVars, budgetVars, closingVars, pauses, fences, proc, target>>

(* A variant with a bug: the verdict need not be the result's. *)
ApplicationAnyVerdict(v, outcome) ==
  /\ life = "VALIDATING"
  /\ val[v].seen # "no" /\ FirstApplication(v) /\ val[v].intent = "ACTIVE"
  /\ ObservationAccounted(v)
  /\ InScope(fences) = {}

(* What _apply_validator_observation requires of launch v and a failure's  *)
(* classification.                                                         *)
ApplicationPermitted(v, outcome) ==
  /\ life = "VALIDATING"
  /\ val[v].seen # "no" /\ FirstApplication(v) /\ val[v].intent = "ACTIVE"
  /\ (outcome = "PASS") = (target[v].result = "PASS")
  /\ ObservationAccounted(v)
  /\ InScope(fences) = {}

(* A variant with a bug: the last check has a next one too. *)
PassedRouteUnguarded(c) ==
  <<"VALIDATION_CHECK_ROUTED", "VALIDATING", At("validation-check", NextCheck({c}))>>

(* Where a passed check leads: the next check, ready or blocked, or the    *)
(* finalization of the run (VALIDATION_CHECK_ROUTED).                      *)
PassedRoute(c) ==
  LET next == NextCheck({c})
  IN IF next = None THEN <<"VALIDATION_PASSED", "BLOCKED", Finalizing>>
     ELSE IF LaunchReady(next, {c})
     THEN <<"VALIDATION_CHECK_ROUTED", "VALIDATING", At("validation-check", next)>>
     ELSE <<"VALIDATION_CHECK_ROUTED", "BLOCKED", At("validation-route", next)>>

(* _derive_validation_application_route *)
ApplicationRoute(c, outcome) ==
  CASE outcome = "PASS"        -> PassedRoute(c)
    [] outcome = "RECOVERABLE" -> <<"VALIDATION_FAILED", "BLOCKED", Revalidate>>
    [] outcome = "FINAL"       -> <<"VALIDATION_FAILED", "FAILED_FINAL", Nowhere>>

(* Does a final failure release the slot at once? *)
ApplicationReleases(v, outcome) ==
  /\ outcome = "FINAL" /\ slot
  /\ NextCheck({val[v].check}) = None
  /\ Active \subseteq {v}
  /\ AccountingClosed(disp, receipt, v, "VALIDATOR_OBSERVATION")

(* _apply_validator_observation (T11, T12) *)
ApplyObservation(v, outcome) ==
  LET route == ApplicationRoute(val[v].check, outcome)
  IN /\ ApplicationPermitted(v, outcome)
     /\ Authorized(IF outcome = "PASS" THEN "T11" ELSE "T12", life, route[2])
     /\ val' = [val EXCEPT ![v].applied = outcome, ![v].intent = "SETTLED"]
     /\ slot' = (slot /\ ~ApplicationReleases(v, outcome))
     /\ fences' = fences \cup Only(outcome = "FINAL", Fence("FAILED_FINAL", 0))
     /\ Record(route[1], route[2], route[3])
     /\ UNCHANGED <<gateVars, launches, budgetVars, receipt, settled, pauses, proc, target>>

(* A failed application is recovered from once. *)
FirstRecovery(v) == ~val[v].resolved

(* A recoverable failure may be retried once the run owes nothing. *)
BlockerResolvable(v) ==
  /\ life = "BLOCKED" /\ cursor = Revalidate
  /\ v \in Intents /\ val[v].applied = "RECOVERABLE" /\ FirstRecovery(v)
  /\ v = LastApplied(val[v].check)
  /\ slot /\ Active = {} /\ InScope(fences) = {}
  /\ AccountingClosed(disp, receipt, 0, "no")

(* resolve_validation_blocker (T16) *)
ResolveBlocker(v) ==
  /\ BlockerResolvable(v)
  /\ Authorized("T16", life, "VALIDATING")
  /\ val' = [val EXCEPT ![v].resolved = TRUE]
  /\ Record("BLOCKER_RESOLVED", "VALIDATING", At("validation-recovery", v))
  /\ UNCHANGED <<gateVars, launches, budgetVars, closingVars, pauses, fences, proc, target>>

(* The gates of a blocked or an unready next check have opened. *)
LaunchBlockerResolvable(c) ==
  /\ life = "BLOCKED"
  /\ \/ cursor \in {At("validation-launch", c), At("validation-route", c)}
     \/ cursor.kind = "validator-initiation-disabled" /\ cursor.of \in LaunchesOf(c)
  /\ c = NextCheck({}) /\ LaunchReady(c, {})

(* resolve_validation_launch_blocker (T16) *)
ResolveLaunchBlocker(c) ==
  /\ LaunchBlockerResolvable(c)
  /\ Authorized("T16", life, "VALIDATING")
  /\ Record("BLOCKER_RESOLVED", "VALIDATING", At("validation-check", c))
  /\ UNCHANGED <<gateVars, launchVars, budgetVars, closingVars, pauses, fences, proc, target>>

(* The finalization of a run again is answered from the record. *)
FirstFinalization == life # "COMPLETED"

(* What _finalize_operation requires. *)
Finalizable ==
  /\ FirstFinalization
  /\ life = "BLOCKED" /\ cursor = Finalizing
  /\ \A c \in Checks : Passed(c)
  /\ Active = {} /\ slot /\ InScope(fences) = {}
  /\ AccountingClosed(disp, receipt, 0, "no")

(* _finalize_operation (T16): the run completes and its slot is free. *)
Finalize ==
  /\ Finalizable
  /\ Authorized("T16", life, "COMPLETED")
  /\ slot' = FALSE
  /\ Record("OPERATION_FINALIZED", "COMPLETED", Nowhere)
  /\ UNCHANGED <<gateVars, launchVars, budgetVars, receipt, settled, pauses, fences, proc, target>>

-----------------------------------------------------------------------------
(* Pauses and their resumption. *)

(* Request a pause: its row, its fence and the state it leaves the run in. *)
Pause(row, why, eventKind) ==
  /\ Len(pauses) < MaxPauses
  /\ pauses' = Append(pauses, row)
  /\ fences' = fences \cup {Fence(why, Len(pauses) + 1)}
  /\ Record(eventKind, row.to, cursor)
  /\ UNCHANGED <<gateVars, closingVars, proc, target>>

PauseRow(mode, to) ==
  [mode |-> mode, at |-> Checkpoint, launch |-> Max(Active \cup {0}), kept |-> cursor,
   to |-> to, settled |-> "no"]

(* A variant with a bug: a pause of an unresolved launch hides it. *)
PausedAtOnce == IF life = RECON THEN RECON ELSE "PAUSED"

(* The state pause_validation leaves. *)
PausedState ==
  IF life = "VALIDATING" /\ Checkpoint \in {"IDLE", "ELIGIBLE_RESULT_SETTLED"} THEN "PAUSED" ELSE RECON

ValidationPausable ==
  /\ life = "VALIDATING" \/ (life = RECON /\ cursor.kind = "validator-intent")
  /\ Active # {} => slot

(* A variant with a bug: the pause charges nothing. *)
ChargeNothing(row) == UNCHANGED <<disp, open, val>>

(* A contacted launch whose outcome is not settled is charged its worst    *)
(* case by the pause.                                                      *)
ChargePaused(row) ==
  LET v == row.launch
  IN IF row.at = "CONTACTED_UNRESOLVED" /\ disp[v] = "RESERVED"
     THEN Settlement(v, "UNKNOWN") /\ val' = [val EXCEPT ![v] = Cites(v, FALSE)]
     ELSE UNCHANGED <<disp, open, val>>

(* pause_validation (T08, T09) *)
PauseValidation ==
  LET row == PauseRow("validation", PausedState)
  IN /\ ValidationPausable
     /\ Authorized(IF life = RECON THEN "T09" ELSE "T08", life, row.to)
     /\ ChargePaused(row)
     /\ Pause(row, "PAUSE", "VALIDATION_PAUSE_CHECKPOINTED")
     /\ UNCHANGED <<launches, asked>>

(* A launch that is known to be running. *)
ActivePausable(v) ==
  /\ life = "VALIDATING" /\ v # 0
  /\ val[v].contact /\ val[v].ceased = "no" /\ disp[v] = "RESERVED" /\ slot

(* pause_active_validation (T08) *)
PauseActive ==
  LET row == PauseRow("active", "PAUSING")
  IN /\ ActivePausable(row.launch)
     /\ Authorized("T08", life, "PAUSING")
     /\ Pause(row, "PAUSE", "VALIDATION_PAUSE_CHECKPOINTED")
     /\ UNCHANGED <<launchVars, budgetVars>>

(* pause_reconciliation (T09) *)
PauseReconciliation ==
  /\ life = RECON
  /\ Authorized("T09", life, RECON)
  /\ Pause(ReconciliationPauseRow(cursor), "RECONCILIATION_PAUSE", "PAUSE_FENCE_RECORDED")
  /\ UNCHANGED <<launchVars, budgetVars>>

(* Does the record show how the launch of a pause ended? *)
PauseResolvable(v, how) ==
  CASE how = "NONLAUNCH" -> disp[v] = "RELEASED" /\ val[v].proof = "certain"
    [] how = "RESULT_CESSATION" ->
         /\ Known(disp, v) /\ val[v].seen # "no" /\ val[v].fresh
         /\ val[v].ceased # "no" /\ target[v].halted = "result"
    [] how = "INTERRUPTION_CESSATION" ->
         Known(disp, v) /\ val[v].ceased # "no" /\ target[v].halted = "interrupted"

(* A pause of an active launch settles a pausing run; one that left an     *)
(* unresolved launch settles once that launch was proved not to have run.  *)
PauseSettleable(n, how) ==
  /\ n \in DOMAIN pauses
  /\ pauses[n].settled = "no" /\ pauses[n].launch # 0
  /\ Fence("PAUSE", n) \in fences /\ slot
  /\ \/ pauses[n].mode = "active" /\ life = "PAUSING"
     \/ /\ pauses[n].mode = "validation" /\ how = "NONLAUNCH" /\ life = "PAUSED"
        /\ pauses[n].at \in {"UNCONTACTED_UNRESOLVED", "CONTACTED_UNRESOLVED"}
  /\ PauseResolvable(pauses[n].launch, how)

(* settle_validation_pause (T07) *)
SettlePause(n, how) ==
  LET v == pauses[n].launch
  IN /\ PauseSettleable(n, how)
     /\ pauses' = [pauses EXCEPT ![n].settled = how]
     /\ val' = IF how = "RESULT_CESSATION" THEN val ELSE [val EXCEPT ![v].intent = "SETTLED"]
     /\ Record("PAUSE_SETTLED", "PAUSED", SettledCursor(v, how))
     /\ UNCHANGED <<gateVars, launches, budgetVars, closingVars, fences, proc, target>>

OtherFences(n) == InScope(fences) \ {Fence("PAUSE", n)}

(* The state resume_settled_validation_pause leads to. *)
SettledResumeState(n) ==
  IF \E f \in OtherFences(n) : IsPause(f) THEN "PAUSED"
  ELSE IF pauses[n].settled # "RESULT_CESSATION" \/ OtherFences(n) # {} THEN "BLOCKED"
  ELSE "VALIDATING"

(* Does the run rest on the settlement of pause n, in these states? *)
RestsOnPause(n, state) ==
  /\ n \in DOMAIN pauses /\ life = state /\ pauses[n].settled # "no"
  /\ cursor = SettledCursor(pauses[n].launch, pauses[n].settled)

(* resume_settled_validation_pause (T14), while what the pause settled on  *)
(* is still the head of its accounting.                                    *)
ResumeSettled(n) ==
  /\ RestsOnPause(n, "PAUSED")
  /\ Fence("PAUSE", n) \in fences /\ slot
  /\ PauseResolvable(pauses[n].launch, pauses[n].settled)
  /\ Authorized("T14", life, SettledResumeState(n))
  /\ fences' = fences \ {Fence("PAUSE", n)}
  /\ Record("RESUME_ACCEPTED", SettledResumeState(n), cursor)
  /\ UNCHANGED <<gateVars, launchVars, budgetVars, closingVars, pauses, proc, target>>

(* The blockers resume finds for a validation pause. *)
ResumeBlockers(n) ==
  LET kept == pauses[n].kept
  IN Only(OtherFences(n) # {}, "NON_PAUSE_FENCE_PRESENT")
     \cup Only(\/ kept = Revalidate /\ \E v \in Intents : val[v].applied = "RECOVERABLE"
               \/ kept.kind \in {"FINALIZING", "validation-recovery"}, "T16_OBLIGATION_PENDING")

(* A pause that found the run idle or its result settled. *)
ValidationResumable(n) ==
  /\ n \in DOMAIN pauses /\ life = "PAUSED"
  /\ pauses[n].mode = "validation" /\ pauses[n].to = "PAUSED"
  /\ Fence("PAUSE", n) \in fences
  /\ Checkpoint \in {"IDLE", "ELIGIBLE_RESULT_SETTLED"} /\ UnresolvedContacts = {}

(* resume (T14) *)
ResumeValidation(n) ==
  LET state == ValidationResumeRoute(pauses[n].kept, ResumeBlockers(n))
  IN /\ ValidationResumable(n)
     /\ state # Denied
     /\ Authorized("T14", life, state)
     /\ fences' = fences \ {Fence("PAUSE", n)}
     /\ Record("RESUME_ACCEPTED", state, pauses[n].kept)
     /\ UNCHANGED <<gateVars, launchVars, budgetVars, closingVars, pauses, proc, target>>

(* A launch that did not run, or was interrupted, may be replaced. *)
PauseRecoverable(n) ==
  /\ RestsOnPause(n, "BLOCKED")
  /\ pauses[n].settled \in {"NONLAUNCH", "INTERRUPTION_CESSATION"}
  /\ val[pauses[n].launch].intent = "SETTLED" /\ ~val[pauses[n].launch].resolved
  /\ slot /\ InScope(fences) = {} /\ Active = {}
  /\ AccountingClosed(disp, receipt, 0, "no")

(* recover_settled_validation_pause (T16) *)
RecoverSettledPause(n) ==
  LET v == pauses[n].launch
  IN /\ PauseRecoverable(n)
     /\ Authorized("T16", life, "VALIDATING")
     /\ val' = [val EXCEPT ![v].resolved = TRUE]
     /\ Record("BLOCKER_RESOLVED", "VALIDATING", At("validation-recovery", v))
     /\ UNCHANGED <<gateVars, launches, budgetVars, closingVars, pauses, fences, proc, target>>

-----------------------------------------------------------------------------
(* Reconciling a result. *)

UncertaintiesOf(v) == {f \in fences : f.why \in {"ACTIVITY", "BILLING"} /\ f.n = v}

(* Where the run goes once the fences fs remain. *)
RouteUnder(fs) ==
  ReconciliationRoute(fs, \E r \in Reservations : open[r] # "no",
                      \E v \in Intents : val[v].applied = "RECOVERABLE" /\ ~val[v].resolved)

(* Has another launch of the check followed v? *)
Succeeded(v) == v # Max(LaunchesOf(val[v].check)) \/ val[v].resolved

(* A variant with a bug: the validator may still be running. *)
ReconcilableRunning(v) ==
  /\ life = RECON /\ slot
  /\ val[v].seen # "no" /\ val[v].applied = "no"
  /\ Known(disp, v) /\ UncertaintiesOf(v) # {} /\ ~Succeeded(v)

(* What reconcile_validator_result requires: the result, its cessation and *)
(* known accounting, and something to resolve.                             *)
Reconcilable(v) ==
  /\ life = RECON /\ slot
  /\ val[v].seen # "no" /\ val[v].applied = "no"
  /\ val[v].ceased # "no" /\ target[v].halted = "result"
  /\ Known(disp, v) /\ UncertaintiesOf(v) # {} /\ ~Succeeded(v)

(* reconcile_validator_result (T17): every uncertainty of the result is    *)
(* resolved at once.                                                       *)
ReconcileResult(v) ==
  LET rest  == fences \ UncertaintiesOf(v)
      state == RouteUnder(rest)
  IN /\ Reconcilable(v)
     /\ Authorized("T17", life, state)
     /\ val' = [val EXCEPT ![v].reconciled = TRUE]
     /\ fences' = rest
     /\ Record("RECONCILIATION_RECORDED", state,
               IF state \in {"PAUSED", "VALIDATING"} THEN At("validation-application", v) ELSE cursor)
     /\ UNCHANGED <<gateVars, launches, budgetVars, closingVars, pauses, proc, target>>

(* A pause taken in reconciliation, after the reconciliation it waited for. *)
ReconciliationPauseResumable(n) ==
  /\ life = "PAUSED" /\ Fence("RECONCILIATION_PAUSE", n) \in fences
  /\ cursor.kind = "validation-application" /\ val[cursor.of].reconciled
  /\ Active # {} /\ Eligible(Max(Active)) /\ ~Succeeded(cursor.of)

(* resume_reconciliation_pause (T14) *)
ResumeReconciliationPause(n) ==
  LET own   == Fence("RECONCILIATION_PAUSE", n)
      route == RouteUnder(fences \ {own})
      state == IF route \in {"VALIDATING", "PAUSED"} THEN route ELSE "BLOCKED"
  IN /\ ReconciliationPauseResumable(n)
     /\ Authorized("T14", life, state)
     /\ fences' = fences \ {own}
     /\ Record("RECONCILIATION_PAUSE_RESUMED", state, cursor)
     /\ UNCHANGED <<gateVars, launchVars, budgetVars, closingVars, pauses, proc, target>>

-----------------------------------------------------------------------------
(* The end of a run. *)

(* The launches an immediate stop charges their worst case: contacted,     *)
(* not observed and still held.                                            *)
StopUncertain(mode) ==
  IF mode = "IMMEDIATE" THEN {v \in UnresolvedContacts : disp[v] = "RESERVED"} ELSE {}

(* stop (T18, T19) *)
Stop(mode) ==
  LET charged == StopUncertain(mode)
  IN /\ Authorized(IF mode = "GRACEFUL" THEN "T18" ELSE "T19", life, "STOPPED")
     /\ disp' = [r \in Reservations |-> IF r \in charged THEN "UNKNOWN" ELSE disp[r]]
     /\ val' = [v \in Launches |-> IF v \in charged THEN Cites(v, FALSE) ELSE val[v]]
     /\ fences' = fences \cup {Fence("STOPPED_RUN", 0)}
     /\ Record("STOP_RECORDED", "STOPPED", cursor)
     /\ UNCHANGED <<gateVars, launches, open, asked, closingVars, pauses, proc, target>>

(* A proof that settled everything, whatever has been settled since. *)
NonexecutionShown(v) == val[v].proof \in {"certain", "reopened"}

(* The accounting of the launch must be settled, and be an amount unless   *)
(* the launch was proved not to have run.                                  *)
TerminallyAccounted(v, source) ==
  IF source = "VALIDATOR_NONEXECUTION" THEN disp[v] \notin {"RESERVED", "UNKNOWN"} ELSE Known(disp, v)

(* What each source of a terminal settlement must show about the check's   *)
(* last launch v (0 when it has none).                                     *)
SourceShows(v, source) ==
  CASE source = "PLAN" -> v = 0
    [] source = "VALIDATION_APPLICATION" -> v # 0 /\ val[v].intent = "SETTLED" /\ val[v].applied # "no"
    [] source = "VALIDATOR_OBSERVATION" ->
         /\ v \in Active /\ val[v].seen # "no" /\ val[v].applied = "no"
         /\ val[v].ceased # "no" /\ target[v].halted = "result"
    [] source = "VALIDATOR_CESSATION" -> v \in Active /\ val[v].ceased # "no"
    [] source = "VALIDATOR_NONEXECUTION" -> v \in Active /\ NonexecutionShown(v)

(* A variant with a bug: the last check closes the run whatever it owes. *)
ReleasesUnaccounted(c, v, source) == ChecksSettled({c})

(* Does settling check c close the run? *)
SettlementReleases(c, v, source) ==
  /\ ChecksSettled({c})
  /\ AccountingClosed(disp, receipt, IF source = "VALIDATION_APPLICATION" THEN 0 ELSE v, source)

(* The same settlement again is answered from the record, and another one  *)
(* of the check is refused.                                                *)
FirstTerminalSettlement(c) == settled[c] = "no"

(* A check of a run that has ended is settled while the slot is held. *)
TerminallySettleable(c) == life \in {"STOPPED", "FAILED_FINAL"} /\ slot /\ FirstTerminalSettlement(c)

(* settle_terminal_validation (T26): the last check releases the slot if   *)
(* nothing else is owed; an application is refused if something is.        *)
SettleTerminal(c, source) ==
  LET v        == Max(LaunchesOf(c) \cup {0})
      releases == SettlementReleases(c, v, source)
  IN /\ TerminallySettleable(c)
     /\ SourceShows(v, source) /\ (v # 0 => TerminallyAccounted(v, source))
     /\ source = "VALIDATION_APPLICATION" /\ ChecksSettled({c}) => releases
     /\ Authorized("T26", life, life)
     /\ settled' = [settled EXCEPT ![c] = source]
     /\ val' = IF v = 0 THEN val ELSE [val EXCEPT ![v].intent = "SETTLED"]
     /\ slot' = ~releases
     /\ Note("TERMINAL_VALIDATION_SETTLED")
     /\ UNCHANGED <<gateVars, launches, budgetVars, receipt, pauses, fences, proc, target>>

(* Does the late receipt close the run? *)
ReceiptReleases(d) ==
  slot /\ ChecksSettled({}) /\ AccountingClosed(d, TRUE, 0, "no")

(* intake_effect_receipt (T23) of a run that was stopped before its        *)
(* receipt came: what OperationKernel's IntakeReceipt leaves out is the    *)
(* release of the slot.                                                    *)
IntakeLateReceipt(known) ==
  LET next == IF known THEN "ADJUSTED" ELSE "UNKNOWN"
  IN /\ ~receipt /\ life \in {"STOPPED", "FAILED_FINAL"}
     /\ receipt' = TRUE
     /\ Settlement(0, next)
     /\ fences' = FencesAfter(0, next) \cup Only(~known, Fence("BILLING", 0))
     /\ slot' = (slot /\ ~ReceiptReleases(disp'))
     /\ Note("LATE_RECEIPT_RECORDED")
     /\ UNCHANGED <<gateVars, launchVars, asked, settled, pauses, proc, target>>

(* Another run of the repository raises or clears a fence: that of its     *)
(* stop or failure, on its item and effect, or that of its accounting, on  *)
(* the repository.                                                         *)
FenceOther(scope) ==
  /\ facts < MaxFacts
  /\ facts' = facts + 1
  /\ fences' = IF Fence(scope, 0) \in fences THEN fences \ {Fence(scope, 0)}
               ELSE fences \cup {Fence(scope, 0)}
  /\ NoEvent
  /\ UNCHANGED <<head, gate, launchVars, budgetVars, closingVars, pauses, proc, target>>

-----------------------------------------------------------------------------
CheckStep(c) ==
  \/ \E status \in {"PASS", "FAIL"} : RecordGateFact(c, status)
  \/ EvaluateLaunch(c)
  \/ BlockLaunch(c)
  \/ CommitValidator(c)
  \/ ResolveLaunchBlocker(c)
  \/ \E source \in SettlementSources : SettleTerminal(c, source)

LaunchStep(v) ==
  \/ Contact(v)
  \/ DisableInitiation(v)
  \/ \E verdict \in {"PASS", "FAIL"}, billed \in BOOLEAN : Produce(v, verdict, billed)
  \/ SealNonexecution(v)
  \/ SealCessation(v)
  \/ \E next \in Dispositions, citing \in BOOLEAN : SettleValidator(v, next, citing)
  \/ \E next \in Dispositions, all \in BOOLEAN : ProveNonexecution(v, next, all)
  \/ RecordCessation(v)
  \/ \E current \in BOOLEAN : RecordObservation(v, current)
  \/ DenyApplication(v)
  \/ \E outcome \in {"PASS", "RECOVERABLE", "FINAL"} : ApplyObservation(v, outcome)
  \/ ResolveBlocker(v)
  \/ ReconcileResult(v)

PauseStep(n) ==
  \/ \E how \in {"NONLAUNCH", "RESULT_CESSATION", "INTERRUPTION_CESSATION"} : SettlePause(n, how)
  \/ ResumeSettled(n)
  \/ ResumeValidation(n)
  \/ RecoverSettledPause(n)
  \/ ResumeReconciliationPause(n)

RunStep ==
  \/ Finalize
  \/ PauseValidation
  \/ PauseActive
  \/ PauseReconciliation
  \/ \E mode \in {"GRACEFUL", "IMMEDIATE"} : Stop(mode)
  \/ \E known \in BOOLEAN : IntakeLateReceipt(known)
  \/ \E next \in Dispositions : SettleOperation(next)
  \/ \E scope \in OtherScopes : FenceOther(scope)

Next ==
  \/ RunStep
  \/ \E c \in Checks : CheckStep(c)
  \/ \E v \in Launches : LaunchStep(v)
  \/ \E n \in 1..MaxPauses : PauseStep(n)

Spec == Init /\ [][Next]_vars

-----------------------------------------------------------------------------
(* Correctness. *)

(* A launch that the target could still run: its process was told to       *)
(* contact it, or still may be.                                            *)
CanRun(v) == Contactable(v) \/ (proc[v] = "contacted" /\ target[v] = Untouched)

(* Validators run one at a time: however launches are disabled, sealed,    *)
(* interrupted, paused and retried, and whatever process is late, no two   *)
(* launches can both still produce a result (commit_validator_intent,      *)
(* storage.py).                                                            *)
OneValidatorRuns == \A v, w \in Intents : CanRun(v) /\ CanRun(w) => v = w

(* A run completes only when the last result applied to every check is a   *)
(* PASS of the target, and no result that the target holds, or could still *)
(* produce, was left out (_finalize_operation).                            *)
CompletedIsValidated ==
  life = "COMPLETED" =>
    /\ \A c \in Checks : LastApplied(c) # 0 /\ target[LastApplied(c)].result = "PASS"
    /\ \A v \in Intents : ~CanRun(v) /\ (target[v].result # "none" => val[v].applied # "no")

(* A result moves the run only after the validator is known to have        *)
(* stopped: nothing that _apply_validator_observation itself checks says   *)
(* so, it follows from the fence a result without cessation raises and     *)
(* from who may clear that fence.                                          *)
AppliedIsCeased ==
  \A v \in Intents : val[v].applied # "no" => val[v].ceased # "no" /\ target[v].halted = "result"

(* A paused run is quiet: no launch can still produce a result, whichever  *)
(* of the pauses, settlements and proofs led there (pause_validation,      *)
(* settle_validation_pause, _derive_nonexecution_route).                   *)
PausedIsQuiet == life = "PAUSED" => \A v \in Intents : ~CanRun(v)

(* The slot of a run is given back only when nothing of it is owed: the    *)
(* effect is observed, every reservation is settled with certainty, and no *)
(* launch is active or can still run; and it never comes back, whichever   *)
(* of the receipt, the settlements and the stop came last.                 *)
SlotReleaseIsClosed ==
  [][slot # slot' =>
       /\ ~slot' /\ receipt'
       /\ \A r \in Reservations : disp'[r] \notin {"RESERVED", "UNKNOWN"}
       /\ Active' = {} /\ \A v \in Intents : ~CanRun(v)]_vars

=============================================================================
