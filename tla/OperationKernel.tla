--------------------------- MODULE OperationKernel ---------------------------
(***************************************************************************)
(* The operation side of the delivery control plane: the durable store     *)
(* (storage.py, SQLiteStateStore), the coordinator process that dispatches *)
(* one effect (dispatch.py) and the target that executes or seals it       *)
(* (adapters.py).                                                          *)
(*                                                                         *)
(* Every store operation holds the repository's writer lock and one SQLite *)
(* transaction, so it is one action.  What interleaves are the operations  *)
(* themselves: the dispatching process holds no lock between its commit,   *)
(* its launch claim, its contact claim and the call of the target, and     *)
(* pauses, stops, seals, settlements and receipts of any run may come in   *)
(* between.  The process may die at any of these points; a replayed commit *)
(* or claim never continues to the target.                                 *)
(*                                                                         *)
(* An attempt is <<run, generation>>.  The behaviours are those in which   *)
(* no validation check is launched, settled or cancelled (a plan has at    *)
(* least one, so no slot is released for a terminal run) and no authority  *)
(* fact, dependency, safe retry or adoption is recorded; the target keeps  *)
(* its own exclusion between a seal and an execution.                      *)
(***************************************************************************)
EXTENDS OperationStore, FiniteSets, FiniteSetsExt

VARIABLES
  life,      \* runs.lifecycle_state
  cursor,    \* runs.continuation_cursor
  kind,      \* event kind of the run's last lifecycle event
  codes,     \* blocker codes of the run's last readiness evaluation
  ready,     \* run whose clear readiness evaluation is the catalog head
  pauses,    \* pauses requested of the run
  pauseRow,  \* the state and cursor a settled pause preserves
  stopMode,  \* the run's stop, if any
  slot,      \* outstanding_slot: the attempt that owns the repository
  gen,       \* generations committed for the run
  launched,  \* attempts with an operation_launches row
  contacted, \* attempts with an adapter_contacts row
  observed,  \* attempts with an effect_observations row
  proven,    \* proven_nonexecution_actions: is the proof the settlement head
  auth,      \* retry authorizations issued against the attempt
  disp,      \* budget_reservations.disposition
  charged,   \* budget_reservations.charged_units
  open,      \* is an additional liability unresolved
  asked,     \* settlements operators have asked for
  released,  \* attempts with a RELEASED settlement in their history
  fences,    \* dispatch_fences
  proc,      \* the process dispatching the attempt
  target,    \* synthetic_effects and synthetic_nonexecution_seals
  usage      \* usage recorded by the executed effect

runVars     == <<life, cursor, kind, codes, ready>>
pauseVars   == <<pauses, pauseRow, stopMode>>
attemptVars == <<gen, launched, contacted, observed, proven, auth>>
budgetVars  == <<disp, charged, open, released, asked>>
targetVars  == <<target, usage>>
vars == <<runVars, pauseVars, slot, attemptVars, budgetVars, fences, proc, targetVars>>

TypeOK ==
  /\ life \in [Runs -> LifecycleStates \cup {Absent}]
  /\ cursor \in [Runs -> Cursors]
  /\ kind \in [Runs -> DOMAIN LifecycleRoutes \cup {"none"}]
  /\ codes \in [Runs -> SUBSET BlockerCodes]
  /\ ready \in Runs \cup {None}
  /\ pauses \in [Runs -> 0..MaxPauses]
  /\ pauseRow \in [Runs \X (1..MaxPauses) ->
                     [life : {"PLANNED", "BLOCKED", "PAUSED", Absent}, cursor : Cursors]]
  /\ stopMode \in [Runs -> {"none", "GRACEFUL", "IMMEDIATE", "ESCALATED"}]
  /\ slot \in Attempts \cup {None}
  /\ gen \in [Runs -> 0..MaxAttempts]
  /\ launched \subseteq Attempts /\ contacted \subseteq Attempts
  /\ observed \subseteq Attempts /\ released \subseteq Attempts
  /\ proven \in [Attempts -> {"no", "head", "superseded"}]
  /\ auth \in [Attempts -> {"NONE", "AVAILABLE", "DUPLICATE", "CONSUMED", "DISABLED"}]
  /\ disp \in [Attempts -> Dispositions \cup {"NONE"}]
  /\ charged \in [Attempts -> Nat]
  /\ open \in [Attempts -> {"no", "head", "open"}]
  /\ asked \in 0..MaxSettlements
  /\ fences \subseteq AllFences
  /\ proc \in [Attempts -> {"idle", "committed", "claimed", "contacted"}]
  /\ target \in [Attempts -> {"free", "executed", "sealed_intent", "sealed_launch"}]
  /\ usage \in [Attempts -> Amounts \cup {NoAmount}]

Init ==
  /\ life = [r \in Runs |-> Absent]
  /\ cursor = [r \in Runs |-> NullCursor]
  /\ kind = [r \in Runs |-> "none"]
  /\ codes = [r \in Runs |-> {}]
  /\ ready = None
  /\ pauses = [r \in Runs |-> 0]
  /\ pauseRow = [p \in Runs \X (1..MaxPauses) |-> NoRow]
  /\ stopMode = [r \in Runs |-> "none"]
  /\ slot = None
  /\ gen = [r \in Runs |-> 0]
  /\ launched = {} /\ contacted = {} /\ observed = {} /\ released = {}
  /\ proven = [a \in Attempts |-> "no"]
  /\ auth = [a \in Attempts |-> "NONE"]
  /\ disp = [a \in Attempts |-> "NONE"]
  /\ charged = [a \in Attempts |-> 0]
  /\ open = [a \in Attempts |-> "no"]
  /\ asked = 0
  /\ fences = {}
  /\ proc = [a \in Attempts |-> "idle"]
  /\ target = [a \in Attempts |-> "free"]
  /\ usage = [a \in Attempts |-> NoAmount]

-----------------------------------------------------------------------------
(* Reading the store. *)

Current(r) == <<r, gen[r]>>

(* It expects the slot to be released at generation 1, and raises for good *)
(* once a proof of non-dispatch has released the slot of a retry.          *)
ActivityConnected == \A r \in Runs : gen[r] > 1 => slot = Current(r)

Uncertainties(a) == {f \in fences : f.why \in UncertaintyKinds /\ f.run = a[1] /\ f.gen = a[2]}

(* _unresolved_contact_reservations: contacts of run r without a receipt   *)
(* whose charge was not released.                                          *)
UnresolvedContacts(r) == {a \in contacted \ observed : a[1] = r /\ disp[a] # "RELEASED"}

Committed == {a \in Attempts : disp[a] # "NONE"}

Commitment(a) == IF disp[a] = "RESERVED" THEN Reserved ELSE charged[a]

(* SUM(held_units + charged_units) over the repository's reservations. *)
Aggregate == MapThenSumSet(Commitment, Committed)

-----------------------------------------------------------------------------
(* Writing the store. *)

(* Append a lifecycle event to run r. *)
Record(r, eventKind, state, cur) ==
  /\ life' = [life EXCEPT ![r] = state]
  /\ cursor' = [cursor EXCEPT ![r] = cur]
  /\ kind' = [kind EXCEPT ![r] = eventKind]
  /\ ready' = None

(* Append an event that leaves the run's lifecycle alone. *)
Append == ready' = None /\ UNCHANGED <<life, cursor, kind>>

(* Is the settlement that opened an additional liability still the head, a *)
(* predecessor under later unknown settlements, or resolved?               *)
OpenAfter(a, next) ==
  IF ExpectedAdditionalLiability(disp[a], next) THEN "head"
  ELSE IF disp[a] = "UNKNOWN" /\ next = "UNKNOWN" /\ open[a] # "no" THEN "open" ELSE "no"

(* Append a settlement to the reservation of attempt a. *)
Settlement(a, next, actual) ==
  /\ disp' = [disp EXCEPT ![a] = next]
  /\ charged' = [charged EXCEPT ![a] = SettledCharge(disp[a], charged[a], Worst, next, actual)]
  /\ open' = [open EXCEPT ![a] = OpenAfter(a, next)]
  /\ released' = IF next = "RELEASED" THEN released \cup {a} ELSE released

(* A settlement that proves nothing leaves an older proof behind the head. *)
Superseded(a) == [proven EXCEPT ![a] = IF @ = "no" THEN "no" ELSE "superseded"]

(* The fences a settlement deletes and raises. *)
FencesAfter(a, next, actual) ==
  LET additional == AttemptFence("ADDITIONAL_LIABILITY", a)
      resolves   == disp[a] = "UNKNOWN" /\ open[a] = "head"
      charge     == SettledCharge(disp[a], charged[a], Worst, next, actual)
  IN (IF resolves THEN fences \ {additional} ELSE fences)
     \cup Only(resolves /\ next = "UNKNOWN", [additional EXCEPT !.n = 1])
     \cup Only(ExpectedAdditionalLiability(disp[a], next), additional)
     \cup Only(disp[a] = "RELEASED" /\ next # "RELEASED", AttemptFence("LATE_ACCOUNTING", a))
     \cup Only(IsBudgetBreach(next, charge, Reserved, Cap), AttemptFence("BUDGET_CAP_EXCEEDED", a))

-----------------------------------------------------------------------------
(* Planning, readiness and the durable intent. *)

(* What accept_plan requires: a run the store does not know. *)
PlanPermitted(r) == life[r] = Absent /\ Authorized("T01", life[r], "PLANNED")

(* accept_plan (T01) *)
AcceptPlan(r) ==
  /\ PlanPermitted(r)
  /\ Record(r, "PLAN_ACCEPTED", "PLANNED", NullCursor)
  /\ UNCHANGED <<codes, pauseVars, slot, attemptVars, budgetVars, fences, proc, targetVars>>

(* The codes of an evaluation that a later one may reverse. *)
ReversibleCodes == BlockerCodes \ {"UNRESOLVED_BLOCKED_STATE"}

(* May a BLOCKED run be evaluated back to PLANNED: was it blocked by a     *)
(* readiness evaluation, for reasons that can pass?                        *)
BlockedByReadiness(r) ==
  kind[r] = "READINESS_EVALUATED" /\ codes[r] # {} /\ codes[r] \subseteq ReversibleCodes

(* Only the run that holds exactly one retry authorization sees past the   *)
(* retained slot.                                                          *)
OwnsRetrySlot(r) == slot = Current(r) /\ auth[slot] = "AVAILABLE"

(* _readiness_blockers *)
ReadinessBlockers(r, inputsReady) ==
  Only(~inputsReady, "INPUTS_NOT_READY")
  \cup Only(cursor[r] # NullCursor, "TYPED_CURSOR_PENDING")
  \cup Only(life[r] = "BLOCKED" /\ cursor[r] = NullCursor /\ ~BlockedByReadiness(r),
            "UNRESOLVED_BLOCKED_STATE")
  \cup Only(ReadinessFenced(r, ActivityFences(fences)), "DISPATCH_FENCE_PRESENT")
  \cup Only(slot # None /\ ~OwnsRetrySlot(r), "OPERATION_SLOT_OCCUPIED")

(* What evaluate_readiness requires of the run and of the log. *)
ReadinessEvaluable(r) == life[r] \in {"PLANNED", "BLOCKED"} /\ ActivityConnected

(* evaluate_readiness (T02) *)
EvaluateReadiness(r, inputsReady) ==
  LET blockers == ReadinessBlockers(r, inputsReady)
      state    == IF blockers = {} THEN "PLANNED" ELSE "BLOCKED"
  IN /\ ReadinessEvaluable(r)
     /\ Authorized("T02", life[r], state)
     /\ life' = [life EXCEPT ![r] = state]
     /\ kind' = [kind EXCEPT ![r] = "READINESS_EVALUATED"]
     /\ codes' = [codes EXCEPT ![r] = blockers]
     /\ ready' = IF state = "PLANNED" THEN r ELSE None
     /\ UNCHANGED <<cursor, pauseVars, slot, attemptVars, budgetVars, fences, proc, targetVars>>

(* _verify_current_readiness_for_intent: the clear evaluation must still   *)
(* be the repository's head and still be what the store implies.           *)
ReadinessCurrent(r) ==
  ready = r /\ cursor[r] = NullCursor /\ ActivityConnected /\ ReadinessBlockers(r, TRUE) = {}

(* What commit_intent requires of every intent (T03). *)
IntentPermitted(r) ==
  /\ Authorized("T03", life[r], "RUNNING")
  /\ ReadinessCurrent(r)
  /\ ~DispatchFenced(r, fences)
  /\ Aggregate + Reserved <= Cap

(* What it writes for the intent of attempt a: the reservation, the slot   *)
(* and the run; the committing process goes on to claim the launch.        *)
WriteIntent(a) ==
  /\ slot' = a
  /\ gen' = [gen EXCEPT ![a[1]] = a[2]]
  /\ disp' = [disp EXCEPT ![a] = "RESERVED"]
  /\ proc' = [proc EXCEPT ![a] = "committed"]
  /\ Record(a[1], "INTENT_COMMITTED", "RUNNING", cursor[a[1]])
  /\ UNCHANGED <<codes, pauseVars, launched, contacted, observed, proven,
                 charged, open, released, asked, fences, targetVars>>

(* commit_intent of an initial dispatch: no run has used the effect yet. *)
CommitIntent(r) ==
  /\ IntentPermitted(r)
  /\ slot = None
  /\ \A q \in Runs : EffectOf[q] = EffectOf[r] => gen[q] = 0
  /\ WriteIntent(<<r, 1>>)
  /\ UNCHANGED auth

(* commit_intent of a proven-nonexecution retry: the authorization of the  *)
(* attempt that owns the slot is consumed and the slot moves on.           *)
CommitRetry(r) ==
  LET prior == Current(r)
  IN /\ gen[r] \in 1..(MaxAttempts - 1)
     /\ IntentPermitted(r)
     /\ slot = prior /\ auth[prior] = "AVAILABLE" /\ prior \notin observed
     /\ WriteIntent(<<r, gen[r] + 1>>)
     /\ auth' = [auth EXCEPT ![prior] = "CONSUMED"]

-----------------------------------------------------------------------------
(* The dispatching process and the target. *)

(* A variant with a bug: the fences are not read again. *)
DispatchableUnfenced(a) == slot = a /\ disp[a] = "RESERVED"

(* Both claims re-read the slot, the reservation and the fences. *)
StillDispatchable(a) == slot = a /\ disp[a] = "RESERVED" /\ ~DispatchFenced(a[1], fences)

(* What claim_operation_launch requires. *)
LaunchPermitted(a) == proc[a] = "committed" /\ life[a[1]] = "RUNNING" /\ StillDispatchable(a)

(* claim_operation_launch *)
ClaimLaunch(a) ==
  /\ LaunchPermitted(a)
  /\ launched' = launched \cup {a}
  /\ proc' = [proc EXCEPT ![a] = "claimed"]
  /\ Record(a[1], "OPERATION_LAUNCH_CLAIMED", RECON, Cursor("operation-launch", a[2]))
  /\ UNCHANGED <<codes, pauseVars, slot, gen, contacted, observed, proven, auth,
                 budgetVars, fences, targetVars>>

(* What _contact_claimed_operation requires. *)
ContactPermitted(a) ==
  /\ proc[a] = "claimed"
  /\ life[a[1]] = RECON /\ cursor[a[1]] = Cursor("operation-launch", a[2])
  /\ StillDispatchable(a)

(* _contact_claimed_operation, with the worst-case settlement it appends *)
(* before the target is called.                                          *)
Contact(a) ==
  /\ ContactPermitted(a)
  /\ contacted' = contacted \cup {a}
  /\ proc' = [proc EXCEPT ![a] = "contacted"]
  /\ Settlement(a, "UNKNOWN", NoAmount)
  /\ Record(a[1], "ADAPTER_CONTACT_CLAIMED", RECON, Cursor("operation-effect", a[2]))
  /\ UNCHANGED <<codes, pauseVars, slot, gen, launched, observed, proven, auth, asked, fences,
                 targetVars>>

(* contact() in _execute_committed: the target refuses a sealed claim and *)
(* a second execution of the same claim.                                  *)
Execute(a, u) ==
  /\ proc[a] = "contacted"
  /\ target[a] = "free"
  /\ target' = [target EXCEPT ![a] = "executed"]
  /\ usage' = [usage EXCEPT ![a] = u]
  /\ proc' = [proc EXCEPT ![a] = "idle"]
  /\ UNCHANGED <<runVars, pauseVars, slot, attemptVars, budgetVars, fences>>

(* The dispatching call ends: it was refused, or its process died.  The   *)
(* commit and the launch it leaves behind are only ever replayed, and a   *)
(* replay does not reach the target.                                      *)
DispatchEnds(a) ==
  /\ proc[a] # "idle"
  /\ proc' = [proc EXCEPT ![a] = "idle"]
  /\ UNCHANGED <<runVars, pauseVars, slot, attemptVars, budgetVars, fences, targetVars>>

(* The path of an attempt as a seal attests it and a settlement checks it. *)
SealOf(path) == IF path = "launch" THEN "sealed_launch" ELSE "sealed_intent"

AttemptPath(a) == IF a \in launched THEN "launch" ELSE "intent"

(* seal_nonexecution: one seal per claim, never after its execution. *)
SealNonexecution(a, path) ==
  /\ disp[a] # "NONE"
  /\ path = "launch" => a \in launched
  /\ target[a] = "free"
  /\ target' = [target EXCEPT ![a] = SealOf(path)]
  /\ UNCHANGED <<runVars, pauseVars, slot, attemptVars, budgetVars, fences, proc, usage>>

-----------------------------------------------------------------------------
(* Receipts and settlements. *)

(* Does the receipt settle the dispatch the run is waiting for, with no    *)
(* fence on it once the receipt's own settlement is written?               *)
ReconcilesDispatch(a, fs) ==
  /\ life[a[1]] = RECON /\ slot = a
  /\ cursor[a[1]] = Cursor("operation-effect", a[2]) /\ a \in contacted
  /\ ~DispatchFenced(a[1], fs)

(* A variant with a bug: a charge that is unknown leaves no uncertainty    *)
(* unless control is unknown as well.                                      *)
ObservationFencesUnbilled(a, next, unknownControl) ==
  Only(unknownControl, AttemptFence("SOURCE_CONTROL", a))
  \cup Only(next = "UNKNOWN" /\ unknownControl, AttemptFence("BILLING", a))
  \cup Only(auth[a] = "CONSUMED", AttemptFence("RECOVERY_DISABLED", a))

(* The uncertainties an observation leaves (_derive_operation_uncertainty_ *)
(* specs), and the fence that a receipt of a retried attempt leaves.       *)
ObservationFences(a, next, unknownControl) ==
  Only(unknownControl, AttemptFence("SOURCE_CONTROL", a))
  \cup Only(next = "UNKNOWN", AttemptFence("BILLING", a))
  \cup Only(auth[a] = "CONSUMED", AttemptFence("RECOVERY_DISABLED", a))

(* A receipt disables the retry authorization of its attempt. *)
InvalidatedAuthorization(a) ==
  [auth EXCEPT ![a] = IF @ = "NONE" THEN "NONE"
                      ELSE IF @ = "DUPLICATE" THEN "AVAILABLE" ELSE "DISABLED"]

(* A variant with a bug: a reconciled run keeps the cursor of its dispatch. *)
ObservationCursorKept(a, state, retried, reconciles) ==
  IF retried THEN (IF state = RECON THEN Cursor("pending-validation", a[2]) ELSE NullCursor)
  ELSE cursor[a[1]]

(* The cursor an observation leaves. *)
ObservationCursor(a, state, retried, reconciles) ==
  IF retried THEN (IF state = RECON THEN Cursor("pending-validation", a[2]) ELSE NullCursor)
  ELSE IF reconciles /\ state = "VALIDATING" THEN NullCursor ELSE cursor[a[1]]

(* The receipt of an attempt whose retry is authorized or already under    *)
(* way: it can only disable that retry.                                    *)
Retried(a) == auth[a] \in {"AVAILABLE", "DUPLICATE", "CONSUMED"}

OrdinaryReceipt(a) == life[a[1]] \in {"RUNNING", "PAUSING"} /\ ~Retried(a) /\ slot = a

(* What a receipt requires: an effect the target reports, not yet observed, *)
(* and a settlement its reservation allows.                                 *)
ReceiptPermitted(a, next) ==
  /\ target[a] = "executed" /\ a \notin observed
  /\ SettlementAllowed(disp[a], next, usage[a],
                       ExpectedAdditionalLiability(disp[a], next), FALSE, FALSE)

(* intake_effect_receipt and _record_effect_observation (T10, T17, T23):   *)
(* the receipt is read from the target and its settlement comes first.     *)
IntakeReceipt(a, unknownControl) ==
  LET next       == ReceiptDisposition(disp[a], usage[a])
      settled    == FencesAfter(a, next, usage[a])
      ordinary   == OrdinaryReceipt(a)
      reconciles == ReconcilesDispatch(a, settled)
      state      == ObservationRoute(life[a[1]], next = "UNKNOWN" \/ unknownControl,
                                     ordinary, reconciles)
  IN /\ ReceiptPermitted(a, next)
     /\ Authorized(ObservationTransition(ordinary, reconciles), life[a[1]], state)
     /\ observed' = observed \cup {a}
     /\ Settlement(a, next, usage[a])
     /\ proven' = Superseded(a)
     /\ auth' = InvalidatedAuthorization(a)
     /\ fences' = settled \cup ObservationFences(a, next, unknownControl)
     /\ Record(a[1], ObservationEvent(ordinary, reconciles), state,
               ObservationCursor(a, state, Retried(a), reconciles))
     /\ UNCHANGED <<codes, pauseVars, slot, gen, launched, contacted, asked, proc, targetVars>>

(* An operator asks for a settlement. *)
Ask == asked < MaxSettlements /\ asked' = asked + 1

(* settle_budget without a claim of non-dispatch. *)
SettleBudget(a, next, actual) ==
  /\ disp[a] # "NONE"
  /\ Ask
  /\ SettlementAllowed(disp[a], next, actual, ExpectedAdditionalLiability(disp[a], next),
                       FALSE, FALSE)
  /\ Settlement(a, next, actual)
  /\ fences' = FencesAfter(a, next, actual)
  /\ proven' = Superseded(a)
  /\ Append
  /\ UNCHANGED <<codes, pauseVars, slot, gen, launched, contacted, observed, auth,
                 proc, targetVars>>

(* Variants with a bug: the cited seal is not looked up in the target, or  *)
(* a handed-off attempt needs none.                                        *)
SealUnverified(a, q) == (a \in launched \/ (q.all /\ ~q.release /\ slot = a)) => q.sealed

SealOptional(a, q) == q.sealed => target[a] = SealOf(AttemptPath(a))

(* _verify_nonexecution_seal: a seal binds only the path the store records. *)
SealVerified(a) == target[a] = SealOf(AttemptPath(a))

(* _nonexecution_requires_seal: a handed-off attempt, or a recovery of the *)
(* current one, needs the target's seal.                                   *)
SealSatisfied(a, q) ==
  /\ (a \in launched \/ (q.all /\ ~q.release /\ slot = a)) => q.sealed
  /\ q.sealed => SealVerified(a)

(* What settle_budget requires of a claim of non-dispatch. *)
NonexecutionPermitted(a, q) ==
  /\ disp[a] # "NONE"
  /\ SealSatisfied(a, q)
  /\ q.next = "RELEASED" => a \notin released
  /\ a \in observed => q.next # "RELEASED" /\ ~q.release /\ ~q.all
  /\ SettlementAllowed(disp[a], q.next, q.actual, ExpectedAdditionalLiability(disp[a], q.next),
                       TRUE, q.next = "RELEASED")
  /\ q.release => q.next = "RELEASED" /\ q.all /\ slot = a

(* Does the settlement become a proof the run can be recovered from? *)
ProvesNonexecution(a, q) ==
  /\ slot = a /\ q.sealed /\ a \notin observed /\ q.next # "UNKNOWN" /\ q.all /\ ~q.release
  /\ life[a[1]] \notin Terminal

ExternallyPaused(a) == \E f \in fences : f.why = "EXTERNAL_PAUSE" /\ f.run = a[1] /\ f.gen = a[2]

(* The fences a claim of non-dispatch leaves: a proof resolves the         *)
(* uncertainties of its attempt, a claim against a receipt contradicts it. *)
NonexecutionFences(a, q) ==
  (FencesAfter(a, q.next, q.actual) \ (IF ProvesNonexecution(a, q) THEN Uncertainties(a) ELSE {}))
  \cup Only(a \in observed, AttemptFence("NONEXECUTION_CONTRADICTION", a))

(* settle_budget with non_dispatch_proven (T25).  The claim q says the     *)
(* settlement, whether every obligation is settled, whether the slot is    *)
(* released and whether a seal is cited.                                   *)
ProveNondispatch(a, q) ==
  LET route == NonexecutionRoute(life[a[1]], cursor[a[1]], a \in observed, q.next = "UNKNOWN",
                                 slot = a, ExternallyPaused(a), a[2])
  IN /\ Ask
     /\ NonexecutionPermitted(a, q)
     /\ Authorized("T25", life[a[1]], route.life)
     /\ Settlement(a, q.next, q.actual)
     /\ fences' = NonexecutionFences(a, q)
     /\ proven' = IF ProvesNonexecution(a, q) THEN [proven EXCEPT ![a] = "head"] ELSE Superseded(a)
     /\ slot' = IF q.release THEN None ELSE slot
     /\ Record(a[1], "NONDISPATCH_PROVEN", route.life, route.cursor)
     /\ UNCHANGED <<codes, pauseVars, gen, launched, contacted, observed, auth, proc, targetVars>>

(* The claims an operator may make; only known usage states an amount. *)
NonexecutionClaims ==
  LET Claims(next, actual) ==
        [next : next, actual : actual, all : BOOLEAN, release : BOOLEAN, sealed : BOOLEAN]
  IN Claims(KnownDispositions, Amounts) \cup Claims({"UNKNOWN", "RELEASED"}, {NoAmount})

-----------------------------------------------------------------------------
(* Pauses and their resumption. *)

(* The next pause of run r. *)
NextPause(r) == pauses[r] + 1

(* Request a pause: count it and raise its fence with what else it fences. *)
RequestPause(r, raised) ==
  /\ pauses[r] < MaxPauses
  /\ pauses' = [pauses EXCEPT ![r] = @ + 1]
  /\ fences' = fences \cup raised
  /\ UNCHANGED <<codes, stopMode, slot, attemptVars, budgetVars, proc, targetVars>>

(* pause_before_dispatch (T04): settled at once, fencing the repository. *)
PauseBeforeDispatch(r) ==
  /\ Authorized("T04", life[r], "PAUSED")
  /\ RequestPause(r, {ControlFence(r, NextPause(r))})
  /\ pauseRow' = [pauseRow EXCEPT ![<<r, NextPause(r)>>] = [life |-> life[r], cursor |-> cursor[r]]]
  /\ Record(r, "PAUSE_SETTLED", "PAUSED", cursor[r])

(* The blockers resume finds: those of the last evaluation but the pause's *)
(* own fence, and what has come up since.                                  *)
ResumeBlockers(r, n) ==
  (codes[r] \ {"DISPATCH_FENCE_PRESENT"})
  \cup Only(ReadinessFenced(r, fences \ {ControlFence(r, n)}), "NON_PAUSE_FENCE_PRESENT")
  \cup Only(slot # None /\ slot[1] # r, "OTHER_OPERATION_SLOT_OCCUPIED")

(* The state resume would route the run to. *)
ResumeState(r, n) ==
  ResumeRoute(pauseRow[<<r, n>>].life, pauseRow[<<r, n>>].cursor, ResumeBlockers(r, n))

(* May pause n of run r be resumed at all, whatever the route? *)
ResumePending(r, n) ==
  life[r] = "PAUSED" /\ ControlFence(r, n) \in fences /\ UnresolvedContacts(r) = {}

(* resume (T14) *)
Resume(r, n) ==
  /\ ResumePending(r, n)
  /\ ResumeState(r, n) # Denied
  /\ Authorized("T14", life[r], ResumeState(r, n))
  /\ fences' = fences \ {ControlFence(r, n)}
  /\ Record(r, "RESUME_ACCEPTED", ResumeState(r, n), pauseRow[<<r, n>>].cursor)
  /\ UNCHANGED <<codes, pauseVars, slot, attemptVars, budgetVars, proc, targetVars>>

(* pause_local_execution (T05): before the target is contacted. *)
LocalPausePermitted(r) == life[r] = "RUNNING" /\ slot = Current(r) /\ slot \notin contacted

PauseLocal(r) ==
  /\ LocalPausePermitted(r)
  /\ Authorized("T05", life[r], "PAUSING")
  /\ RequestPause(r, {PauseFence("LOCAL_PAUSE", slot, NextPause(r))})
  /\ Record(r, "PAUSE_REQUESTED", "PAUSING", cursor[r])
  /\ UNCHANGED pauseRow

(* settle_activity_pause (T07): the attempt is proven not executed. *)
ActivityPauseSettleable(r, n) ==
  /\ life[r] = "PAUSING" /\ slot = Current(r)
  /\ PauseFence("LOCAL_PAUSE", slot, n) \in fences
  /\ proven[slot] = "head" /\ disp[slot] = "RELEASED"
  /\ slot \notin contacted \cup observed

SettleActivityPause(r, n) ==
  LET recovery == Cursor("operation-recovery", gen[r])
  IN /\ ActivityPauseSettleable(r, n)
     /\ Authorized("T07", life[r], "PAUSED")
     /\ pauseRow' = [pauseRow EXCEPT ![<<r, n>>] = [life |-> "PAUSED", cursor |-> recovery]]
     /\ Record(r, "PAUSE_SETTLED", "PAUSED", recovery)
     /\ UNCHANGED <<codes, pauses, stopMode, slot, attemptVars, budgetVars, fences, proc, targetVars>>

(* resume_activity_settlement (T14): back to the recovery of the attempt. *)
ActivityResumable(r, n) ==
  /\ life[r] = "PAUSED" /\ slot = Current(r)
  /\ pauseRow[<<r, n>>].life = "PAUSED" /\ cursor[r] = pauseRow[<<r, n>>].cursor
  /\ PauseFence("LOCAL_PAUSE", slot, n) \in fences
  /\ UnresolvedContacts(r) = {}

ResumeActivitySettlement(r, n) ==
  /\ ActivityResumable(r, n)
  /\ Authorized("T14", life[r], "BLOCKED")
  /\ fences' = fences \ {PauseFence("LOCAL_PAUSE", slot, n)}
  /\ Record(r, "RESUME_ACCEPTED", "BLOCKED", cursor[r])
  /\ UNCHANGED <<codes, pauseVars, slot, attemptVars, budgetVars, proc, targetVars>>

(* pause_external_mutation: after the contact nobody knows whether the     *)
(* effect happened, so the pause makes that uncertainty durable.           *)
ExternalPausePermitted(a) ==
  /\ life[a[1]] = RECON /\ slot = a /\ cursor[a[1]].kind = "operation-effect"
  /\ a \in contacted \ observed /\ disp[a] \in {"UNKNOWN", "CONSUMED", "ADJUSTED"}

ExternalPauseFences(a, n) ==
  {PauseFence("EXTERNAL_PAUSE", a, n)}
  \cup {AttemptFence(u, a) : u \in {"OUTCOME", "ACTIVITY", "SOURCE_CONTROL"}}
  \cup Only(disp[a] = "UNKNOWN", AttemptFence("BILLING", a))

PauseExternal(r) ==
  /\ ExternalPausePermitted(Current(r))
  /\ Authorized("T09", life[r], RECON)
  /\ RequestPause(r, ExternalPauseFences(Current(r), NextPause(r)))
  /\ Record(r, "PAUSE_REQUESTED", RECON, cursor[r])
  /\ UNCHANGED pauseRow

(* pause_reconciliation (T09) *)
PauseReconciliation(r) ==
  /\ life[r] = RECON
  /\ Authorized("T09", life[r], RECON)
  /\ RequestPause(r, {PauseFence("RECONCILIATION_PAUSE", Current(r), NextPause(r))})
  /\ Record(r, "PAUSE_FENCE_RECORDED", RECON, cursor[r])
  /\ UNCHANGED pauseRow

(* resume_operation_nonexecution (T14): a pause after contact ends in the  *)
(* proof that the effect did not happen.                                   *)
NonexecutionResumable(a, n) ==
  /\ life[a[1]] = "PAUSED" /\ slot = a /\ PauseFence("EXTERNAL_PAUSE", a, n) \in fences
  /\ cursor[a[1]] = Cursor("operation-recovery", a[2])
  /\ proven[a] = "head" /\ disp[a] # "UNKNOWN" /\ Uncertainties(a) = {}

ResumeOperationNonexecution(r, n) ==
  LET own   == PauseFence("EXTERNAL_PAUSE", Current(r), n)
      state == IF \E f \in fences \ {own} : f.why \in ScopedPauses /\ f.run = r
               THEN "PAUSED" ELSE "BLOCKED"
  IN /\ NonexecutionResumable(Current(r), n)
     /\ Authorized("T14", life[r], state)
     /\ fences' = fences \ {own}
     /\ Record(r, "RESUME_ACCEPTED", state, cursor[r])
     /\ UNCHANGED <<codes, pauseVars, slot, attemptVars, budgetVars, proc, targetVars>>

-----------------------------------------------------------------------------
(* Recovery and reconciliation. *)

(* recover_proven_nonexecution (T16).  Bound: at most two authorizations   *)
(* are issued against one attempt.                                         *)
RecoveryPermitted(a) ==
  /\ life[a[1]] = "BLOCKED" /\ slot = a
  /\ cursor[a[1]] = Cursor("operation-recovery", a[2])
  /\ proven[a] # "no" /\ a \notin observed /\ Uncertainties(a) = {}
  /\ ~DispatchFenced(a[1], fences)
  /\ auth[a] \in {"NONE", "AVAILABLE"}

RecoverProven(r) ==
  /\ RecoveryPermitted(Current(r))
  /\ Authorized("T16", life[r], "PLANNED")
  /\ auth' = [auth EXCEPT ![Current(r)] = IF @ = "NONE" THEN "AVAILABLE" ELSE "DUPLICATE"]
  /\ Record(r, "BLOCKER_RESOLVED", "PLANNED", NullCursor)
  /\ UNCHANGED <<codes, pauseVars, slot, gen, launched, contacted, observed, proven,
                 budgetVars, fences, proc, targetVars>>

(* The attempts whose additional liability is unresolved. *)
Liable == {a \in Attempts : open[a] # "no"}

(* What reconcile_verified_receipt requires. *)
ReceiptVerifiable(r) ==
  LET a == Current(r)
  IN /\ life[r] = RECON /\ slot = a /\ a \in observed
     /\ disp[a] \in KnownDispositions
     /\ Uncertainties(a) # {}

(* reconcile_verified_receipt (T17): every uncertainty of the attempt is   *)
(* resolved at once, and the run routed by what remains.                   *)
ReconcileVerifiedReceipt(r) ==
  LET rest  == fences \ Uncertainties(Current(r))
      state == ReconciliationState(r, rest, Liable)
  IN /\ ReceiptVerifiable(r)
     /\ Authorized("T17", life[r], state)
     /\ fences' = rest
     /\ Record(r, "RECONCILIATION_RECORDED", state,
               IF state = RECON THEN cursor[r] ELSE Cursor("operation-validation", gen[r]))
     /\ UNCHANGED <<codes, pauseVars, slot, attemptVars, budgetVars, proc, targetVars>>

(* record_proof_free_disposition (T17): the operator settles what to do    *)
(* about an outcome nobody can establish; the uncertainty itself stays.    *)
DispositionPermitted(a) ==
  /\ life[a[1]] = RECON /\ slot = a
  /\ AttemptFence("OUTCOME", a) \in fences
  /\ \A c \in UnresolvedContacts(a[1]) : disp[c] # "RESERVED"

ProofFreeDisposition(r, state) ==
  /\ DispositionPermitted(Current(r))
  /\ state \in {RECON, "STOPPED", "FAILED_FINAL"}
  /\ Authorized("T17", life[r], state)
  /\ fences' = fences \cup Only(state # RECON, AttemptFence("TERMINAL", Current(r)))
  /\ Record(r, "RECONCILIATION_RECORDED", state, cursor[r])
  /\ UNCHANGED <<codes, pauseVars, slot, attemptVars, budgetVars, proc, targetVars>>

(* What stop requires: a run that has not ended. *)
StopPermitted(r, mode) ==
  life[r] # Absent /\ Authorized(IF mode = "GRACEFUL" THEN "T18" ELSE "T19", life[r], "STOPPED")

(* stop (T18, T19): terminal at once; the slot, the cursor, the accounting *)
(* and every other fence stay for those who must still answer for them.    *)
Stop(r, mode) ==
  /\ StopPermitted(r, mode)
  /\ stopMode' = [stopMode EXCEPT ![r] = mode]
  /\ fences' = fences \cup {Fence("STOPPED_RUN", r, 0, 0)}
  /\ Record(r, "STOP_RECORDED", "STOPPED", cursor[r])
  /\ UNCHANGED <<codes, pauses, pauseRow, slot, attemptVars, budgetVars, proc, targetVars>>

(* escalate_stop (T20): a launched effect of a gracefully stopped run is   *)
(* charged its worst case.                                                 *)
EscalationPermitted(a) ==
  stopMode[a[1]] = "GRACEFUL" /\ slot = a /\ a \in launched \ observed

EscalationCharge(a) ==
  IF disp[a] = "RESERVED"
  THEN Settlement(a, "UNKNOWN", NoAmount) /\ UNCHANGED asked
  ELSE UNCHANGED budgetVars

EscalateStop(r) ==
  /\ EscalationPermitted(Current(r))
  /\ Authorized("T20", life[r], "STOPPED")
  /\ EscalationCharge(Current(r))
  /\ stopMode' = [stopMode EXCEPT ![r] = "ESCALATED"]
  /\ Record(r, "STOP_ESCALATED", "STOPPED", cursor[r])
  /\ UNCHANGED <<codes, pauses, pauseRow, slot, attemptVars, fences, proc, targetVars>>

-----------------------------------------------------------------------------
(* Operator and coordinator commands that concern a run. *)
RunStep(r) ==
  \/ AcceptPlan(r)
  \/ \E inputsReady \in BOOLEAN : EvaluateReadiness(r, inputsReady)
  \/ CommitIntent(r)
  \/ CommitRetry(r)
  \/ PauseBeforeDispatch(r)
  \/ PauseLocal(r)
  \/ PauseExternal(r)
  \/ PauseReconciliation(r)
  \/ RecoverProven(r)
  \/ ReconcileVerifiedReceipt(r)
  \/ \E state \in {RECON, "STOPPED", "FAILED_FINAL"} : ProofFreeDisposition(r, state)
  \/ \E mode \in {"GRACEFUL", "IMMEDIATE"} : Stop(r, mode)
  \/ EscalateStop(r)

ResumeStep(r, n) ==
  \/ Resume(r, n)
  \/ SettleActivityPause(r, n)
  \/ ResumeActivitySettlement(r, n)
  \/ ResumeOperationNonexecution(r, n)

(* Steps of one attempt: its process, the target, its accounting. *)
AttemptStep(a) ==
  \/ ClaimLaunch(a)
  \/ Contact(a)
  \/ \E u \in Amounts \cup {NoAmount} : Execute(a, u)
  \/ DispatchEnds(a)
  \/ \E path \in {"intent", "launch"} : SealNonexecution(a, path)
  \/ \E unknownControl \in BOOLEAN : IntakeReceipt(a, unknownControl)
  \/ \E next \in {"CONSUMED", "ADJUSTED", "UNKNOWN"}, actual \in Amounts \cup {NoAmount} :
       SettleBudget(a, next, actual)
  \/ \E q \in NonexecutionClaims : ProveNondispatch(a, q)

Next ==
  \/ \E r \in Runs : RunStep(r)
  \/ \E r \in Runs, n \in 1..MaxPauses : ResumeStep(r, n)
  \/ \E a \in Attempts : AttemptStep(a)

Spec == Init /\ [][Next]_vars

-----------------------------------------------------------------------------
(* Correctness. *)

Sealed == {"sealed_intent", "sealed_launch"}

(* A logical effect is executed by at most one attempt, whichever runs and *)
(* generations were dispatched for it, however the dispatching processes   *)
(* died and whatever was paused, stopped, sealed or settled meanwhile.     *)
EffectAtMostOnce ==
  \A a, b \in Attempts :
    target[a] = "executed" /\ target[b] = "executed" /\ EffectOf[a[1]] = EffectOf[b[1]] => a = b

(* Every generation but the newest was sealed by the target before its     *)
(* successor was committed: a retry never races the attempt it replaces.   *)
RetryFollowsSeal ==
  \A a \in Attempts : a[2] < gen[a[1]] => target[a] \in Sealed

(* An executed effect keeps the repository's slot, and its reservation is  *)
(* never free again: it is settled, not held, and never released.          *)
ExecutedIsOwned ==
  \A a \in Attempts : target[a] = "executed" => slot = a /\ disp[a] \notin {"NONE", "RESERVED", "RELEASED"}

(* The repository has at most one effect that may be under way or done     *)
(* without a receipt, whichever run it belongs to.                         *)
OneOutstandingEffect ==
  \A a, b \in contacted \ observed : target[a] \notin Sealed /\ target[b] \notin Sealed => a = b

(* An effect nobody can account for is never hidden: while an attempt was  *)
(* contacted and has neither a receipt nor a seal, its run is waiting for  *)
(* reconciliation or has ended, never paused, blocked or planned.          *)
UnknownEffectStaysOpen ==
  \A a \in contacted \ observed : target[a] \notin Sealed => life[a[1]] \in {RECON} \cup Terminal

(* A run is handed to validation only with a recorded receipt, and its     *)
(* accounting is known or a repository-wide fence says it is not.          *)
ValidatingIsAccounted ==
  \A r \in Runs : life[r] = "VALIDATING" =>
    /\ Current(r) \in observed
    /\ disp[Current(r)] \in KnownDispositions
       \/ \E f \in fences : f.why = "ADDITIONAL_LIABILITY" /\ f.run = r

(* Charges above the reservation never go unnoticed: the overrun, the open *)
(* liability or the charge after a release fences the whole repository.    *)
OverrunIsFenced ==
  \A a \in Committed : Commitment(a) > Reserved =>
    \E f \in fences : /\ f.run = a[1] /\ f.gen = a[2]
                      /\ f.why \in {"BUDGET_CAP_EXCEEDED", "LATE_ACCOUNTING", "ADDITIONAL_LIABILITY"}

(* The commitments of the repository exceed the cap only while such a      *)
(* fence refuses every further intent.                                     *)
OverCommitIsFenced ==
  Aggregate > Cap =>
    \E f \in fences : f.why \in {"BUDGET_CAP_EXCEEDED", "LATE_ACCOUNTING", "ADDITIONAL_LIABILITY"}

(* A paused run is held by a pause of its own that still fences it, so     *)
(* that there is something to resume.                                      *)
PausedIsFenced == \A r \in Runs : life[r] = "PAUSED" => OwnPause(r, fences)

(* Every event the writer appends is one replay accepts: its pair of       *)
(* states is among those of its kind in the replay table.                  *)
RoutesReplayable ==
  [][\A r \in Runs : (life'[r] # life[r] \/ kind'[r] # kind[r]) =>
       <<life[r], life'[r]>> \in LifecycleRoutes[kind'[r]]]_vars

(* Terminal is final: no receipt, proof or settlement that arrives after a *)
(* stop or a final failure moves the run again.                            *)
TerminalIsFinal ==
  [][\A r \in Runs : life[r] \in Terminal => life'[r] = life[r]]_vars

(* A fence on the repository holds every run: while one stands, no step    *)
(* commits an intent, claims a launch, contacts the target or authorizes a *)
(* retry, whoever raised the fence and wherever a dispatch had got to.     *)
FencedRepositoryIsQuiet ==
  [][(\E f \in fences : f.why \in RepoWide) =>
       gen' = gen /\ launched' = launched /\ contacted' = contacted
       /\ \A a \in Attempts : auth'[a] = "AVAILABLE" => auth[a] \in {"AVAILABLE", "DUPLICATE"}]_vars

-----------------------------------------------------------------------------
(* What the design says and the code does not keep. *)

(* A settled pause can be resumed: once no contact is unresolved, the      *)
(* resume of a paused run has a state to route it to.                      *)
ResumeIsRouted ==
  \A r \in Runs, n \in 1..MaxPauses : ResumePending(r, n) => ResumeState(r, n) # Denied

(* A run blocked before dispatch is ready again when nothing blocks it any *)
(* more.                                                                   *)
BlockedIsReadmitted ==
  \A r \in Runs : life[r] = "BLOCKED" /\ cursor[r] = NullCursor /\ fences = {} /\ slot = None =>
    ReadinessBlockers(r, TRUE) = {}

(* A recorded receipt with known accounting can be reconciled once nothing *)
(* fences its run.                                                         *)
KnownReceiptReconcilable ==
  \A r \in Runs :
    life[r] = RECON /\ slot = Current(r) /\ slot \in observed /\ disp[slot] \in KnownDispositions
    /\ ~DispatchFenced(r, fences) => ReceiptVerifiable(r)
=============================================================================
