--------------------------- MODULE OperationReplay ---------------------------
(***************************************************************************)
(* The reader of the durable store: _verify_projections in storage.py.     *)
(* Every operation of the store first has the whole event log replayed:    *)
(* each event's body is validated, what it claims is checked against the   *)
(* events before it, and every table is re-derived and compared.  One      *)
(* event that its prefix does not support, or one row that differs, and no *)
(* operation on the repository succeeds any more.                          *)
(*                                                                         *)
(* A state is what the reader has re-derived from a prefix of the log, and *)
(* a step is one event it accepts.  For each kind of event, ...Body is     *)
(* what the event's schema says of the two lifecycle states, ...History is *)
(* what the events before it must support, and the action adds the rows    *)
(* that the reader expects to find.  The reader is written apart from the  *)
(* writer, in its own terms: it knows no process and no target, and it     *)
(* derives fences and the slot from the log, not from their tables.        *)
(***************************************************************************)
EXTENDS OperationStore

VARIABLES
  life, cursor, kind, codes, ready, pauses, pauseRow, stopMode, slot, gen,
  launched, contacted, observed, proven, auth, disp, charged, open, released, fences

pauseVars   == <<pauses, pauseRow, stopMode>>
claimVars   == <<launched, contacted, observed, proven, auth>>
attemptVars == <<gen, claimVars>>
budgetVars  == <<disp, charged, open, released>>
logVars     == <<life, cursor, kind, codes, ready, pauseVars, slot, attemptVars, budgetVars, fences>>

Init ==
  /\ life = [r \in Runs |-> Absent]
  /\ cursor = [r \in Runs |-> NullCursor]
  /\ kind = [r \in Runs |-> "none"]
  /\ codes = [r \in Runs |-> {}]
  /\ ready = None
  /\ pauses = [r \in Runs |-> 0]
  /\ pauseRow = [p \in Runs \X (1..MaxPauses) |-> NoRow]
  /\ stopMode = [r \in Runs |-> "none"]
  /\ slot = None
  /\ gen = [r \in Runs |-> 0]
  /\ launched = {} /\ contacted = {} /\ observed = {} /\ released = {}
  /\ proven = [a \in Attempts |-> "no"]
  /\ auth = [a \in Attempts |-> "NONE"]
  /\ disp = [a \in Attempts |-> "NONE"]
  /\ charged = [a \in Attempts |-> 0]
  /\ open = [a \in Attempts |-> "no"]
  /\ fences = {}

-----------------------------------------------------------------------------
(* What the prefix of the log says. *)

Latest(r) == <<r, gen[r]>>

Committed(a) == a \in Attempts /\ disp[a] # "NONE"

(* _historical_repository_activity follows the slot from intent to intent, *)
(* and to its release, which it looks for at generation 1: the release of  *)
(* a retry's slot is "disconnected".                                       *)
Connected == \A r \in Runs : gen[r] > 1 => slot = Latest(r)

(* The slot and the fences it re-derives, when it does not raise. *)
HistoricalSlot(a) == Connected /\ slot = a

HistoricalFences == ActivityFences(fences)

(* _operation_slot_current_before: no earlier settlement has released the  *)
(* slot of the attempt.  That a retry may have taken the slot over is not  *)
(* looked up.                                                              *)
SlotCurrentBefore(a) == Committed(a) /\ (a[2] < gen[a[1]] \/ slot = a)

Unresolved(a) == {f \in fences : f.why \in UncertaintyKinds /\ f.run = a[1] /\ f.gen = a[2]}

(* The settlement an uncertainty cites is an event of the chain. *)
SettlementHead(a) == disp[a] \notin {"NONE", "RESERVED"}

(* Each uncertainty is traced back to the event that raised it.  A pause   *)
(* follows the intent, the launch, the contact and the settlement, and no  *)
(* receipt, and its accounting is known or charged at worst.               *)
UncertainPause(a) ==
  /\ Committed(a) /\ a \in (launched \cap contacted) \ observed
  /\ SettlementHead(a) /\ disp[a] \in KnownDispositions \cup {"UNKNOWN"}

(* A receipt follows the intent and, of an attempt that was contacted, the *)
(* launch and the contact; it leaves accounting known or charged at worst. *)
UncertainObservation(a, next) ==
  /\ Committed(a)
  /\ a \in contacted => a \in launched
  /\ next \in KnownDispositions \cup {"UNKNOWN"}

UnsettledContacts(r) == {a \in contacted \ observed : a[1] = r /\ disp[a] # "RELEASED"}

Active(f) == f \in HistoricalFences

(* The lifecycle fold: the event continues its run's last state, leaves no *)
(* terminal state, and takes a route of its kind.                          *)
ContinuesRun(r, eventKind, state) ==
  /\ life[r] \in Terminal => state = life[r]
  /\ <<life[r], state>> \in LifecycleRoutes[eventKind]

Fold(r, eventKind, state, cur) ==
  /\ kind' = [kind EXCEPT ![r] = eventKind]
  /\ life' = [life EXCEPT ![r] = state]
  /\ cursor' = [cursor EXCEPT ![r] = cur]
  /\ ContinuesRun(r, eventKind, state)

-----------------------------------------------------------------------------
(* Plan and readiness. *)

PlanBody(r) == life[r] = Absent

PlanAccepted(r) ==
  /\ Fold(r, "PLAN_ACCEPTED", "PLANNED", NullCursor)
  /\ PlanBody(r)
  /\ ready' = None
  /\ UNCHANGED <<codes, pauseVars, slot, attemptVars, budgetVars, fences>>

(* The blockers are computed again from the prefix. *)
ExpectedBlockers(r, inputsReady) ==
  LET readmits == kind[r] = "READINESS_EVALUATED" /\ codes[r] # {}
                  /\ "UNRESOLVED_BLOCKED_STATE" \notin codes[r]
      retries  == slot = Latest(r) /\ auth[slot] = "AVAILABLE"
  IN Only(~inputsReady, "INPUTS_NOT_READY")
     \cup Only(cursor[r] # NullCursor, "TYPED_CURSOR_PENDING")
     \cup Only(life[r] = "BLOCKED" /\ cursor[r] = NullCursor /\ ~readmits, "UNRESOLVED_BLOCKED_STATE")
     \cup Only(ReadinessFenced(r, HistoricalFences), "DISPATCH_FENCE_PRESENT")
     \cup Only(slot # None /\ ~retries, "OPERATION_SLOT_OCCUPIED")

ReadinessHistory(r) == life[r] \in {"PLANNED", "BLOCKED"} /\ Connected

(* A clear evaluation is what an intent may cite as long as no event of    *)
(* any run has followed it.                                                *)
ReadinessEvaluated(r, inputsReady) ==
  LET blockers == ExpectedBlockers(r, inputsReady)
      state    == IF blockers = {} THEN "PLANNED" ELSE "BLOCKED"
  IN /\ Fold(r, "READINESS_EVALUATED", state, cursor[r])
     /\ ReadinessHistory(r)
     /\ codes' = [codes EXCEPT ![r] = blockers]
     /\ ready' = IF blockers = {} THEN r ELSE None
     /\ UNCHANGED <<pauseVars, slot, attemptVars, budgetVars, fences>>

-----------------------------------------------------------------------------
(* Intents. *)

(* The readiness an intent cites is the previous event of its run, clear,  *)
(* and its vector of run heads is the one the intent continues.            *)
CitesReadiness(r) == ready = r /\ life[r] = "PLANNED" /\ codes[r] = {}

(* The first use of a logical effect. *)
EffectUnused(r) == \A q \in Runs : EffectOf[q] = EffectOf[r] => gen[q] = 0

InitialIntentHistory(r) == CitesReadiness(r) /\ EffectUnused(r)

(* At most one reservation is an obligation on the slot. *)
SlotObligation(a) == slot = None \/ slot = <<a[1], a[2] - 1>>

ReservationRow(a) ==
  /\ disp' = [disp EXCEPT ![a] = "RESERVED"]
  /\ gen' = [gen EXCEPT ![a[1]] = a[2]]
  /\ SlotObligation(a)
  /\ slot' = a
  /\ ready' = None
  /\ UNCHANGED <<codes, pauseVars, launched, contacted, observed, proven, charged, open,
                 released, fences>>

InitialIntent(r) ==
  /\ Fold(r, "INTENT_COMMITTED", "RUNNING", cursor[r])
  /\ InitialIntentHistory(r)
  /\ ReservationRow(<<r, 1>>)
  /\ UNCHANGED auth

(* A retry consumes the authorization of the attempt it replaces, and no   *)
(* fence of the repository may be active, of whatever scope.               *)
RetryIntentHistory(r) ==
  LET prior == Latest(r)
  IN /\ CitesReadiness(r)
     /\ auth[prior] = "AVAILABLE"
     /\ SlotCurrentBefore(prior) /\ HistoricalSlot(prior)
     /\ HistoricalFences = {}
     /\ prior \notin observed

RetryIntent(r) ==
  /\ gen[r] \in 1..(MaxAttempts - 1)
  /\ Fold(r, "INTENT_COMMITTED", "RUNNING", cursor[r])
  /\ RetryIntentHistory(r)
  /\ ReservationRow(<<r, gen[r] + 1>>)
  /\ auth' = [auth EXCEPT ![Latest(r)] = "CONSUMED"]

-----------------------------------------------------------------------------
(* The settlement chain of a reservation. *)

(* Each settlement follows the one before it by the accounting rules, and  *)
(* no chain is released twice.                                             *)
ChainContinues(a, next, actual, nonDispatch) ==
  /\ Committed(a)
  /\ SettlementAllowed(disp[a], next, actual, ExpectedAdditionalLiability(disp[a], next),
                       nonDispatch, next = "RELEASED")
  /\ next = "RELEASED" => a \notin released

(* The accounting the chain implies for the reservation. *)
ChainHead(a, next, actual) ==
  /\ disp' = [disp EXCEPT ![a] = next]
  /\ charged' = [charged EXCEPT ![a] = SettledCharge(disp[a], @, Worst, next, actual)]
  /\ released' = released \cup Only(next = "RELEASED", a)

Liability(a) == {f \in fences : f.why = "ADDITIONAL_LIABILITY" /\ f.run = a[1] /\ f.gen = a[2]}

(* An additional liability is open until the unknown accounting becomes    *)
(* known or is released, however many unknown settlements lie in between.  *)
LiabilityAfter(a, next) ==
  IF ExpectedAdditionalLiability(disp[a], next) THEN "head"
  ELSE IF disp[a] = "UNKNOWN" /\ next = "UNKNOWN" /\ open[a] # "no" THEN "open" ELSE "no"

LiabilityFences(a, next) ==
  LET opened == AttemptFence("ADDITIONAL_LIABILITY", a)
      later  == disp[a] = "UNKNOWN" /\ next = "UNKNOWN" /\ Liability(a) # {}
  IN Only(ExpectedAdditionalLiability(disp[a], next), opened)
     \cup Only(later, [opened EXCEPT !.n = 1])
     \cup (IF disp[a] = "UNKNOWN" THEN {} ELSE Liability(a))

(* The fences the chain implies. *)
ChainFences(a, next, actual) ==
  LET charge == SettledCharge(disp[a], charged[a], Worst, next, actual)
  IN (fences \ Liability(a)) \cup LiabilityFences(a, next)
     \cup Only(IsBudgetBreach(next, charge, Reserved, Cap), AttemptFence("BUDGET_CAP_EXCEEDED", a))
     \cup Only(disp[a] = "RELEASED", AttemptFence("LATE_ACCOUNTING", a))

(* The settlement rows of attempt a. *)
Chain(a, next, actual, nonDispatch) ==
  /\ ChainHead(a, next, actual)
  /\ ChainContinues(a, next, actual, nonDispatch)
  /\ open' = [open EXCEPT ![a] = LiabilityAfter(a, next)]
  /\ ready' = None

(* A proof that is no longer the head of its chain. *)
ProofSuperseded(a) == [proven EXCEPT ![a] = IF @ = "no" THEN "no" ELSE "superseded"]

(* BUDGET_SETTLED moves no run. *)
BudgetSettled(a, next, actual) ==
  /\ Chain(a, next, actual, FALSE)
  /\ fences' = ChainFences(a, next, actual)
  /\ proven' = ProofSuperseded(a)
  /\ UNCHANGED <<life, cursor, kind, codes, pauseVars, slot, gen, launched, contacted,
                 observed, auth>>

-----------------------------------------------------------------------------
(* Launch, contact and receipt. *)

LaunchHistory(a) == Committed(a) /\ a[2] = gen[a[1]]

OperationLaunched(a) ==
  /\ Fold(a[1], "OPERATION_LAUNCH_CLAIMED", RECON, Cursor("operation-launch", a[2]))
  /\ LaunchHistory(a)
  /\ launched' = launched \cup {a}
  /\ ready' = None
  /\ UNCHANGED <<codes, pauseVars, slot, gen, contacted, observed, proven, auth, budgetVars, fences>>

(* A contact of an attempt that already has a receipt would void the       *)
(* prefix of that receipt.                                                 *)
ContactHistory(a) == a \in launched \ observed /\ a[2] = gen[a[1]]

AdapterContacted(a) ==
  /\ Fold(a[1], "ADAPTER_CONTACT_CLAIMED", RECON, Cursor("operation-effect", a[2]))
  /\ ContactHistory(a)
  /\ contacted' = contacted \cup {a}
  /\ Chain(a, "UNKNOWN", NoAmount, FALSE)
  /\ fences' = ChainFences(a, "UNKNOWN", NoAmount)
  /\ UNCHANGED <<codes, pauseVars, slot, gen, launched, observed, proven, auth>>

(* The event says whether it disables a retry and whether it reconciles    *)
(* the dispatch; the route is derived from that.                           *)
DisablesRetry(a) == auth[a] \in {"AVAILABLE", "DUPLICATE", "CONSUMED"}

OrdinaryObservation(a) == life[a[1]] \in {"RUNNING", "PAUSING"} /\ ~DisablesRetry(a)

ObservationHistory(a, reconciles) ==
  /\ Committed(a) /\ a \notin observed
  /\ OrdinaryObservation(a) => a[2] = gen[a[1]]
  /\ reconciles => life[a[1]] = RECON /\ a \in launched \cap contacted /\ ~DisablesRetry(a)

(* The cursor each form of the event carries. *)
ObservedCursor(a, state, reconciles) ==
  IF DisablesRetry(a) THEN (IF state = RECON THEN Cursor("pending-validation", a[2]) ELSE NullCursor)
  ELSE IF reconciles THEN (IF state = "VALIDATING" THEN NullCursor ELSE Cursor("operation-effect", a[2]))
  ELSE cursor[a[1]]

(* What an observation leaves uncertain (_derive_operation_uncertainty_    *)
(* specs), and the fence of a retry it came too late for.                  *)
ObservedUncertainties(a, next, unknownControl) ==
  Only(unknownControl, AttemptFence("SOURCE_CONTROL", a))
  \cup Only(next = "UNKNOWN", AttemptFence("BILLING", a))
  \cup Only(auth[a] = "CONSUMED", AttemptFence("RECOVERY_DISABLED", a))

(* The authorization an observation disables. *)
AuthorizationAfter(a) ==
  [auth EXCEPT ![a] = IF @ = "DUPLICATE" THEN "AVAILABLE"
                      ELSE IF @ \in {"AVAILABLE", "CONSUMED"} THEN "DISABLED" ELSE @]

EffectObserved(a, actual, unknownControl, reconciles) ==
  LET next  == ReceiptDisposition(disp[a], actual)
      state == ObservationRoute(life[a[1]], next = "UNKNOWN" \/ unknownControl,
                                OrdinaryObservation(a), reconciles)
  IN /\ ObservationHistory(a, reconciles) /\ UncertainObservation(a, next)
     /\ observed' = observed \cup {a}
     /\ Fold(a[1], ObservationEvent(OrdinaryObservation(a), reconciles), state,
             ObservedCursor(a, state, reconciles))
     /\ Chain(a, next, actual, FALSE)
     /\ fences' = ChainFences(a, next, actual) \cup ObservedUncertainties(a, next, unknownControl)
     /\ proven' = ProofSuperseded(a)
     /\ auth' = AuthorizationAfter(a)
     /\ UNCHANGED <<codes, pauseVars, slot, gen, launched, contacted>>

-----------------------------------------------------------------------------
(* Proofs of non-execution. *)

(* A claim that contradicts an earlier receipt may release nothing, one    *)
(* about a handed-off attempt cites a seal, and only the attempt that has  *)
(* the slot, free of charge and with nothing left open, may release it.    *)
NonexecutionHistory(a, q) ==
  /\ a \in observed => q.next # "RELEASED" /\ ~q.release /\ ~q.all
  /\ a \in launched => q.sealed
  /\ q.release => SlotCurrentBefore(a) /\ q.next = "RELEASED" /\ q.all

(* A proof becomes an action that resolves the attempt's uncertainties. *)
ProofAction(a, q) ==
  /\ SlotCurrentBefore(a) /\ q.sealed /\ a \notin observed
  /\ q.all /\ ~q.release /\ q.next # "UNKNOWN"
  /\ life[a[1]] \notin Terminal

PausedExternally(a) ==
  \E f \in HistoricalFences : f.why = "EXTERNAL_PAUSE" /\ f.run = a[1] /\ f.gen = a[2]

(* The route of T25 at its prefix. *)
NonexecutionRouteAtPrefix(a, q) ==
  NonexecutionRoute(life[a[1]], cursor[a[1]], a \in observed, q.next = "UNKNOWN",
                    SlotCurrentBefore(a), PausedExternally(a), a[2])

NondispatchProven(a, q) ==
  LET route == NonexecutionRouteAtPrefix(a, q)
  IN /\ Fold(a[1], "NONDISPATCH_PROVEN", route.life, route.cursor)
     /\ Chain(a, q.next, q.actual, TRUE)
     /\ NonexecutionHistory(a, q)
     /\ fences' = (ChainFences(a, q.next, q.actual) \ (IF ProofAction(a, q) THEN Unresolved(a) ELSE {}))
                  \cup Only(a \in observed, AttemptFence("NONEXECUTION_CONTRADICTION", a))
     /\ proven' = IF ProofAction(a, q) THEN [proven EXCEPT ![a] = "head"] ELSE ProofSuperseded(a)
     /\ slot' = IF q.release THEN None ELSE slot
     /\ UNCHANGED <<codes, pauseVars, gen, launched, contacted, observed, auth>>

(* The claims a NONDISPATCH_PROVEN event may record. *)
Claims ==
  LET Of(next, actual) == [next : next, actual : actual,
                           all : BOOLEAN, release : BOOLEAN, sealed : BOOLEAN]
  IN Of(KnownDispositions, Amounts) \cup Of({"UNKNOWN", "RELEASED"}, {NoAmount})

-----------------------------------------------------------------------------
(* Pauses. *)

(* The row and the fence of the run's next pause. *)
PauseRow(r, raised) ==
  /\ pauses[r] < MaxPauses
  /\ pauses' = [pauses EXCEPT ![r] = @ + 1]
  /\ fences' = fences \cup raised
  /\ ready' = None
  /\ UNCHANGED <<codes, stopMode, slot, attemptVars, budgetVars>>

(* A pause before dispatch is requested and settled in one transaction. *)
ControlPauseBody(r) == life[r] \in {"PLANNED", "BLOCKED"}

ControlPaused(r) ==
  LET n == pauses[r] + 1
  IN /\ Fold(r, "PAUSE_SETTLED", "PAUSED", cursor[r])
     /\ ControlPauseBody(r)
     /\ PauseRow(r, {ControlFence(r, n)})
     /\ pauseRow' = [pauseRow EXCEPT ![<<r, n>>] = [life |-> life[r], cursor |-> cursor[r]]]

LocalPauseBody(r) == life[r] = "RUNNING"

LocalPauseHistory(a) == Committed(a) /\ HistoricalSlot(a) /\ a \notin contacted

LocallyPaused(r) ==
  /\ Fold(r, "PAUSE_REQUESTED", "PAUSING", cursor[r])
  /\ LocalPauseBody(r) /\ LocalPauseHistory(Latest(r))
  /\ PauseRow(r, {PauseFence("LOCAL_PAUSE", Latest(r), pauses[r] + 1)})
  /\ UNCHANGED pauseRow

ExternalPauseBody(r) == life[r] \in {"RUNNING", RECON}

(* The chain of intent, launch and contact, no receipt, and accounting     *)
(* that is the head of the prefix.                                         *)
ExternalPauseHistory(a) ==
  /\ UncertainPause(a)
  /\ HistoricalSlot(a)

(* The uncertainties its snapshot implies. *)
PausedUncertainties(a) ==
  {AttemptFence(u, a) : u \in {"OUTCOME", "ACTIVITY", "SOURCE_CONTROL"}}
  \cup Only(disp[a] = "UNKNOWN", AttemptFence("BILLING", a))

ExternallyPaused(r) ==
  LET a == Latest(r)
  IN /\ Fold(r, "PAUSE_REQUESTED", RECON, cursor[r])
     /\ ExternalPauseBody(r) /\ ExternalPauseHistory(a)
     /\ PauseRow(r, {PauseFence("EXTERNAL_PAUSE", a, pauses[r] + 1)} \cup PausedUncertainties(a))
     /\ UNCHANGED pauseRow

ReconciliationPauseBody(r) == life[r] = RECON

(* The event cites the run's head, whatever it is. *)
ReconciliationPauseHistory(r) == kind[r] # "none"

ReconciliationPaused(r) ==
  /\ Fold(r, "PAUSE_FENCE_RECORDED", RECON, cursor[r])
  /\ ReconciliationPauseBody(r) /\ ReconciliationPauseHistory(r)
  /\ PauseRow(r, {PauseFence("RECONCILIATION_PAUSE", Latest(r), pauses[r] + 1)})
  /\ UNCHANGED pauseRow

ActivityPauseBody(r) == life[r] = "PAUSING"

(* The pause is still active, the proof is a release and the head of the   *)
(* chain, and nothing contradicts it.                                      *)
ActivityPauseHistory(a, n) ==
  /\ Active(PauseFence("LOCAL_PAUSE", a, n))
  /\ HistoricalSlot(a)
  /\ proven[a] = "head" /\ disp[a] = "RELEASED"
  /\ a \notin contacted \cup observed

ActivityPauseSettled(r, n) ==
  LET recovery == Cursor("operation-recovery", gen[r])
  IN /\ Fold(r, "PAUSE_SETTLED", "PAUSED", recovery)
     /\ ActivityPauseBody(r) /\ ActivityPauseHistory(Latest(r), n)
     /\ pauseRow' = [pauseRow EXCEPT ![<<r, n>>] = [life |-> "PAUSED", cursor |-> recovery]]
     /\ ready' = None
     /\ UNCHANGED <<codes, pauses, stopMode, slot, attemptVars, budgetVars, fences>>

-----------------------------------------------------------------------------
(* Resumptions. *)

(* The resumed fence is deleted, and nothing else. *)
ResumeRow(f) ==
  /\ fences' = fences \ {f}
  /\ ready' = None
  /\ UNCHANGED <<codes, pauseVars, slot, attemptVars, budgetVars>>

(* The code for another fence, as the writer recorded it from the fence    *)
(* table, must be the one the log implies.                                 *)
FenceCodeAgrees(r, own) ==
  ReadinessFenced(r, fences \ {own}) <=> ReadinessFenced(r, HistoricalFences \ {own})

ExpectedResumeBlockers(r, own) ==
  (codes[r] \ {"DISPATCH_FENCE_PRESENT"})
  \cup Only(ReadinessFenced(r, HistoricalFences \ {own}), "NON_PAUSE_FENCE_PRESENT")
  \cup Only(slot # None /\ slot[1] # r, "OTHER_OPERATION_SLOT_OCCUPIED")

ResumeHistory(r, n) ==
  /\ life[r] = "PAUSED" /\ pauseRow[<<r, n>>] # NoRow
  /\ Connected /\ Active(ControlFence(r, n))
  /\ UnsettledContacts(r) = {}
  /\ FenceCodeAgrees(r, ControlFence(r, n))

ResumedControl(r, n) ==
  LET row   == pauseRow[<<r, n>>]
      state == ResumeRoute(row.life, row.cursor, ExpectedResumeBlockers(r, ControlFence(r, n)))
  IN /\ Fold(r, "RESUME_ACCEPTED", state, row.cursor)
     /\ ResumeHistory(r, n)
     /\ ResumeRow(ControlFence(r, n))

ActivityResumeHistory(a, n) ==
  /\ life[a[1]] = "PAUSED" /\ pauseRow[<<a[1], n>>].life = "PAUSED"
  /\ Active(PauseFence("LOCAL_PAUSE", a, n)) /\ HistoricalSlot(a)
  /\ UnsettledContacts(a[1]) = {}
  /\ FenceCodeAgrees(a[1], PauseFence("LOCAL_PAUSE", a, n))

ResumedActivity(r, n) ==
  /\ Fold(r, "RESUME_ACCEPTED", "BLOCKED", pauseRow[<<r, n>>].cursor)
  /\ ActivityResumeHistory(Latest(r), n)
  /\ ResumeRow(PauseFence("LOCAL_PAUSE", Latest(r), n))

NonexecutionResumeHistory(a, n) ==
  /\ life[a[1]] = "PAUSED" /\ HistoricalSlot(a)
  /\ Active(PauseFence("EXTERNAL_PAUSE", a, n))
  /\ proven[a] # "no"

ResumedNonexecution(r, n) ==
  LET own    == PauseFence("EXTERNAL_PAUSE", Latest(r), n)
      others == {f \in HistoricalFences \ {own} : f.why \in ScopedPauses /\ f.run = r}
  IN /\ Fold(r, "RESUME_ACCEPTED", IF others = {} THEN "BLOCKED" ELSE "PAUSED", cursor[r])
     /\ NonexecutionResumeHistory(Latest(r), n)
     /\ ResumeRow(own)

-----------------------------------------------------------------------------
(* Recovery, reconciliation and stops. *)

(* No fence of the repository may be active, of whatever scope. *)
RecoveryHistory(a) ==
  /\ life[a[1]] = "BLOCKED" /\ cursor[a[1]] = Cursor("operation-recovery", a[2])
  /\ SlotCurrentBefore(a)
  /\ proven[a] # "no" /\ a \notin observed
  /\ Connected /\ HistoricalFences = {}

ProvenRecovered(r) ==
  /\ Fold(r, "BLOCKER_RESOLVED", "PLANNED", NullCursor)
  /\ RecoveryHistory(Latest(r))
  /\ auth' = [auth EXCEPT ![Latest(r)] = IF @ = "NONE" THEN "AVAILABLE" ELSE "DUPLICATE"]
  /\ ready' = None
  /\ UNCHANGED <<codes, pauseVars, slot, gen, launched, contacted, observed, proven,
                 budgetVars, fences>>

(* What a reconciliation event changes besides the run. *)
ReconciliationRow(fs) ==
  /\ fences' = fs
  /\ ready' = None
  /\ UNCHANGED <<codes, pauseVars, slot, attemptVars, budgetVars>>

VerifiedReceiptHistory(a) ==
  /\ life[a[1]] = RECON /\ a \in observed
  /\ disp[a] \in KnownDispositions
  /\ SlotCurrentBefore(a)
  /\ Unresolved(a) # {}

VerifiedReceiptReconciled(r) ==
  LET a     == Latest(r)
      rest  == fences \ Unresolved(a)
      state == ReconciliationState(r, rest, {b \in Attempts : open[b] # "no"})
  IN /\ fences' = rest
     /\ VerifiedReceiptHistory(a)
     /\ Fold(r, "RECONCILIATION_RECORDED", state,
             IF state = RECON THEN cursor[r] ELSE Cursor("operation-validation", a[2]))
     /\ ReconciliationRow(rest)

(* The uncertainties stay, one of them about the outcome, and no contact   *)
(* is left without a classification.                                       *)
DispositionHistory(a) ==
  /\ life[a[1]] = RECON /\ HistoricalSlot(a)
  /\ AttemptFence("OUTCOME", a) \in Unresolved(a)
  /\ \A c \in UnsettledContacts(a[1]) : disp[c] # "RESERVED"

ProofFreeDisposed(r, state) ==
  /\ Fold(r, "RECONCILIATION_RECORDED", state, cursor[r])
  /\ DispositionHistory(Latest(r))
  /\ ReconciliationRow(fences \cup Only(state # RECON, AttemptFence("TERMINAL", Latest(r))))

StopBody(r, mode) == Authorized(IF mode = "GRACEFUL" THEN "T18" ELSE "T19", life[r], "STOPPED")

(* An immediate stop leaves no contact of its run held. *)
StopHistory(r, mode) ==
  /\ life[r] # Absent
  /\ mode = "IMMEDIATE" => \A c \in UnsettledContacts(r) : disp[c] # "RESERVED"

StopRecorded(r, mode) ==
  /\ Fold(r, "STOP_RECORDED", "STOPPED", cursor[r])
  /\ StopBody(r, mode) /\ StopHistory(r, mode)
  /\ stopMode' = [stopMode EXCEPT ![r] = mode]
  /\ fences' = fences \cup {Fence("STOPPED_RUN", r, 0, 0)}
  /\ ready' = None
  /\ UNCHANGED <<codes, pauses, pauseRow, slot, attemptVars, budgetVars>>

EscalationBody(r) == stopMode[r] = "GRACEFUL" /\ life[r] = "STOPPED"

(* The stop precedes, its fence stands, the slot is the attempt's and some *)
(* activity is unfinished.                                                 *)
EscalationHistory(a) ==
  /\ Fence("STOPPED_RUN", a[1], 0, 0) \in fences
  /\ SlotCurrentBefore(a)
  /\ a \in launched \ observed

(* Every reservation of the run still held is charged its worst case. *)
EscalationAccounting(a) ==
  /\ IF disp[a] = "RESERVED"
     THEN /\ Chain(a, "UNKNOWN", NoAmount, FALSE)
          /\ fences' = ChainFences(a, "UNKNOWN", NoAmount)
     ELSE UNCHANGED <<budgetVars, fences>> /\ ready' = None
  /\ \A b \in Attempts : b[1] = a[1] => disp'[b] # "RESERVED"

StopEscalated(r) ==
  /\ Fold(r, "STOP_ESCALATED", "STOPPED", cursor[r])
  /\ EscalationBody(r) /\ EscalationHistory(Latest(r))
  /\ EscalationAccounting(Latest(r))
  /\ stopMode' = [stopMode EXCEPT ![r] = "ESCALATED"]
  /\ UNCHANGED <<codes, pauses, pauseRow, slot, attemptVars>>

-----------------------------------------------------------------------------
RunEvent(r) ==
  \/ PlanAccepted(r)
  \/ \E inputsReady \in BOOLEAN : ReadinessEvaluated(r, inputsReady)
  \/ InitialIntent(r) \/ RetryIntent(r)
  \/ ControlPaused(r) \/ LocallyPaused(r) \/ ExternallyPaused(r) \/ ReconciliationPaused(r)
  \/ ProvenRecovered(r) \/ VerifiedReceiptReconciled(r)
  \/ \E state \in {RECON, "STOPPED", "FAILED_FINAL"} : ProofFreeDisposed(r, state)
  \/ \E mode \in {"GRACEFUL", "IMMEDIATE"} : StopRecorded(r, mode)
  \/ StopEscalated(r)

ResumeEvent(r, n) ==
  \/ ActivityPauseSettled(r, n)
  \/ ResumedControl(r, n) \/ ResumedActivity(r, n) \/ ResumedNonexecution(r, n)

AttemptEvent(a) ==
  \/ OperationLaunched(a) \/ AdapterContacted(a)
  \/ /\ a \notin observed
     /\ \E actual \in Amounts \cup {NoAmount}, unknownControl, reconciles \in BOOLEAN :
          EffectObserved(a, actual, unknownControl, reconciles)
  \/ \E next \in {"CONSUMED", "ADJUSTED", "UNKNOWN"}, actual \in Amounts \cup {NoAmount} :
       BudgetSettled(a, next, actual)
  \/ \E q \in Claims : NondispatchProven(a, q)

Next ==
  \/ \E r \in Runs : RunEvent(r)
  \/ \E r \in Runs, n \in 1..MaxPauses : ResumeEvent(r, n)
  \/ \E a \in Attempts : AttemptEvent(a)

(* The logs the reader accepts. *)
Spec == Init /\ [][Next]_logVars
=============================================================================
