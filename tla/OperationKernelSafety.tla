------------------------ MODULE OperationKernelSafety ------------------------
(***************************************************************************)
(* Type correctness and at-most-once execution of the operation kernel,    *)
(* for any runs, any number of attempts, pauses and settlements and any    *)
(* budget.                                                                 *)
(*                                                                         *)
(* TypeOK is inductive; none of the other properties is.  What the store   *)
(* believes about an attempt (its authorizations, proofs, slot,            *)
(* reservation) has to be tied to what the target did with it, and         *)
(* EffectInvariant is that tie in seven parts.                             *)
(***************************************************************************)
EXTENDS OperationKernel, LifecycleProofs

(* Helpers: the fields of typed values. *)
LEMMA AttemptFields ==
  ASSUME NEW a \in Attempts
  PROVE  a[1] \in Runs /\ a[2] \in 1..MaxAttempts /\ a[2] \in 0..MaxAttempts /\ a = <<a[1], a[2]>>
  BY BoundsAssumption DEF Attempts

(* The cursors an operation stores are cursors. *)
LEMMA CursorTyped ==
  /\ NullCursor \in Cursors
  /\ \A k \in CursorKinds, g \in 0..MaxAttempts : Cursor(k, g) \in Cursors
  BY BoundsAssumption DEF Cursors, NullCursor, Cursor, CursorKinds

(* The fences an operation raises are fences. *)
LEMMA FenceTyped ==
  /\ \A why \in FenceKinds, r \in Runs, g \in 0..MaxAttempts, n \in 0..MaxPauses :
       Fence(why, r, g, n) \in AllFences
  /\ \A why \in FenceKinds, a \in Attempts : AttemptFence(why, a) \in AllFences
  /\ \A why \in FenceKinds, a \in Attempts, n \in 0..MaxPauses : PauseFence(why, a, n) \in AllFences
  BY AttemptFields, BoundsAssumption DEF Fence, AttemptFence, PauseFence, AllFences

(* An appended lifecycle event keeps the run's columns typed. *)
LEMMA RecordTyped ==
  ASSUME TypeOK, NEW r \in Runs, NEW k \in DOMAIN LifecycleRoutes,
         NEW state \in LifecycleStates \cup {Absent}, NEW cur \in Cursors, Record(r, k, state, cur)
  PROVE  /\ life' \in [Runs -> LifecycleStates \cup {Absent}]
         /\ cursor' \in [Runs -> Cursors]
         /\ kind' \in [Runs -> DOMAIN LifecycleRoutes \cup {"none"}]
         /\ ready' \in Runs \cup {None}
  BY DEF TypeOK, Record

(* A settlement keeps the reservation's columns typed. *)
LEMMA SettlementTyped ==
  ASSUME TypeOK, NEW a \in Attempts, NEW next \in Dispositions \ {"RESERVED"},
         NEW actual \in Amounts \cup {NoAmount}, next \in KnownDispositions => actual # NoAmount,
         Settlement(a, next, actual)
  PROVE  /\ disp' \in [Attempts -> Dispositions \cup {"NONE"}]
         /\ charged' \in [Attempts -> Nat]
         /\ open' \in [Attempts -> {"no", "head", "open"}]
         /\ released' \subseteq Attempts
  <1>1. SettledCharge(disp[a], charged[a], Worst, next, actual) \in Nat
    BY BudgetAssumption, SettledChargeNat DEF TypeOK
  <1>2. OpenAfter(a, next) \in {"no", "head", "open"}
    BY DEF OpenAfter
  <1>3. QED BY <1>1, <1>2 DEF TypeOK, Settlement

(* The fences a settlement leaves are typed. *)
LEMMA FencesAfterTyped ==
  ASSUME TypeOK, NEW a \in Attempts, NEW next, NEW actual
  PROVE  FencesAfter(a, next, actual) \subseteq AllFences
  <1>1. \A why \in {"ADDITIONAL_LIABILITY", "LATE_ACCOUNTING", "BUDGET_CAP_EXCEEDED"} :
          AttemptFence(why, a) \in AllFences
    BY FenceTyped, BoundsAssumption DEF FenceKinds, RepoWide
  <1>2. [AttemptFence("ADDITIONAL_LIABILITY", a) EXCEPT !.n = 1] \in AllFences
    BY <1>1, BoundsAssumption DEF AllFences
  <1>3. fences \subseteq AllFences
    BY DEF TypeOK
  <1>4. QED BY <1>1, <1>2, <1>3 DEF FencesAfter, Only

(* A requested pause is counted within its bound and its fences are typed. *)
LEMMA RequestPauseTyped ==
  ASSUME TypeOK, NEW r \in Runs, NEW raised \in SUBSET AllFences, RequestPause(r, raised)
  PROVE  /\ NextPause(r) \in 1..MaxPauses
         /\ NextPause(r) \in 0..MaxPauses
         /\ pauses' \in [Runs -> 0..MaxPauses]
         /\ fences' \subseteq AllFences
  BY BoundsAssumption DEF TypeOK, RequestPause, NextPause

-----------------------------------------------------------------------------
(* The steps of a run, of a resumption and of an attempt keep the types. *)

(* Committing an intent keeps the types. *)
LEMMA IntentTyped ==
  ASSUME TypeOK, NEW a \in Attempts, WriteIntent(a),
         auth' \in [Attempts -> {"NONE", "AVAILABLE", "DUPLICATE", "CONSUMED", "DISABLED"}]
  PROVE  TypeOK'
  <1>1. /\ life' \in [Runs -> LifecycleStates \cup {Absent}]
        /\ cursor' \in [Runs -> Cursors]
        /\ kind' \in [Runs -> DOMAIN LifecycleRoutes \cup {"none"}]
        /\ ready' \in Runs \cup {None}
    BY RecordTyped, AttemptFields, EventKinds DEF WriteIntent, TypeOK, LifecycleStates
  <1>2. QED
    BY <1>1, AttemptFields DEF TypeOK, WriteIntent, pauseVars, targetVars, Dispositions

(* Operations on a run keep the types. *)
LEMMA RunStepTyped ==
  ASSUME TypeOK, NEW r \in Runs, RunStep(r)
  PROVE  TypeOK'
  <1> DEFINE RunColumns ==
        /\ life' \in [Runs -> LifecycleStates \cup {Absent}]
        /\ cursor' \in [Runs -> Cursors]
        /\ kind' \in [Runs -> DOMAIN LifecycleRoutes \cup {"none"}]
        /\ ready' \in Runs \cup {None}
  <1>1. CASE AcceptPlan(r)
    <2>1. RunColumns BY <1>1, RecordTyped, EventKinds, CursorTyped DEF LifecycleStates,
       AcceptPlan, PlanPermitted
    <2>2. QED BY <1>1, <2>1 DEF TypeOK, AcceptPlan, PlanPermitted, pauseVars, attemptVars,
       budgetVars, targetVars
  <1>2. CASE \E inputsReady \in BOOLEAN : EvaluateReadiness(r, inputsReady)
    <2>1. PICK inputsReady \in BOOLEAN : EvaluateReadiness(r, inputsReady) BY <1>2
    <2>2. ReadinessBlockers(r, inputsReady) \subseteq BlockerCodes
      BY DEF ReadinessBlockers, Only, BlockerCodes
    <2>3. QED
      BY <2>1, <2>2, EventKinds
      DEF TypeOK, EvaluateReadiness, ReadinessEvaluable, LifecycleStates, pauseVars, attemptVars,
      budgetVars, targetVars
  <1>3. CASE CommitIntent(r)
    <2>1. <<r, 1>> \in Attempts BY BoundsAssumption DEF Attempts
    <2>2. QED BY <1>3, <2>1, IntentTyped DEF CommitIntent, TypeOK
  <1>4. CASE CommitRetry(r)
    <2>1. <<r, gen[r]>> \in Attempts /\ <<r, gen[r] + 1>> \in Attempts
      BY <1>4, BoundsAssumption DEF CommitRetry, Attempts, TypeOK
    <2>2. auth' \in [Attempts -> {"NONE", "AVAILABLE", "DUPLICATE", "CONSUMED", "DISABLED"}]
      BY <1>4, <2>1 DEF CommitRetry, Current, TypeOK
    <2>3. WriteIntent(<<r, gen[r] + 1>>) BY <1>4 DEF CommitRetry
    <2>4. QED BY <2>1, <2>2, <2>3, IntentTyped
  <1>5. CASE PauseBeforeDispatch(r)
    <2>1. RunColumns BY <1>5, RecordTyped, EventKinds, CursorTyped DEF LifecycleStates,
       PauseBeforeDispatch, TypeOK
    <2>2. RequestPause(r, {ControlFence(r, NextPause(r))}) /\ NextPause(r) \in 1..MaxPauses
      BY <1>5, BoundsAssumption DEF PauseBeforeDispatch, RequestPause, NextPause, TypeOK
    <2>3. ControlFence(r, NextPause(r)) \in AllFences
      BY <2>2, FenceTyped, BoundsAssumption DEF ControlFence, FenceKinds, RepoWide
    <2>4. pauses' \in [Runs -> 0..MaxPauses] /\ fences' \subseteq AllFences
      BY <2>2, <2>3, RequestPauseTyped
    <2>5. life[r] \in {"PLANNED", "BLOCKED"} BY <1>5, AuthorizedRows DEF PauseBeforeDispatch
    <2>6. QED
      BY <1>5, <2>1, <2>2, <2>4, <2>5
      DEF PauseBeforeDispatch, RequestPause, TypeOK, attemptVars, budgetVars, targetVars
  <1>6. CASE PauseLocal(r)
    <2>1. RunColumns BY <1>6, RecordTyped, EventKinds, CursorTyped DEF LifecycleStates,
       PauseLocal, LocalPausePermitted, TypeOK
    <2>2. /\ RequestPause(r, {PauseFence("LOCAL_PAUSE", slot, NextPause(r))})
          /\ NextPause(r) \in 0..MaxPauses
      BY <1>6, BoundsAssumption DEF PauseLocal, LocalPausePermitted, RequestPause, NextPause, TypeOK
    <2>3. slot[1] = r /\ slot[2] \in 0..MaxAttempts BY <1>6 DEF PauseLocal, LocalPausePermitted,
       Current, TypeOK
    <2>4. PauseFence("LOCAL_PAUSE", slot, NextPause(r)) \in AllFences
      BY <2>2, <2>3, FenceTyped DEF PauseFence, FenceKinds, ScopedPauses
    <2>5. pauses' \in [Runs -> 0..MaxPauses] /\ fences' \subseteq AllFences
      BY <2>2, <2>4, RequestPauseTyped
    <2>6. QED
      BY <1>6, <2>1, <2>2, <2>5
      DEF PauseLocal, LocalPausePermitted, RequestPause, TypeOK, attemptVars, budgetVars, targetVars
  <1>7. CASE PauseExternal(r)
    <2> DEFINE a == Current(r)
               raised == {PauseFence("EXTERNAL_PAUSE", a, NextPause(r))}
                         \cup {AttemptFence(u, a) : u \in {"OUTCOME", "ACTIVITY", "SOURCE_CONTROL"}}
                         \cup Only(disp[a] = "UNKNOWN", AttemptFence("BILLING", a))
    <2>1. RunColumns BY <1>7, RecordTyped, EventKinds, CursorTyped DEF LifecycleStates,
       PauseExternal, ExternalPausePermitted, ExternalPauseFences, TypeOK, RECON
    <2>2. RequestPause(r, raised) /\ NextPause(r) \in 0..MaxPauses
      BY <1>7, BoundsAssumption DEF PauseExternal, ExternalPausePermitted, ExternalPauseFences,
         RequestPause, NextPause, TypeOK
    <2>3. a[1] = r /\ a[2] \in 0..MaxAttempts /\ 0 \in 0..MaxPauses
      BY BoundsAssumption DEF Current, TypeOK
    <2> HIDE DEF a
    <2>4. /\ PauseFence("EXTERNAL_PAUSE", a, NextPause(r)) \in AllFences
          /\ \A u \in UncertaintyKinds : AttemptFence(u, a) \in AllFences
      BY <2>2, <2>3, FenceTyped
      DEF PauseFence, AttemptFence, FenceKinds, ScopedPauses, UncertaintyKinds
    <2>5. raised \subseteq AllFences BY <2>4 DEF Only, UncertaintyKinds
    <2> HIDE DEF raised
    <2>6. pauses' \in [Runs -> 0..MaxPauses] /\ fences' \subseteq AllFences
      BY <2>2, <2>5, RequestPauseTyped
    <2>7. QED
      BY <1>7, <2>1, <2>2, <2>6
      DEF PauseExternal, ExternalPausePermitted, ExternalPauseFences, RequestPause, TypeOK,
      attemptVars, budgetVars, targetVars
  <1>8. CASE PauseReconciliation(r)
    <2>1. RunColumns BY <1>8, RecordTyped, EventKinds, CursorTyped DEF LifecycleStates,
       PauseReconciliation, TypeOK, RECON
    <2>2. /\ RequestPause(r, {PauseFence("RECONCILIATION_PAUSE", Current(r), NextPause(r))})
          /\ NextPause(r) \in 0..MaxPauses
      BY <1>8, BoundsAssumption DEF PauseReconciliation, RequestPause, NextPause, TypeOK
    <2>3. PauseFence("RECONCILIATION_PAUSE", Current(r), NextPause(r)) \in AllFences
      BY <2>2, FenceTyped DEF PauseFence, FenceKinds, ScopedPauses, Current, TypeOK
    <2>4. pauses' \in [Runs -> 0..MaxPauses] /\ fences' \subseteq AllFences
      BY <2>2, <2>3, RequestPauseTyped
    <2>5. QED
      BY <1>8, <2>1, <2>2, <2>4
      DEF PauseReconciliation, RequestPause, TypeOK, attemptVars, budgetVars, targetVars
  <1>9. CASE RecoverProven(r)
    <2>1. RunColumns BY <1>9, RecordTyped, EventKinds, CursorTyped DEF LifecycleStates,
       RecoverProven, RecoveryPermitted
    <2>2. QED
      BY <1>9, <2>1 DEF RecoverProven, RecoveryPermitted, TypeOK, pauseVars, budgetVars, targetVars
  <1>10. CASE ReconcileVerifiedReceipt(r)
    <2>1. ReconciliationState(r, fences \ Uncertainties(Current(r)), Liable) \in LifecycleStates
      BY DEF ReconciliationState, RECON, LifecycleStates
    <2>2. /\ cursor[r] \in Cursors
          /\ Cursor("operation-validation", gen[r]) \in Cursors
      BY CursorTyped DEF TypeOK, CursorKinds
    <2>3. RunColumns BY <1>10, <2>1, <2>2, RecordTyped, EventKinds,
       CursorTyped DEF LifecycleStates, ReconcileVerifiedReceipt
    <2>4. QED
      BY <1>10, <2>3 DEF ReconcileVerifiedReceipt, TypeOK, pauseVars, attemptVars, budgetVars,
         targetVars
  <1>11. CASE \E state \in {RECON, "STOPPED", "FAILED_FINAL"} : ProofFreeDisposition(r, state)
    <2>1. PICK state \in {RECON, "STOPPED", "FAILED_FINAL"} : ProofFreeDisposition(r, state) BY <1>11
    <2>2. RunColumns BY <2>1, RecordTyped, EventKinds, CursorTyped DEF LifecycleStates,
       ProofFreeDisposition, DispositionPermitted, TypeOK, RECON
    <2>3. AttemptFence("TERMINAL", Current(r)) \in AllFences
      <3>1. gen[r] \in 0..MaxAttempts /\ 0 \in 0..MaxPauses BY BoundsAssumption DEF TypeOK
      <3>2. QED BY <3>1, FenceTyped DEF AttemptFence, Current, FenceKinds
    <2>4. fences' \subseteq AllFences
      BY <2>1, <2>3 DEF ProofFreeDisposition, DispositionPermitted, Only, TypeOK
    <2>5. QED
      BY <2>1, <2>2, <2>4 DEF ProofFreeDisposition, DispositionPermitted, TypeOK, pauseVars,
         attemptVars, budgetVars, targetVars
  <1>12. CASE \E mode \in {"GRACEFUL", "IMMEDIATE"} : Stop(r, mode)
    <2>1. PICK mode \in {"GRACEFUL", "IMMEDIATE"} : Stop(r, mode) BY <1>12
    <2>2. RunColumns BY <2>1, RecordTyped, EventKinds, CursorTyped DEF LifecycleStates, Stop,
       StopPermitted, TypeOK
    <2>3. Fence("STOPPED_RUN", r, 0, 0) \in AllFences
      BY FenceTyped, BoundsAssumption DEF FenceKinds
    <2>4. fences' \subseteq AllFences BY <2>1, <2>3 DEF Stop, StopPermitted, TypeOK
    <2>5. stopMode' \in [Runs -> {"none", "GRACEFUL", "IMMEDIATE", "ESCALATED"}]
      BY <2>1 DEF Stop, StopPermitted, TypeOK
    <2>6. QED BY <2>1, <2>2, <2>4, <2>5 DEF Stop, StopPermitted, TypeOK, attemptVars, budgetVars,
       targetVars
  <1>13. CASE EscalateStop(r)
    <2> DEFINE a == Current(r)
    <2>1. RunColumns BY <1>13, RecordTyped, EventKinds, CursorTyped DEF LifecycleStates,
       EscalateStop, EscalationPermitted, EscalationCharge, TypeOK
    <2>2. a \in Attempts BY <1>13 DEF EscalateStop, EscalationPermitted, EscalationCharge, TypeOK
    <2>3. stopMode' \in [Runs -> {"none", "GRACEFUL", "IMMEDIATE", "ESCALATED"}]
      BY <1>13 DEF EscalateStop, EscalationPermitted, EscalationCharge, TypeOK
    <2>4. CASE disp[a] = "RESERVED"
      <3>1. Settlement(a, "UNKNOWN", NoAmount) /\ asked' = asked
        BY <1>13, <2>4 DEF EscalateStop, EscalationPermitted, EscalationCharge
      <3> HIDE DEF a
      <3>2. /\ disp' \in [Attempts -> Dispositions \cup {"NONE"}]
            /\ charged' \in [Attempts -> Nat]
            /\ open' \in [Attempts -> {"no", "head", "open"}]
            /\ released' \subseteq Attempts
        BY <2>2, <3>1, SettlementTyped DEF Dispositions, KnownDispositions
      <3>3. QED
        BY <1>13, <2>1, <2>3, <3>1, <3>2 DEF EscalateStop, EscalationPermitted, EscalationCharge,
           TypeOK, attemptVars, targetVars
    <2>5. CASE disp[a] # "RESERVED"
      <3>1. UNCHANGED <<budgetVars, fences>> BY <1>13, <2>5 DEF EscalateStop,
         EscalationPermitted, EscalationCharge
      <3>2. QED
        BY <1>13, <2>1, <2>3, <3>1 DEF EscalateStop, EscalationPermitted, EscalationCharge,
           TypeOK, attemptVars, targetVars, budgetVars
    <2>6. QED BY <2>4, <2>5
  <1>14. QED
    BY <1>1, <1>2, <1>3, <1>4, <1>5, <1>6, <1>7, <1>8, <1>9, <1>10, <1>11, <1>12, <1>13 DEF RunStep

(* Resumes keep the types. *)
LEMMA ResumeStepTyped ==
  ASSUME TypeOK, NEW r \in Runs, NEW n \in 1..MaxPauses, ResumeStep(r, n)
  PROVE  TypeOK'
  <1> DEFINE RunColumns ==
        /\ life' \in [Runs -> LifecycleStates \cup {Absent}]
        /\ cursor' \in [Runs -> Cursors]
        /\ kind' \in [Runs -> DOMAIN LifecycleRoutes \cup {"none"}]
        /\ ready' \in Runs \cup {None}
  <1>0. cursor[r] \in Cursors /\ pauseRow[<<r, n>>].cursor \in Cursors /\ gen[r] \in 0..MaxAttempts
    BY DEF TypeOK
  <1>1. CASE Resume(r, n)
    <2>1. ResumeState(r, n) \in LifecycleStates
      BY <1>1, AuthorizedRows DEF Resume, LifecycleStates
    <2>2. RunColumns BY <1>0, <1>1, <2>1, RecordTyped, EventKinds DEF Resume
    <2>3. QED
      BY <1>1, <2>2 DEF Resume, TypeOK, pauseVars, attemptVars, budgetVars, targetVars
  <1>2. CASE SettleActivityPause(r, n)
    <2>1. Cursor("operation-recovery", gen[r]) \in Cursors
      BY <1>0, CursorTyped DEF CursorKinds
    <2>2. RunColumns
      BY <1>2, <2>1, RecordTyped, EventKinds DEF SettleActivityPause, ActivityPauseSettleable,
         LifecycleStates
    <2>3. pauseRow' \in [Runs \X (1..MaxPauses) ->
                           [life : {"PLANNED", "BLOCKED", "PAUSED", Absent}, cursor : Cursors]]
      BY <1>2, <2>1 DEF SettleActivityPause, ActivityPauseSettleable, TypeOK
    <2>4. QED
      BY <1>2, <2>2, <2>3 DEF SettleActivityPause, ActivityPauseSettleable, TypeOK, attemptVars,
         budgetVars, targetVars
  <1>3. CASE ResumeActivitySettlement(r, n)
    <2>1. RunColumns
      BY <1>0, <1>3, RecordTyped, EventKinds DEF ResumeActivitySettlement, ActivityResumable,
         LifecycleStates
    <2>2. QED
      BY <1>3, <2>1
      DEF ResumeActivitySettlement, ActivityResumable, TypeOK, pauseVars, attemptVars,
      budgetVars, targetVars
  <1>4. CASE ResumeOperationNonexecution(r, n)
    <2>1. PICK state \in {"PAUSED", "BLOCKED"} : Record(r, "RESUME_ACCEPTED", state, cursor[r])
      BY <1>4 DEF ResumeOperationNonexecution, NonexecutionResumable
    <2>2. RunColumns BY <1>0, <2>1, RecordTyped, EventKinds DEF LifecycleStates
    <2>3. QED
      BY <1>4, <2>2
      DEF ResumeOperationNonexecution, NonexecutionResumable, TypeOK, pauseVars, attemptVars,
      budgetVars, targetVars
  <1>5. QED BY <1>1, <1>2, <1>3, <1>4 DEF ResumeStep

(* Steps of an attempt keep the types. *)
LEMMA AttemptStepTyped ==
  ASSUME TypeOK, NEW a \in Attempts, AttemptStep(a)
  PROVE  TypeOK'
  <1> DEFINE RunColumns ==
               /\ life' \in [Runs -> LifecycleStates \cup {Absent}]
               /\ cursor' \in [Runs -> Cursors]
               /\ kind' \in [Runs -> DOMAIN LifecycleRoutes \cup {"none"}]
               /\ ready' \in Runs \cup {None}
             BudgetColumns ==
               /\ disp' \in [Attempts -> Dispositions \cup {"NONE"}]
               /\ charged' \in [Attempts -> Nat]
               /\ open' \in [Attempts -> {"no", "head", "open"}]
               /\ released' \subseteq Attempts
  <1>0. /\ a[1] \in Runs /\ a[2] \in 0..MaxAttempts /\ cursor[a[1]] \in Cursors
        /\ life[a[1]] \in LifecycleStates \cup {Absent}
        /\ usage[a] \in Amounts \cup {NoAmount}
    BY AttemptFields DEF TypeOK
  <1>1. CASE ClaimLaunch(a)
    <2>1. Cursor("operation-launch", a[2]) \in Cursors BY <1>0, CursorTyped DEF CursorKinds
    <2>2. RunColumns
      BY <1>0, <1>1, <2>1, RecordTyped, EventKinds DEF ClaimLaunch, LaunchPermitted,
         LifecycleStates, RECON
    <2>3. QED BY <1>1, <2>2 DEF ClaimLaunch, LaunchPermitted, TypeOK, pauseVars, budgetVars, targetVars
  <1>2. CASE Contact(a)
    <2>1. Cursor("operation-effect", a[2]) \in Cursors BY <1>0, CursorTyped DEF CursorKinds
    <2>2. RunColumns
      BY <1>0, <1>2, <2>1, RecordTyped, EventKinds DEF Contact, ContactPermitted, LifecycleStates, RECON
    <2>3. BudgetColumns
      BY <1>2, SettlementTyped DEF Contact, ContactPermitted, Dispositions, KnownDispositions
    <2>4. /\ contacted' \subseteq Attempts
          /\ proc' \in [Attempts -> {"idle", "committed", "claimed", "contacted"}]
      BY <1>2 DEF Contact, ContactPermitted, TypeOK
    <2>5. QED
      BY <1>2, <2>2, <2>3, <2>4 DEF Contact, ContactPermitted, TypeOK, pauseVars, targetVars
  <1>3. CASE \E u \in Amounts \cup {NoAmount} : Execute(a, u)
    BY <1>3 DEF Execute, TypeOK, runVars, pauseVars, attemptVars, budgetVars
  <1>4. CASE DispatchEnds(a)
    BY <1>4 DEF DispatchEnds, TypeOK, runVars, pauseVars, attemptVars, budgetVars, targetVars
  <1>5. CASE \E path \in {"intent", "launch"} : SealNonexecution(a, path)
    BY <1>5 DEF SealNonexecution, SealOf, TypeOK, runVars, pauseVars, attemptVars, budgetVars
  <1>6. CASE \E unknownControl \in BOOLEAN : IntakeReceipt(a, unknownControl)
    <2>1. PICK unknownControl \in BOOLEAN : IntakeReceipt(a, unknownControl) BY <1>6
    <2> DEFINE next == ReceiptDisposition(disp[a], usage[a])
    <2>2. /\ next \in {"CONSUMED", "ADJUSTED", "UNKNOWN"}
          /\ next \in KnownDispositions => usage[a] # NoAmount
      BY DEF ReceiptDisposition, KnownDispositions
    <2>3. BudgetColumns
      <3>1. Settlement(a, next, usage[a]) BY <2>1 DEF IntakeReceipt, Retried, OrdinaryReceipt,
         ReceiptPermitted
      <3> HIDE DEF next
      <3>2. QED BY <1>0, <2>2, <3>1, SettlementTyped DEF Dispositions
    <2>4. fences' \subseteq AllFences
      <3>1. fences' = FencesAfter(a, next, usage[a]) \cup ObservationFences(a, next, unknownControl)
        BY <2>1 DEF IntakeReceipt, Retried, OrdinaryReceipt, ReceiptPermitted
      <3> HIDE DEF next
      <3>2. ObservationFences(a, next, unknownControl) \subseteq AllFences
        BY FenceTyped, BoundsAssumption DEF ObservationFences, Only, FenceKinds, UncertaintyKinds
      <3>3. QED BY <3>1, <3>2, FencesAfterTyped
    <2>5. PICK k \in {"RECEIPT_RECORDED", "RECONCILIATION_RECORDED", "LATE_RECEIPT_RECORDED"},
               state \in LifecycleStates, cur \in Cursors : Record(a[1], k, state, cur)
      <3>1. \A o, c \in BOOLEAN : ObservationEvent(o, c)
              \in {"RECEIPT_RECORDED", "RECONCILIATION_RECORDED", "LATE_RECEIPT_RECORDED"}
        BY DEF ObservationEvent
      <3>2. \A u, o, c \in BOOLEAN : ObservationRoute(life[a[1]], u, o, c) \in LifecycleStates
        BY DEF ObservationRoute, LifecycleStates, Terminal
      <3>3. \A s, t, c : ObservationCursor(a, s, t, c) \in Cursors
        BY <1>0, CursorTyped DEF ObservationCursor, CursorKinds
      <3>4. QED BY <2>1, <3>1, <3>2, <3>3 DEF IntakeReceipt, Retried, OrdinaryReceipt,
         ReceiptPermitted, ReconcilesDispatch
    <2>6. RunColumns BY <1>0, <2>5, RecordTyped, EventKinds
    <2>7. /\ proven' \in [Attempts -> {"no", "head", "superseded"}]
          /\ auth' \in [Attempts -> {"NONE", "AVAILABLE", "DUPLICATE", "CONSUMED", "DISABLED"}]
          /\ observed' \subseteq Attempts
      BY <2>1 DEF IntakeReceipt, Retried, OrdinaryReceipt, ReceiptPermitted, Superseded,
         InvalidatedAuthorization, TypeOK
    <2>8. QED
      BY <2>1, <2>3, <2>4, <2>6, <2>7 DEF IntakeReceipt, Retried, OrdinaryReceipt,
         ReceiptPermitted, TypeOK, pauseVars, targetVars
  <1>7. CASE \E next \in {"CONSUMED", "ADJUSTED", "UNKNOWN"}, actual \in Amounts \cup {NoAmount} :
               SettleBudget(a, next, actual)
    <2>1. PICK next \in {"CONSUMED", "ADJUSTED", "UNKNOWN"}, actual \in Amounts \cup {NoAmount} :
            SettleBudget(a, next, actual) BY <1>7
    <2>2. BudgetColumns
      BY <2>1, SettlementTyped DEF SettleBudget, SettlementAllowed, Dispositions
    <2>3. fences' \subseteq AllFences BY <2>1, FencesAfterTyped DEF SettleBudget
    <2>4. proven' \in [Attempts -> {"no", "head", "superseded"}] /\ asked' \in 0..MaxSettlements
      BY <2>1, BoundsAssumption DEF SettleBudget, Superseded, Ask, TypeOK
    <2>5. QED
      BY <2>1, <2>2, <2>3, <2>4 DEF SettleBudget, Append, TypeOK, pauseVars, targetVars
  <1>8. CASE \E q \in NonexecutionClaims : ProveNondispatch(a, q)
    <2>1. PICK q \in NonexecutionClaims : ProveNondispatch(a, q) BY <1>8
    <2>2. q.next \in Dispositions \ {"RESERVED"} /\ q.actual \in Amounts \cup {NoAmount}
      BY DEF NonexecutionClaims, Dispositions, KnownDispositions
    <2>3. /\ Settlement(a, q.next, q.actual)
          /\ q.next \in KnownDispositions => q.actual # NoAmount
      BY <2>1 DEF ProveNondispatch, NonexecutionFences, NonexecutionPermitted, SettlementAllowed
    <2>4. BudgetColumns BY <2>2, <2>3, SettlementTyped
    <2>5. fences' \subseteq AllFences
      <3>1. AttemptFence("NONEXECUTION_CONTRADICTION", a) \in AllFences
        BY FenceTyped DEF FenceKinds
      <3>2. fences' \subseteq FencesAfter(a, q.next, q.actual)
                              \cup {AttemptFence("NONEXECUTION_CONTRADICTION", a)}
        BY <2>1 DEF ProveNondispatch, NonexecutionFences, Only
      <3>3. QED BY <3>1, <3>2, FencesAfterTyped
    <2>6. RunColumns
      <3> DEFINE route == NonexecutionRoute(life[a[1]], cursor[a[1]], a \in observed,
                            q.next = "UNKNOWN", slot = a, ExternallyPaused(a), a[2])
      <3>1. Record(a[1], "NONDISPATCH_PROVEN", route.life, route.cursor)
        BY <2>1 DEF ProveNondispatch, NonexecutionFences
      <3>2. route.cursor \in {cursor[a[1]], Cursor("operation-recovery", a[2])}
            /\ route.life \in {life[a[1]], "RECONCILIATION_REQUIRED", "PAUSED", "BLOCKED"}
        BY DEF NonexecutionRoute
      <3> HIDE DEF route
      <3>3. route.cursor \in Cursors /\ route.life \in LifecycleStates \cup {Absent}
        BY <1>0, <3>2, CursorTyped DEF CursorKinds, LifecycleStates
      <3>4. QED BY <1>0, <3>1, <3>3, RecordTyped, EventKinds
    <2>7. /\ proven' \in [Attempts -> {"no", "head", "superseded"}]
          /\ slot' \in Attempts \cup {None}
          /\ asked' \in 0..MaxSettlements
      BY <2>1, BoundsAssumption DEF ProveNondispatch, NonexecutionFences, Superseded, Ask, TypeOK
    <2>8. QED
      BY <2>1, <2>4, <2>5, <2>6, <2>7 DEF ProveNondispatch, NonexecutionFences, TypeOK,
         pauseVars, targetVars
  <1>9. QED BY <1>1, <1>2, <1>3, <1>4, <1>5, <1>6, <1>7, <1>8 DEF AttemptStep

(* The types hold at first. *)
LEMMA InitTyped == Init => TypeOK
  BY BoundsAssumption, CursorTyped DEF Init, TypeOK, NoRow, NoAmount

(* Every step keeps the types. *)
LEMMA NextTyped == TypeOK /\ [Next]_vars => TypeOK'
  <1> SUFFICES ASSUME TypeOK, [Next]_vars PROVE TypeOK' OBVIOUS
  <1>1. CASE Next BY <1>1, RunStepTyped, ResumeStepTyped, AttemptStepTyped DEF Next
  <1>2. CASE UNCHANGED vars
    BY <1>2 DEF vars, runVars, pauseVars, attemptVars, budgetVars, targetVars, TypeOK
  <1>3. QED BY <1>1, <1>2

(* Every reachable state of the store, the dispatching processes and the   *)
(* target is well typed, for every value of the constants: in particular   *)
(* no reservation is ever charged an amount nobody stated, no cursor names *)
(* a generation out of range and no pause exceeds its bound.               *)
THEOREM TypeCorrect == Spec => []TypeOK
  BY InitTyped, NextTyped, PTL DEF Spec

--------------------------------------------------------------------------------

(* Two runs never both have generations of one logical effect. *)
EffectHasOneRun ==
  \A q, r \in Runs : q # r /\ EffectOf[q] = EffectOf[r] => gen[q] = 0 \/ gen[r] = 0

(* Nothing happens to a generation before its intent is committed. *)
UncommittedUntouched ==
  \A a \in Attempts : a[2] > gen[a[1]] =>
    target[a] = "free" /\ disp[a] = "NONE" /\ proc[a] = "idle" /\ a \notin launched

(* What the store takes as proof of non-execution, the target has sealed. *)
ProofsAreSealed ==
  \A a \in Attempts :
    auth[a] \in {"AVAILABLE", "DUPLICATE"} \/ proven[a] # "no" => target[a] \in Sealed

(* A process reaches the target only past the durable claims, in order. *)
ClaimsPrecedeEffect ==
  \A a \in Attempts :
    /\ proc[a] \in {"claimed", "contacted"} => a \in launched
    /\ proc[a] = "contacted" => a \in contacted
    /\ a \in contacted => a \in launched
    /\ target[a] = "executed" => a \in contacted

(* A contacted attempt that is not sealed owns the slot and its charge. *)
OutstandingIsOwned ==
  \A a \in contacted : target[a] \notin Sealed =>
    slot = a /\ disp[a] \notin {"NONE", "RESERVED", "RELEASED"}

EffectInvariant ==
  /\ EffectHasOneRun
  /\ UncommittedUntouched
  /\ RetryFollowsSeal
  /\ ProofsAreSealed
  /\ ClaimsPrecedeEffect
  /\ OutstandingIsOwned
  /\ UnknownEffectStaysOpen

-----------------------------------------------------------------------------
(* The state EffectInvariant reads, but for the lifecycle and the receipts. *)
effectVars == <<gen, target, proc, auth, proven, launched, contacted, slot, disp>>

(* No run leaves reconciliation or an end state. *)
StaysOpen == \A r \in Runs : life[r] \in {RECON} \cup Terminal => life'[r] \in {RECON} \cup Terminal

(* A step that only moves runs keeps the invariant if it hides no effect. *)
LEMMA QuietStep ==
  ASSUME EffectInvariant, TypeOK, UNCHANGED effectVars, observed' = observed, StaysOpen
  PROVE  EffectInvariant'
  <1>1. UnknownEffectStaysOpen'
    BY AttemptFields DEF EffectInvariant, UnknownEffectStaysOpen, effectVars, StaysOpen, TypeOK
  <1>2. QED
    BY <1>1 DEF EffectInvariant, effectVars, EffectHasOneRun, UncommittedUntouched,
       RetryFollowsSeal, ProofsAreSealed, ClaimsPrecedeEffect, OutstandingIsOwned

(* Appending an event to a run that was neither waiting nor ended, or that *)
(* goes on waiting or ends, hides nothing.                                 *)
LEMMA RecordStaysOpen ==
  ASSUME TypeOK, NEW r \in Runs, NEW k, NEW state, NEW cur, Record(r, k, state, cur),
         life[r] \notin {RECON} \cup Terminal \/ state \in {RECON} \cup Terminal
  PROVE  StaysOpen
  BY DEF Record, StaysOpen, TypeOK

(* The states a run can be in before it waits for anything. *)
LEMMA EarlyStates ==
  {"PLANNED", "BLOCKED", "PAUSED", "RUNNING", "PAUSING", Absent} \cap ({RECON} \cup Terminal) = {}
  BY DEF Terminal, RECON, Absent

(* At most one attempt of the repository is contacted and not sealed. *)
LEMMA OneUnsealed ==
  ASSUME EffectInvariant, NEW a \in contacted, NEW b \in contacted,
         target[a] \notin Sealed, target[b] \notin Sealed
  PROVE  a = b
  BY DEF EffectInvariant, OutstandingIsOwned

(* Committing the next generation of a run keeps the invariant when the    *)
(* generation before it is sealed, nothing contacted is still outstanding, *)
(* and a first generation is the first of its effect.                      *)
LEMMA IntentKeepsEffects ==
  ASSUME EffectInvariant, TypeOK, NEW r \in Runs, NEW g \in 1..MaxAttempts, g = gen[r] + 1,
         WriteIntent(<<r, g>>), life[r] = "PLANNED",
         \A b \in Attempts : auth'[b] \in {"AVAILABLE", "DUPLICATE"}
                               => auth[b] \in {"AVAILABLE", "DUPLICATE"},
         \A b \in contacted : target[b] \in Sealed,
         \A b \in Attempts : b[1] = r /\ b[2] = gen[r] => target[b] \in Sealed,
         gen[r] = 0 => \A q \in Runs : EffectOf[q] = EffectOf[r] => gen[q] = 0
  PROVE  EffectInvariant'
  <1> DEFINE a == <<r, g>>
  <1>0. a \in Attempts BY DEF Attempts
  <1>1. /\ gen' = [gen EXCEPT ![r] = g]
        /\ disp' = [disp EXCEPT ![a] = "RESERVED"] /\ proc' = [proc EXCEPT ![a] = "committed"]
        /\ target' = target /\ launched' = launched /\ contacted' = contacted
        /\ observed' = observed /\ proven' = proven
    BY DEF WriteIntent, targetVars
  <1>2. EffectHasOneRun'
    BY <1>1 DEF EffectInvariant, EffectHasOneRun, TypeOK
  <1>3. UncommittedUntouched'
    BY <1>0, <1>1, AttemptFields DEF EffectInvariant, UncommittedUntouched, TypeOK
  <1>4. RetryFollowsSeal'
    BY <1>1, AttemptFields DEF EffectInvariant, RetryFollowsSeal, TypeOK
  <1>5. ProofsAreSealed'
    BY <1>1 DEF EffectInvariant, ProofsAreSealed
  <1>6. ClaimsPrecedeEffect'
    BY <1>0, <1>1 DEF EffectInvariant, ClaimsPrecedeEffect, TypeOK
  <1>7. OutstandingIsOwned' /\ UnknownEffectStaysOpen'
    BY <1>1 DEF OutstandingIsOwned, UnknownEffectStaysOpen
  <1>8. QED BY <1>2, <1>3, <1>4, <1>5, <1>6, <1>7 DEF EffectInvariant

-----------------------------------------------------------------------------
(* Operations on a run keep the invariant. *)
LEMMA RunStepKeepsEffects ==
  ASSUME EffectInvariant, TypeOK, NEW r \in Runs, RunStep(r)
  PROVE  EffectInvariant'
  <1>1. CASE AcceptPlan(r)
    <2>1. StaysOpen BY <1>1, AuthorizedRows, EarlyStates, RecordStaysOpen DEF AcceptPlan, PlanPermitted
    <2>2. QED BY <1>1, <2>1, QuietStep DEF AcceptPlan, PlanPermitted, effectVars, attemptVars,
       budgetVars, targetVars
  <1>2. CASE \E inputsReady \in BOOLEAN : EvaluateReadiness(r, inputsReady)
    <2>1. PICK inputsReady \in BOOLEAN : EvaluateReadiness(r, inputsReady) BY <1>2
    <2>2. life[r] \in {"PLANNED", "BLOCKED"} BY <2>1, AuthorizedRows DEF EvaluateReadiness,
       ReadinessEvaluable
    <2>3. StaysOpen BY <2>1, <2>2, EarlyStates DEF EvaluateReadiness, ReadinessEvaluable,
       StaysOpen, TypeOK
    <2>4. QED
      BY <2>1, <2>3, QuietStep DEF EvaluateReadiness, ReadinessEvaluable, effectVars,
         attemptVars, budgetVars, targetVars
  <1>3. CASE CommitIntent(r)
    <2>1. gen[r] = 0 /\ life[r] = "PLANNED" /\ slot = None
      BY <1>3, AuthorizedRows DEF CommitIntent, IntentPermitted
    <2>2. \A b \in contacted : target[b] \in Sealed
      BY <2>1, RunsAssumption, BoundsAssumption, AttemptFields
      DEF EffectInvariant, OutstandingIsOwned, TypeOK, Attempts
    <2>3. \A b \in Attempts : b[2] # gen[r]
      BY <2>1, AttemptFields
    <2>4. WriteIntent(<<r, 1>>) /\ auth' = auth /\ 1 \in 1..MaxAttempts /\ 1 = gen[r] + 1
      BY <1>3, <2>1, BoundsAssumption DEF CommitIntent
    <2>5. \A q \in Runs : EffectOf[q] = EffectOf[r] => gen[q] = 0
      BY <1>3 DEF CommitIntent
    <2>6. QED BY <2>1, <2>2, <2>3, <2>4, <2>5, IntentKeepsEffects
  <1>4. CASE CommitRetry(r)
    <2> DEFINE prior == <<r, gen[r]>>
    <2>1. /\ life[r] = "PLANNED" /\ slot = prior /\ auth[prior] = "AVAILABLE"
          /\ gen[r] \in 1..(MaxAttempts - 1)
      BY <1>4, AuthorizedRows DEF CommitRetry, IntentPermitted, Current
    <2>2. prior \in Attempts /\ gen[r] + 1 \in 1..MaxAttempts
      BY <2>1, BoundsAssumption DEF Attempts
    <2>3. target[prior] \in Sealed
      BY <2>1, <2>2 DEF EffectInvariant, ProofsAreSealed
    <2>4. \A b \in contacted : target[b] \in Sealed
      BY <2>1, <2>3 DEF EffectInvariant, OutstandingIsOwned
    <2>5. \A b \in Attempts : b[1] = r /\ b[2] = gen[r] => b = prior
      BY AttemptFields
    <2>6. WriteIntent(<<r, gen[r] + 1>>) /\ auth' = [auth EXCEPT ![prior] = "CONSUMED"]
      BY <1>4 DEF CommitRetry, Current
    <2>7. \A b \in Attempts : auth'[b] \in {"AVAILABLE", "DUPLICATE"}
                                => auth[b] \in {"AVAILABLE", "DUPLICATE"}
      BY <2>2, <2>6 DEF TypeOK
    <2>8. gen[r] # 0 BY <2>1
    <2> HIDE DEF prior
    <2>9. QED BY <2>1, <2>2, <2>3, <2>4, <2>5, <2>6, <2>7, <2>8, IntentKeepsEffects
  <1>5. CASE PauseBeforeDispatch(r)
    <2>1. StaysOpen
      BY <1>5, AuthorizedRows, EarlyStates, RecordStaysOpen DEF PauseBeforeDispatch
    <2>2. QED
      BY <1>5, <2>1, QuietStep
      DEF PauseBeforeDispatch, RequestPause, effectVars, attemptVars, budgetVars, targetVars
  <1>6. CASE PauseLocal(r)
    <2>1. StaysOpen BY <1>6, EarlyStates, RecordStaysOpen DEF PauseLocal, LocalPausePermitted
    <2>2. QED
      BY <1>6, <2>1, QuietStep
      DEF PauseLocal, LocalPausePermitted, RequestPause, effectVars, attemptVars, budgetVars, targetVars
  <1>7. CASE PauseExternal(r)
    <2>1. StaysOpen BY <1>7, RecordStaysOpen DEF PauseExternal, ExternalPausePermitted,
       ExternalPauseFences
    <2>2. QED
      BY <1>7, <2>1, QuietStep
      DEF PauseExternal, ExternalPausePermitted, ExternalPauseFences, RequestPause, effectVars,
      attemptVars, budgetVars, targetVars
  <1>8. CASE PauseReconciliation(r)
    <2>1. StaysOpen BY <1>8, RecordStaysOpen DEF PauseReconciliation
    <2>2. QED
      BY <1>8, <2>1, QuietStep
      DEF PauseReconciliation, RequestPause, effectVars, attemptVars, budgetVars, targetVars
  <1>9. CASE RecoverProven(r)
    <2> DEFINE a == Current(r)
    <2>1. a \in Attempts /\ life[r] = "BLOCKED" /\ proven[a] # "no"
      BY <1>9, RunsAssumption DEF RecoverProven, RecoveryPermitted, TypeOK, Current
    <2>2. target[a] \in Sealed BY <2>1 DEF EffectInvariant, ProofsAreSealed
    <2>3. ProofsAreSealed'
      BY <1>9, <2>1, <2>2 DEF RecoverProven, RecoveryPermitted, EffectInvariant, ProofsAreSealed,
         TypeOK, targetVars
    <2>4. StaysOpen BY <1>9, <2>1, EarlyStates, RecordStaysOpen DEF RecoverProven, RecoveryPermitted
    <2>5. UnknownEffectStaysOpen'
      BY <1>9, <2>4, AttemptFields
      DEF RecoverProven, RecoveryPermitted, EffectInvariant, UnknownEffectStaysOpen, StaysOpen,
      TypeOK, targetVars
    <2>6. QED
      BY <1>9, <2>3, <2>5 DEF RecoverProven, RecoveryPermitted, EffectInvariant, EffectHasOneRun,
         UncommittedUntouched,
         RetryFollowsSeal, ClaimsPrecedeEffect, OutstandingIsOwned, targetVars, budgetVars
  <1>10. CASE ReconcileVerifiedReceipt(r)
    <2>1. UNCHANGED effectVars /\ observed' = observed
      BY <1>10 DEF ReconcileVerifiedReceipt, effectVars, attemptVars, budgetVars, targetVars
    <2>2. slot = Current(r) /\ slot \in observed /\ slot[1] = r
      BY <1>10 DEF ReconcileVerifiedReceipt, ReceiptVerifiable, Current
    <2>3. \A q \in Runs : q # r => life'[q] = life[q]
      BY <1>10 DEF ReconcileVerifiedReceipt, Record, TypeOK
    <2>4. \A a \in contacted \ observed : target[a] \notin Sealed => slot = a
      BY DEF EffectInvariant, OutstandingIsOwned
    <2>5. UnknownEffectStaysOpen'
      BY <2>1, <2>2, <2>4 DEF UnknownEffectStaysOpen, effectVars
    <2>6. QED
      BY <2>1, <2>5 DEF EffectInvariant, effectVars, EffectHasOneRun, UncommittedUntouched,
         RetryFollowsSeal, ProofsAreSealed, ClaimsPrecedeEffect, OutstandingIsOwned
  <1>11. CASE \E state \in {RECON, "STOPPED", "FAILED_FINAL"} : ProofFreeDisposition(r, state)
    <2>1. PICK state \in {RECON, "STOPPED", "FAILED_FINAL"} : ProofFreeDisposition(r, state) BY <1>11
    <2>2. StaysOpen BY <2>1, RecordStaysOpen DEF ProofFreeDisposition, DispositionPermitted, Terminal
    <2>3. QED
      BY <2>1, <2>2, QuietStep DEF ProofFreeDisposition, DispositionPermitted, effectVars,
         attemptVars, budgetVars, targetVars
  <1>12. CASE \E mode \in {"GRACEFUL", "IMMEDIATE"} : Stop(r, mode)
    <2>1. PICK mode \in {"GRACEFUL", "IMMEDIATE"} : Stop(r, mode) BY <1>12
    <2>2. StaysOpen BY <2>1, RecordStaysOpen DEF Stop, StopPermitted, Terminal
    <2>3. QED BY <2>1, <2>2, QuietStep DEF Stop, StopPermitted, effectVars, attemptVars,
       budgetVars, targetVars
  <1>13. CASE EscalateStop(r)
    <2> DEFINE a == Current(r)
    <2>1. a \in Attempts /\ a[1] = r /\ a[2] = gen[r]
      BY <1>13 DEF EscalateStop, EscalationPermitted, EscalationCharge, TypeOK, Current
    <2>2. disp' = disp \/ disp' = [disp EXCEPT ![a] = "UNKNOWN"]
      BY <1>13 DEF EscalateStop, EscalationPermitted, EscalationCharge, Settlement, budgetVars
    <2> HIDE DEF a
    <2>3. StaysOpen BY <1>13, RecordStaysOpen DEF EscalateStop, EscalationPermitted,
       EscalationCharge, Terminal
    <2>4. UnknownEffectStaysOpen'
      BY <1>13, <2>3, AttemptFields
      DEF EscalateStop, EscalationPermitted, EscalationCharge, EffectInvariant,
      UnknownEffectStaysOpen, StaysOpen, TypeOK, attemptVars, targetVars
    <2>5. UncommittedUntouched'
      BY <1>13, <2>1, <2>2
      DEF EscalateStop, EscalationPermitted, EscalationCharge, EffectInvariant,
      UncommittedUntouched, TypeOK, attemptVars, targetVars
    <2>6. OutstandingIsOwned'
      BY <1>13, <2>1, <2>2
      DEF EscalateStop, EscalationPermitted, EscalationCharge, EffectInvariant,
      OutstandingIsOwned, TypeOK, attemptVars, targetVars
    <2>7. QED
      BY <1>13, <2>4, <2>5, <2>6 DEF EscalateStop, EscalationPermitted, EscalationCharge,
         EffectInvariant, EffectHasOneRun,
         RetryFollowsSeal, ProofsAreSealed, ClaimsPrecedeEffect, attemptVars, targetVars
  <1>14. QED
    BY <1>1, <1>2, <1>3, <1>4, <1>5, <1>6, <1>7, <1>8, <1>9, <1>10, <1>11, <1>12, <1>13 DEF RunStep

(* Resumes keep the invariant. *)
LEMMA ResumeStepKeepsEffects ==
  ASSUME EffectInvariant, TypeOK, NEW r \in Runs, NEW n \in 1..MaxPauses, ResumeStep(r, n)
  PROVE  EffectInvariant'
  <1>1. StaysOpen
    <2>1. PICK k, state, cur : Record(r, k, state, cur) /\ life[r] \in {"PAUSED", "PAUSING"}
      BY DEF ResumeStep, Resume, ResumePending, SettleActivityPause, ActivityPauseSettleable,
         ResumeActivitySettlement, ActivityResumable,
             ResumeOperationNonexecution, NonexecutionResumable, Current
    <2>2. QED BY <2>1, EarlyStates, RecordStaysOpen
  <1>2. UNCHANGED effectVars /\ observed' = observed
    BY DEF ResumeStep, Resume, SettleActivityPause, ActivityPauseSettleable,
       ResumeActivitySettlement, ActivityResumable,
           ResumeOperationNonexecution, NonexecutionResumable, effectVars, attemptVars,
           budgetVars, targetVars
  <1>3. QED BY <1>1, <1>2, QuietStep

(* A settlement of a committed attempt that does not release it, or that   *)
(* releases an attempt that is sealed or was never handed off, keeps what  *)
(* the invariant says of reservations.                                     *)
LEMMA SettlementKeepsReservations ==
  ASSUME EffectInvariant, TypeOK, NEW a \in Attempts, NEW next \in Dispositions \ {"RESERVED"},
         disp[a] # "NONE", disp' = [disp EXCEPT ![a] = next],
         next = "RELEASED" => a \notin contacted \/ target[a] \in Sealed,
         UNCHANGED <<gen, target, proc, launched, contacted>>
  PROVE  /\ UncommittedUntouched'
         /\ slot' = slot => OutstandingIsOwned'
  <1>1. UncommittedUntouched'
    BY DEF EffectInvariant, UncommittedUntouched, TypeOK
  <1>2. slot' = slot => OutstandingIsOwned'
    BY DEF EffectInvariant, OutstandingIsOwned, TypeOK, Dispositions
  <1>3. QED BY <1>1, <1>2

(* Steps of an attempt, its process and the target keep the invariant. *)
LEMMA AttemptStepKeepsEffects ==
  ASSUME EffectInvariant, TypeOK, NEW a \in Attempts, AttemptStep(a)
  PROVE  EffectInvariant'
  <1>0. a[1] \in Runs /\ a[2] \in 1..MaxAttempts /\ a = <<a[1], a[2]>> BY AttemptFields
  <1>1. CASE ClaimLaunch(a)
    <2>1. /\ proc[a] = "committed" /\ life[a[1]] = "RUNNING"
          /\ launched' = launched \cup {a} /\ proc' = [proc EXCEPT ![a] = "claimed"]
          /\ UNCHANGED <<slot, gen, contacted, observed, proven, auth, disp, target>>
      BY <1>1 DEF ClaimLaunch, LaunchPermitted, budgetVars, targetVars
    <2>2. UncommittedUntouched'
      BY <2>1 DEF EffectInvariant, UncommittedUntouched, TypeOK
    <2>3. ClaimsPrecedeEffect'
      BY <2>1 DEF EffectInvariant, ClaimsPrecedeEffect, TypeOK
    <2>4. StaysOpen BY <1>0, <1>1, RecordStaysOpen DEF ClaimLaunch, LaunchPermitted
    <2>5. UnknownEffectStaysOpen'
      BY <2>1, <2>4, AttemptFields
      DEF EffectInvariant, UnknownEffectStaysOpen, StaysOpen, TypeOK
    <2>6. QED
      BY <2>1, <2>2, <2>3, <2>5 DEF EffectInvariant, EffectHasOneRun, RetryFollowsSeal,
         ProofsAreSealed, OutstandingIsOwned
  <1>2. CASE Contact(a)
    <2>1. /\ proc[a] = "claimed" /\ slot = a
          /\ contacted' = contacted \cup {a} /\ proc' = [proc EXCEPT ![a] = "contacted"]
          /\ disp' = [disp EXCEPT ![a] = "UNKNOWN"]
          /\ UNCHANGED <<slot, gen, launched, observed, proven, auth, target>>
      BY <1>2 DEF Contact, ContactPermitted, StillDispatchable, Settlement, targetVars
    <2>2. UncommittedUntouched'
      BY <2>1 DEF EffectInvariant, UncommittedUntouched, TypeOK
    <2>3. ClaimsPrecedeEffect'
      BY <2>1 DEF EffectInvariant, ClaimsPrecedeEffect, TypeOK
    <2>4. OutstandingIsOwned'
      BY <2>1 DEF EffectInvariant, OutstandingIsOwned, TypeOK
    <2>5. life[a[1]] = RECON /\ life'[a[1]] = RECON /\ \A q \in Runs : life'[q] = life[q]
      BY <1>0, <1>2 DEF Contact, ContactPermitted, Record, TypeOK
    <2>6. UnknownEffectStaysOpen'
      BY <2>1, <2>5, AttemptFields DEF EffectInvariant, UnknownEffectStaysOpen, TypeOK
    <2>7. QED
      BY <2>1, <2>2, <2>3, <2>4, <2>6 DEF EffectInvariant, EffectHasOneRun, RetryFollowsSeal,
         ProofsAreSealed
  <1>3. CASE \E u \in Amounts \cup {NoAmount} : Execute(a, u)
    <2>1. /\ proc[a] = "contacted" /\ target[a] = "free"
          /\ target' = [target EXCEPT ![a] = "executed"] /\ proc' = [proc EXCEPT ![a] = "idle"]
          /\ UNCHANGED <<life, slot, gen, launched, contacted, observed, proven, auth, disp>>
      BY <1>3 DEF Execute, runVars, attemptVars, budgetVars
    <2>2. UncommittedUntouched' /\ RetryFollowsSeal'
      BY <2>1 DEF EffectInvariant, UncommittedUntouched, RetryFollowsSeal, TypeOK, Sealed
    <2>3. ProofsAreSealed' /\ ClaimsPrecedeEffect'
      BY <2>1 DEF EffectInvariant, ProofsAreSealed, ClaimsPrecedeEffect, TypeOK, Sealed
    <2>4. OutstandingIsOwned' /\ UnknownEffectStaysOpen'
      BY <2>1 DEF EffectInvariant, OutstandingIsOwned, UnknownEffectStaysOpen, TypeOK, Sealed
    <2>5. QED BY <2>1, <2>2, <2>3, <2>4 DEF EffectInvariant, EffectHasOneRun
  <1>4. CASE DispatchEnds(a)
    <2>1. /\ proc' = [proc EXCEPT ![a] = "idle"]
          /\ UNCHANGED <<life, slot, gen, launched, contacted, observed, proven, auth, disp, target>>
      BY <1>4 DEF DispatchEnds, runVars, attemptVars, budgetVars, targetVars
    <2>2. UncommittedUntouched' /\ ClaimsPrecedeEffect'
      BY <2>1 DEF EffectInvariant, UncommittedUntouched, ClaimsPrecedeEffect, TypeOK
    <2>3. QED
      BY <2>1, <2>2 DEF EffectInvariant, EffectHasOneRun, RetryFollowsSeal, ProofsAreSealed,
         OutstandingIsOwned, UnknownEffectStaysOpen
  <1>5. CASE \E path \in {"intent", "launch"} : SealNonexecution(a, path)
    <2>1. PICK path \in {"intent", "launch"} : SealNonexecution(a, path) BY <1>5
    <2>2. /\ disp[a] # "NONE" /\ target[a] = "free" /\ SealOf(path) \in Sealed
          /\ target' = [target EXCEPT ![a] = SealOf(path)]
          /\ UNCHANGED <<life, slot, gen, launched, contacted, observed, proven, auth, disp, proc>>
      BY <2>1 DEF SealNonexecution, SealOf, Sealed, runVars, attemptVars, budgetVars
    <2>3. UncommittedUntouched' /\ RetryFollowsSeal'
      BY <2>2 DEF EffectInvariant, UncommittedUntouched, RetryFollowsSeal, TypeOK
    <2>4. ProofsAreSealed' /\ ClaimsPrecedeEffect'
      BY <2>2 DEF EffectInvariant, ProofsAreSealed, ClaimsPrecedeEffect, TypeOK, Sealed
    <2>5. OutstandingIsOwned' /\ UnknownEffectStaysOpen'
      BY <2>2 DEF EffectInvariant, OutstandingIsOwned, UnknownEffectStaysOpen, TypeOK
    <2>6. QED BY <2>2, <2>3, <2>4, <2>5 DEF EffectInvariant, EffectHasOneRun
  <1>6. CASE \E unknownControl \in BOOLEAN : IntakeReceipt(a, unknownControl)
    <2>1. PICK unknownControl \in BOOLEAN : IntakeReceipt(a, unknownControl) BY <1>6
    <2> DEFINE next == ReceiptDisposition(disp[a], usage[a])
    <2>2. /\ target[a] = "executed" /\ observed' = observed \cup {a}
          /\ disp' = [disp EXCEPT ![a] = next]
          /\ proven' = Superseded(a) /\ auth' = InvalidatedAuthorization(a)
          /\ UNCHANGED <<slot, gen, launched, contacted, proc, target>>
      BY <2>1 DEF IntakeReceipt, Retried, OrdinaryReceipt, ReceiptPermitted, Settlement, targetVars
    <2>3. next \in {"CONSUMED", "ADJUSTED", "UNKNOWN"} BY DEF ReceiptDisposition
    <2>4. \A q \in Runs : q # a[1] => life'[q] = life[q]
      BY <1>0, <2>1 DEF IntakeReceipt, Retried, OrdinaryReceipt, ReceiptPermitted, Record, TypeOK
    <2> HIDE DEF next
    <2>5. a \in contacted /\ slot = a /\ disp[a] # "NONE"
      BY <2>2 DEF EffectInvariant, ClaimsPrecedeEffect, OutstandingIsOwned, Sealed
    <2>6. UncommittedUntouched' /\ OutstandingIsOwned'
      BY <2>2, <2>3, <2>5, SettlementKeepsReservations DEF Dispositions
    <2>7. ProofsAreSealed'
      BY <2>2 DEF EffectInvariant, ProofsAreSealed, Superseded, InvalidatedAuthorization, TypeOK
    <2>8. UnknownEffectStaysOpen'
      BY <2>2, <2>5, OneUnsealed DEF UnknownEffectStaysOpen, Sealed
    <2>9. QED
      BY <2>2, <2>6, <2>7, <2>8 DEF EffectInvariant, EffectHasOneRun, RetryFollowsSeal,
         ClaimsPrecedeEffect
  <1>7. CASE \E next \in {"CONSUMED", "ADJUSTED", "UNKNOWN"}, actual \in Amounts \cup {NoAmount} :
               SettleBudget(a, next, actual)
    <2>1. PICK next \in {"CONSUMED", "ADJUSTED", "UNKNOWN"}, actual \in Amounts \cup {NoAmount} :
            SettleBudget(a, next, actual) BY <1>7
    <2>2. /\ disp[a] # "NONE" /\ disp' = [disp EXCEPT ![a] = next] /\ proven' = Superseded(a)
          /\ UNCHANGED <<life, slot, gen, launched, contacted, observed, auth, proc, target>>
      BY <2>1 DEF SettleBudget, Settlement, Append, targetVars
    <2>3. UncommittedUntouched' /\ OutstandingIsOwned'
      BY <2>2, SettlementKeepsReservations DEF Dispositions
    <2>4. ProofsAreSealed'
      BY <2>2 DEF EffectInvariant, ProofsAreSealed, Superseded, TypeOK
    <2>5. QED
      BY <2>2, <2>3, <2>4 DEF EffectInvariant, EffectHasOneRun, RetryFollowsSeal,
         ClaimsPrecedeEffect, UnknownEffectStaysOpen
  <1>8. CASE \E q \in NonexecutionClaims : ProveNondispatch(a, q)
    <2>1. PICK q \in NonexecutionClaims : ProveNondispatch(a, q) BY <1>8
    <2> DEFINE proves == ProvesNonexecution(a, q)
               route == NonexecutionRoute(life[a[1]], cursor[a[1]], a \in observed,
                          q.next = "UNKNOWN", slot = a, ExternallyPaused(a), a[2])
    <2>2. /\ disp[a] # "NONE" /\ disp' = [disp EXCEPT ![a] = q.next]
          /\ q.next \in Dispositions \ {"RESERVED"}
          /\ proven' = IF proves THEN [proven EXCEPT ![a] = "head"] ELSE Superseded(a)
          /\ slot' = IF q.release THEN None ELSE slot
          /\ q.release => slot = a
          /\ Record(a[1], "NONDISPATCH_PROVEN", route.life, route.cursor)
          /\ UNCHANGED <<gen, launched, contacted, observed, auth, proc, target>>
      BY <2>1 DEF ProveNondispatch, NonexecutionFences, NonexecutionPermitted, Settlement,
         NonexecutionClaims,
         Dispositions, KnownDispositions, targetVars
    <2>3. a \in contacted \/ proves => target[a] \in Sealed
      <3>1. a \in contacted => a \in launched BY DEF EffectInvariant, ClaimsPrecedeEffect
      <3>2. q.sealed => target[a] \in Sealed
        BY <2>1 DEF ProveNondispatch, NonexecutionFences, NonexecutionPermitted, SealSatisfied,
           SealVerified, SealOf, Sealed
      <3>3. a \in launched => q.sealed
        BY <2>1 DEF ProveNondispatch, NonexecutionFences, NonexecutionPermitted, SealSatisfied,
           SealVerified
      <3>4. proves => q.sealed BY DEF ProvesNonexecution
      <3>5. QED BY <3>1, <3>2, <3>3, <3>4
    <2>4. UncommittedUntouched' /\ (slot' = slot => OutstandingIsOwned')
      BY <2>2, <2>3, SettlementKeepsReservations
    <2>5. OutstandingIsOwned'
      <3>1. CASE q.release
        <4>1. \A b \in contacted : target[b] \in Sealed
          BY <2>2, <2>3, <3>1 DEF EffectInvariant, OutstandingIsOwned
        <4>2. QED BY <2>2, <4>1 DEF OutstandingIsOwned
      <3>2. CASE ~q.release BY <2>2, <2>4, <3>2
      <3>3. QED BY <3>1, <3>2
    <2>6. ProofsAreSealed'
      BY <2>2, <2>3 DEF EffectInvariant, ProofsAreSealed, Superseded, TypeOK
    <2>7. UnknownEffectStaysOpen'
      <3> SUFFICES ASSUME NEW b \in contacted' \ observed', target'[b] \notin Sealed
                   PROVE  life'[b[1]] \in {RECON} \cup Terminal
        BY DEF UnknownEffectStaysOpen
      <3>1. b \in contacted \ observed /\ target[b] \notin Sealed /\ b \in Attempts
        BY <2>2 DEF TypeOK
      <3>2. slot = b /\ slot # a
        BY <2>3, <3>1 DEF EffectInvariant, OutstandingIsOwned
      <3>3. life[b[1]] \in {RECON} \cup Terminal /\ b[1] \in Runs
        BY <3>1, AttemptFields DEF EffectInvariant, UnknownEffectStaysOpen
      <3>4. route.life \in {life[a[1]], RECON} /\ (life[a[1]] \in Terminal => route.life = life[a[1]])
        BY <3>2 DEF NonexecutionRoute, RECON
      <3> HIDE DEF route
      <3>5. life' = [life EXCEPT ![a[1]] = route.life] BY <2>2 DEF Record
      <3>6. QED BY <1>0, <3>3, <3>4, <3>5 DEF TypeOK
    <2>8. QED
      BY <2>2, <2>4, <2>5, <2>6, <2>7 DEF EffectInvariant, EffectHasOneRun, RetryFollowsSeal,
         ClaimsPrecedeEffect
  <1>9. QED BY <1>1, <1>2, <1>3, <1>4, <1>5, <1>6, <1>7, <1>8 DEF AttemptStep

-----------------------------------------------------------------------------
(* The invariant holds at first. *)
LEMMA InitEffects == Init => EffectInvariant
  BY AttemptFields DEF Init, EffectInvariant, EffectHasOneRun, UncommittedUntouched,
     RetryFollowsSeal, ProofsAreSealed, ClaimsPrecedeEffect, OutstandingIsOwned,
     UnknownEffectStaysOpen

(* Every step keeps the invariant. *)
LEMMA NextKeepsEffects == TypeOK /\ EffectInvariant /\ [Next]_vars => EffectInvariant'
  <1> SUFFICES ASSUME TypeOK, EffectInvariant, [Next]_vars PROVE EffectInvariant' OBVIOUS
  <1>1. CASE Next
    BY <1>1, RunStepKeepsEffects, ResumeStepKeepsEffects, AttemptStepKeepsEffects DEF Next
  <1>2. CASE UNCHANGED vars
    <2>1. StaysOpen BY <1>2 DEF StaysOpen, vars, runVars
    <2>2. QED
      BY <1>2, <2>1, QuietStep
      DEF vars, effectVars, attemptVars, budgetVars, targetVars
  <1>3. QED BY <1>1, <1>2

(* The tie between the store and the target holds in every reachable state. *)
THEOREM EffectsAccountedFor == Spec => []EffectInvariant
  <1>1. Init => TypeOK /\ EffectInvariant BY InitTyped, InitEffects
  <1>2. TypeOK /\ EffectInvariant /\ [Next]_vars => (TypeOK /\ EffectInvariant)'
    BY NextTyped, NextKeepsEffects
  <1>3. QED BY <1>1, <1>2, PTL DEF Spec

(* The argument for at-most-once does not use the slot: the generations of *)
(* an effect belong to one run, only the newest can have been executed.    *)
LEMMA InvariantGivesAtMostOnce == TypeOK /\ EffectInvariant => EffectAtMostOnce
  <1> SUFFICES ASSUME TypeOK, EffectInvariant, NEW a \in Attempts, NEW b \in Attempts,
                      target[a] = "executed", target[b] = "executed",
                      EffectOf[a[1]] = EffectOf[b[1]]
               PROVE  a = b
    BY DEF EffectAtMostOnce
  <1>1. \A c \in Attempts : target[c] = "executed" => c[2] = gen[c[1]] /\ gen[c[1]] # 0
    <2> SUFFICES ASSUME NEW c \in Attempts, target[c] = "executed"
                 PROVE  c[2] = gen[c[1]] /\ gen[c[1]] # 0
      OBVIOUS
    <2>1. c[2] \in 1..MaxAttempts /\ gen[c[1]] \in 0..MaxAttempts
      BY AttemptFields DEF TypeOK
    <2>2. ~(c[2] > gen[c[1]]) BY DEF EffectInvariant, UncommittedUntouched
    <2>3. ~(c[2] < gen[c[1]]) BY DEF EffectInvariant, RetryFollowsSeal, Sealed
    <2>4. QED BY <2>1, <2>2, <2>3, BoundsAssumption
  <1>2. a[1] = b[1]
    BY <1>1, AttemptFields DEF EffectInvariant, EffectHasOneRun
  <1>3. QED BY <1>1, <1>2, AttemptFields

(* No logical effect is executed twice, however many runs and generations  *)
(* are dispatched for it and whatever interleaves with them: commit_intent *)
(* admits a second generation only against the target's seal of the first. *)
THEOREM AtMostOnce == Spec => []EffectAtMostOnce
  BY TypeCorrect, EffectsAccountedFor, InvariantGivesAtMostOnce, PTL

(* Every superseded generation is sealed at the target, so a retry never   *)
(* races the attempt it replaces.                                          *)
THEOREM RetriesFollowSeals == Spec => []RetryFollowsSeal
  <1>1. EffectInvariant => RetryFollowsSeal BY DEF EffectInvariant
  <1>2. QED BY <1>1, EffectsAccountedFor, PTL

(* An executed effect keeps the slot, and its charge is neither still held *)
(* nor released by any settlement, stop, seal or proof.                    *)
THEOREM ExecutedStaysOwned == Spec => []ExecutedIsOwned
  <1>1. EffectInvariant => ExecutedIsOwned
    BY DEF EffectInvariant, ExecutedIsOwned, ClaimsPrecedeEffect, OutstandingIsOwned, Sealed
  <1>2. QED BY <1>1, EffectsAccountedFor, PTL

(* Whatever runs share the repository, at most one effect is outstanding. *)
THEOREM AtMostOneOutstanding == Spec => []OneOutstandingEffect
  <1>1. EffectInvariant => OneOutstandingEffect
    BY OneUnsealed DEF OneOutstandingEffect
  <1>2. QED BY <1>1, EffectsAccountedFor, PTL

(* A contacted effect without receipt or seal is never hidden behind a     *)
(* pause, a block or a plan.                                               *)
THEOREM UnknownStaysOpen == Spec => []UnknownEffectStaysOpen
  <1>1. EffectInvariant => UnknownEffectStaysOpen BY DEF EffectInvariant
  <1>2. QED BY <1>1, EffectsAccountedFor, PTL
=============================================================================
