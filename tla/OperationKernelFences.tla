------------------------ MODULE OperationKernelFences ------------------------
(***************************************************************************)
(* What a step may never do, and what the fences are for: terminal runs    *)
(* stay terminal, a fenced repository dispatches nothing, and a charge     *)
(* above the reservation is always fenced.  For any constants; the last    *)
(* under the hypothesis that intents reserve their worst case.             *)
(***************************************************************************)
EXTENDS OperationKernelSafety

(* No terminal run moves. *)
EndsKept == \A r \in Runs : life[r] \in Terminal => life'[r] = life[r]

(* Recording an event keeps terminal runs if it keeps its own. *)
LEMMA RecordKeepsEnds ==
  ASSUME TypeOK, NEW r \in Runs, NEW k, NEW state, NEW cur, Record(r, k, state, cur),
         life[r] \in Terminal => state = life[r]
  PROVE  EndsKept
  BY DEF Record, EndsKept, TypeOK

(* The states an operation may leave are not terminal. *)
LEMMA NotEnded ==
  {"PLANNED", "BLOCKED", "PAUSED", "RUNNING", "PAUSING", RECON, Absent} \cap Terminal = {}
  BY DEF Terminal, RECON, Absent

(* No operation on a run moves a terminal one. *)
LEMMA RunStepKeepsEnds ==
  ASSUME TypeOK, NEW r \in Runs, RunStep(r)
  PROVE  EndsKept
  <1>1. CASE \E inputsReady \in BOOLEAN : EvaluateReadiness(r, inputsReady)
    BY <1>1, AuthorizedRows, NotEnded DEF EvaluateReadiness, ReadinessEvaluable, EndsKept, TypeOK
  <1>2. CASE CommitIntent(r) \/ CommitRetry(r)
    <2>1. life[r] = "PLANNED"
      BY <1>2, AuthorizedRows DEF CommitIntent, CommitRetry, IntentPermitted
    <2>2. PICK k, state, cur : Record(r, k, state, cur)
      BY <1>2 DEF CommitIntent, CommitRetry, WriteIntent
    <2>3. QED BY <2>1, <2>2, NotEnded, RecordKeepsEnds
  <1>3. CASE AcceptPlan(r) \/ PauseBeforeDispatch(r) \/ PauseLocal(r) \/ PauseExternal(r)
             \/ PauseReconciliation(r) \/ RecoverProven(r) \/ ReconcileVerifiedReceipt(r)
    <2>1. life[r] \in {"PLANNED", "BLOCKED", "RUNNING", RECON, Absent}
      BY <1>3, AuthorizedRows DEF AcceptPlan, PlanPermitted, PauseBeforeDispatch, PauseLocal,
         LocalPausePermitted, PauseExternal, ExternalPausePermitted, ExternalPauseFences,
         PauseReconciliation, RecoverProven, RecoveryPermitted, ReconcileVerifiedReceipt,
         ReceiptVerifiable, Current
    <2>2. PICK k, state, cur : Record(r, k, state, cur)
      BY <1>3 DEF AcceptPlan, PlanPermitted, PauseBeforeDispatch, PauseLocal,
         LocalPausePermitted, PauseExternal, ExternalPausePermitted, ExternalPauseFences,
         PauseReconciliation, RecoverProven, RecoveryPermitted, ReconcileVerifiedReceipt
    <2>3. QED BY <2>1, <2>2, NotEnded, RecordKeepsEnds
  <1>4. CASE \E state \in {RECON, "STOPPED", "FAILED_FINAL"} : ProofFreeDisposition(r, state)
    BY <1>4, NotEnded, RecordKeepsEnds DEF ProofFreeDisposition, DispositionPermitted, Current
  <1>5. CASE \E mode \in {"GRACEFUL", "IMMEDIATE"} : Stop(r, mode)
    <2>1. PICK mode \in {"GRACEFUL", "IMMEDIATE"} : Stop(r, mode) BY <1>5
    <2>2. life[r] \notin Terminal BY <2>1, AuthorizedRows DEF Stop, StopPermitted, Nonterminal
    <2>3. QED BY <2>1, <2>2, RecordKeepsEnds DEF Stop, StopPermitted
  <1>6. CASE EscalateStop(r)
    <2>1. life[r] = "STOPPED" /\ Record(r, "STOP_ESCALATED", "STOPPED", cursor[r])
      BY <1>6, AuthorizedRows DEF EscalateStop, EscalationPermitted, EscalationCharge
    <2>2. QED BY <2>1, RecordKeepsEnds
  <1>7. QED BY <1>1, <1>2, <1>3, <1>4, <1>5, <1>6 DEF RunStep

(* No resume moves a terminal run. *)
LEMMA ResumeStepKeepsEnds ==
  ASSUME TypeOK, NEW r \in Runs, NEW n \in 1..MaxPauses, ResumeStep(r, n)
  PROVE  EndsKept
  <1>1. PICK k, state, cur : Record(r, k, state, cur) /\ life[r] \in {"PAUSED", "PAUSING"}
    BY DEF ResumeStep, Resume, ResumePending, SettleActivityPause, ActivityPauseSettleable,
       ResumeActivitySettlement, ActivityResumable,
           ResumeOperationNonexecution, NonexecutionResumable, Current
  <1>2. QED BY <1>1, NotEnded, RecordKeepsEnds

(* No step of an attempt moves a terminal run. *)
LEMMA AttemptStepKeepsEnds ==
  ASSUME TypeOK, NEW a \in Attempts, AttemptStep(a)
  PROVE  EndsKept
  <1>0. a[1] \in Runs BY AttemptFields
  <1>1. CASE ClaimLaunch(a) \/ Contact(a)
    <2>1. life[a[1]] \in {"RUNNING", RECON} BY <1>1 DEF ClaimLaunch, LaunchPermitted, Contact,
       ContactPermitted
    <2>2. PICK k, state, cur : Record(a[1], k, state, cur) BY <1>1 DEF ClaimLaunch,
       LaunchPermitted, Contact, ContactPermitted
    <2>3. QED BY <1>0, <2>1, <2>2, NotEnded, RecordKeepsEnds
  <1>2. CASE \/ \E u \in Amounts \cup {NoAmount} : Execute(a, u)
             \/ DispatchEnds(a)
             \/ \E path \in {"intent", "launch"} : SealNonexecution(a, path)
    BY <1>2 DEF Execute, DispatchEnds, SealNonexecution, EndsKept, runVars
  <1>3. CASE \E unknownControl \in BOOLEAN : IntakeReceipt(a, unknownControl)
    <2>1. PICK t, k, state, cur : Authorized(t, life[a[1]], state) /\ Record(a[1], k, state, cur)
      BY <1>3 DEF IntakeReceipt, Retried, OrdinaryReceipt, ReceiptPermitted
    <2>2. QED BY <1>0, <2>1, AuthorizedKeepsTerminal, RecordKeepsEnds
  <1>4. CASE \E next \in {"CONSUMED", "ADJUSTED", "UNKNOWN"}, actual \in Amounts \cup {NoAmount} :
               SettleBudget(a, next, actual)
    BY <1>4 DEF SettleBudget, Append, EndsKept
  <1>5. CASE \E q \in NonexecutionClaims : ProveNondispatch(a, q)
    <2>1. PICK k, state, cur : Authorized("T25", life[a[1]], state) /\ Record(a[1], k, state, cur)
      BY <1>5 DEF ProveNondispatch, NonexecutionFences
    <2>2. QED BY <1>0, <2>1, AuthorizedKeepsTerminal, RecordKeepsEnds
  <1>6. QED BY <1>1, <1>2, <1>3, <1>4, <1>5 DEF AttemptStep

(* A stopped, failed or completed run is never moved again by anything     *)
(* that arrives late: receipts and proofs of non-execution are routed by   *)
(* functions that keep a terminal state, and every other command is denied *)
(* by the transition table.                                                *)
THEOREM TerminalStaysFinal == Spec => TerminalIsFinal
  <1>1. TypeOK /\ [Next]_vars => [EndsKept]_vars
    BY RunStepKeepsEnds, ResumeStepKeepsEnds, AttemptStepKeepsEnds DEF Next
  <1>2. QED BY <1>1, TypeCorrect, PTL DEF Spec, TerminalIsFinal, EndsKept

-----------------------------------------------------------------------------
(* Nothing is dispatched and no retry is authorized. *)
Quiet ==
  /\ gen' = gen /\ launched' = launched /\ contacted' = contacted
  /\ \A a \in Attempts : auth'[a] = "AVAILABLE" => auth[a] \in {"AVAILABLE", "DUPLICATE"}

RepositoryFenced == \E f \in fences : f.why \in RepoWide

(* While the repository is fenced no run passes the fence query. *)
LEMMA FenceHoldsEveryRun ==
  ASSUME RepositoryFenced, NEW r
  PROVE  DispatchFenced(r, fences)
  BY DEF RepositoryFenced, DispatchFenced

(* A repository-wide fence, whoever raised it, stops every dispatch at its *)
(* next durable step and every retry before it is authorized, for any      *)
(* number of runs with any items and effects.                              *)
THEOREM FencedStaysQuiet == Spec => FencedRepositoryIsQuiet
  <1>1. TypeOK /\ [Next]_vars => [RepositoryFenced => Quiet]_vars
    <2> SUFFICES ASSUME TypeOK, Next, RepositoryFenced PROVE Quiet OBVIOUS
    <2>1. CASE \E r \in Runs : RunStep(r)
      <3>1. PICK r \in Runs : RunStep(r) BY <2>1
      <3>2. ~CommitIntent(r) /\ ~CommitRetry(r) /\ ~RecoverProven(r)
        BY FenceHoldsEveryRun DEF CommitIntent, CommitRetry, RecoverProven, RecoveryPermitted,
           IntentPermitted
      <3>3. UNCHANGED attemptVars
        BY <3>1, <3>2 DEF RunStep, AcceptPlan, PlanPermitted, EvaluateReadiness,
           ReadinessEvaluable, PauseBeforeDispatch, PauseLocal, LocalPausePermitted,
           PauseExternal, ExternalPausePermitted, ExternalPauseFences, PauseReconciliation,
           RequestPause, ReconcileVerifiedReceipt,
           ProofFreeDisposition, DispositionPermitted, Stop, StopPermitted, EscalateStop,
           EscalationPermitted, EscalationCharge
      <3>4. QED BY <3>3 DEF Quiet, attemptVars
    <2>2. CASE \E r \in Runs, n \in 1..MaxPauses : ResumeStep(r, n)
      BY <2>2 DEF ResumeStep, Resume, SettleActivityPause, ActivityPauseSettleable,
         ResumeActivitySettlement, ActivityResumable,
         ResumeOperationNonexecution, NonexecutionResumable, Quiet, attemptVars
    <2>3. CASE \E a \in Attempts : AttemptStep(a)
      <3>1. PICK a \in Attempts : AttemptStep(a) BY <2>3
      <3>2. ~ClaimLaunch(a) /\ ~Contact(a)
        BY FenceHoldsEveryRun DEF ClaimLaunch, LaunchPermitted, Contact, ContactPermitted,
           StillDispatchable
      <3>3. CASE \E unknownControl \in BOOLEAN : IntakeReceipt(a, unknownControl)
        BY <3>3 DEF IntakeReceipt, Retried, OrdinaryReceipt, ReceiptPermitted,
           InvalidatedAuthorization, Quiet, TypeOK
      <3>4. CASE ~\E unknownControl \in BOOLEAN : IntakeReceipt(a, unknownControl)
        BY <3>1, <3>2, <3>4 DEF AttemptStep, Execute, DispatchEnds, SealNonexecution, SettleBudget,
           ProveNondispatch, NonexecutionFences, Quiet, attemptVars
      <3>5. QED BY <3>3, <3>4
    <2>4. QED BY <2>1, <2>2, <2>3 DEF Next
  <1>2. QED
    BY <1>1, TypeCorrect, PTL DEF Spec, FencedRepositoryIsQuiet, RepositoryFenced, Quiet

-----------------------------------------------------------------------------
(* The fences that say a reservation was overrun; no pause, resumption or  *)
(* reconciliation deletes one.                                             *)
BreachKinds == {"BUDGET_CAP_EXCEEDED", "LATE_ACCOUNTING", "ADDITIONAL_LIABILITY"}

BreachFences == {f \in fences : f.why \in BreachKinds}

OverrunFenced(a) == \E f \in fences : f.run = a[1] /\ f.gen = a[2] /\ f.why \in BreachKinds

(* A reservation that is not settled, or was released, is charged nothing; *)
(* any other charge above the reservation is fenced.                       *)
ChargesFenced ==
  \A a \in Attempts :
    /\ disp[a] \in {"NONE", "RESERVED", "RELEASED"} => charged[a] = 0
    /\ charged[a] > Reserved => OverrunFenced(a)

(* A step that settles nothing keeps the charges and their fences. *)
LEMMA UnsettledStep ==
  ASSUME TypeOK, ChargesFenced, charged' = charged, BreachFences \subseteq fences',
         \A a \in Attempts : disp'[a] \in {"NONE", "RESERVED", "RELEASED"}
                               => disp[a] \in {"NONE", "RESERVED", "RELEASED"}
  PROVE  ChargesFenced'
  BY DEF ChargesFenced, OverrunFenced, BreachFences

(* A settlement keeps the charges fenced when the reservation covers the   *)
(* worst case.                                                             *)
LEMMA SettledStep ==
  ASSUME Reserved = Worst, TypeOK, ChargesFenced, NEW a \in Attempts,
         NEW next \in Dispositions \ {"RESERVED"}, NEW actual \in Amounts \cup {NoAmount},
         next \in KnownDispositions => actual # NoAmount,
         Settlement(a, next, actual), disp[a] # "NONE",
         {f \in FencesAfter(a, next, actual) : f.why \in BreachKinds} \subseteq fences'
  PROVE  ChargesFenced'
  <1> DEFINE charge == SettledCharge(disp[a], charged[a], Worst, next, actual)
             additional == AttemptFence("ADDITIONAL_LIABILITY", a)
  <1>1. /\ disp' = [disp EXCEPT ![a] = next] /\ charged' = [charged EXCEPT ![a] = charge]
        /\ charge \in Nat
    BY SettledChargeNat, BudgetAssumption DEF Settlement, TypeOK
  <1>2. \A f : (f \in fences /\ f # additional) \/ f \in FencesAfter(a, next, actual)
                 => (f.why \in BreachKinds => f \in fences')
    BY DEF FencesAfter, Only
  <1>3. ASSUME NEW why \in BreachKinds, AttemptFence(why, a) \in FencesAfter(a, next, actual)
        PROVE  OverrunFenced(a)'
    BY <1>3, <1>2 DEF OverrunFenced, AttemptFence, Fence
  <1>4. ASSUME NEW b \in Attempts, b # a, charged'[b] > Reserved PROVE OverrunFenced(b)'
    <2>1. charged[b] > Reserved BY <1>1, <1>4 DEF TypeOK
    <2>2. PICK f \in fences : f.run = b[1] /\ f.gen = b[2] /\ f.why \in BreachKinds
      BY <2>1 DEF ChargesFenced, OverrunFenced
    <2>3. f # additional BY <1>4, <2>2, AttemptFields DEF AttemptFence, Fence
    <2>4. QED BY <1>2, <2>2, <2>3 DEF OverrunFenced
  <1>5. ASSUME charge > Reserved PROVE OverrunFenced(a)'
    <2>1. CASE IsBudgetBreach(next, charge, Reserved, Cap)
      <3>1. AttemptFence("BUDGET_CAP_EXCEEDED", a) \in FencesAfter(a, next, actual)
        BY <2>1 DEF FencesAfter, Only
      <3>2. QED BY <3>1, <1>3 DEF BreachKinds
    <2>2. CASE disp[a] = "RELEASED" /\ next # "RELEASED"
      <3>1. AttemptFence("LATE_ACCOUNTING", a) \in FencesAfter(a, next, actual)
        BY <2>2 DEF FencesAfter, Only
      <3>2. QED BY <3>1, <1>3 DEF BreachKinds
    <2>3. CASE ExpectedAdditionalLiability(disp[a], next)
      <3>1. AttemptFence("ADDITIONAL_LIABILITY", a) \in FencesAfter(a, next, actual)
        BY <2>3 DEF FencesAfter, Only
      <3>2. QED BY <3>1, <1>3 DEF BreachKinds
    <2>4. CASE /\ ~IsBudgetBreach(next, charge, Reserved, Cap)
               /\ disp[a] # "RELEASED" \/ next = "RELEASED"
               /\ ~ExpectedAdditionalLiability(disp[a], next)
      <3>1. next = "UNKNOWN" /\ charge = charged[a] /\ charged[a] > Reserved /\ disp[a] = "UNKNOWN"
        <4>1. next \notin KnownDispositions BY <1>5, <2>4 DEF IsBudgetBreach
        <4>2. next # "RELEASED"
          BY <1>5, <2>4, BudgetAssumption DEF SettledCharge, ExpectedAdditionalLiability
        <4>3. next = "UNKNOWN" BY <4>1, <4>2 DEF Dispositions, KnownDispositions
        <4>4. charge = charged[a] /\ charged[a] > Reserved
          BY <1>5, <2>4, <4>3, BudgetAssumption DEF SettledCharge, TypeOK
        <4>5. disp[a] \notin {"NONE", "RESERVED", "RELEASED"}
          BY <4>4, BudgetAssumption DEF ChargesFenced, TypeOK
        <4>6. disp[a] \notin KnownDispositions
          BY <2>4, <4>3 DEF ExpectedAdditionalLiability
        <4>7. QED BY <4>3, <4>4, <4>5, <4>6 DEF TypeOK, Dispositions, KnownDispositions
      <3>2. PICK f \in fences : f.run = a[1] /\ f.gen = a[2] /\ f.why \in BreachKinds
        BY <3>1 DEF ChargesFenced, OverrunFenced
      <3>3. CASE f # additional BY <1>2, <3>2, <3>3 DEF OverrunFenced
      <3>4. CASE f = additional
        <4>1. PICK g \in {additional, [additional EXCEPT !.n = 1]} : g \in FencesAfter(a, next, actual)
          BY <3>1, <3>4 DEF FencesAfter, Only
        <4>2. g.run = a[1] /\ g.gen = a[2] /\ g.why \in BreachKinds
          BY <4>1 DEF AttemptFence, Fence, BreachKinds
        <4>3. QED BY <1>2, <4>1, <4>2 DEF OverrunFenced
      <3>5. QED BY <3>3, <3>4
    <2>5. QED BY <2>1, <2>2, <2>3, <2>4
  <1>6. next = "RELEASED" => charge = 0
    BY DEF SettledCharge, ExpectedAdditionalLiability
  <1> HIDE DEF charge
  <1>7. ASSUME NEW b \in Attempts
        PROVE  (disp[b] \in {"NONE", "RESERVED", "RELEASED"} => charged[b] = 0)'
    <2>1. CASE b = a BY <1>1, <1>6, <2>1 DEF TypeOK, Dispositions
    <2>2. CASE b # a BY <1>1, <2>2 DEF ChargesFenced, TypeOK
    <2>3. QED BY <2>1, <2>2
  <1>8. ASSUME NEW b \in Attempts
        PROVE  (charged[b] > Reserved => OverrunFenced(b))'
    <2>1. CASE b = a BY <1>1, <1>5, <2>1 DEF TypeOK
    <2>2. CASE b # a BY <1>4, <2>2
    <2>3. QED BY <2>1, <2>2
  <1>9. QED BY <1>7, <1>8 DEF ChargesFenced

(* The worst case of a fresh reservation is within its cap: charging it    *)
(* at contact or at an escalated stop raises no fence, and writes none.    *)
LEMMA FirstUnknownRaisesNothing ==
  ASSUME TypeOK, ChargesFenced, NEW a \in Attempts, disp[a] = "RESERVED"
  PROVE  FencesAfter(a, "UNKNOWN", NoAmount) = fences
  <1>1. charged[a] = 0 BY DEF ChargesFenced
  <1>2. SettledCharge(disp[a], charged[a], Worst, "UNKNOWN", NoAmount) = Worst
    BY <1>1, BudgetAssumption DEF SettledCharge, ExpectedAdditionalLiability, KnownDispositions
  <1>3. ~IsBudgetBreach("UNKNOWN", Worst, Reserved, Cap)
    BY BudgetAssumption DEF IsBudgetBreach, KnownDispositions
  <1>4. ~ExpectedAdditionalLiability(disp[a], "UNKNOWN")
    BY DEF ExpectedAdditionalLiability, KnownDispositions
  <1>5. QED BY <1>2, <1>3, <1>4 DEF FencesAfter, Only

(* Operations on a run keep every charge above its reservation fenced. *)
LEMMA RunStepFencesCharges ==
  ASSUME Reserved = Worst, TypeOK, EffectInvariant, ChargesFenced, NEW r \in Runs, RunStep(r)
  PROVE  ChargesFenced'
  <1>1. CASE CommitIntent(r) \/ CommitRetry(r)
    <2>1. PICK a \in Attempts : WriteIntent(a) /\ a[2] = gen[a[1]] + 1
      <3>1. CASE CommitIntent(r)
        <4>1. WriteIntent(<<r, 1>>) /\ gen[r] = 0 BY <3>1 DEF CommitIntent
        <4>2. <<r, 1>> \in Attempts BY BoundsAssumption DEF Attempts
        <4>3. QED BY <4>1, <4>2
      <3>2. CASE CommitRetry(r)
        <4>1. WriteIntent(<<r, gen[r] + 1>>) /\ gen[r] \in 1..(MaxAttempts - 1)
          BY <3>2 DEF CommitRetry
        <4>2. <<r, gen[r] + 1>> \in Attempts BY <4>1, BoundsAssumption DEF Attempts
        <4>3. QED BY <4>1, <4>2
      <3>3. QED BY <1>1, <3>1, <3>2
    <2>2. a[2] > gen[a[1]] BY <2>1, AttemptFields DEF TypeOK
    <2>3. disp[a] = "NONE" BY <2>2 DEF EffectInvariant, UncommittedUntouched
    <2>4. QED
      BY <2>1, <2>3, UnsettledStep DEF WriteIntent, BreachFences, TypeOK
  <1>2. CASE PauseBeforeDispatch(r) \/ PauseLocal(r) \/ PauseExternal(r) \/ PauseReconciliation(r)
    <2>1. fences \subseteq fences' /\ UNCHANGED budgetVars
      BY <1>2 DEF PauseBeforeDispatch, PauseLocal, LocalPausePermitted, PauseExternal,
         ExternalPausePermitted, ExternalPauseFences, PauseReconciliation, RequestPause
    <2>2. QED BY <2>1, UnsettledStep DEF BreachFences, budgetVars
  <1>3. CASE AcceptPlan(r) \/ (\E inputsReady \in BOOLEAN : EvaluateReadiness(r, inputsReady))
             \/ RecoverProven(r)
             \/ (\E state \in {RECON, "STOPPED", "FAILED_FINAL"} : ProofFreeDisposition(r, state))
             \/ (\E mode \in {"GRACEFUL", "IMMEDIATE"} : Stop(r, mode))
    <2>1. fences \subseteq fences' /\ UNCHANGED budgetVars
      BY <1>3 DEF AcceptPlan, PlanPermitted, EvaluateReadiness, ReadinessEvaluable,
         RecoverProven, RecoveryPermitted, ProofFreeDisposition, DispositionPermitted, Stop,
         StopPermitted
    <2>2. QED BY <2>1, UnsettledStep DEF BreachFences, budgetVars
  <1>4. CASE ReconcileVerifiedReceipt(r)
    <2>1. BreachFences \subseteq fences' /\ UNCHANGED budgetVars
      BY <1>4 DEF ReconcileVerifiedReceipt, Uncertainties, UncertaintyKinds, BreachFences, BreachKinds
    <2>2. QED BY <2>1, UnsettledStep DEF budgetVars
  <1>5. CASE EscalateStop(r)
    <2> DEFINE a == Current(r)
    <2>1. a \in Attempts BY <1>5 DEF EscalateStop, EscalationPermitted, EscalationCharge, TypeOK
    <2>2. CASE disp[a] = "RESERVED"
      <3>1. Settlement(a, "UNKNOWN", NoAmount) /\ fences' = fences /\ disp[a] # "NONE"
        BY <1>5, <2>2 DEF EscalateStop, EscalationPermitted, EscalationCharge
      <3>2. fences' = FencesAfter(a, "UNKNOWN", NoAmount)
        BY <2>1, <2>2, <3>1, FirstUnknownRaisesNothing
      <3> HIDE DEF a
      <3>3. QED BY <2>1, <3>1, <3>2, SettledStep DEF Dispositions, KnownDispositions
    <2>3. CASE disp[a] # "RESERVED"
      <3>1. UNCHANGED <<budgetVars, fences>> BY <1>5, <2>3 DEF EscalateStop, EscalationPermitted,
         EscalationCharge
      <3>2. QED BY <3>1, UnsettledStep DEF budgetVars, BreachFences
    <2>4. QED BY <2>2, <2>3
  <1>6. QED BY <1>1, <1>2, <1>3, <1>4, <1>5 DEF RunStep

(* Resumes clear pauses only, never the fence of a charge. *)
LEMMA ResumeStepFencesCharges ==
  ASSUME TypeOK, ChargesFenced, NEW r \in Runs, NEW n \in 1..MaxPauses, ResumeStep(r, n)
  PROVE  ChargesFenced'
  <1>1. PICK f : f.why \in ScopedPauses \cup {"CONTROL_PAUSE"} /\ fences \ {f} \subseteq fences'
    <2>1. /\ ControlFence(r, n).why = "CONTROL_PAUSE"
          /\ \A a, m : /\ PauseFence("LOCAL_PAUSE", a, m).why = "LOCAL_PAUSE"
                       /\ PauseFence("EXTERNAL_PAUSE", a, m).why = "EXTERNAL_PAUSE"
      BY DEF ControlFence, PauseFence, Fence
    <2>2. QED
      BY <2>1 DEF ResumeStep, Resume, SettleActivityPause, ActivityPauseSettleable,
         ResumeActivitySettlement, ActivityResumable,
         ResumeOperationNonexecution, NonexecutionResumable, ScopedPauses
  <1>2. UNCHANGED budgetVars
    BY DEF ResumeStep, Resume, SettleActivityPause, ActivityPauseSettleable,
       ResumeActivitySettlement, ActivityResumable,
           ResumeOperationNonexecution, NonexecutionResumable, Current
  <1>3. BreachFences \subseteq fences'
    BY <1>1 DEF BreachFences, BreachKinds, ScopedPauses
  <1>4. QED BY <1>2, <1>3, UnsettledStep DEF budgetVars

(* Settlements, receipts and proofs fence the charges they make. *)
LEMMA AttemptStepFencesCharges ==
  ASSUME Reserved = Worst, TypeOK, EffectInvariant, ChargesFenced, NEW a \in Attempts, AttemptStep(a)
  PROVE  ChargesFenced'
  <1>1. CASE \/ ClaimLaunch(a)
             \/ \E u \in Amounts \cup {NoAmount} : Execute(a, u)
             \/ DispatchEnds(a)
             \/ \E path \in {"intent", "launch"} : SealNonexecution(a, path)
    BY <1>1, UnsettledStep DEF ClaimLaunch, LaunchPermitted, Execute, DispatchEnds,
       SealNonexecution, budgetVars,
       BreachFences
  <1>2. CASE Contact(a)
    <2>1. /\ Settlement(a, "UNKNOWN", NoAmount) /\ disp[a] = "RESERVED"
          /\ fences' = FencesAfter(a, "UNKNOWN", NoAmount)
      BY <1>2, FirstUnknownRaisesNothing DEF Contact, ContactPermitted, StillDispatchable
    <2>2. QED BY <2>1, SettledStep DEF Dispositions, KnownDispositions
  <1>3. CASE \E unknownControl \in BOOLEAN : IntakeReceipt(a, unknownControl)
    <2> DEFINE next == ReceiptDisposition(disp[a], usage[a])
    <2>1. /\ target[a] = "executed" /\ Settlement(a, next, usage[a])
          /\ FencesAfter(a, next, usage[a]) \subseteq fences'
      BY <1>3 DEF IntakeReceipt, Retried, OrdinaryReceipt, ReceiptPermitted
    <2>2. disp[a] # "NONE"
      BY <2>1 DEF EffectInvariant, ClaimsPrecedeEffect, OutstandingIsOwned, Sealed
    <2>3. /\ next \in {"CONSUMED", "ADJUSTED", "UNKNOWN"}
          /\ next \in KnownDispositions => usage[a] # NoAmount
          /\ usage[a] \in Amounts \cup {NoAmount}
      BY DEF ReceiptDisposition, KnownDispositions, TypeOK
    <2> HIDE DEF next
    <2>4. QED BY <2>1, <2>2, <2>3, SettledStep DEF Dispositions
  <1>4. CASE \E next \in {"CONSUMED", "ADJUSTED", "UNKNOWN"}, actual \in Amounts \cup {NoAmount} :
               SettleBudget(a, next, actual)
    BY <1>4, SettledStep DEF SettleBudget, SettlementAllowed, Dispositions
  <1>5. CASE \E q \in NonexecutionClaims : ProveNondispatch(a, q)
    <2>1. PICK q \in NonexecutionClaims : ProveNondispatch(a, q) BY <1>5
    <2>2. q.next \in Dispositions \ {"RESERVED"} /\ q.actual \in Amounts \cup {NoAmount}
      BY DEF NonexecutionClaims, Dispositions, KnownDispositions
    <2>3. /\ Settlement(a, q.next, q.actual) /\ disp[a] # "NONE"
          /\ q.next \in KnownDispositions => q.actual # NoAmount
      BY <2>1 DEF ProveNondispatch, NonexecutionFences, NonexecutionPermitted, SettlementAllowed
    <2>4. {f \in FencesAfter(a, q.next, q.actual) : f.why \in BreachKinds} \subseteq fences'
      BY <2>1 DEF ProveNondispatch, NonexecutionFences, Uncertainties, UncertaintyKinds, BreachKinds
    <2>5. QED BY <2>2, <2>3, <2>4, SettledStep
  <1>6. QED BY <1>1, <1>2, <1>3, <1>4, <1>5 DEF AttemptStep

(* When every intent reserves its worst case, no charge above a            *)
(* reservation goes unnoticed, whatever the order of unknown, known,       *)
(* released and late settlements: a fence on the repository records it.    *)
THEOREM OverrunsAreFenced == Reserved = Worst /\ Spec => []OverrunIsFenced
  <1> SUFFICES ASSUME Reserved = Worst PROVE Spec => []OverrunIsFenced OBVIOUS
  <1>1. Init => ChargesFenced
    BY BudgetAssumption DEF Init, ChargesFenced
  <1>2. TypeOK /\ EffectInvariant /\ ChargesFenced /\ [Next]_vars => ChargesFenced'
    <2> SUFFICES ASSUME TypeOK, EffectInvariant, ChargesFenced, [Next]_vars PROVE ChargesFenced'
      OBVIOUS
    <2>1. CASE Next
      BY <2>1, RunStepFencesCharges, ResumeStepFencesCharges, AttemptStepFencesCharges DEF Next
    <2>2. CASE UNCHANGED vars
      BY <2>2, UnsettledStep DEF vars, budgetVars, BreachFences
    <2>3. QED BY <2>1, <2>2
  <1>3. TypeOK /\ ChargesFenced => OverrunIsFenced
    BY BudgetAssumption
    DEF ChargesFenced, OverrunIsFenced, OverrunFenced, Committed, Commitment, BreachKinds, TypeOK
  <1>4. QED BY <1>1, <1>2, <1>3, TypeCorrect, EffectsAccountedFor, PTL DEF Spec

-----------------------------------------------------------------------------
(* Paused runs.  PausedIsFenced is inductive as it stands: what clears a   *)
(* pause moves its run, and nothing else touches the fence of a pause.     *)

PauseKinds == ScopedPauses \cup {"CONTROL_PAUSE"}

PauseFences == {f \in fences : f.why \in PauseKinds}

(* An event keeps the paused runs fenced if its own run is, in case it is  *)
(* paused, and the pauses of the others stay.                              *)
LEMMA RecordKeepsPauses ==
  ASSUME TypeOK, PausedIsFenced, NEW r \in Runs, NEW k, NEW state, NEW cur, Record(r, k, state, cur),
         state = "PAUSED" => OwnPause(r, fences'),
         \A f \in PauseFences : f \in fences' \/ f.run = r
  PROVE  PausedIsFenced'
  <1>1. ASSUME NEW q \in Runs, q # r, life'[q] = "PAUSED" PROVE OwnPause(q, fences')
    <2>1. life[q] = "PAUSED" BY <1>1 DEF Record, TypeOK
    <2>2. PICK f \in fences : f.run = q /\ f.why \in PauseKinds
      BY <2>1 DEF PausedIsFenced, OwnPause, PauseKinds
    <2>3. QED BY <1>1, <2>2 DEF PauseFences, PauseKinds, OwnPause
  <1>2. life'[r] = state BY DEF Record, TypeOK
  <1>3. QED BY <1>1, <1>2 DEF PausedIsFenced

(* The fences a settlement deletes are no pauses. *)
LEMMA SettlementKeepsPauseFences ==
  ASSUME NEW a, NEW next, NEW actual
  PROVE  PauseFences \subseteq FencesAfter(a, next, actual)
  <1>1. AttemptFence("ADDITIONAL_LIABILITY", a).why \notin PauseKinds
    BY DEF AttemptFence, Fence, PauseKinds, ScopedPauses
  <1>2. QED BY <1>1 DEF FencesAfter, PauseFences

(* Operations on a run keep the paused runs fenced. *)
LEMMA RunStepKeepsPauses ==
  ASSUME TypeOK, PausedIsFenced, NEW r \in Runs, RunStep(r)
  PROVE  PausedIsFenced'
  <1>1. CASE \E inputsReady \in BOOLEAN : EvaluateReadiness(r, inputsReady)
    <2>1. PICK state \in {"PLANNED", "BLOCKED"} : life' = [life EXCEPT ![r] = state] /\ fences' = fences
      BY <1>1 DEF EvaluateReadiness, ReadinessEvaluable
    <2>2. QED BY <2>1 DEF PausedIsFenced, TypeOK
  <1>2. CASE CommitIntent(r) \/ CommitRetry(r)
    <2>1. fences' = fences /\ Record(r, "INTENT_COMMITTED", "RUNNING", cursor[r])
      BY <1>2 DEF CommitIntent, CommitRetry, WriteIntent
    <2>2. QED BY <2>1, RecordKeepsPauses DEF PauseFences
  <1>3. CASE PauseBeforeDispatch(r)
    <2>1. ControlFence(r, NextPause(r)) \in fences' /\ fences \subseteq fences'
          /\ Record(r, "PAUSE_SETTLED", "PAUSED", cursor[r])
      BY <1>3 DEF PauseBeforeDispatch, RequestPause
    <2>2. OwnPause(r, fences') BY <2>1 DEF OwnPause, ControlFence, Fence
    <2>3. QED BY <2>1, <2>2, RecordKeepsPauses DEF PauseFences
  <1>4. CASE PauseLocal(r) \/ PauseExternal(r) \/ PauseReconciliation(r)
    <2>1. PICK k, state : /\ state \in {"PAUSING", RECON} /\ fences \subseteq fences'
                          /\ Record(r, k, state, cursor[r])
      BY <1>4 DEF PauseLocal, PauseExternal, PauseReconciliation, RequestPause
    <2>2. QED BY <2>1, RecordKeepsPauses DEF PauseFences, RECON
  <1>5. CASE AcceptPlan(r) \/ RecoverProven(r)
    <2>1. PICK k, cur : fences' = fences /\ Record(r, k, "PLANNED", cur)
      BY <1>5 DEF AcceptPlan, RecoverProven
    <2>2. QED BY <2>1, RecordKeepsPauses DEF PauseFences
  <1>6. CASE (\E state \in {RECON, "STOPPED", "FAILED_FINAL"} : ProofFreeDisposition(r, state))
             \/ (\E mode \in {"GRACEFUL", "IMMEDIATE"} : Stop(r, mode)) \/ EscalateStop(r)
    <2>1. PICK k, state : /\ state \in {RECON, "STOPPED", "FAILED_FINAL"} /\ fences \subseteq fences'
                          /\ Record(r, k, state, cursor[r])
      BY <1>6 DEF ProofFreeDisposition, Stop, EscalateStop
    <2>2. QED BY <2>1, RecordKeepsPauses DEF PauseFences, RECON
  <1>7. CASE ReconcileVerifiedReceipt(r)
    <2>1. PICK state, cur : /\ state = ReconciliationState(r, fences', Liable)
                            /\ Record(r, "RECONCILIATION_RECORDED", state, cur)
      BY <1>7 DEF ReconcileVerifiedReceipt
    <2>2. state = "PAUSED" => OwnPause(r, fences') BY <2>1 DEF ReconciliationState, RECON
    <2>3. PauseFences \subseteq fences'
      BY <1>7 DEF ReconcileVerifiedReceipt, Uncertainties, UncertaintyKinds, PauseFences, PauseKinds,
         ScopedPauses
    <2>4. QED BY <2>1, <2>2, <2>3, RecordKeepsPauses
  <1>8. QED BY <1>1, <1>2, <1>3, <1>4, <1>5, <1>6, <1>7 DEF RunStep

(* Resuming a run removes a fence of that run, and leaves it paused only   *)
(* under another.                                                          *)
LEMMA ResumeStepKeepsPauses ==
  ASSUME TypeOK, PausedIsFenced, NEW r \in Runs, NEW n \in 1..MaxPauses, ResumeStep(r, n)
  PROVE  PausedIsFenced'
  <1>0. /\ ControlFence(r, n).run = r
        /\ \A why : PauseFence(why, Current(r), n).run = r /\ PauseFence(why, Current(r), n).why = why
    BY DEF ControlFence, PauseFence, Fence, Current
  <1>1. CASE Resume(r, n)
    <2>1. PICK state, cur : /\ state = ResumeState(r, n) /\ Record(r, "RESUME_ACCEPTED", state, cur)
                            /\ fences' = fences \ {ControlFence(r, n)}
      BY <1>1 DEF Resume
    <2>2. state # "PAUSED" BY <2>1 DEF ResumeState, ResumeRoute, Denied
    <2>3. QED BY <1>0, <2>1, <2>2, RecordKeepsPauses DEF PauseFences
  <1>2. CASE SettleActivityPause(r, n)
    <2>1. PICK cur : /\ Record(r, "PAUSE_SETTLED", "PAUSED", cur) /\ fences' = fences
                     /\ PauseFence("LOCAL_PAUSE", Current(r), n) \in fences
      BY <1>2 DEF SettleActivityPause, ActivityPauseSettleable
    <2>2. OwnPause(r, fences') BY <1>0, <2>1 DEF OwnPause, ScopedPauses
    <2>3. QED BY <2>1, <2>2, RecordKeepsPauses DEF PauseFences
  <1>3. CASE ResumeActivitySettlement(r, n)
    <2>1. /\ Record(r, "RESUME_ACCEPTED", "BLOCKED", cursor[r])
          /\ fences' = fences \ {PauseFence("LOCAL_PAUSE", Current(r), n)}
      BY <1>3 DEF ResumeActivitySettlement, ActivityResumable
    <2>2. QED BY <1>0, <2>1, RecordKeepsPauses DEF PauseFences
  <1>4. CASE ResumeOperationNonexecution(r, n)
    <2>1. PICK own, state : /\ own = PauseFence("EXTERNAL_PAUSE", Current(r), n) /\ fences' = fences \ {own}
                            /\ state = "PAUSED" => \E f \in fences \ {own} : f.why \in ScopedPauses /\ f.run = r
                            /\ Record(r, "RESUME_ACCEPTED", state, cursor[r])
      BY <1>4 DEF ResumeOperationNonexecution
    <2>2. state = "PAUSED" => OwnPause(r, fences') BY <2>1 DEF OwnPause
    <2>3. QED BY <1>0, <2>1, <2>2, RecordKeepsPauses DEF PauseFences
  <1>5. QED BY <1>1, <1>2, <1>3, <1>4 DEF ResumeStep

(* A step of an attempt pauses a run only under a pause it finds. *)
LEMMA AttemptStepKeepsPauses ==
  ASSUME TypeOK, PausedIsFenced, NEW a \in Attempts, AttemptStep(a)
  PROVE  PausedIsFenced'
  <1>0. a[1] \in Runs BY AttemptFields
  <1>1. CASE ClaimLaunch(a) \/ Contact(a)
    <2>1. PICK k, cur : fences' = fences /\ Record(a[1], k, RECON, cur) BY <1>1 DEF ClaimLaunch, Contact
    <2>2. QED BY <1>0, <2>1, RecordKeepsPauses DEF PauseFences, RECON
  <1>2. CASE \/ \E u \in Amounts \cup {NoAmount} : Execute(a, u)
             \/ DispatchEnds(a)
             \/ \E path \in {"intent", "launch"} : SealNonexecution(a, path)
    BY <1>2 DEF Execute, DispatchEnds, SealNonexecution, runVars, PausedIsFenced
  <1>3. CASE \E unknownControl \in BOOLEAN : IntakeReceipt(a, unknownControl)
    <2>1. PICK state, k, cur, next, u, o, c :
                 /\ Record(a[1], k, state, cur) /\ FencesAfter(a, next, usage[a]) \subseteq fences'
                 /\ state = ObservationRoute(life[a[1]], u, o, c)
      BY <1>3 DEF IntakeReceipt
    <2>2. state # "PAUSED" BY <2>1 DEF ObservationRoute, Terminal
    <2>3. QED BY <1>0, <2>1, <2>2, RecordKeepsPauses, SettlementKeepsPauseFences
  <1>4. CASE \E next \in {"CONSUMED", "ADJUSTED", "UNKNOWN"}, actual \in Amounts \cup {NoAmount} :
               SettleBudget(a, next, actual)
    <2>1. PICK next, actual : fences' = FencesAfter(a, next, actual) BY <1>4 DEF SettleBudget
    <2>2. PauseFences \subseteq fences' BY <2>1, SettlementKeepsPauseFences
    <2>3. life' = life BY <1>4 DEF SettleBudget, Append
    <2>4. QED BY <2>2, <2>3 DEF PausedIsFenced, OwnPause, PauseFences, PauseKinds
  <1>5. CASE \E q \in NonexecutionClaims : ProveNondispatch(a, q)
    <2>1. PICK q \in NonexecutionClaims : ProveNondispatch(a, q) BY <1>5
    <2>2. PICK route, b, u, c : /\ route = NonexecutionRoute(life[a[1]], cursor[a[1]], b, u, c, ExternallyPaused(a), a[2])
                                /\ Record(a[1], "NONDISPATCH_PROVEN", route.life, route.cursor)
      BY <2>1 DEF ProveNondispatch
    <2>3. PauseFences \subseteq fences'
      <3>1. PauseFences \subseteq FencesAfter(a, q.next, q.actual) BY SettlementKeepsPauseFences
      <3>2. QED BY <2>1, <3>1 DEF ProveNondispatch, NonexecutionFences, Uncertainties, UncertaintyKinds,
               PauseFences, PauseKinds, ScopedPauses
    <2>4. route.life = "PAUSED" => life[a[1]] = "PAUSED" \/ ExternallyPaused(a)
      BY <2>2 DEF NonexecutionRoute
    <2>5. route.life = "PAUSED" => \E f \in PauseFences : f.run = a[1]
      BY <1>0, <2>4 DEF PausedIsFenced, OwnPause, ExternallyPaused, PauseFences, PauseKinds, ScopedPauses
    <2>6. route.life = "PAUSED" => OwnPause(a[1], fences')
      BY <2>3, <2>5 DEF OwnPause, PauseFences, PauseKinds
    <2>7. QED BY <1>0, <2>2, <2>3, <2>6, RecordKeepsPauses
  <1>6. QED BY <1>1, <1>2, <1>3, <1>4, <1>5 DEF AttemptStep

(* PausedIsFenced: every paused run is held by a pause of its own, however *)
(* pauses before, during and after the dispatch overlap and in whatever    *)
(* order they are settled, resumed or overtaken by proofs and receipts.    *)
THEOREM PausedRunsAreFenced == Spec => []PausedIsFenced
  <1>1. Init => PausedIsFenced BY DEF Init, PausedIsFenced, Absent
  <1>2. TypeOK /\ PausedIsFenced /\ [Next]_vars => PausedIsFenced'
    <2> SUFFICES ASSUME TypeOK, PausedIsFenced, [Next]_vars PROVE PausedIsFenced' OBVIOUS
    <2>1. CASE Next
      BY <2>1, RunStepKeepsPauses, ResumeStepKeepsPauses, AttemptStepKeepsPauses DEF Next
    <2>2. CASE UNCHANGED vars BY <2>2 DEF vars, runVars, PausedIsFenced
    <2>3. QED BY <2>1, <2>2
  <1>3. QED BY <1>1, <1>2, TypeCorrect, PTL DEF Spec

-----------------------------------------------------------------------------
(* Runs in validation.  That some additional liability of the run is       *)
(* fenced is not inductive: the fence has to be the one of its current     *)
(* attempt, whose unknown accounting it stands for until a settlement      *)
(* makes it known.                                                         *)

LiabilityFenced(a) ==
  \E f \in fences : f.why = "ADDITIONAL_LIABILITY" /\ f.run = a[1] /\ f.gen = a[2]

Accounted(a) ==
  /\ a \in observed
  /\ disp[a] \in KnownDispositions \/ (disp[a] = "UNKNOWN" /\ LiabilityFenced(a))

ValidatingAccounted == \A r \in Runs : life[r] = "VALIDATING" => Accounted(Current(r))

(* What an attempt's account consists of is kept unless it is settled. *)
LEMMA OtherAccountStays ==
  ASSUME NEW a, Accounted(a), a \in observed', disp'[a] = disp[a],
         \A f \in fences : f.why = "ADDITIONAL_LIABILITY" /\ f.run = a[1] /\ f.gen = a[2] => f \in fences'
  PROVE  Accounted(a)'
  <1>1. LiabilityFenced(a) => LiabilityFenced(a)' BY DEF LiabilityFenced
  <1>2. QED BY <1>1 DEF Accounted

(* An event keeps the runs in validation accounted for if it keeps their   *)
(* accounts and brings its own run there only with one.                    *)
LEMMA RecordKeepsAccounts ==
  ASSUME TypeOK, ValidatingAccounted, NEW r \in Runs, NEW k, NEW state, NEW cur,
         Record(r, k, state, cur), state = "VALIDATING" => Accounted(Current(r))',
         \A q \in Runs \ {r} : Accounted(Current(q)) => Accounted(Current(q))'
  PROVE  ValidatingAccounted'
  BY DEF Record, TypeOK, ValidatingAccounted

(* A settlement deletes no liability's fence but that of its own attempt,  *)
(* and that one only to make the account known or to raise it again.       *)
LEMMA SettlementKeepsLiabilities ==
  ASSUME NEW a \in Attempts, NEW next, NEW actual, NEW f \in fences, f.why = "ADDITIONAL_LIABILITY",
         f.run # a[1] \/ f.gen # a[2]
  PROVE  f \in FencesAfter(a, next, actual)
  BY DEF FencesAfter, AttemptFence, Fence

(* A settlement that releases nothing observed keeps every account. *)
LEMMA SettlementKeepsAccounts ==
  ASSUME TypeOK, NEW a \in Attempts, NEW next, NEW actual, Settlement(a, next, actual),
         next \in {"CONSUMED", "ADJUSTED", "UNKNOWN"} \/ a \notin observed,
         {f \in FencesAfter(a, next, actual) : f.why = "ADDITIONAL_LIABILITY"} \subseteq fences',
         observed \subseteq observed', NEW c, Accounted(c)
  PROVE  Accounted(c)'
  <1>1. c \in Attempts /\ c \in observed' BY DEF Accounted, TypeOK
  <1>2. CASE c # a
    <2>1. disp'[c] = disp[c] BY <1>1, <1>2 DEF Settlement, TypeOK
    <2>2. ASSUME NEW f \in fences, f.why = "ADDITIONAL_LIABILITY" /\ f.run = c[1] /\ f.gen = c[2]
          PROVE  f \in fences'
      <3>1. f.run # a[1] \/ f.gen # a[2] BY <1>1, <1>2, <2>2 DEF Attempts
      <3>2. QED BY <2>2, <3>1, SettlementKeepsLiabilities
    <2>3. QED BY <1>1, <2>1, <2>2, OtherAccountStays
  <1>3. CASE c = a
    <2>1. disp'[a] = next /\ next \in {"CONSUMED", "ADJUSTED", "UNKNOWN"}
      BY <1>3 DEF Settlement, TypeOK, Accounted
    <2>2. CASE next # "UNKNOWN" BY <1>1, <1>3, <2>1, <2>2 DEF Accounted, KnownDispositions
    <2>3. CASE next = "UNKNOWN"
      <3>1. \E f \in FencesAfter(a, next, actual) :
              f.why = "ADDITIONAL_LIABILITY" /\ f.run = a[1] /\ f.gen = a[2]
        <4> DEFINE own == AttemptFence("ADDITIONAL_LIABILITY", a)
        <4>1. /\ own.why = "ADDITIONAL_LIABILITY" /\ own.run = a[1] /\ own.gen = a[2]
              /\ [own EXCEPT !.n = 1].why = "ADDITIONAL_LIABILITY"
              /\ [own EXCEPT !.n = 1].run = a[1] /\ [own EXCEPT !.n = 1].gen = a[2]
          BY DEF AttemptFence, Fence
        <4>2. CASE disp[a] \in KnownDispositions
          <5>1. own \in FencesAfter(a, next, actual)
            BY <2>3, <4>2 DEF FencesAfter, ExpectedAdditionalLiability, Only
          <5>2. QED BY <4>1, <5>1
        <4>3. CASE disp[a] = "UNKNOWN" /\ open[a] = "head"
          <5>1. [own EXCEPT !.n = 1] \in FencesAfter(a, next, actual) BY <2>3, <4>3 DEF FencesAfter, Only
          <5>2. QED BY <4>1, <5>1
        <4>4. CASE disp[a] = "UNKNOWN" /\ open[a] # "head"
          <5>1. fences \subseteq FencesAfter(a, next, actual) BY <4>4 DEF FencesAfter
          <5>2. LiabilityFenced(a) BY <1>3, <4>4 DEF Accounted, KnownDispositions
          <5>3. QED BY <5>1, <5>2 DEF LiabilityFenced
        <4>5. QED BY <1>3, <4>2, <4>3, <4>4 DEF Accounted
      <3>2. LiabilityFenced(a)' BY <3>1 DEF LiabilityFenced
      <3>3. QED BY <1>1, <1>3, <2>1, <2>3, <3>2 DEF Accounted
    <2>4. QED BY <2>2, <2>3
  <1>4. QED BY <1>2, <1>3

(* Operations on a run keep the runs in validation accounted for. *)
LEMMA RunStepKeepsAccounts ==
  ASSUME TypeOK, ValidatingAccounted, NEW r \in Runs, RunStep(r)
  PROVE  ValidatingAccounted'
  <1>1. CASE CommitIntent(r) \/ CommitRetry(r)
    <2>1. PICK g : WriteIntent(<<r, g>>) BY <1>1 DEF CommitIntent, CommitRetry
    <2>2. \A q \in Runs \ {r} : Current(q)' = Current(q) /\ disp'[Current(q)] = disp[Current(q)]
      BY <2>1 DEF WriteIntent, Current, TypeOK
    <2>3. fences' = fences /\ observed' = observed /\ Record(r, "INTENT_COMMITTED", "RUNNING", cursor[r])
      BY <2>1 DEF WriteIntent
    <2>4. ASSUME NEW q \in Runs \ {r}, Accounted(Current(q)) PROVE Accounted(Current(q))'
      <3>1. PICK c : c = Current(q) OBVIOUS
      <3>2. Accounted(c)'
        BY <2>2, <2>3, <2>4, <3>1, OtherAccountStays DEF Accounted
      <3>3. QED BY <2>2, <3>1, <3>2 DEF Accounted, LiabilityFenced
    <2>5. QED BY <2>3, <2>4, RecordKeepsAccounts
  <1>2. CASE EscalateStop(r)
    <2>1. UNCHANGED <<gen, fences, observed>> /\ Record(r, "STOP_ESCALATED", "STOPPED", cursor[r])
      BY <1>2 DEF EscalateStop, attemptVars
    <2>2. \A b \in Attempts : b[1] # r => disp'[b] = disp[b]
      BY <1>2 DEF EscalateStop, EscalationCharge, Settlement, budgetVars, Current, TypeOK
    <2>3. \A q \in Runs \ {r} : Accounted(Current(q)) => Accounted(Current(q))'
      BY <2>1, <2>2 DEF Accounted, LiabilityFenced, Current, TypeOK
    <2>4. QED BY <2>1, <2>3, RecordKeepsAccounts
  <1>3. CASE ~(CommitIntent(r) \/ CommitRetry(r) \/ EscalateStop(r))
    <2>1. UNCHANGED <<gen, observed, disp>>
      BY <1>3 DEF RunStep, AcceptPlan, EvaluateReadiness, PauseBeforeDispatch, PauseLocal, PauseExternal,
         PauseReconciliation, RecoverProven, ReconcileVerifiedReceipt, ProofFreeDisposition, Stop,
         RequestPause, attemptVars, budgetVars
    <2>2. {f \in fences : f.why = "ADDITIONAL_LIABILITY"} \subseteq fences'
      BY <1>3 DEF RunStep, AcceptPlan, EvaluateReadiness, PauseBeforeDispatch, PauseLocal, PauseExternal,
         PauseReconciliation, RecoverProven, ReconcileVerifiedReceipt, ProofFreeDisposition, Stop,
         RequestPause, Uncertainties, UncertaintyKinds
    <2>3. \A q \in Runs : Accounted(Current(q)) => Accounted(Current(q))'
      BY <2>1, <2>2 DEF Accounted, LiabilityFenced, Current
    <2>4. CASE ReconcileVerifiedReceipt(r)
      <3>1. PICK state, cur : Record(r, "RECONCILIATION_RECORDED", state, cur)
        BY <2>4 DEF ReconcileVerifiedReceipt
      <3>2. Accounted(Current(r))
        BY <2>4 DEF ReconcileVerifiedReceipt, ReceiptVerifiable, Accounted
      <3>3. QED BY <2>3, <3>1, <3>2, RecordKeepsAccounts
    <2>5. CASE \E inputsReady \in BOOLEAN : EvaluateReadiness(r, inputsReady)
      <3>1. PICK state \in {"PLANNED", "BLOCKED"} : life' = [life EXCEPT ![r] = state]
        BY <2>5 DEF EvaluateReadiness
      <3>2. QED BY <2>3, <3>1 DEF ValidatingAccounted, TypeOK
    <2>6. CASE ~(ReconcileVerifiedReceipt(r) \/ \E inputsReady \in BOOLEAN : EvaluateReadiness(r, inputsReady))
      <3>1. PICK k, state, cur : state # "VALIDATING" /\ Record(r, k, state, cur)
        BY <1>3, <2>6 DEF RunStep, AcceptPlan, PauseBeforeDispatch, PauseLocal, PauseExternal,
           PauseReconciliation, RecoverProven, ProofFreeDisposition, Stop, RECON
      <3>2. QED BY <2>3, <3>1, RecordKeepsAccounts
    <2>7. QED BY <2>4, <2>5, <2>6
  <1>4. QED BY <1>1, <1>2, <1>3

(* No pause of the operation side preserves a run in validation, so none   *)
(* resumes into it.                                                        *)
LEMMA ResumeStepKeepsAccounts ==
  ASSUME TypeOK, ValidatingAccounted, NEW r \in Runs, NEW n \in 1..MaxPauses, ResumeStep(r, n)
  PROVE  ValidatingAccounted'
  <1>1. UNCHANGED <<gen, observed, disp>>
    BY DEF ResumeStep, Resume, SettleActivityPause, ResumeActivitySettlement, ResumeOperationNonexecution,
       attemptVars, budgetVars
  <1>2. {f \in fences : f.why = "ADDITIONAL_LIABILITY"} \subseteq fences'
    <2>1. /\ ControlFence(r, n).why = "CONTROL_PAUSE"
          /\ \A a, m : /\ PauseFence("LOCAL_PAUSE", a, m).why = "LOCAL_PAUSE"
                       /\ PauseFence("EXTERNAL_PAUSE", a, m).why = "EXTERNAL_PAUSE"
      BY DEF ControlFence, PauseFence, Fence
    <2>2. QED BY <2>1 DEF ResumeStep, Resume, SettleActivityPause, ResumeActivitySettlement,
             ResumeOperationNonexecution
  <1>3. \A q \in Runs : Accounted(Current(q)) => Accounted(Current(q))'
    BY <1>1, <1>2 DEF Accounted, LiabilityFenced, Current
  <1>4. pauseRow[<<r, n>>].life # "VALIDATING" BY DEF TypeOK, Absent
  <1>5. PICK k, state, cur : state # "VALIDATING" /\ Record(r, k, state, cur)
    BY <1>4 DEF ResumeStep, Resume, SettleActivityPause, ResumeActivitySettlement,
       ResumeOperationNonexecution, ResumeState, ResumeRoute, Denied
  <1>6. QED BY <1>3, <1>5, RecordKeepsAccounts

(* Receipts and proofs bring a run to validation, or leave it there, only  *)
(* with its current attempt accounted for.                                 *)
LEMMA AttemptStepKeepsAccounts ==
  ASSUME TypeOK, EffectInvariant, ValidatingAccounted, NEW a \in Attempts, AttemptStep(a)
  PROVE  ValidatingAccounted'
  <1>0. a[1] \in Runs BY AttemptFields
  <1>1. CASE ClaimLaunch(a) \/ Contact(a)
    <2>1. PICK k, cur : UNCHANGED <<gen, fences, observed>> /\ Record(a[1], k, RECON, cur)
      BY <1>1 DEF ClaimLaunch, Contact
    <2>2. \A b \in Attempts : b[1] # a[1] => disp'[b] = disp[b]
      BY <1>1 DEF ClaimLaunch, Contact, Settlement, budgetVars, TypeOK
    <2>3. \A q \in Runs \ {a[1]} : Accounted(Current(q)) => Accounted(Current(q))'
      BY <2>1, <2>2 DEF Accounted, LiabilityFenced, Current, TypeOK
    <2>4. QED BY <1>0, <2>1, <2>3, RecordKeepsAccounts DEF RECON
  <1>2. CASE \/ \E u \in Amounts \cup {NoAmount} : Execute(a, u)
             \/ DispatchEnds(a)
             \/ \E path \in {"intent", "launch"} : SealNonexecution(a, path)
    BY <1>2 DEF Execute, DispatchEnds, SealNonexecution, runVars, attemptVars, budgetVars,
       ValidatingAccounted, Accounted, LiabilityFenced, Current
  <1>3. CASE \E unknownControl \in BOOLEAN : IntakeReceipt(a, unknownControl)
    <2>1. PICK k, state, cur, next, u, o, c :
            /\ next = ReceiptDisposition(disp[a], usage[a]) /\ Settlement(a, next, usage[a])
            /\ FencesAfter(a, next, usage[a]) \subseteq fences' /\ Record(a[1], k, state, cur)
            /\ state = ObservationRoute(life[a[1]], next = "UNKNOWN" \/ u, o, c)
            /\ observed' = observed \cup {a} /\ gen' = gen
      BY <1>3 DEF IntakeReceipt
    <2>2. next \in {"CONSUMED", "ADJUSTED", "UNKNOWN"} BY <2>1 DEF ReceiptDisposition
    <2>3. a = Current(a[1])
      <3>1. target[a] = "executed" BY <1>3 DEF IntakeReceipt, ReceiptPermitted
      <3>2. ~(a[2] > gen[a[1]]) /\ ~(a[2] < gen[a[1]])
        BY <3>1 DEF EffectInvariant, UncommittedUntouched, RetryFollowsSeal, Sealed
      <3>3. a[2] \in Int /\ gen[a[1]] \in Int /\ a = <<a[1], a[2]>> BY <1>0, AttemptFields DEF TypeOK
      <3>4. QED BY <3>2, <3>3 DEF Current
    <2>4. state = "VALIDATING" => next # "UNKNOWN" BY <2>1 DEF ObservationRoute, Terminal
    <2>5. state = "VALIDATING" => Accounted(a)'
      BY <2>1, <2>2, <2>4 DEF Accounted, Settlement, TypeOK, KnownDispositions
    <2>6. ASSUME NEW q \in Runs, Accounted(Current(q)) PROVE Accounted(Current(q))'
      <3>1. PICK b : b = Current(q) OBVIOUS
      <3>2. Accounted(b)' BY <2>1, <2>2, <2>6, <3>1, SettlementKeepsAccounts
      <3>3. Current(q)' = b BY <2>1, <3>1 DEF Current
      <3>4. QED BY <3>2, <3>3 DEF Accounted, LiabilityFenced
    <2>7. Current(a[1])' = a BY <2>1, <2>3 DEF Current
    <2>8. state = "VALIDATING" => Accounted(Current(a[1]))'
      BY <2>5, <2>7 DEF Accounted, LiabilityFenced
    <2>9. QED BY <1>0, <2>1, <2>6, <2>8, RecordKeepsAccounts
  <1>4. CASE \E next \in {"CONSUMED", "ADJUSTED", "UNKNOWN"}, actual \in Amounts \cup {NoAmount} :
               SettleBudget(a, next, actual)
    <2>1. PICK next \in {"CONSUMED", "ADJUSTED", "UNKNOWN"}, actual \in Amounts \cup {NoAmount} :
            SettleBudget(a, next, actual)
      BY <1>4
    <2>2. /\ Settlement(a, next, actual) /\ fences' = FencesAfter(a, next, actual)
          /\ UNCHANGED <<gen, observed, life>>
      BY <2>1 DEF SettleBudget, Append
    <2>3. ASSUME NEW q \in Runs, Accounted(Current(q)) PROVE Accounted(Current(q))'
      <3>1. PICK b : b = Current(q) OBVIOUS
      <3>2. Accounted(b)' BY <2>2, <2>3, <3>1, SettlementKeepsAccounts
      <3>3. Current(q)' = b BY <2>2, <3>1 DEF Current
      <3>4. QED BY <3>2, <3>3 DEF Accounted, LiabilityFenced
    <2>4. QED BY <2>2, <2>3 DEF ValidatingAccounted
  <1>5. CASE \E q \in NonexecutionClaims : ProveNondispatch(a, q)
    <2>1. PICK q \in NonexecutionClaims : ProveNondispatch(a, q) BY <1>5
    <2>2. PICK route, u, c, x :
            /\ route = NonexecutionRoute(life[a[1]], cursor[a[1]], a \in observed, u, c, x, a[2])
            /\ Record(a[1], "NONDISPATCH_PROVEN", route.life, route.cursor)
      BY <2>1 DEF ProveNondispatch
    <2>3. /\ Settlement(a, q.next, q.actual) /\ UNCHANGED <<gen, observed>>
          /\ q.next \in {"CONSUMED", "ADJUSTED", "UNKNOWN"} \/ a \notin observed
      BY <2>1 DEF ProveNondispatch, NonexecutionPermitted, NonexecutionClaims, KnownDispositions
    <2>4. {f \in FencesAfter(a, q.next, q.actual) : f.why = "ADDITIONAL_LIABILITY"} \subseteq fences'
      BY <2>1 DEF ProveNondispatch, NonexecutionFences, Uncertainties, UncertaintyKinds
    <2>5. ASSUME NEW r \in Runs, Accounted(Current(r)) PROVE Accounted(Current(r))'
      <3>1. PICK b : b = Current(r) OBVIOUS
      <3>2. Accounted(b)' BY <2>3, <2>4, <2>5, <3>1, SettlementKeepsAccounts
      <3>3. Current(r)' = b BY <2>3, <3>1 DEF Current
      <3>4. QED BY <3>2, <3>3 DEF Accounted, LiabilityFenced
    <2>6. route.life = "VALIDATING" => life[a[1]] = "VALIDATING"
      BY <2>2 DEF NonexecutionRoute, Terminal
    <2>7. QED BY <1>0, <2>2, <2>5, <2>6, RecordKeepsAccounts DEF ValidatingAccounted
  <1>6. QED BY <1>1, <1>2, <1>3, <1>4, <1>5 DEF AttemptStep

(* ValidatingIsAccounted: a run is in validation only with the receipt of  *)
(* its current attempt, and with accounting that is known or fenced as a   *)
(* liability, whatever settlements and proofs come in meanwhile.           *)
THEOREM ValidatingRunsAreAccounted == Spec => []ValidatingIsAccounted
  <1>1. Init => ValidatingAccounted BY DEF Init, ValidatingAccounted, Absent
  <1>2. TypeOK /\ EffectInvariant /\ ValidatingAccounted /\ [Next]_vars => ValidatingAccounted'
    <2> SUFFICES ASSUME TypeOK, EffectInvariant, ValidatingAccounted, [Next]_vars
                 PROVE ValidatingAccounted'
      OBVIOUS
    <2>1. CASE Next
      BY <2>1, RunStepKeepsAccounts, ResumeStepKeepsAccounts, AttemptStepKeepsAccounts DEF Next
    <2>2. CASE UNCHANGED vars
      BY <2>2 DEF vars, runVars, attemptVars, budgetVars, ValidatingAccounted, Accounted, LiabilityFenced,
         Current
    <2>3. QED BY <2>1, <2>2
  <1>3. ValidatingAccounted => ValidatingIsAccounted
    BY DEF ValidatingAccounted, ValidatingIsAccounted, Accounted, LiabilityFenced, Current
  <1>4. QED BY <1>1, <1>2, <1>3, TypeCorrect, EffectsAccountedFor, PTL DEF Spec

-----------------------------------------------------------------------------
(* The writer's table and replay's table. *)

(* The events a step appends are ones replay accepts. *)
Replayable ==
  \A r \in Runs : (life'[r] # life[r] \/ kind'[r] # kind[r]) =>
    <<life[r], life'[r]>> \in LifecycleRoutes[kind'[r]]

(* A step that appends one event is accepted if its pair is. *)
LEMMA RecordReplayable ==
  ASSUME TypeOK, NEW r \in Runs, NEW k, NEW state, NEW cur, Record(r, k, state, cur),
         <<life[r], state>> \in LifecycleRoutes[k]
  PROVE  Replayable
  BY DEF TypeOK, Record, Replayable

(* Operations on a run append what replay accepts. *)
LEMMA RunStepReplayable ==
  ASSUME TypeOK, NEW r \in Runs, RunStep(r)
  PROVE  Replayable
  <1>1. CASE \E inputsReady \in BOOLEAN : EvaluateReadiness(r, inputsReady)
    <2>1. PICK state \in {"PLANNED", "BLOCKED"} :
            /\ life' = [life EXCEPT ![r] = state] /\ life[r] \in {"PLANNED", "BLOCKED"}
            /\ kind' = [kind EXCEPT ![r] = "READINESS_EVALUATED"]
      BY <1>1 DEF EvaluateReadiness, ReadinessEvaluable
    <2>2. QED BY <2>1, RouteRows DEF Replayable, TypeOK
  <1>2. CASE ~(\E inputsReady \in BOOLEAN : EvaluateReadiness(r, inputsReady))
    <2>1. PICK k, state, cur : Record(r, k, state, cur) /\ <<life[r], state>> \in LifecycleRoutes[k]
      <3>1. CASE AcceptPlan(r) BY <3>1, RouteRows DEF AcceptPlan, PlanPermitted
      <3>2. CASE CommitIntent(r) \/ CommitRetry(r)
        <4>1. Record(r, "INTENT_COMMITTED", "RUNNING", cursor[r]) /\ life[r] = "PLANNED"
          BY <3>2, AuthorizedRows DEF CommitIntent, CommitRetry, WriteIntent, IntentPermitted
        <4>2. QED BY <4>1, RouteRows
      <3>3. CASE PauseBeforeDispatch(r)
        BY <3>3, RouteRows, AuthorizedRows DEF PauseBeforeDispatch
      <3>4. CASE PauseLocal(r) BY <3>4, RouteRows DEF PauseLocal, LocalPausePermitted
      <3>5. CASE PauseExternal(r) \/ PauseReconciliation(r)
        <4>1. PICK k \in {"PAUSE_REQUESTED", "PAUSE_FENCE_RECORDED"} :
                Record(r, k, RECON, cursor[r]) /\ life[r] = RECON
          BY <3>5, AuthorizedRows DEF PauseExternal, PauseReconciliation, RECON
        <4>2. QED BY <4>1, RouteRows DEF RECON
      <3>6. CASE RecoverProven(r)
        BY <3>6, RouteRows, AuthorizedRows DEF RecoverProven
      <3>7. CASE ReconcileVerifiedReceipt(r)
        <4>1. PICK fs, cur : /\ Record(r, "RECONCILIATION_RECORDED", ReconciliationState(r, fs, Liable), cur)
                             /\ life[r] = RECON
          BY <3>7 DEF ReconcileVerifiedReceipt, ReceiptVerifiable
        <4>2. ReconciliationState(r, fs, Liable) \in {RECON, "PAUSED", "BLOCKED", "VALIDATING"}
          BY DEF ReconciliationState
        <4>3. QED BY <4>1, <4>2, RouteRows DEF RECON
      <3>8. CASE \E state \in {RECON, "STOPPED", "FAILED_FINAL"} : ProofFreeDisposition(r, state)
        BY <3>8, RouteRows, AuthorizedRows DEF ProofFreeDisposition, RECON
      <3>9. CASE \E mode \in {"GRACEFUL", "IMMEDIATE"} : Stop(r, mode)
        BY <3>9, RouteRows, AuthorizedRows DEF Stop, StopPermitted
      <3>10. CASE EscalateStop(r) BY <3>10, RouteRows, AuthorizedRows DEF EscalateStop
      <3>11. QED BY <1>2, <3>1, <3>2, <3>3, <3>4, <3>5, <3>6, <3>7, <3>8, <3>9, <3>10 DEF RunStep
    <2>2. QED BY <2>1, RecordReplayable
  <1>3. QED BY <1>1, <1>2

(* Resumes and settled pauses append what replay accepts. *)
LEMMA ResumeStepReplayable ==
  ASSUME TypeOK, NEW r \in Runs, NEW n \in 1..MaxPauses, ResumeStep(r, n)
  PROVE  Replayable
  <1>1. CASE SettleActivityPause(r, n)
    BY <1>1, RouteRows, AuthorizedRows, RecordReplayable DEF SettleActivityPause
  <1>2. CASE ~SettleActivityPause(r, n)
    <2>1. PICK state, cur : Record(r, "RESUME_ACCEPTED", state, cur) /\ Authorized("T14", life[r], state)
      BY <1>2 DEF ResumeStep, Resume, ResumeActivitySettlement, ResumeOperationNonexecution
    <2>2. QED BY <2>1, RouteRows, AuthorizedRows, RecordReplayable
  <1>3. QED BY <1>1, <1>2

(* Claims, receipts and proofs append what replay accepts. *)
LEMMA AttemptStepReplayable ==
  ASSUME TypeOK, NEW a \in Attempts, AttemptStep(a)
  PROVE  Replayable
  <1>0. a[1] \in Runs BY AttemptFields
  <1>1. CASE ClaimLaunch(a)
    BY <1>0, <1>1, RouteRows, RecordReplayable DEF ClaimLaunch, LaunchPermitted, RECON
  <1>2. CASE Contact(a)
    <2>1. life[a[1]] \in LifecycleStates BY <1>2 DEF Contact, ContactPermitted, RECON, LifecycleStates
    <2>2. QED BY <1>0, <1>2, <2>1, RouteRows, RecordReplayable DEF Contact, ContactPermitted
  <1>3. CASE \/ \E u \in Amounts \cup {NoAmount} : Execute(a, u)
             \/ DispatchEnds(a)
             \/ \E path \in {"intent", "launch"} : SealNonexecution(a, path)
             \/ \E next \in {"CONSUMED", "ADJUSTED", "UNKNOWN"}, actual \in Amounts \cup {NoAmount} :
                  SettleBudget(a, next, actual)
    BY <1>3 DEF Execute, DispatchEnds, SealNonexecution, SettleBudget, Append, runVars, Replayable
  <1>4. CASE \E unknownControl \in BOOLEAN : IntakeReceipt(a, unknownControl)
    <2>1. PICK o, c, u, state, cur :
            /\ o \in BOOLEAN /\ c \in BOOLEAN
            /\ Authorized(ObservationTransition(o, c), life[a[1]], state)
            /\ Record(a[1], ObservationEvent(o, c), state, cur)
            /\ state = ObservationRoute(life[a[1]], u, o, c)
      BY <1>4 DEF IntakeReceipt, OrdinaryReceipt, ReconcilesDispatch
    <2>2. ObservationTransition(o, c) \in {"T10", "T17", "T23", "T25"} BY DEF ObservationTransition
    <2>3. life[a[1]] \in LifecycleStates /\ state \in LifecycleStates
      BY <2>1, <2>2, AuthorizedAnywhere
    <2>4. CASE o \/ ~c
      <3>1. ObservationEvent(o, c) \in {"RECEIPT_RECORDED", "LATE_RECEIPT_RECORDED"}
        BY <2>4 DEF ObservationEvent
      <3>2. QED BY <1>0, <2>1, <2>3, <3>1, RouteRows, RecordReplayable
    <2>5. CASE ~o /\ c
      <3>0. ObservationTransition(o, c) = "T17" BY <2>5 DEF ObservationTransition
      <3>1. life[a[1]] = RECON BY <2>1, <3>0, AuthorizedRows DEF RECON
      <3>2. state \in {RECON, "VALIDATING"} BY <2>1, <2>5, <3>1 DEF ObservationRoute, RECON, Terminal
      <3>3. ObservationEvent(o, c) = "RECONCILIATION_RECORDED" BY <2>5 DEF ObservationEvent
      <3>4. QED BY <1>0, <2>1, <3>1, <3>2, <3>3, RouteRows, RecordReplayable DEF RECON
    <2>6. QED BY <2>4, <2>5
  <1>5. CASE \E q \in NonexecutionClaims : ProveNondispatch(a, q)
    <2>1. PICK route : /\ Authorized("T25", life[a[1]], route.life)
                       /\ Record(a[1], "NONDISPATCH_PROVEN", route.life, route.cursor)
      BY <1>5 DEF ProveNondispatch
    <2>2. QED BY <1>0, <2>1, AuthorizedAnywhere, RouteRows, RecordReplayable
  <1>6. QED BY <1>1, <1>2, <1>3, <1>4, <1>5 DEF AttemptStep

(* RoutesReplayable: the two tables, written apart in the code, agree on   *)
(* every step the writer can take: no event it appends is one replay       *)
(* refuses for its pair of states.                                         *)
THEOREM EveryEventIsReplayable == Spec => RoutesReplayable
  <1>1. TypeOK /\ [Next]_vars => [Replayable]_vars
    <2> SUFFICES ASSUME TypeOK, Next PROVE Replayable OBVIOUS
    <2>1. QED BY RunStepReplayable, ResumeStepReplayable, AttemptStepReplayable DEF Next
  <1>2. QED BY <1>1, TypeCorrect, PTL DEF Spec, RoutesReplayable, Replayable
=============================================================================
