----------------------- MODULE ValidationKernelProofs -----------------------
(***************************************************************************)
(* The validation kernel, for any plan of checks, any dependencies and     *)
(* gates and any number of launches, pauses, settlements and facts.        *)
(*                                                                         *)
(* What the store records about a launch is tied to what the target did    *)
(* with it and to what its process may still do (LaunchInvariant); what a  *)
(* run that is paused, completed or ended may still have under way follows *)
(* from that tie and from its pauses (RunInvariant).                       *)
(***************************************************************************)
EXTENDS ValidationKernel, LifecycleProofs, Induction

-----------------------------------------------------------------------------
(* The inductive invariant. *)

(* Launches are committed in order, one after the other is settled. *)
LaunchIsOrdered(v) ==
  /\ v > launches => /\ val[v].intent = "none" /\ val[v].proof = "no"
                     /\ target[v] = Untouched /\ proc[v] = "idle"
  /\ v <= launches => val[v].intent # "none" /\ disp[v] # "NONE"
  /\ val[v].intent = "ACTIVE" => v = launches

(* What the target did, it did after the durable contact, and its seals    *)
(* and results exclude each other.                                         *)
TargetFollowsContact(v) ==
  /\ proc[v] = "contacted" => val[v].contact
  /\ target[v].result # "none" => val[v].contact
  /\ target[v].halted = "interrupted" => target[v].result = "none"
  /\ target[v].sealed => target[v].result = "none"

(* The records of a launch are true of the target, and a result without a  *)
(* cessation is fenced.                                                    *)
RecordsAreTrue(v) ==
  /\ val[v].seen # "no" => target[v].result # "none"
  /\ val[v].ceased # "no" => target[v].halted # "no"
  /\ val[v].seen # "no" /\ val[v].ceased = "no" => Fence("ACTIVITY", v) \in fences
  /\ val[v].applied # "no" => val[v].seen # "no" /\ val[v].ceased # "no" /\ val[v].intent = "SETTLED"
  /\ val[v].applied = "PASS" => target[v].result = "PASS"
  /\ val[v].proof \in {"certain", "reopened"} =>
       disp[v] # "RESERVED" /\ (val[v].contact => target[v].sealed)

(* A launch the target could still run has not been settled. *)
RunningIsActive(v) ==
  proc[v] = "contacted" /\ target[v] = Untouched => val[v].intent = "ACTIVE"

LaunchInvariant ==
  \A v \in Launches :
    LaunchIsOrdered(v) /\ TargetFollowsContact(v) /\ RecordsAreTrue(v) /\ RunningIsActive(v)

(* Terminal settlements are made only for runs that have ended. *)
SettledHasEnded == \A c \in Checks : settled[c] # "no" => life \in Terminal

(* While the run goes on, a settled launch was applied or has no result. *)
SettledIsDone ==
  \A v \in Launches : val[v].intent = "SETTLED" /\ life \notin Terminal =>
    val[v].applied # "no" \/ target[v].result = "none"

CompletedIsClosed ==
  life = "COMPLETED" =>
    /\ Active = {}
    /\ \A c \in Checks : Passed(c)
    /\ \A v \in Launches : target[v].result # "none" => val[v].applied # "no"

PausedIsTouched ==
  life = "PAUSED" => \A v \in Launches : ~(proc[v] = "contacted" /\ target[v] = Untouched)

(* A launch that a pause found interrupted is; a pause of an active launch *)
(* stands on the last launch until it is settled.                          *)
PausesHold ==
  \A i \in DOMAIN pauses :
    /\ pauses[i].settled = "INTERRUPTION_CESSATION" =>
         pauses[i].launch \in Launches /\ target[pauses[i].launch].halted = "interrupted"
    /\ pauses[i].mode = "active" /\ pauses[i].settled = "no" =>
         Fence("PAUSE", i) \in fences /\ pauses[i].launch = launches

RunInvariant ==
  SettledHasEnded /\ SettledIsDone /\ CompletedIsClosed /\ PausedIsTouched /\ PausesHold

-----------------------------------------------------------------------------
(* Types. *)

(* The event kinds of the replay table. *)
LEMMA ValidationKinds ==
  DOMAIN ValidationRoutes =
    {"ADAPTER_CONTACT_CLAIMED", "BLOCKER_RESOLVED", "LATE_RECEIPT_RECORDED", "NONDISPATCH_PROVEN",
     "PAUSE_FENCE_RECORDED", "PAUSE_SETTLED", "RECONCILIATION_RECORDED", "RESUME_ACCEPTED",
     "STOP_RECORDED", "VALIDATION_APPLICATION_DENIED", "VALIDATION_GATE_FACT_RECORDED",
     "VALIDATION_LAUNCH_EVALUATED", "VALIDATOR_CESSATION_RECORDED", "VALIDATION_PASSED",
     "VALIDATION_FAILED", "OPERATION_FINALIZED", "RECONCILIATION_PAUSE_RESUMED",
     "VALIDATION_PAUSE_CHECKPOINTED", "TERMINAL_VALIDATION_SETTLED", "VALIDATION_CHECK_ROUTED",
     "VALIDATION_LAUNCH_BLOCKED", "VALIDATOR_INITIATION_DISABLED", "VALIDATOR_INTENT_COMMITTED",
     "VALIDATOR_OBSERVATION_RECORDED"}
  BY DEF ValidationRoutes

(* The greatest of a nonempty set of launches, and the first check of one. *)
LEMMA GreatestLaunch ==
  ASSUME NEW S \in SUBSET Reservations, S # {}
  PROVE  Max(S) \in S /\ \A v \in S : v <= Max(S)
  <1>1. PICK i \in S : \A j \in S : j <= i
    BY GreatestNatural, ValidationBounds DEF Reservations
  <1>2. \A j \in S : i >= j BY <1>1, ValidationBounds DEF Reservations
  <1>3. \A j \in S : Max(S) >= j BY <1>2 DEF Max
  <1>4. Max(S) \in S BY <1>2 DEF Max
  <1>5. QED BY <1>3, <1>4, ValidationBounds DEF Reservations

LEMMA LastLaunch ==
  ASSUME NEW S \in SUBSET Launches
  PROVE  /\ Max(S \cup {0}) \in Reservations
         /\ Max(S \cup {0}) # 0 => Max(S \cup {0}) \in S
         /\ Max(S \cup {0}) = 0 => S = {}
  <1>1. S \cup {0} \in SUBSET Reservations BY ValidationBounds DEF Launches, Reservations
  <1>2. Max(S \cup {0}) \in S \cup {0} /\ \A v \in S \cup {0} : v <= Max(S \cup {0})
    BY <1>1, GreatestLaunch
  <1>3. \A v \in S : v \in Int /\ v > 0 BY ValidationBounds DEF Launches
  <1>4. Max(S \cup {0}) = 0 => S = {}
    <2> SUFFICES ASSUME Max(S \cup {0}) = 0, NEW v \in S PROVE FALSE OBVIOUS
    <2>1. v <= 0 BY <1>2
    <2>2. QED BY <1>3, <2>1
  <1>5. QED BY <1>1, <1>2, <1>4

LEMMA NextCheckTyped ==
  ASSUME NEW except
  PROVE  NextCheck(except) \in Checks \cup {None}
  <1> DEFINE pending == {i \in DOMAIN CheckOrder : CheckOrder[i] \notin except /\ ~Passed(CheckOrder[i])}
  <1>1. NextCheck(except) = IF pending = {} THEN None ELSE CheckOrder[Min(pending)]
    BY DEF NextCheck
  <1>2. pending \subseteq Nat /\ pending \subseteq DOMAIN CheckOrder
    BY ChecksAssumption
  <1> HIDE DEF pending
  <1>3. ASSUME pending # {} PROVE CheckOrder[Min(pending)] \in Checks
    <2>1. PICK i \in pending : \A j \in pending : i <= j BY <1>2, <1>3, LeastNatural
    <2>2. Min(pending) \in pending BY <2>1 DEF Min
    <2>3. QED BY <1>2, <2>2 DEF Checks, Range
  <1>4. QED BY <1>1, <1>3

(* The cursors an operation stores are cursors. *)
LEMMA CursorTyped ==
  /\ Nowhere \in RunCursors /\ Revalidate \in RunCursors /\ Finalizing \in RunCursors
  /\ \A k \in CheckCursors, c \in Checks : At(k, c) \in RunCursors
  /\ \A k \in LaunchCursors, v \in Launches : At(k, v) \in RunCursors
  BY DEF RunCursors, Nowhere, Revalidate, Finalizing, At, CheckCursors, LaunchCursors

(* The columns a run's event writes. *)
RunColumns ==
  /\ life \in LifecycleStates
  /\ cursor \in RunCursors
  /\ kind \in DOMAIN ValidationRoutes \cup {"RECEIPT_RECORDED", "BUDGET_SETTLED"}
  /\ head \in Checks \cup {None}

LEMMA RecordTyped ==
  ASSUME NEW k \in DOMAIN ValidationRoutes, NEW state \in LifecycleStates, NEW cur \in RunCursors,
         Record(k, state, cur)
  PROVE  RunColumns'
  BY DEF Record, RunColumns

LEMMA NoteTyped ==
  ASSUME TypeOK, NEW k \in DOMAIN ValidationRoutes, Note(k)
  PROVE  RunColumns'
  BY DEF Note, Record, RunColumns, TypeOK

(* The updates of a launch's row keep it a row. *)
LEMMA RowTyped ==
  ASSUME NEW row \in LaunchRows
  PROVE  /\ [row EXCEPT !.stale = TRUE] \in LaunchRows
         /\ [row EXCEPT !.contact = TRUE] \in LaunchRows
         /\ [row EXCEPT !.resolved = TRUE] \in LaunchRows
         /\ [row EXCEPT !.reconciled = TRUE] \in LaunchRows
         /\ [row EXCEPT !.intent = "SETTLED"] \in LaunchRows
         /\ [row EXCEPT !.fresh = FALSE, !.reconciled = FALSE] \in LaunchRows
         /\ \A x \in {"before", "after"} : [row EXCEPT !.ceased = x] \in LaunchRows
         /\ \A x \in {"known", "unknown"}, y \in BOOLEAN :
              [row EXCEPT !.seen = x, !.cited = {}, !.fresh = y] \in LaunchRows
         /\ \A x \in SUBSET {"known", "unknown"}, y \in BOOLEAN :
              [row EXCEPT !.cited = x, !.fresh = y, !.reconciled = FALSE] \in LaunchRows
         /\ \A x \in {"PASS", "RECOVERABLE", "FINAL"} :
              [row EXCEPT !.applied = x, !.intent = "SETTLED"] \in LaunchRows
         /\ \A x \in {"open", "unsure", "certain", "reopened"}, y \in {"none", "ACTIVE", "SETTLED"} :
              [row EXCEPT !.proof = x, !.intent = y] \in LaunchRows
  <1>1. [row EXCEPT !.stale = TRUE] \in LaunchRows /\ [row EXCEPT !.contact = TRUE] \in LaunchRows
    BY DEF LaunchRows
  <1>2. [row EXCEPT !.resolved = TRUE] \in LaunchRows /\ [row EXCEPT !.reconciled = TRUE] \in LaunchRows
    BY DEF LaunchRows
  <1>3. /\ [row EXCEPT !.intent = "SETTLED"] \in LaunchRows
        /\ [row EXCEPT !.fresh = FALSE, !.reconciled = FALSE] \in LaunchRows
    BY DEF LaunchRows
  <1>4. ASSUME NEW x \in {"before", "after"} PROVE [row EXCEPT !.ceased = x] \in LaunchRows
    BY DEF LaunchRows
  <1>5. ASSUME NEW x \in {"known", "unknown"}, NEW y \in BOOLEAN
        PROVE  [row EXCEPT !.seen = x, !.cited = {}, !.fresh = y] \in LaunchRows
    BY DEF LaunchRows
  <1>6. ASSUME NEW x \in SUBSET {"known", "unknown"}, NEW y \in BOOLEAN
        PROVE  [row EXCEPT !.cited = x, !.fresh = y, !.reconciled = FALSE] \in LaunchRows
    BY DEF LaunchRows
  <1>7. ASSUME NEW x \in {"PASS", "RECOVERABLE", "FINAL"}
        PROVE  [row EXCEPT !.applied = x, !.intent = "SETTLED"] \in LaunchRows
    BY DEF LaunchRows
  <1>8. ASSUME NEW x \in {"open", "unsure", "certain", "reopened"}, NEW y \in {"none", "ACTIVE", "SETTLED"}
        PROVE  [row EXCEPT !.proof = x, !.intent = y] \in LaunchRows
    BY DEF LaunchRows
  <1>9. QED BY <1>1, <1>2, <1>3, <1>4, <1>5, <1>6, <1>7, <1>8

LEMMA CitesTyped ==
  ASSUME TypeOK, NEW v \in Launches, NEW citing \in BOOLEAN
  PROVE  Cites(v, citing) \in LaunchRows
  <1>1. val[v] \in LaunchRows BY DEF TypeOK
  <1>2. CASE val[v].seen = "no"
    <2>1. PICK x : x = val[v].cited \cup Only(val[v].fresh, CitedUsage(disp[v])) OBVIOUS
    <2>2. x \in SUBSET {"known", "unknown"} BY <1>1, <2>1 DEF LaunchRows, Only, CitedUsage
    <2>3. Cites(v, citing) = [val[v] EXCEPT !.cited = x, !.fresh = citing, !.reconciled = FALSE]
      BY <1>2, <2>1 DEF Cites
    <2>4. [val[v] EXCEPT !.cited = x, !.fresh = citing, !.reconciled = FALSE] \in LaunchRows
      BY <1>1, <2>2, RowTyped, Zenon
    <2>5. QED BY <2>3, <2>4
  <1>3. CASE val[v].seen # "no" BY <1>1, <1>3, RowTyped DEF Cites
  <1>4. QED BY <1>2, <1>3

(* A settlement and the fences it leaves are typed. *)
LEMMA SettlementTyped ==
  ASSUME TypeOK, NEW r \in Reservations, NEW next \in Dispositions, Settlement(r, next)
  PROVE  /\ disp' \in [Reservations -> Dispositions \cup {"NONE"}]
         /\ open' \in [Reservations -> {"no", "head", "open"}]
  BY DEF TypeOK, Settlement, OpenAfter

LEMMA FencesAfterTyped ==
  ASSUME TypeOK, NEW r \in Reservations, NEW next
  PROVE  FencesAfter(r, next) \subseteq [why : FenceReasons, n : Nat]
  <1>1. r \in Nat BY ValidationBounds DEF Reservations
  <1>2. Fence("ADDITIONAL_LIABILITY", r) \in [why : FenceReasons, n : Nat]
        /\ Fence("LATE_ACCOUNTING", r) \in [why : FenceReasons, n : Nat]
    BY <1>1 DEF Fence, FenceReasons
  <1>3. QED BY <1>2 DEF FencesAfter, Only, TypeOK

LEMMA LaunchBounds ==
  /\ Launches \subseteq Reservations /\ Launches \subseteq Nat
  /\ 0 \in Reservations /\ 0 \notin Launches
  BY ValidationBounds DEF Launches, Reservations

-----------------------------------------------------------------------------
(* The steps keep the types. *)

restVars == <<slot, receipt, gate, facts, launches, val, disp, open, asked, settled, pauses, proc, target>>

TypedFences == [why : FenceReasons, n : Nat]

TargetRows == [result : {"none", "PASS", "FAIL"}, billed : BOOLEAN,
               halted : {"no", "result", "interrupted"}, sealed : BOOLEAN]

(* A step that writes an event and fences. *)
LEMMA EventStepTyped ==
  ASSUME TypeOK, RunColumns', UNCHANGED restVars, fences' \subseteq TypedFences
  PROVE  TypeOK'
  BY DEF TypeOK, RunColumns, restVars, TypedFences

LEMMA CheckStepTyped ==
  ASSUME TypeOK, NEW c \in Checks, CheckStep(c)
  PROVE  TypeOK'
  <1>0. fences \subseteq TypedFences BY DEF TypeOK, TypedFences
  <1>1. CASE \E status \in {"PASS", "FAIL"} : RecordGateFact(c, status)
    <2>1. RunColumns' BY <1>1, NoteTyped, ValidationKinds DEF RecordGateFact
    <2>2. val' \in [Launches -> LaunchRows]
      <3>1. \A v \in Launches : [val[v] EXCEPT !.stale = TRUE] \in LaunchRows BY RowTyped DEF TypeOK
      <3>2. QED BY <1>1, <3>1 DEF RecordGateFact, TypeOK
    <2>3. facts' \in 0..MaxFacts /\ gate' \in [Checks -> {"UNKNOWN", "PASS", "FAIL"}]
      BY <1>1, ValidationBounds DEF RecordGateFact, TypeOK
    <2>4. QED BY <1>1, <2>1, <2>2, <2>3 DEF RecordGateFact, TypeOK, RunColumns, budgetVars, closingVars
  <1>2. CASE EvaluateLaunch(c)
    <2>1. RunColumns' BY <1>2, CursorTyped, ValidationKinds DEF EvaluateLaunch, RunColumns, TypeOK, CheckCursors
    <2>2. QED BY <1>0, <1>2, <2>1, EventStepTyped
             DEF EvaluateLaunch, restVars, gateVars, launchVars, budgetVars, closingVars
  <1>3. CASE BlockLaunch(c)
    <2>1. RunColumns'
      BY <1>3, CursorTyped, ValidationKinds, RecordTyped DEF BlockLaunch, CheckCursors, LifecycleStates
    <2>2. QED BY <1>0, <1>3, <2>1, EventStepTyped
             DEF BlockLaunch, restVars, gateVars, launchVars, budgetVars, closingVars
  <1>4. CASE CommitValidator(c)
    <2>1. launches + 1 \in Launches /\ launches + 1 \in Reservations
      BY <1>4, ValidationBounds DEF CommitValidator, Launches, Reservations, TypeOK
    <2>2. RunColumns'
      BY <1>4, <2>1, CursorTyped, ValidationKinds, RecordTyped
      DEF CommitValidator, LaunchCursors, LifecycleStates, RECON
    <2>3. [Unlaunched EXCEPT !.check = c, !.intent = "ACTIVE"] \in LaunchRows
      BY DEF Unlaunched, LaunchRows
    <2>4. /\ launches' \in 0..MaxLaunches /\ val' \in [Launches -> LaunchRows]
          /\ disp' \in [Reservations -> Dispositions \cup {"NONE"}]
          /\ proc' \in [Launches -> {"idle", "committed", "contacted"}]
      BY <1>4, <2>1, <2>3, ValidationBounds DEF CommitValidator, TypeOK, Dispositions, Launches
    <2>5. QED BY <1>4, <2>2, <2>4 DEF CommitValidator, TypeOK, RunColumns, gateVars, closingVars
  <1>5. CASE ResolveLaunchBlocker(c)
    <2>1. RunColumns'
      BY <1>5, CursorTyped, ValidationKinds, RecordTyped DEF ResolveLaunchBlocker, CheckCursors, LifecycleStates
    <2>2. QED BY <1>0, <1>5, <2>1, EventStepTyped
             DEF ResolveLaunchBlocker, restVars, gateVars, launchVars, budgetVars, closingVars
  <1>6. CASE \E source \in SettlementSources : SettleTerminal(c, source)
    <2>1. PICK source \in SettlementSources : SettleTerminal(c, source) BY <1>6
    <2>2. RunColumns' BY <2>1, NoteTyped, ValidationKinds DEF SettleTerminal
    <2>3. PICK v : v = Max(LaunchesOf(c) \cup {0}) OBVIOUS
    <2>4. v # 0 => v \in Launches BY <2>3, LastLaunch DEF LaunchesOf, Intents
    <2>5. val' = IF v = 0 THEN val ELSE [val EXCEPT ![v].intent = "SETTLED"] BY <2>1, <2>3 DEF SettleTerminal
    <2>6. val' \in [Launches -> LaunchRows]
      <3>1. \A w \in Launches : [val[w] EXCEPT !.intent = "SETTLED"] \in LaunchRows BY RowTyped DEF TypeOK
      <3>2. QED BY <2>4, <2>5, <3>1 DEF TypeOK
    <2>7. settled' \in [Checks -> SettlementSources \cup {"no"}] BY <2>1 DEF SettleTerminal, TypeOK
    <2>8. slot' \in BOOLEAN BY <2>1 DEF SettleTerminal
    <2>9. QED BY <2>1, <2>2, <2>6, <2>7, <2>8 DEF SettleTerminal, TypeOK, RunColumns, gateVars, budgetVars
  <1>7. QED BY <1>1, <1>2, <1>3, <1>4, <1>5, <1>6 DEF CheckStep

(* The route of a proof of nonexecution, and of an applied result, is a    *)
(* state and a cursor.                                                     *)
LEMMA NonexecutionRouteTyped ==
  ASSUME NEW state \in LifecycleStates, NEW cur \in RunCursors, NEW b, NEW u, NEW a, NEW p
  PROVE  LET route == ValidatorNonexecutionRoute(state, cur, b, u, a, p)
         IN route[1] \in LifecycleStates /\ route[2] \in RunCursors
  <1>1. Revalidate \in RunCursors BY CursorTyped
  <1>2. QED BY <1>1 DEF ValidatorNonexecutionRoute, LifecycleStates, RECON

LEMMA ApplicationRouteTyped ==
  ASSUME NEW c, NEW outcome \in {"PASS", "RECOVERABLE", "FINAL"}
  PROVE  LET route == ApplicationRoute(c, outcome)
         IN /\ route[1] \in DOMAIN ValidationRoutes /\ route[2] \in LifecycleStates
            /\ route[3] \in RunCursors
  <1>1. CASE outcome = "PASS"
    <2>1. NextCheck({c}) = None \/ NextCheck({c}) \in Checks BY NextCheckTyped
    <2>2. ApplicationRoute(c, outcome) = PassedRoute(c) BY <1>1 DEF ApplicationRoute
    <2>3. QED BY <2>1, <2>2, CursorTyped, ValidationKinds DEF PassedRoute, LifecycleStates, CheckCursors
  <1>2. CASE outcome = "RECOVERABLE"
    <2>1. ApplicationRoute(c, outcome) = <<"VALIDATION_FAILED", "BLOCKED", Revalidate>>
      BY <1>2 DEF ApplicationRoute
    <2>2. QED BY <2>1, CursorTyped, ValidationKinds DEF LifecycleStates
  <1>3. CASE outcome = "FINAL"
    <2>1. ApplicationRoute(c, outcome) = <<"VALIDATION_FAILED", "FAILED_FINAL", Nowhere>>
      BY <1>3 DEF ApplicationRoute
    <2>2. QED BY <2>1, CursorTyped, ValidationKinds DEF LifecycleStates
  <1>4. QED BY <1>1, <1>2, <1>3

LEMMA LaunchStepTyped ==
  ASSUME TypeOK, NEW v \in Launches, LaunchStep(v)
  PROVE  TypeOK'
  <1> USE DEF gateVars, launchVars, budgetVars, closingVars, NoEvent
  <1>0. fences \subseteq TypedFences /\ val[v] \in LaunchRows /\ v \in Reservations /\ v \in Nat
    BY LaunchBounds DEF TypeOK, TypedFences
  <1>a. \A why \in FenceReasons : Fence(why, v) \in TypedFences BY <1>0 DEF Fence, TypedFences
  <1>b. ASSUME NEW row \in LaunchRows, val' = [val EXCEPT ![v] = row] PROVE val' \in [Launches -> LaunchRows]
    BY <1>b DEF TypeOK
  <1>c. target \in [Launches -> TargetRows] /\ target[v] \in TargetRows BY DEF TypeOK, TargetRows
  <1>1. CASE Contact(v)
    <2>1. RunColumns'
      BY <1>1, CursorTyped, ValidationKinds, RecordTyped DEF Contact, ClaimContact, LifecycleStates
    <2>2. val' \in [Launches -> LaunchRows]
      BY <1>0, <1>1, <1>b, RowTyped DEF Contact, ClaimContact
    <2>3. QED BY <1>1, <2>1, <2>2 DEF Contact, ClaimContact, TypeOK, RunColumns
  <1>2. CASE DisableInitiation(v)
    <2>1. RunColumns'
      BY <1>2, CursorTyped, ValidationKinds, RecordTyped DEF DisableInitiation, LifecycleStates, LaunchCursors
    <2>2. fences' \subseteq TypedFences BY <1>0, <1>2, <1>a DEF DisableInitiation, FenceReasons
    <2>3. QED BY <1>2, <2>1, <2>2 DEF DisableInitiation, TypeOK, RunColumns, TypedFences
  <1>3. CASE \E verdict \in {"PASS", "FAIL"}, billed \in BOOLEAN : Produce(v, verdict, billed)
    <2>1. PICK verdict \in {"PASS", "FAIL"}, billed \in BOOLEAN : Produce(v, verdict, billed) BY <1>3
    <2>2. target' = [target EXCEPT ![v] = [target[v] EXCEPT !.result = verdict, !.billed = billed]]
      BY <2>1 DEF Produce, TypeOK
    <2>3. [target[v] EXCEPT !.result = verdict, !.billed = billed] \in TargetRows
      BY <1>c DEF TargetRows
    <2>4. target' \in [Launches -> TargetRows] BY <1>c, <2>2, <2>3 DEF TypeOK, TargetRows
    <2>5. proc' \in [Launches -> {"idle", "committed", "contacted"}] BY <2>1 DEF Produce, TypeOK
    <2>6. QED BY <2>1, <2>4, <2>5 DEF Produce, TypeOK, TargetRows
  <1>4. CASE SealNonexecution(v) \/ SealCessation(v)
    <2>1. PICK row \in TargetRows : target' = [target EXCEPT ![v] = row]
      <3>1. CASE SealNonexecution(v)
        <4>1. [target[v] EXCEPT !.sealed = TRUE] \in TargetRows BY <1>c DEF TargetRows
        <4>2. QED BY <3>1, <4>1 DEF SealNonexecution
      <3>2. CASE SealCessation(v)
        <4>1. \A x \in {"interrupted", "result"} : [target[v] EXCEPT !.halted = x] \in TargetRows
          BY <1>c DEF TargetRows
        <4>2. QED BY <3>2, <4>1 DEF SealCessation
      <3>3. QED BY <1>4, <3>1, <3>2
    <2>2. target' \in [Launches -> TargetRows] BY <1>c, <2>1
    <2>3. QED BY <1>4, <2>2 DEF SealNonexecution, SealCessation, TypeOK, TargetRows
  <1>5. CASE \E next \in Dispositions, citing \in BOOLEAN : SettleValidator(v, next, citing)
    <2>1. PICK next \in Dispositions, citing \in BOOLEAN : SettleValidator(v, next, citing) BY <1>5
    <2>2. val' \in [Launches -> LaunchRows] BY <1>b, <2>1, CitesTyped DEF SettleValidator
    <2>3. /\ disp' \in [Reservations -> Dispositions \cup {"NONE"}]
          /\ open' \in [Reservations -> {"no", "head", "open"}]
      BY <1>0, <2>1, SettlementTyped DEF SettleValidator
    <2>4. fences' \subseteq TypedFences BY <1>0, <2>1, FencesAfterTyped DEF SettleValidator, TypedFences
    <2>5. asked' \in 0..MaxSettlements BY <2>1, ValidationBounds DEF SettleValidator, Ask, TypeOK
    <2>6. QED BY <2>1, <2>2, <2>3, <2>4, <2>5 DEF SettleValidator, Unmoved, TypeOK, TypedFences
  <1>6. CASE \E next \in Dispositions, all \in BOOLEAN : ProveNonexecution(v, next, all)
    <2>1. PICK next \in Dispositions, all \in BOOLEAN : ProveNonexecution(v, next, all) BY <1>6
    <2>2. RunColumns'
      <3>1. PICK route, b, u, a, p : /\ route = ValidatorNonexecutionRoute(life, cursor, b, u, a, p)
                                     /\ Record("NONDISPATCH_PROVEN", route[1], route[2])
        BY <2>1 DEF ProveNonexecution
      <3>2. route[1] \in LifecycleStates /\ route[2] \in RunCursors
        BY <3>1, NonexecutionRouteTyped DEF TypeOK
      <3>3. QED BY <3>1, <3>2, RecordTyped, ValidationKinds
    <2>3. val' \in [Launches -> LaunchRows]
      <3>1. PICK base \in LaunchRows : base = Cites(v, FALSE) BY CitesTyped
      <3>2. PICK x, y : /\ val' = [val EXCEPT ![v] = [base EXCEPT !.proof = x, !.intent = y]]
                        /\ x \in {"open", "unsure", "certain", "reopened"}
                        /\ y \in {"none", "ACTIVE", "SETTLED"}
        <4>1. base.intent \in {"none", "ACTIVE", "SETTLED"} BY <3>1 DEF LaunchRows
        <4>2. \A p, c, d : ProofAfter(p, c, d) \in {"open", "unsure", "certain", "reopened"} BY DEF ProofAfter
        <4>a. PICK closes \in BOOLEAN : \E p :
                /\ val' = [val EXCEPT ![v] = [base EXCEPT !.proof = p, !.intent = IF closes THEN "SETTLED" ELSE @]]
                /\ p \in {"open", "unsure", "certain", "reopened"}
          BY <2>1, <3>1, <4>2 DEF ProveNonexecution
        <4>3. PICK p :
                /\ val' = [val EXCEPT ![v] = [base EXCEPT !.proof = p, !.intent = IF closes THEN "SETTLED" ELSE @]]
                /\ p \in {"open", "unsure", "certain", "reopened"}
          BY <4>a
        <4>4. CASE closes BY <4>3, <4>4
        <4>5. CASE ~closes BY <4>1, <4>3, <4>5
        <4>6. QED BY <4>4, <4>5
      <3>3. QED BY <1>b, <3>2, RowTyped
    <2>4. /\ disp' \in [Reservations -> Dispositions \cup {"NONE"}]
          /\ open' \in [Reservations -> {"no", "head", "open"}]
      BY <1>0, <2>1, SettlementTyped DEF ProveNonexecution
    <2>5. fences' \subseteq TypedFences
      <3>1. FencesAfter(v, next) \subseteq TypedFences BY <1>0, FencesAfterTyped DEF TypedFences
      <3>2. QED BY <1>a, <2>1, <3>1 DEF ProveNonexecution, Only, FenceReasons
    <2>6. asked' \in 0..MaxSettlements BY <2>1, ValidationBounds DEF ProveNonexecution, Ask, TypeOK
    <2>7. QED BY <2>1, <2>2, <2>3, <2>4, <2>5, <2>6 DEF ProveNonexecution, TypeOK, RunColumns, TypedFences
  <1>7. CASE RecordCessation(v)
    <2>1. RunColumns' BY <1>7, NoteTyped, ValidationKinds DEF RecordCessation
    <2>2. val' \in [Launches -> LaunchRows]
      BY <1>0, <1>7, <1>b, RowTyped DEF RecordCessation
    <2>3. QED BY <1>7, <2>1, <2>2 DEF RecordCessation, TypeOK, RunColumns
  <1>8. CASE \E current \in BOOLEAN : RecordObservation(v, current)
    <2>a. PICK current \in BOOLEAN : RecordObservation(v, current) BY <1>8
    <2>1. RunColumns'
      BY <2>a, RecordTyped, ValidationKinds, AuthorizedValidationRows DEF RecordObservation, TypeOK
    <2>2. PICK x \in {"known", "unknown"} : x = UsageStated(v) BY DEF UsageStated
    <2>3. val' \in [Launches -> LaunchRows]
      <3>1. val' = [val EXCEPT ![v] = [val[v] EXCEPT !.seen = x, !.cited = {}, !.fresh = current]]
        BY <2>a, <2>2 DEF RecordObservation, ObservationRow, TypeOK
      <3>2. QED BY <1>0, <1>b, <3>1, RowTyped
    <2>4. fences' \subseteq TypedFences
      BY <1>0, <2>a, <1>a DEF RecordObservation, ResultFences, Only, FenceReasons
    <2>5. QED BY <2>a, <2>1, <2>3, <2>4 DEF RecordObservation, ObservationRow, TypeOK, RunColumns, TypedFences
  <1>9. CASE DenyApplication(v)
    <2>1. RunColumns' BY <1>9, NoteTyped, ValidationKinds DEF DenyApplication
    <2>2. QED BY <1>0, <1>9, <2>1, EventStepTyped DEF DenyApplication, restVars
  <1>10. CASE \E outcome \in {"PASS", "RECOVERABLE", "FINAL"} : ApplyObservation(v, outcome)
    <2>1. PICK outcome \in {"PASS", "RECOVERABLE", "FINAL"} : ApplyObservation(v, outcome) BY <1>10
    <2>2. RunColumns'
      <3>1. PICK route : /\ route = ApplicationRoute(val[v].check, outcome)
                         /\ Record(route[1], route[2], route[3])
        BY <2>1 DEF ApplyObservation
      <3>2. QED BY <3>1, ApplicationRouteTyped, RecordTyped
    <2>3. val' \in [Launches -> LaunchRows]
      <3>1. val' = [val EXCEPT ![v] = [val[v] EXCEPT !.applied = outcome, !.intent = "SETTLED"]]
        BY <2>1 DEF ApplyObservation, TypeOK
      <3>2. QED BY <1>0, <1>b, <3>1, RowTyped
    <2>4. fences' \subseteq TypedFences
      BY <1>0, <2>1 DEF ApplyObservation, Only, FenceReasons, Fence, TypedFences
    <2>5. slot' \in BOOLEAN BY <2>1 DEF ApplyObservation
    <2>6. QED BY <2>1, <2>2, <2>3, <2>4, <2>5 DEF ApplyObservation, TypeOK, RunColumns, TypedFences
  <1>11. CASE ResolveBlocker(v)
    <2>1. RunColumns'
      BY <1>11, CursorTyped, ValidationKinds, RecordTyped DEF ResolveBlocker, LifecycleStates, LaunchCursors
    <2>2. val' \in [Launches -> LaunchRows]
      BY <1>0, <1>11, <1>b, RowTyped DEF ResolveBlocker
    <2>3. QED BY <1>11, <2>1, <2>2 DEF ResolveBlocker, TypeOK, RunColumns
  <1>12. CASE ReconcileResult(v)
    <2>1. RunColumns'
      <3>1. PICK state, cur : /\ Record("RECONCILIATION_RECORDED", state, cur) /\ Authorized("T17", life, state)
                              /\ cur \in {At("validation-application", v), cursor}
        BY <1>12 DEF ReconcileResult
      <3>2. QED BY <3>1, CursorTyped, ValidationKinds, RecordTyped, AuthorizedValidationRows
               DEF LaunchCursors, TypeOK
    <2>2. val' \in [Launches -> LaunchRows]
      BY <1>0, <1>12, <1>b, RowTyped DEF ReconcileResult
    <2>3. fences' \subseteq TypedFences BY <1>0, <1>12 DEF ReconcileResult
    <2>4. QED BY <1>12, <2>1, <2>2, <2>3 DEF ReconcileResult, TypeOK, RunColumns, TypedFences
  <1>13. QED
    BY <1>1, <1>2, <1>3, <1>4, <1>5, <1>6, <1>7, <1>8, <1>9, <1>10, <1>11, <1>12 DEF LaunchStep

(* The row of a pause. *)
LEMMA PauseRowTyped ==
  ASSUME TypeOK, NEW mode \in {"validation", "active"}, NEW to \in {"PAUSED", "PAUSING", RECON}
  PROVE  PauseRow(mode, to) \in PauseRows
  <1>1. Max(Active \cup {0}) \in 0..MaxLaunches BY LastLaunch DEF Active, Reservations
  <1>2. Checkpoint \in Checkpoints BY DEF Checkpoint, Checkpoints
  <1>3. cursor \in RunCursors BY DEF TypeOK
  <1>4. QED BY <1>1, <1>2, <1>3 DEF PauseRow, PauseRows

(* A requested pause. *)
LEMMA PauseTyped ==
  ASSUME TypeOK, NEW row \in PauseRows, NEW why \in FenceReasons, NEW k \in DOMAIN ValidationRoutes,
         Pause(row, why, k)
  PROVE  /\ RunColumns' /\ fences' \subseteq TypedFences
         /\ pauses' \in Seq(PauseRows) /\ Len(pauses') <= MaxPauses
  <1>1. row.to \in LifecycleStates BY DEF PauseRows, LifecycleStates, RECON
  <1>2. RunColumns' BY <1>1, RecordTyped DEF Pause, TypeOK
  <1>3. Len(pauses) + 1 \in Nat BY DEF TypeOK
  <1>4. fences' \subseteq TypedFences BY <1>3 DEF Pause, TypeOK, TypedFences, Fence
  <1>5. pauses' \in Seq(PauseRows) /\ Len(pauses') = Len(pauses) + 1 BY DEF Pause, TypeOK
  <1>6. QED BY <1>2, <1>4, <1>5, ValidationBounds DEF Pause, TypeOK

LEMMA PauseStepTyped ==
  ASSUME TypeOK, NEW n \in 1..MaxPauses, PauseStep(n)
  PROVE  TypeOK'
  <1> USE DEF gateVars, launchVars, budgetVars, closingVars
  <1>0. fences \subseteq TypedFences BY DEF TypeOK, TypedFences
  <1>a. \A i \in DOMAIN pauses : pauses[i] \in PauseRows BY DEF TypeOK
  <1>b. \A v \in Launches : /\ [val[v] EXCEPT !.intent = "SETTLED"] \in LaunchRows
                            /\ [val[v] EXCEPT !.resolved = TRUE] \in LaunchRows
    BY RowTyped DEF TypeOK
  <1>c. \A i \in DOMAIN pauses : pauses[i].launch # 0 => pauses[i].launch \in Launches
    BY <1>a, ValidationBounds DEF PauseRows, Launches
  <1>1. CASE \E how \in {"NONLAUNCH", "RESULT_CESSATION", "INTERRUPTION_CESSATION"} : SettlePause(n, how)
    <2>1. PICK how \in {"NONLAUNCH", "RESULT_CESSATION", "INTERRUPTION_CESSATION"} : SettlePause(n, how)
      BY <1>1
    <2>2. PICK v \in Launches : v = pauses[n].launch /\ n \in DOMAIN pauses
      BY <1>c, <2>1 DEF SettlePause, PauseSettleable
    <2>3. SettledCursor(v, how) \in RunCursors
      BY CursorTyped DEF SettledCursor, LaunchCursors
    <2>4. RunColumns'
      BY <2>1, <2>2, <2>3, RecordTyped, ValidationKinds DEF SettlePause, LifecycleStates
    <2>5. val' \in [Launches -> LaunchRows] BY <1>b, <2>1, <2>2 DEF SettlePause, TypeOK
    <2>6. [pauses[n] EXCEPT !.settled = how] \in PauseRows BY <1>a, <2>2 DEF PauseRows
    <2>7. pauses' = [pauses EXCEPT ![n] = [pauses[n] EXCEPT !.settled = how]] BY <2>1, <2>2 DEF SettlePause, TypeOK
    <2>8. pauses' \in Seq(PauseRows) /\ Len(pauses') = Len(pauses)
      BY <2>2, <2>6, <2>7 DEF TypeOK
    <2>9. QED BY <2>1, <2>4, <2>5, <2>8 DEF SettlePause, TypeOK, RunColumns
  <1>2. CASE ResumeSettled(n)
    <2>1. RunColumns'
      BY <1>2, RecordTyped, ValidationKinds DEF ResumeSettled, SettledResumeState, LifecycleStates, TypeOK
    <2>2. QED BY <1>0, <1>2, <2>1, EventStepTyped DEF ResumeSettled, restVars
  <1>3. CASE ResumeValidation(n)
    <2>1. pauses[n].kept \in RunCursors BY <1>3, <1>a DEF ResumeValidation, ValidationResumable, PauseRows
    <2>2. PICK state \in LifecycleStates : Record("RESUME_ACCEPTED", state, pauses[n].kept)
      BY <1>3 DEF ResumeValidation, ValidationResumeRoute, LifecycleStates
    <2>3. RunColumns' BY <2>1, <2>2, RecordTyped, ValidationKinds
    <2>4. QED BY <1>0, <1>3, <2>3, EventStepTyped DEF ResumeValidation, restVars
  <1>4. CASE RecoverSettledPause(n)
    <2>1. PICK v : v = pauses[n].launch OBVIOUS
    <2>2. v \in Launches
      <3>1. n \in DOMAIN pauses /\ val[v].intent = "SETTLED" /\ ~val[v].resolved
            /\ pauses[n].settled \in {"NONLAUNCH", "INTERRUPTION_CESSATION"}
            /\ cursor = SettledCursor(v, pauses[n].settled)
        BY <1>4, <2>1 DEF RecoverSettledPause, PauseRecoverable, RestsOnPause
      <3>2. cursor.of = v /\ cursor.kind \in LaunchCursors
        BY <3>1 DEF SettledCursor, At, LaunchCursors
      <3>3. QED BY <3>2, ValidationBounds DEF TypeOK, RunCursors, LaunchCursors, CheckCursors, Nowhere, Revalidate, Finalizing, At
    <2>3. RunColumns'
      BY <1>4, <2>1, <2>2, CursorTyped, RecordTyped, ValidationKinds
      DEF RecoverSettledPause, LifecycleStates, LaunchCursors
    <2>4. val' \in [Launches -> LaunchRows] BY <1>4, <1>b, <2>1, <2>2 DEF RecoverSettledPause, TypeOK
    <2>5. QED BY <1>4, <2>3, <2>4 DEF RecoverSettledPause, TypeOK, RunColumns
  <1>5. CASE ResumeReconciliationPause(n)
    <2>1. PICK state \in LifecycleStates : Record("RECONCILIATION_PAUSE_RESUMED", state, cursor)
      BY <1>5 DEF ResumeReconciliationPause, LifecycleStates
    <2>2. RunColumns' BY <2>1, RecordTyped, ValidationKinds DEF TypeOK
    <2>3. QED BY <1>0, <1>5, <2>2, EventStepTyped DEF ResumeReconciliationPause, restVars
  <1>6. QED BY <1>1, <1>2, <1>3, <1>4, <1>5 DEF PauseStep

LEMMA RunStepTyped ==
  ASSUME TypeOK, RunStep
  PROVE  TypeOK'
  <1> USE DEF gateVars, launchVars, budgetVars, closingVars
  <1>0. fences \subseteq TypedFences BY DEF TypeOK, TypedFences
  <1>1. CASE Finalize
    <2>1. RunColumns' BY <1>1, RecordTyped, CursorTyped, ValidationKinds DEF Finalize, LifecycleStates
    <2>2. QED BY <1>1, <2>1 DEF Finalize, TypeOK, RunColumns
  <1>2. CASE PauseValidation
    <2>1. PICK row : row = PauseRow("validation", PausedState) OBVIOUS
    <2>2. row \in PauseRows BY <2>1, PauseRowTyped DEF PausedState
    <2>3. Pause(row, "PAUSE", "VALIDATION_PAUSE_CHECKPOINTED") BY <1>2, <2>1 DEF PauseValidation
    <2>4. /\ RunColumns' /\ fences' \subseteq TypedFences
          /\ pauses' \in Seq(PauseRows) /\ Len(pauses') <= MaxPauses
      BY <2>2, <2>3, PauseTyped, ValidationKinds DEF FenceReasons
    <2>5. /\ disp' \in [Reservations -> Dispositions \cup {"NONE"}]
          /\ open' \in [Reservations -> {"no", "head", "open"}]
          /\ val' \in [Launches -> LaunchRows]
      <3>1. CASE row.at = "CONTACTED_UNRESOLVED" /\ disp[row.launch] = "RESERVED"
        <4>1. Active # {} BY <2>1, <3>1 DEF PauseRow, Checkpoint
        <4>2. row.launch \in Launches /\ row.launch \in Reservations
          BY <2>1, <4>1, LastLaunch DEF PauseRow, Active
        <4>3. /\ Settlement(row.launch, "UNKNOWN")
              /\ val' = [val EXCEPT ![row.launch] = Cites(row.launch, FALSE)]
          BY <1>2, <2>1, <3>1 DEF PauseValidation, ChargePaused
        <4>4. QED BY <4>2, <4>3, SettlementTyped, CitesTyped DEF TypeOK, Dispositions
      <3>2. CASE ~(row.at = "CONTACTED_UNRESOLVED" /\ disp[row.launch] = "RESERVED")
        BY <1>2, <2>1, <3>2 DEF PauseValidation, ChargePaused, TypeOK
      <3>3. QED BY <3>1, <3>2
    <2>6. QED BY <1>2, <2>3, <2>4, <2>5 DEF PauseValidation, Pause, TypeOK, RunColumns, TypedFences
  <1>3. CASE PauseActive
    <2>1. PICK row \in PauseRows : Pause(row, "PAUSE", "VALIDATION_PAUSE_CHECKPOINTED")
      BY <1>3, PauseRowTyped DEF PauseActive
    <2>2. /\ RunColumns' /\ fences' \subseteq TypedFences
          /\ pauses' \in Seq(PauseRows) /\ Len(pauses') <= MaxPauses
      BY <2>1, PauseTyped, ValidationKinds DEF FenceReasons
    <2>3. QED BY <1>3, <2>1, <2>2 DEF PauseActive, Pause, TypeOK, RunColumns, TypedFences
  <1>4. CASE PauseReconciliation
    <2>1. ReconciliationPauseRow(cursor) \in PauseRows
      BY ValidationBounds DEF ReconciliationPauseRow, PauseRows, Checkpoints, TypeOK
    <2>2. PICK row \in PauseRows : Pause(row, "RECONCILIATION_PAUSE", "PAUSE_FENCE_RECORDED")
      BY <1>4, <2>1 DEF PauseReconciliation
    <2>3. /\ RunColumns' /\ fences' \subseteq TypedFences
          /\ pauses' \in Seq(PauseRows) /\ Len(pauses') <= MaxPauses
      BY <2>2, PauseTyped, ValidationKinds DEF FenceReasons
    <2>4. QED BY <1>4, <2>2, <2>3 DEF PauseReconciliation, Pause, TypeOK, RunColumns, TypedFences
  <1>5. CASE \E mode \in {"GRACEFUL", "IMMEDIATE"} : Stop(mode)
    <2>1. PICK mode \in {"GRACEFUL", "IMMEDIATE"} : Stop(mode) BY <1>5
    <2>2. RunColumns' BY <2>1, RecordTyped, ValidationKinds DEF Stop, LifecycleStates, TypeOK
    <2>3. \A v \in Launches : Cites(v, FALSE) \in LaunchRows /\ val[v] \in LaunchRows
      BY CitesTyped DEF TypeOK
    <2>4. val' \in [Launches -> LaunchRows] BY <2>1, <2>3 DEF Stop
    <2>5. disp' \in [Reservations -> Dispositions \cup {"NONE"}] BY <2>1 DEF Stop, TypeOK, Dispositions
    <2>6. fences' \subseteq TypedFences BY <1>0, <2>1 DEF Stop, TypedFences, Fence, FenceReasons
    <2>7. QED BY <2>1, <2>2, <2>4, <2>5, <2>6 DEF Stop, TypeOK, RunColumns, TypedFences
  <1>6. CASE \E known \in BOOLEAN : IntakeLateReceipt(known)
    <2>1. PICK known \in BOOLEAN, next \in {"ADJUSTED", "UNKNOWN"} :
            /\ IntakeLateReceipt(known) /\ Settlement(0, next)
            /\ fences' = FencesAfter(0, next) \cup Only(~known, Fence("BILLING", 0))
      BY <1>6 DEF IntakeLateReceipt
    <2>2. RunColumns' BY <2>1, NoteTyped, ValidationKinds DEF IntakeLateReceipt
    <2>3. /\ disp' \in [Reservations -> Dispositions \cup {"NONE"}]
          /\ open' \in [Reservations -> {"no", "head", "open"}]
      BY <2>1, SettlementTyped, LaunchBounds DEF Dispositions
    <2>4. fences' \subseteq TypedFences
      BY <2>1, FencesAfterTyped, LaunchBounds DEF TypedFences, Fence, FenceReasons, Only
    <2>5. slot' \in BOOLEAN /\ receipt' \in BOOLEAN BY <2>1 DEF IntakeLateReceipt
    <2>6. QED BY <2>1, <2>2, <2>3, <2>4, <2>5 DEF IntakeLateReceipt, TypeOK, RunColumns, TypedFences
  <1>7. CASE \E next \in Dispositions : SettleOperation(next)
    <2>1. PICK next \in Dispositions : SettleOperation(next) BY <1>7
    <2>2. /\ disp' \in [Reservations -> Dispositions \cup {"NONE"}]
          /\ open' \in [Reservations -> {"no", "head", "open"}]
      BY <2>1, SettlementTyped, LaunchBounds DEF SettleOperation
    <2>3. fences' \subseteq TypedFences
      BY <2>1, FencesAfterTyped, LaunchBounds DEF SettleOperation, TypedFences
    <2>4. asked' \in 0..MaxSettlements BY <2>1, ValidationBounds DEF SettleOperation, Ask, TypeOK
    <2>5. QED BY <2>1, <2>2, <2>3, <2>4 DEF SettleOperation, Unmoved, TypeOK, TypedFences
  <1>8. CASE \E scope \in OtherScopes : FenceOther(scope)
    <2>1. facts' \in 0..MaxFacts BY <1>8, ValidationBounds DEF FenceOther, TypeOK
    <2>2. fences' \subseteq TypedFences BY <1>0, <1>8 DEF FenceOther, TypedFences, Fence, FenceReasons
    <2>3. QED BY <1>8, <2>1, <2>2 DEF FenceOther, NoEvent, TypeOK, TypedFences
  <1>9. QED BY <1>1, <1>2, <1>3, <1>4, <1>5, <1>6, <1>7, <1>8 DEF RunStep

(* TypeOK: every table of the validation side stays typed: the cursors     *)
(* name checks and launches that exist, the routes a result, a proof or a  *)
(* pause computes are states, and no counter passes its bound.             *)
THEOREM TypesHold == Spec => []TypeOK
  <1>1. Init => TypeOK
    <2> SUFFICES ASSUME Init PROVE TypeOK OBVIOUS
    <2>1. Unlaunched \in LaunchRows BY DEF Unlaunched, LaunchRows
    <2>2. cursor \in RunCursors BY CursorTyped DEF Init
    <2>3. kind \in DOMAIN ValidationRoutes \cup {"RECEIPT_RECORDED", "BUDGET_SETTLED"}
      BY ValidationKinds DEF Init
    <2>4. fences \subseteq TypedFences BY DEF Init, Fence, FenceReasons, TypedFences
    <2>5. target \in [Launches -> TargetRows] BY DEF Init, Untouched, TargetRows
    <2>6. life \in LifecycleStates /\ slot \in BOOLEAN /\ receipt \in BOOLEAN BY DEF Init, LifecycleStates
    <2>7. disp \in [Reservations -> Dispositions \cup {"NONE"}] BY DEF Init, Dispositions
    <2>8. pauses \in Seq(PauseRows) /\ Len(pauses) <= MaxPauses BY ValidationBounds DEF Init
    <2>9. QED
      BY <2>1, <2>2, <2>3, <2>4, <2>5, <2>6, <2>7, <2>8, ChecksAssumption, ValidationBounds
      DEF Init, TypeOK, TypedFences, TargetRows
  <1>2. TypeOK /\ [Next]_vars => TypeOK'
    <2> SUFFICES ASSUME TypeOK, [Next]_vars PROVE TypeOK' OBVIOUS
    <2>1. CASE Next
      BY <2>1, RunStepTyped, CheckStepTyped, LaunchStepTyped, PauseStepTyped DEF Next
    <2>2. CASE UNCHANGED vars
      BY <2>2 DEF vars, runVars, gateVars, launchVars, budgetVars, closingVars, TypeOK
    <2>3. QED BY <2>1, <2>2
  <1>3. QED BY <1>1, <1>2, PTL DEF Spec

-----------------------------------------------------------------------------
(* What the steps do to the launches. *)

LaunchHolds(v) == LaunchIsOrdered(v) /\ TargetFollowsContact(v) /\ RecordsAreTrue(v) /\ RunningIsActive(v)

(* Nothing that LaunchInvariant reads of launch v changes, but that its    *)
(* reservation may be settled.                                             *)
SameLaunch(v) ==
  /\ val'[v].intent = val[v].intent /\ val'[v].contact = val[v].contact
  /\ val'[v].seen = val[v].seen /\ val'[v].ceased = val[v].ceased
  /\ val'[v].applied = val[v].applied /\ val'[v].proof = val[v].proof
  /\ val'[v].check = val[v].check
  /\ proc'[v] = proc[v] /\ target'[v] = target[v]
  /\ disp'[v] = disp[v] \/ disp'[v] \notin {"NONE", "RESERVED"}

(* The fence of a result without cessation stands. *)
KeepsActivity(v) == Fence("ACTIVITY", v) \in fences => Fence("ACTIVITY", v) \in fences'

LEMMA SameLaunchHolds ==
  ASSUME NEW v \in Launches, LaunchHolds(v), SameLaunch(v), launches' = launches,
         KeepsActivity(v) \/ val[v].ceased # "no"
  PROVE  LaunchHolds(v)'
  <1>1. LaunchIsOrdered(v)' BY DEF LaunchHolds, LaunchIsOrdered, SameLaunch
  <1>2. TargetFollowsContact(v)' BY DEF LaunchHolds, TargetFollowsContact, SameLaunch
  <1>3. RecordsAreTrue(v)' BY DEF LaunchHolds, RecordsAreTrue, SameLaunch, KeepsActivity
  <1>4. RunningIsActive(v)' BY DEF LaunchHolds, RunningIsActive, SameLaunch
  <1>5. QED BY <1>1, <1>2, <1>3, <1>4 DEF LaunchHolds

(* A step on one launch. *)
LEMMA OneLaunchStep ==
  ASSUME LaunchInvariant, NEW v \in Launches, LaunchHolds(v)', launches' = launches,
         \A w \in Launches \ {v} : SameLaunch(w) /\ KeepsActivity(w)
  PROVE  LaunchInvariant'
  <1>1. ASSUME NEW w \in Launches PROVE LaunchHolds(w)'
    <2>1. LaunchHolds(w) BY DEF LaunchInvariant, LaunchHolds
    <2>2. CASE w = v BY <2>2
    <2>3. CASE w # v BY <2>1, <2>3, SameLaunchHolds
    <2>4. QED BY <2>2, <2>3
  <1>2. QED BY <1>1 DEF LaunchInvariant, LaunchHolds

(* A step on none. *)
LEMMA NoLaunchStep ==
  ASSUME LaunchInvariant, launches' = launches,
         \A w \in Launches : SameLaunch(w) /\ (KeepsActivity(w) \/ val[w].ceased # "no")
  PROVE  LaunchInvariant'
  <1>1. ASSUME NEW w \in Launches PROVE LaunchHolds(w)'
    BY SameLaunchHolds DEF LaunchInvariant, LaunchHolds
  <1>2. QED BY <1>1 DEF LaunchInvariant, LaunchHolds

(* A citation changes nothing the invariant reads. *)
LEMMA CitesSame ==
  ASSUME TypeOK, NEW v \in Launches, NEW citing
  PROVE  LET row == Cites(v, citing)
         IN /\ row.intent = val[v].intent /\ row.contact = val[v].contact /\ row.seen = val[v].seen
            /\ row.ceased = val[v].ceased /\ row.applied = val[v].applied /\ row.proof = val[v].proof
            /\ row.check = val[v].check /\ row.resolved = val[v].resolved
  <1>1. val[v] \in LaunchRows BY DEF TypeOK
  <1>2. CASE val[v].seen = "no" BY <1>1, <1>2 DEF Cites, LaunchRows
  <1>3. CASE val[v].seen # "no" BY <1>1, <1>3 DEF Cites, LaunchRows
  <1>4. QED BY <1>2, <1>3

LEMMA UncitedSame ==
  ASSUME TypeOK, NEW v \in Launches, NEW row, row = Cites(v, FALSE)
  PROVE  /\ row.intent = val[v].intent /\ row.contact = val[v].contact /\ row.seen = val[v].seen
         /\ row.ceased = val[v].ceased /\ row.applied = val[v].applied /\ row.proof = val[v].proof
         /\ row.check = val[v].check /\ row.resolved = val[v].resolved
  BY CitesSame

(* The fences a settlement deletes are not those of results. *)
LEMMA SettlementKeepsActivity ==
  ASSUME NEW r, NEW next, NEW v, Fence("ACTIVITY", v) \in fences
  PROVE  Fence("ACTIVITY", v) \in FencesAfter(r, next)
  <1>1. Fence("ACTIVITY", v) # Fence("ADDITIONAL_LIABILITY", r) BY DEF Fence
  <1>2. QED BY <1>1 DEF FencesAfter

(* A settlement never makes a reservation unsettled. *)
LEMMA SettlementsSettle ==
  ASSUME NEW d \in Dispositions, NEW next \in SettlementTransitions[d]
  PROVE  next \notin {"NONE", "RESERVED"}
  BY DEF Dispositions, SettlementTransitions

LEMMA UntouchedLaunches ==
  ASSUME LaunchInvariant, UNCHANGED <<launches, val, disp, proc, target>>,
         \A w \in Launches : KeepsActivity(w)
  PROVE  LaunchInvariant'
  <1>1. \A w \in Launches : SameLaunch(w) BY DEF SameLaunch
  <1>2. QED BY <1>1, NoLaunchStep

(* Does the source of a terminal settlement, a proof or a pause leave the  *)
(* launch nothing to run?                                                  *)
LEMMA ShownIsTouched ==
  ASSUME LaunchInvariant, NEW v \in Launches,
         \/ val[v].seen # "no" \/ val[v].ceased # "no" \/ val[v].applied # "no"
         \/ val[v].proof \in {"certain", "reopened"}
         \/ target[v].halted # "no" \/ target[v].sealed
  PROVE  ~(proc[v] = "contacted" /\ target[v] = Untouched)
  BY DEF LaunchInvariant, RecordsAreTrue, TargetFollowsContact, Untouched

(* Neither does what a terminal settlement cites. *)
LEMMA SourceIsTouched ==
  ASSUME LaunchInvariant, NEW v \in Launches, NEW source \in SettlementSources, SourceShows(v, source)
  PROVE  ~(proc[v] = "contacted" /\ target[v] = Untouched)
  <1>1. source # "PLAN" BY LaunchBounds DEF SourceShows
  <1>2. CASE source = "VALIDATION_APPLICATION"
    <2>1. val[v].applied # "no" BY <1>2 DEF SourceShows
    <2>2. QED BY <2>1, ShownIsTouched
  <1>3. CASE source = "VALIDATOR_OBSERVATION"
    <2>1. val[v].seen # "no" BY <1>3 DEF SourceShows
    <2>2. QED BY <2>1, ShownIsTouched
  <1>4. CASE source = "VALIDATOR_CESSATION"
    <2>1. val[v].ceased # "no" BY <1>4 DEF SourceShows
    <2>2. QED BY <2>1, ShownIsTouched
  <1>5. CASE source = "VALIDATOR_NONEXECUTION"
    <2>1. val[v].proof \in {"certain", "reopened"} BY <1>5 DEF SourceShows, NonexecutionShown
    <2>2. QED BY <2>1, ShownIsTouched
  <1>6. QED BY <1>1, <1>2, <1>3, <1>4, <1>5 DEF SettlementSources

(* Settling an intent that has nothing left to run. *)
LEMMA IntentSettled ==
  ASSUME TypeOK, LaunchInvariant, NEW v \in Launches, val[v].intent # "none",
         val' = [val EXCEPT ![v].intent = "SETTLED"],
         UNCHANGED <<launches, disp, proc, target, fences>>,
         ~(proc[v] = "contacted" /\ target[v] = Untouched)
  PROVE  LaunchInvariant'
  <1>1. val[v] \in LaunchRows /\ LaunchHolds(v) BY DEF TypeOK, LaunchInvariant, LaunchHolds
  <1>2. PICK row : row = [val[v] EXCEPT !.intent = "SETTLED"] OBVIOUS
  <1>3. val'[v] = row /\ \A w \in Launches \ {v} : val'[w] = val[w] BY <1>2 DEF TypeOK
  <1>4. /\ row.intent = "SETTLED" /\ row.contact = val[v].contact /\ row.seen = val[v].seen
        /\ row.ceased = val[v].ceased /\ row.applied = val[v].applied /\ row.proof = val[v].proof
    BY <1>1, <1>2 DEF LaunchRows
  <1>5. LaunchIsOrdered(v)' BY <1>1, <1>3, <1>4 DEF LaunchHolds, LaunchIsOrdered
  <1>6. TargetFollowsContact(v)' BY <1>1, <1>3, <1>4 DEF LaunchHolds, TargetFollowsContact
  <1>7. RecordsAreTrue(v)' BY <1>1, <1>3, <1>4 DEF LaunchHolds, RecordsAreTrue
  <1>8. RunningIsActive(v)' BY DEF RunningIsActive
  <1>9. LaunchHolds(v)' BY <1>5, <1>6, <1>7, <1>8 DEF LaunchHolds
  <1>10. \A w \in Launches \ {v} : SameLaunch(w) /\ KeepsActivity(w) BY <1>3 DEF SameLaunch, KeepsActivity
  <1>11. QED BY <1>9, <1>10, OneLaunchStep

LEMMA CheckStepLaunches ==
  ASSUME TypeOK, LaunchInvariant, NEW c \in Checks, CheckStep(c)
  PROVE  LaunchInvariant'
  <1> USE DEF gateVars, launchVars, budgetVars, closingVars
  <1>0. \A v \in Launches : val[v] \in LaunchRows BY DEF TypeOK
  <1>1. CASE \E status \in {"PASS", "FAIL"} : RecordGateFact(c, status)
    <2>1. ASSUME NEW v \in Launches PROVE SameLaunch(v)
      <3>1. val'[v] = val[v] \/ val'[v] = [val[v] EXCEPT !.stale = TRUE] BY <1>1 DEF RecordGateFact
      <3>2. QED BY <1>0, <1>1, <3>1 DEF RecordGateFact, SameLaunch, LaunchRows
    <2>2. launches' = launches /\ fences' = fences BY <1>1 DEF RecordGateFact
    <2>3. QED BY <2>1, <2>2, NoLaunchStep DEF KeepsActivity
  <1>2. CASE EvaluateLaunch(c) \/ BlockLaunch(c) \/ ResolveLaunchBlocker(c)
    BY <1>2, UntouchedLaunches DEF EvaluateLaunch, BlockLaunch, ResolveLaunchBlocker, KeepsActivity
  <1>3. CASE CommitValidator(c)
    <2>1. PICK v \in Launches : v = launches + 1
      BY <1>3, ValidationBounds DEF CommitValidator, Launches, TypeOK
    <2>2. /\ launches' = v /\ fences' = fences /\ target' = target
          /\ val'[v] = [Unlaunched EXCEPT !.check = c, !.intent = "ACTIVE"]
          /\ proc'[v] = "committed" /\ disp'[v] = "RESERVED"
          /\ \A w \in Launches \ {v} : val'[w] = val[w] /\ proc'[w] = proc[w] /\ disp'[w] = disp[w]
      BY <1>3, <2>1, LaunchBounds DEF CommitValidator, TypeOK
    <2>3. launches \in Nat BY DEF TypeOK
    <2>4. ASSUME NEW w \in Launches PROVE LaunchHolds(w)'
      <3>0. LaunchHolds(w) /\ w \in Nat BY LaunchBounds DEF LaunchInvariant, LaunchHolds
      <3>1. CASE w = v
        <4>1. target[v] = Untouched BY <2>1, <2>3, <3>0, <3>1 DEF LaunchHolds, LaunchIsOrdered
        <4>2. /\ val'[v].intent = "ACTIVE" /\ val'[v].seen = "no" /\ val'[v].ceased = "no"
              /\ val'[v].applied = "no" /\ val'[v].proof = "no"
          BY <2>2 DEF Unlaunched
        <4>3. LaunchIsOrdered(v)' BY <2>1, <2>2, <2>3, <4>2 DEF LaunchIsOrdered
        <4>4. TargetFollowsContact(v)' BY <2>2, <4>1 DEF TargetFollowsContact, Untouched
        <4>5. RecordsAreTrue(v)' BY <4>2 DEF RecordsAreTrue
        <4>6. RunningIsActive(v)' BY <4>2 DEF RunningIsActive
        <4>7. QED BY <3>1, <4>3, <4>4, <4>5, <4>6 DEF LaunchHolds
      <3>2. CASE w # v
        <4>1. val[w].intent # "ACTIVE" BY <1>3 DEF CommitValidator, LaunchPermitted, Active
        <4>2. LaunchIsOrdered(w)' BY <2>1, <2>2, <2>3, <3>0, <3>2, <4>1 DEF LaunchHolds, LaunchIsOrdered
        <4>3. TargetFollowsContact(w)' BY <2>2, <3>0, <3>2 DEF LaunchHolds, TargetFollowsContact
        <4>4. RecordsAreTrue(w)' BY <2>2, <3>0, <3>2 DEF LaunchHolds, RecordsAreTrue
        <4>5. RunningIsActive(w)' BY <2>2, <3>0, <3>2 DEF LaunchHolds, RunningIsActive
        <4>6. QED BY <4>2, <4>3, <4>4, <4>5 DEF LaunchHolds
      <3>3. QED BY <3>1, <3>2
    <2>5. QED BY <2>4 DEF LaunchInvariant, LaunchHolds
  <1>4. CASE \E source \in SettlementSources : SettleTerminal(c, source)
    <2>1. PICK source \in SettlementSources : SettleTerminal(c, source) BY <1>4
    <2>2. PICK v : v = Max(LaunchesOf(c) \cup {0}) OBVIOUS
    <2>3. /\ SourceShows(v, source) /\ UNCHANGED <<launches, disp, proc, target, fences>>
          /\ val' = IF v = 0 THEN val ELSE [val EXCEPT ![v].intent = "SETTLED"]
      BY <2>1, <2>2 DEF SettleTerminal
    <2>4. CASE v = 0
      BY <2>3, <2>4, UntouchedLaunches DEF KeepsActivity
    <2>5. CASE v # 0
      <3>1. v \in Launches /\ val[v].intent # "none"
        <4>1. LaunchesOf(c) \in SUBSET Launches BY DEF LaunchesOf, Intents
        <4>2. v \in LaunchesOf(c) BY <2>2, <2>5, <4>1, LastLaunch
        <4>3. QED BY <4>2 DEF LaunchesOf, Intents
      <3>2. ~(proc[v] = "contacted" /\ target[v] = Untouched) BY <2>3, <3>1, SourceIsTouched
      <3>3. QED BY <2>3, <2>5, <3>1, <3>2, IntentSettled
    <2>6. QED BY <2>4, <2>5
  <1>5. QED BY <1>1, <1>2, <1>3, <1>4 DEF CheckStep

(* A step that writes the row of one launch, and may settle it. *)
LEMMA RowStep ==
  ASSUME TypeOK, LaunchInvariant, NEW v \in Launches, NEW row,
         val' = [val EXCEPT ![v] = row], UNCHANGED <<launches, proc, target>>,
         row.contact = val[v].contact, row.proof = val[v].proof \/ val[v].intent # "none",
         \/ row.intent = val[v].intent
         \/ /\ row.intent = "SETTLED" /\ val[v].intent # "none"
            /\ ~(proc[v] = "contacted" /\ target[v] = Untouched),
         \A w \in Launches \ {v} : disp'[w] = disp[w] /\ KeepsActivity(w),
         disp'[v] = disp[v] \/ disp'[v] \notin {"NONE", "RESERVED"},
         RecordsAreTrue(v)'
  PROVE  LaunchInvariant'
  <1>1. LaunchHolds(v) /\ v \in Nat /\ launches \in Nat
    BY LaunchBounds DEF LaunchInvariant, LaunchHolds, TypeOK
  <1>2. val'[v] = row /\ \A w \in Launches \ {v} : val'[w] = val[w] BY DEF TypeOK
  <1>3. LaunchIsOrdered(v)' BY <1>1, <1>2 DEF LaunchHolds, LaunchIsOrdered
  <1>4. TargetFollowsContact(v)' BY <1>1, <1>2 DEF LaunchHolds, TargetFollowsContact
  <1>5. RunningIsActive(v)' BY <1>1, <1>2 DEF LaunchHolds, RunningIsActive
  <1>6. LaunchHolds(v)' BY <1>3, <1>4, <1>5 DEF LaunchHolds
  <1>7. \A w \in Launches \ {v} : SameLaunch(w) BY <1>2 DEF SameLaunch
  <1>8. QED BY <1>6, <1>7, OneLaunchStep

LEMMA LaunchStepLaunches ==
  ASSUME TypeOK, LaunchInvariant, NEW v \in Launches, LaunchStep(v)
  PROVE  LaunchInvariant'
  <1> USE DEF gateVars, launchVars, budgetVars, closingVars, NoEvent
  <1>0. /\ val[v] \in LaunchRows /\ target[v] \in TargetRows /\ LaunchHolds(v)
        /\ v \in Nat /\ launches \in Nat /\ v \in Reservations
    BY LaunchBounds DEF TypeOK, TargetRows, LaunchInvariant, LaunchHolds
  <1>1. CASE Contact(v)
    <2>1. PICK row : row = [val[v] EXCEPT !.contact = TRUE] OBVIOUS
    <2>2. /\ val'[v] = row /\ proc'[v] = "contacted"
          /\ \A w \in Launches \ {v} : val'[w] = val[w] /\ proc'[w] = proc[w]
          /\ UNCHANGED <<launches, disp, target, fences>>
      BY <1>1, <2>1 DEF Contact, ClaimContact, TypeOK
    <2>3. /\ row.contact = TRUE /\ row.intent = val[v].intent /\ row.seen = val[v].seen
          /\ row.ceased = val[v].ceased /\ row.applied = val[v].applied /\ row.proof = val[v].proof
      BY <1>0, <2>1 DEF LaunchRows
    <2>4. disp[v] = "RESERVED" /\ val[v].intent = "ACTIVE"
      BY <1>1 DEF Contact, Contactable, AwaitsContact
    <2>5. LaunchIsOrdered(v)' BY <1>0, <2>2, <2>3, <2>4 DEF LaunchHolds, LaunchIsOrdered
    <2>6. TargetFollowsContact(v)' BY <1>0, <2>2, <2>3 DEF LaunchHolds, TargetFollowsContact
    <2>7. RecordsAreTrue(v)' BY <1>0, <2>2, <2>3, <2>4 DEF LaunchHolds, RecordsAreTrue
    <2>8. RunningIsActive(v)' BY <2>2, <2>3, <2>4 DEF RunningIsActive
    <2>9. LaunchHolds(v)' BY <2>5, <2>6, <2>7, <2>8 DEF LaunchHolds
    <2>10. \A w \in Launches \ {v} : SameLaunch(w) /\ KeepsActivity(w) BY <2>2 DEF SameLaunch, KeepsActivity
    <2>11. QED BY <2>2, <2>9, <2>10, OneLaunchStep
  <1>2. CASE DisableInitiation(v)
    <2>1. /\ proc'[v] = "idle" /\ \A w \in Launches \ {v} : proc'[w] = proc[w]
          /\ UNCHANGED <<launches, val, disp, target>> /\ fences \subseteq fences'
      BY <1>2 DEF DisableInitiation, TypeOK
    <2>2. LaunchIsOrdered(v)' BY <1>0, <2>1 DEF LaunchHolds, LaunchIsOrdered
    <2>3. TargetFollowsContact(v)' BY <1>0, <2>1 DEF LaunchHolds, TargetFollowsContact
    <2>4. RecordsAreTrue(v)' BY <1>0, <2>1 DEF LaunchHolds, RecordsAreTrue
    <2>5. RunningIsActive(v)' BY <2>1 DEF RunningIsActive
    <2>6. LaunchHolds(v)' BY <2>2, <2>3, <2>4, <2>5 DEF LaunchHolds
    <2>7. \A w \in Launches \ {v} : SameLaunch(w) /\ KeepsActivity(w) BY <2>1 DEF SameLaunch, KeepsActivity
    <2>8. QED BY <2>1, <2>6, <2>7, OneLaunchStep
  <1>3. CASE \E verdict \in {"PASS", "FAIL"}, billed \in BOOLEAN : Produce(v, verdict, billed)
    <2>1. PICK verdict \in {"PASS", "FAIL"}, billed \in BOOLEAN : Produce(v, verdict, billed) BY <1>3
    <2>2. PICK row : row = [target[v] EXCEPT !.result = verdict, !.billed = billed] OBVIOUS
    <2>3. /\ target'[v] = row /\ proc'[v] = "idle"
          /\ \A w \in Launches \ {v} : target'[w] = target[w] /\ proc'[w] = proc[w]
          /\ UNCHANGED <<launches, val, disp, fences>>
      BY <2>1, <2>2 DEF Produce, TypeOK
    <2>4. proc[v] = "contacted" /\ target[v] = Untouched /\ val[v].intent = "ACTIVE" /\ val[v].contact
      BY <1>0, <2>1 DEF Produce, LaunchHolds, RunningIsActive, TargetFollowsContact
    <2>5. row.result = verdict /\ row.halted = "no" /\ row.sealed = FALSE
      BY <2>2, <2>4 DEF Untouched
    <2>6. val[v].seen = "no" /\ val[v].ceased = "no" /\ val[v].proof \notin {"certain", "reopened"}
          /\ val[v].applied = "no"
      BY <1>0, <2>4, ShownIsTouched
    <2>7. LaunchIsOrdered(v)' BY <1>0, <2>3, <2>4 DEF LaunchHolds, LaunchIsOrdered
    <2>8. TargetFollowsContact(v)' BY <2>3, <2>4, <2>5 DEF TargetFollowsContact
    <2>9. RecordsAreTrue(v)' BY <2>3, <2>6 DEF RecordsAreTrue
    <2>10. RunningIsActive(v)' BY <2>3 DEF RunningIsActive
    <2>11. LaunchHolds(v)' BY <2>7, <2>8, <2>9, <2>10 DEF LaunchHolds
    <2>12. \A w \in Launches \ {v} : SameLaunch(w) /\ KeepsActivity(w) BY <2>3 DEF SameLaunch, KeepsActivity
    <2>13. QED BY <2>3, <2>11, <2>12, OneLaunchStep
  <1>4. CASE SealNonexecution(v) \/ SealCessation(v)
    <2>1. PICK row : target' = [target EXCEPT ![v] = row] /\ row # Untouched
                     /\ row.result = target[v].result
                     /\ (row.sealed => target[v].result = "none") /\ (target[v].sealed => row.sealed)
                     /\ (row.halted = "interrupted" => target[v].result = "none")
                     /\ (target[v].halted # "no" => row.halted # "no")
      <3>1. CASE SealNonexecution(v)
        <4>1. PICK row : row = [target[v] EXCEPT !.sealed = TRUE] OBVIOUS
        <4>2. row.sealed = TRUE /\ row.result = target[v].result /\ row.halted = target[v].halted
          BY <1>0, <4>1 DEF TargetRows
        <4>3. row # Untouched BY <4>2 DEF Untouched
        <4>4. target' = [target EXCEPT ![v] = row] /\ target[v].result = "none"
          BY <3>1, <4>1 DEF SealNonexecution
        <4>5. QED BY <1>0, <4>2, <4>3, <4>4 DEF LaunchHolds, TargetFollowsContact
      <3>2. CASE SealCessation(v)
        <4>1. PICK row, x : /\ row = [target[v] EXCEPT !.halted = x]
                            /\ x = IF target[v].result = "none" THEN "interrupted" ELSE "result"
          OBVIOUS
        <4>2. row.sealed = target[v].sealed /\ row.result = target[v].result /\ row.halted = x
          BY <1>0, <4>1 DEF TargetRows
        <4>3. row # Untouched BY <4>1, <4>2 DEF Untouched
        <4>4. target' = [target EXCEPT ![v] = row] BY <3>2, <4>1 DEF SealCessation
        <4>5. row.halted # "no" /\ (row.halted = "interrupted" => target[v].result = "none")
          BY <4>1, <4>2
        <4>6. row.sealed => target[v].result = "none"
          BY <1>0, <4>2 DEF LaunchHolds, TargetFollowsContact
        <4>7. QED BY <4>2, <4>3, <4>4, <4>5, <4>6
      <3>3. QED BY <1>4, <3>1, <3>2
    <2>2. /\ target'[v] = row /\ \A w \in Launches \ {v} : target'[w] = target[w]
          /\ UNCHANGED <<launches, val, disp, proc, fences>> /\ val[v].intent # "none"
      BY <1>4, <2>1 DEF SealNonexecution, SealCessation, TypeOK, Intents
    <2>3. LaunchIsOrdered(v)' BY <1>0, <2>2 DEF LaunchHolds, LaunchIsOrdered
    <2>4. TargetFollowsContact(v)' BY <1>0, <2>1, <2>2 DEF LaunchHolds, TargetFollowsContact
    <2>5. RecordsAreTrue(v)' BY <1>0, <2>1, <2>2 DEF LaunchHolds, RecordsAreTrue
    <2>6. RunningIsActive(v)' BY <2>1, <2>2 DEF RunningIsActive
    <2>7. LaunchHolds(v)' BY <2>3, <2>4, <2>5, <2>6 DEF LaunchHolds
    <2>8. \A w \in Launches \ {v} : SameLaunch(w) /\ KeepsActivity(w) BY <2>2 DEF SameLaunch, KeepsActivity
    <2>9. QED BY <2>2, <2>7, <2>8, OneLaunchStep
  <1>5. CASE \E next \in Dispositions, citing \in BOOLEAN : SettleValidator(v, next, citing)
    <2>1. PICK next \in Dispositions, citing \in BOOLEAN : SettleValidator(v, next, citing) BY <1>5
    <2>2. /\ val' = [val EXCEPT ![v] = Cites(v, citing)] /\ fences' = FencesAfter(v, next)
          /\ disp' = [disp EXCEPT ![v] = next] /\ UNCHANGED <<launches, proc, target>>
      BY <2>1 DEF SettleValidator, Settlement
    <2>3. next \notin {"NONE", "RESERVED"}
      <3>1. v <= launches
        BY <1>0, <2>1 DEF SettleValidator, Intents, LaunchHolds, LaunchIsOrdered
      <3>2. disp[v] \in Dispositions BY <1>0, <3>1 DEF LaunchHolds, LaunchIsOrdered, TypeOK
      <3>3. QED BY <2>1, <3>2, SettlementsSettle DEF SettleValidator
    <2>4. \A w \in Launches : SameLaunch(w)
      BY <1>0, <2>2, <2>3, CitesSame, LaunchBounds DEF SameLaunch, TypeOK
    <2>5. \A w \in Launches : KeepsActivity(w) BY <2>2, SettlementKeepsActivity DEF KeepsActivity
    <2>6. QED BY <2>2, <2>4, <2>5, NoLaunchStep
  <1>6. CASE RecordCessation(v)
    <2>1. PICK x \in {"before", "after"} : val' = [val EXCEPT ![v].ceased = x]
      BY <1>6 DEF RecordCessation
    <2>2. PICK row : row = [val[v] EXCEPT !.ceased = x] OBVIOUS
    <2>3. val' = [val EXCEPT ![v] = row] BY <2>1, <2>2
    <2>4. /\ row.ceased = x /\ row.contact = val[v].contact /\ row.intent = val[v].intent
          /\ row.seen = val[v].seen /\ row.applied = val[v].applied /\ row.proof = val[v].proof
      BY <1>0, <2>2 DEF LaunchRows
    <2>5. val'[v] = row /\ UNCHANGED <<launches, disp, proc, target, fences>> /\ target[v].halted # "no"
      BY <1>6, <2>3 DEF RecordCessation, CessationKnown, TypeOK
    <2>6. RecordsAreTrue(v)' BY <1>0, <2>4, <2>5 DEF LaunchHolds, RecordsAreTrue
    <2>7. QED BY <2>3, <2>4, <2>5, <2>6, RowStep DEF KeepsActivity
  <1>7. CASE \E next \in Dispositions, all \in BOOLEAN : ProveNonexecution(v, next, all)
    <2>1. PICK next \in Dispositions, all \in BOOLEAN : ProveNonexecution(v, next, all) BY <1>7
    <2>2. PICK certain, closes, base, row :
            /\ certain \in BOOLEAN /\ closes \in BOOLEAN
            /\ base = Cites(v, FALSE)
            /\ row = [base EXCEPT !.proof = ProofAfter(val[v].proof, certain, all),
                                  !.intent = IF closes THEN "SETTLED" ELSE @]
            /\ val' = [val EXCEPT ![v] = row]
            /\ certain => ~Contradicted(v) /\ next # "UNKNOWN"
            /\ closes => certain
            /\ fences' = (FencesAfter(v, next) \ Only(closes, Fence("INITIATION_DISABLED", v)))
                          \cup Only(Contradicted(v), Fence("NONEXECUTION_CONTRADICTION", v))
      BY <2>1 DEF ProveNonexecution
    <2>3. /\ v \in Intents /\ next \in {"RELEASED", "UNKNOWN"} /\ (val[v].contact => target[v].sealed)
          /\ disp' = [disp EXCEPT ![v] = next] /\ UNCHANGED <<launches, proc, target>>
      BY <2>1 DEF ProveNonexecution, ValidatorNonexecutionPermitted, Settlement
    <2>4. base \in LaunchRows BY <2>2, CitesTyped
    <2>5. /\ row.contact = base.contact /\ row.seen = base.seen /\ row.ceased = base.ceased
          /\ row.applied = base.applied /\ row.proof = ProofAfter(val[v].proof, certain, all)
          /\ row.intent = IF closes THEN "SETTLED" ELSE base.intent
      BY <2>2, <2>4 DEF LaunchRows
    <2>6. /\ row.contact = val[v].contact /\ row.seen = val[v].seen /\ row.ceased = val[v].ceased
          /\ row.applied = val[v].applied /\ (row.intent = val[v].intent \/ (closes /\ row.intent = "SETTLED"))
      <3>1. /\ base.contact = val[v].contact /\ base.seen = val[v].seen /\ base.ceased = val[v].ceased
            /\ base.applied = val[v].applied /\ base.intent = val[v].intent
        BY <2>2, UncitedSame
      <3>2. QED BY <2>5, <3>1
    <2>7. val'[v] = row /\ disp'[v] = next /\ \A w \in Launches \ {v} : disp'[w] = disp[w]
      BY <1>0, <2>2, <2>3, LaunchBounds DEF TypeOK
    <2>8. \A w \in Launches : KeepsActivity(w)
      <3> SUFFICES ASSUME NEW w \in Launches, Fence("ACTIVITY", w) \in fences
                   PROVE  Fence("ACTIVITY", w) \in fences'
        BY DEF KeepsActivity
      <3>1. Fence("ACTIVITY", w) \in FencesAfter(v, next) BY SettlementKeepsActivity
      <3>2. Fence("ACTIVITY", w) # Fence("INITIATION_DISABLED", v) BY DEF Fence
      <3>3. QED BY <2>2, <3>1, <3>2 DEF Only
    <2>9. val[v].intent # "none" /\ (row.intent = "SETTLED" => row.intent = val[v].intent \/ closes)
      BY <2>3, <2>6 DEF Intents
    <2>10. ~(proc[v] = "contacted" /\ target[v] = Untouched)
      BY <1>0, <2>3 DEF LaunchHolds, TargetFollowsContact, Untouched
    <2>11. RecordsAreTrue(v)'
      <3>1. row.seen # "no" => target'[v].result # "none" BY <1>0, <2>3, <2>6 DEF LaunchHolds, RecordsAreTrue
      <3>2. row.ceased # "no" => target'[v].halted # "no" BY <1>0, <2>3, <2>6 DEF LaunchHolds, RecordsAreTrue
      <3>3. row.seen # "no" /\ row.ceased = "no" => Fence("ACTIVITY", v) \in fences'
        BY <1>0, <2>6, <2>8 DEF LaunchHolds, RecordsAreTrue, KeepsActivity
      <3>4. row.applied # "no" => row.seen # "no" /\ row.ceased # "no" /\ row.intent = "SETTLED"
        BY <1>0, <2>6 DEF LaunchHolds, RecordsAreTrue
      <3>5. row.applied = "PASS" => target'[v].result = "PASS"
        BY <1>0, <2>3, <2>6 DEF LaunchHolds, RecordsAreTrue
      <3>6. disp'[v] # "RESERVED" /\ (row.contact => target'[v].sealed) BY <2>3, <2>6, <2>7
      <3>7. QED BY <2>7, <3>1, <3>2, <3>3, <3>4, <3>5, <3>6 DEF RecordsAreTrue
    <2>12. QED BY <2>2, <2>3, <2>6, <2>7, <2>8, <2>9, <2>10, <2>11, RowStep
  <1>8. CASE \E current \in BOOLEAN : RecordObservation(v, current)
    <2>a. PICK current \in BOOLEAN : RecordObservation(v, current) BY <1>8
    <2>1. PICK x, row : /\ x = UsageStated(v)
                        /\ row = [val[v] EXCEPT !.seen = x, !.cited = {}, !.fresh = current]
      OBVIOUS
    <2>2. /\ val' = [val EXCEPT ![v] = row] /\ val'[v] = row /\ UNCHANGED <<launches, disp, proc, target>>
          /\ target[v].result # "none" /\ fences \subseteq fences'
      BY <2>a, <2>1 DEF RecordObservation, ObservationRow, Observable, TypeOK
    <2>3. /\ row.seen = x /\ row.contact = val[v].contact /\ row.intent = val[v].intent
          /\ row.ceased = val[v].ceased /\ row.applied = val[v].applied /\ row.proof = val[v].proof
      BY <1>0, <2>1 DEF LaunchRows
    <2>4. x # "no" BY <2>1 DEF UsageStated
    <2>5. val[v].ceased = "no" => Fence("ACTIVITY", v) \in fences'
      BY <2>a DEF RecordObservation, ActivityKnown, ResultFences, Only
    <2>6. RecordsAreTrue(v)' BY <1>0, <2>2, <2>3, <2>4, <2>5 DEF LaunchHolds, RecordsAreTrue
    <2>7. QED BY <2>2, <2>3, <2>6, RowStep DEF KeepsActivity
  <1>9. CASE DenyApplication(v)
    BY <1>9, UntouchedLaunches DEF DenyApplication, KeepsActivity
  <1>10. CASE \E outcome \in {"PASS", "RECOVERABLE", "FINAL"} : ApplyObservation(v, outcome)
    <2>1. PICK outcome \in {"PASS", "RECOVERABLE", "FINAL"} : ApplyObservation(v, outcome) BY <1>10
    <2>2. PICK row : row = [val[v] EXCEPT !.applied = outcome, !.intent = "SETTLED"] OBVIOUS
    <2>3. /\ val' = [val EXCEPT ![v] = row] /\ val'[v] = row /\ UNCHANGED <<launches, disp, proc, target>>
          /\ fences \subseteq fences'
      BY <2>1, <2>2 DEF ApplyObservation, TypeOK
    <2>4. /\ row.applied = outcome /\ row.intent = "SETTLED" /\ row.seen = val[v].seen
          /\ row.contact = val[v].contact /\ row.ceased = val[v].ceased /\ row.proof = val[v].proof
      BY <1>0, <2>2 DEF LaunchRows
    <2>5. /\ val[v].seen # "no" /\ val[v].intent = "ACTIVE" /\ Fence("ACTIVITY", v) \notin fences
          /\ (outcome = "PASS") = (target[v].result = "PASS")
      BY <2>1 DEF ApplyObservation, ApplicationPermitted, InScope, Fence
    <2>6. val[v].ceased # "no" BY <1>0, <2>5 DEF LaunchHolds, RecordsAreTrue
    <2>7. RecordsAreTrue(v)' BY <1>0, <2>3, <2>4, <2>5, <2>6 DEF LaunchHolds, RecordsAreTrue
    <2>8. ~(proc[v] = "contacted" /\ target[v] = Untouched) BY <2>5, ShownIsTouched
    <2>9. QED BY <2>3, <2>4, <2>5, <2>7, <2>8, RowStep DEF KeepsActivity
  <1>11. CASE ResolveBlocker(v)
    <2>1. PICK row : row = [val[v] EXCEPT !.resolved = TRUE] OBVIOUS
    <2>2. val' = [val EXCEPT ![v] = row] /\ val'[v] = row /\ UNCHANGED <<launches, disp, proc, target, fences>>
      BY <1>11, <2>1 DEF ResolveBlocker, TypeOK
    <2>3. /\ row.seen = val[v].seen /\ row.contact = val[v].contact /\ row.intent = val[v].intent
          /\ row.ceased = val[v].ceased /\ row.applied = val[v].applied /\ row.proof = val[v].proof
      BY <1>0, <2>1 DEF LaunchRows
    <2>4. RecordsAreTrue(v)' BY <1>0, <2>2, <2>3 DEF LaunchHolds, RecordsAreTrue
    <2>5. QED BY <2>2, <2>3, <2>4, RowStep DEF KeepsActivity
  <1>12. CASE ReconcileResult(v)
    <2>1. PICK row : row = [val[v] EXCEPT !.reconciled = TRUE] OBVIOUS
    <2>2. /\ val' = [val EXCEPT ![v] = row] /\ val'[v] = row /\ UNCHANGED <<launches, disp, proc, target>>
          /\ fences' = fences \ UncertaintiesOf(v) /\ val[v].ceased # "no"
      BY <1>12, <2>1 DEF ReconcileResult, Reconcilable, TypeOK
    <2>3. /\ row.seen = val[v].seen /\ row.contact = val[v].contact /\ row.intent = val[v].intent
          /\ row.ceased = val[v].ceased /\ row.applied = val[v].applied /\ row.proof = val[v].proof
      BY <1>0, <2>1 DEF LaunchRows
    <2>4. RecordsAreTrue(v)' BY <1>0, <2>2, <2>3 DEF LaunchHolds, RecordsAreTrue
    <2>5. \A w \in Launches \ {v} : KeepsActivity(w) BY <2>2 DEF KeepsActivity, UncertaintiesOf, Fence
    <2>6. QED BY <2>2, <2>3, <2>4, <2>5, RowStep
  <1>13. QED
    BY <1>1, <1>2, <1>3, <1>4, <1>5, <1>6, <1>7, <1>8, <1>9, <1>10, <1>11, <1>12 DEF LaunchStep

LEMMA PauseStepLaunches ==
  ASSUME TypeOK, LaunchInvariant, NEW n \in 1..MaxPauses, PauseStep(n)
  PROVE  LaunchInvariant'
  <1> USE DEF gateVars, launchVars, budgetVars, closingVars
  <1>0. \A i \in DOMAIN pauses : pauses[i].launch # 0 => pauses[i].launch \in Launches
    <2> SUFFICES ASSUME NEW i \in DOMAIN pauses, pauses[i].launch # 0 PROVE pauses[i].launch \in Launches
      OBVIOUS
    <2>1. pauses[i] \in PauseRows BY DEF TypeOK
    <2>2. pauses[i].launch \in 0..MaxLaunches BY <2>1 DEF PauseRows
    <2>3. QED BY <2>2, ValidationBounds DEF Launches
  <1>1. CASE \E how \in {"NONLAUNCH", "RESULT_CESSATION", "INTERRUPTION_CESSATION"} : SettlePause(n, how)
    <2>1. PICK how \in {"NONLAUNCH", "RESULT_CESSATION", "INTERRUPTION_CESSATION"} : SettlePause(n, how)
      BY <1>1
    <2>2. PICK v : v = pauses[n].launch OBVIOUS
    <2>3. /\ PauseResolvable(v, how) /\ v \in Launches
          /\ val' = IF how = "RESULT_CESSATION" THEN val ELSE [val EXCEPT ![v].intent = "SETTLED"]
          /\ UNCHANGED <<launches, disp, proc, target, fences>>
      BY <1>0, <2>1, <2>2 DEF SettlePause, PauseSettleable
    <2>4. CASE how = "RESULT_CESSATION"
      BY <2>3, <2>4, UntouchedLaunches DEF KeepsActivity
    <2>5. CASE how # "RESULT_CESSATION"
      <3>1. val[v].proof = "certain" \/ val[v].ceased # "no"
        BY <2>3, <2>5 DEF PauseResolvable
      <3>2. ~(proc[v] = "contacted" /\ target[v] = Untouched) BY <2>3, <3>1, ShownIsTouched
      <3>3. val[v].intent # "none"
        <4>1. LaunchHolds(v) /\ v \in Nat /\ launches \in Nat
          BY <2>3, LaunchBounds DEF LaunchInvariant, LaunchHolds, TypeOK
        <4>2. v > launches => val[v].proof = "no" /\ val[v].ceased = "no"
          BY <4>1 DEF LaunchHolds, LaunchIsOrdered, RecordsAreTrue, Untouched
        <4>3. QED BY <3>1, <4>1, <4>2 DEF LaunchHolds, LaunchIsOrdered
      <3>4. QED BY <2>3, <2>5, <3>2, <3>3, IntentSettled
    <2>6. QED BY <2>4, <2>5
  <1>2. CASE ResumeSettled(n) \/ ResumeValidation(n)
    <2>1. UNCHANGED <<launches, val, disp, proc, target>> /\ fences' = fences \ {Fence("PAUSE", n)}
      BY <1>2 DEF ResumeSettled, ResumeValidation
    <2>2. \A w \in Launches : KeepsActivity(w) BY <2>1 DEF KeepsActivity, Fence
    <2>3. QED BY <2>1, <2>2, UntouchedLaunches
  <1>3. CASE ResumeReconciliationPause(n)
    <2>1. /\ UNCHANGED <<launches, val, disp, proc, target>>
          /\ fences' = fences \ {Fence("RECONCILIATION_PAUSE", n)}
      BY <1>3 DEF ResumeReconciliationPause
    <2>2. \A w \in Launches : KeepsActivity(w) BY <2>1 DEF KeepsActivity, Fence
    <2>3. QED BY <2>1, <2>2, UntouchedLaunches
  <1>4. CASE RecoverSettledPause(n)
    <2>1. PICK v : v = pauses[n].launch OBVIOUS
    <2>2. PICK row : row = [val[v] EXCEPT !.resolved = TRUE] OBVIOUS
    <2>3. /\ val' = [val EXCEPT ![v] = row] /\ UNCHANGED <<launches, disp, proc, target, fences>>
          /\ n \in DOMAIN pauses /\ val[v].intent = "SETTLED"
      BY <1>4, <2>1, <2>2 DEF RecoverSettledPause, PauseRecoverable, RestsOnPause
    <2>4. CASE v \in Launches
      <3>1. val[v] \in LaunchRows /\ val'[v] = row /\ LaunchHolds(v)
        BY <2>3, <2>4 DEF TypeOK, LaunchInvariant, LaunchHolds
      <3>2. /\ row.seen = val[v].seen /\ row.contact = val[v].contact /\ row.intent = val[v].intent
            /\ row.ceased = val[v].ceased /\ row.applied = val[v].applied /\ row.proof = val[v].proof
        BY <2>2, <3>1 DEF LaunchRows
      <3>3. RecordsAreTrue(v)' BY <2>3, <3>1, <3>2 DEF LaunchHolds, RecordsAreTrue
      <3>4. QED BY <2>3, <2>4, <3>2, <3>3, RowStep DEF KeepsActivity
    <2>5. CASE v \notin Launches
      <3>1. val' = val BY <2>3, <2>5 DEF TypeOK
      <3>2. QED BY <2>3, <3>1, UntouchedLaunches DEF KeepsActivity
    <2>6. QED BY <2>4, <2>5
  <1>5. QED BY <1>1, <1>2, <1>3, <1>4 DEF PauseStep

LEMMA RunStepLaunches ==
  ASSUME TypeOK, LaunchInvariant, RunStep
  PROVE  LaunchInvariant'
  <1> USE DEF gateVars, launchVars, budgetVars, closingVars
  <1>0. \A w \in Launches : w \in Reservations /\ w # 0 BY LaunchBounds
  <1>1. CASE Finalize \/ \E scope \in OtherScopes : FenceOther(scope)
    <2>1. UNCHANGED <<launches, val, disp, proc, target>> BY <1>1 DEF Finalize, FenceOther
    <2>2. \A w \in Launches : KeepsActivity(w) BY <1>1 DEF Finalize, FenceOther, OtherScopes, KeepsActivity, Fence
    <2>3. QED BY <2>1, <2>2, UntouchedLaunches
  <1>2. CASE PauseActive \/ PauseReconciliation
    <2>1. UNCHANGED <<launches, val, disp, proc, target>> /\ fences \subseteq fences'
      BY <1>2 DEF PauseActive, PauseReconciliation, Pause
    <2>2. QED BY <2>1, UntouchedLaunches DEF KeepsActivity
  <1>3. CASE PauseValidation
    <2>1. PICK row : /\ ChargePaused(row) /\ UNCHANGED <<launches, proc, target>> /\ fences \subseteq fences'
      BY <1>3 DEF PauseValidation, Pause
    <2>2. PICK v : v = row.launch OBVIOUS
    <2>3. \A w \in Launches : SameLaunch(w)
      <3>1. CASE UNCHANGED <<disp, val>> BY <2>1, <3>1 DEF SameLaunch
      <3>2. CASE /\ disp' = [disp EXCEPT ![v] = "UNKNOWN"]
                 /\ val' = [val EXCEPT ![v] = Cites(v, FALSE)]
        <4> SUFFICES ASSUME NEW w \in Launches PROVE SameLaunch(w) OBVIOUS
        <4>1. CASE w = v
          <5>1. PICK unknown, cited : unknown = "UNKNOWN" /\ cited = Cites(w, FALSE) OBVIOUS
          <5>2. val'[w] = cited /\ disp'[w] = "UNKNOWN" BY <1>0, <3>2, <4>1, <5>1 DEF TypeOK
          <5>3. /\ cited.intent = val[w].intent /\ cited.contact = val[w].contact /\ cited.seen = val[w].seen
                /\ cited.ceased = val[w].ceased /\ cited.applied = val[w].applied
                /\ cited.proof = val[w].proof /\ cited.check = val[w].check
            BY <5>1, UncitedSame
          <5>4. QED BY <2>1, <5>2, <5>3 DEF SameLaunch
        <4>2. CASE w # v BY <1>0, <2>1, <3>2, <4>2 DEF SameLaunch, TypeOK
        <4>3. QED BY <4>1, <4>2
      <3>3. QED BY <2>1, <2>2, <3>1, <3>2 DEF ChargePaused, Settlement
    <2>4. QED BY <2>1, <2>3, NoLaunchStep DEF KeepsActivity
  <1>4. CASE \E mode \in {"GRACEFUL", "IMMEDIATE"} : Stop(mode)
    <2>1. PICK charged :
            /\ disp' = [r \in Reservations |-> IF r \in charged THEN "UNKNOWN" ELSE disp[r]]
            /\ val' = [v \in Launches |-> IF v \in charged THEN Cites(v, FALSE) ELSE val[v]]
            /\ UNCHANGED <<launches, proc, target>> /\ fences \subseteq fences'
      BY <1>4 DEF Stop
    <2>2. ASSUME NEW w \in Launches PROVE SameLaunch(w)
      <3>1. CASE w \in charged
        <4>1. PICK unknown, cited : unknown = "UNKNOWN" /\ cited = Cites(w, FALSE) OBVIOUS
        <4>2. val'[w] = cited /\ disp'[w] = "UNKNOWN" BY <1>0, <2>1, <3>1, <4>1
        <4>3. /\ cited.intent = val[w].intent /\ cited.contact = val[w].contact /\ cited.seen = val[w].seen
              /\ cited.ceased = val[w].ceased /\ cited.applied = val[w].applied
              /\ cited.proof = val[w].proof /\ cited.check = val[w].check
          BY <4>1, UncitedSame
        <4>4. QED BY <2>1, <4>2, <4>3 DEF SameLaunch
      <3>2. CASE w \notin charged BY <1>0, <2>1, <3>2 DEF SameLaunch
      <3>3. QED BY <3>1, <3>2
    <2>3. QED BY <2>1, <2>2, NoLaunchStep DEF KeepsActivity
  <1>5. CASE (\E known \in BOOLEAN : IntakeLateReceipt(known)) \/ (\E next \in Dispositions : SettleOperation(next))
    <2>1. PICK next : /\ disp' = [disp EXCEPT ![0] = next] /\ FencesAfter(0, next) \subseteq fences'
                      /\ UNCHANGED <<launches, val, proc, target>>
      <3>1. CASE \E known \in BOOLEAN : IntakeLateReceipt(known) BY <3>1 DEF IntakeLateReceipt, Settlement
      <3>2. CASE \E next \in Dispositions : SettleOperation(next) BY <3>2 DEF SettleOperation, Settlement
      <3>3. QED BY <1>5, <3>1, <3>2
    <2>2. \A w \in Launches : SameLaunch(w) BY <1>0, <2>1 DEF SameLaunch, TypeOK
    <2>3. \A w \in Launches : KeepsActivity(w) BY <2>1, SettlementKeepsActivity DEF KeepsActivity
    <2>4. QED BY <2>1, <2>2, <2>3, NoLaunchStep
  <1>6. QED BY <1>1, <1>2, <1>3, <1>4, <1>5 DEF RunStep

(* The tie between the records of a launch, the target and the process     *)
(* that launches it.                                                       *)
THEOREM LaunchesHold == Spec => []LaunchInvariant
  <1>1. Init => LaunchInvariant
    <2> SUFFICES ASSUME Init, NEW v \in Launches
                 PROVE  LaunchIsOrdered(v) /\ TargetFollowsContact(v) /\ RecordsAreTrue(v) /\ RunningIsActive(v)
      BY DEF LaunchInvariant
    <2>1. val[v] = Unlaunched /\ target[v] = Untouched /\ proc[v] = "idle" /\ launches = 0 BY DEF Init
    <2>2. v > 0 /\ v \in Nat BY ValidationBounds DEF Launches
    <2>3. QED BY <2>1, <2>2 DEF LaunchIsOrdered, TargetFollowsContact, RecordsAreTrue, RunningIsActive,
                               Unlaunched, Untouched
  <1>2. TypeOK /\ LaunchInvariant /\ [Next]_vars => LaunchInvariant'
    <2> SUFFICES ASSUME TypeOK, LaunchInvariant, [Next]_vars PROVE LaunchInvariant' OBVIOUS
    <2>1. CASE Next
      BY <2>1, RunStepLaunches, CheckStepLaunches, LaunchStepLaunches, PauseStepLaunches DEF Next
    <2>2. CASE UNCHANGED vars
      BY <2>2, UntouchedLaunches DEF vars, launchVars, budgetVars, KeepsActivity
    <2>3. QED BY <2>1, <2>2
  <1>3. QED BY <1>1, <1>2, TypesHold, PTL DEF Spec

-----------------------------------------------------------------------------
(* What the tie gives. *)

(* A launch that can still run is the last one. *)
LEMMA RunningIsLast ==
  ASSUME LaunchInvariant, NEW v \in Launches, CanRun(v)
  PROVE  val[v].intent = "ACTIVE" /\ v = launches
  BY DEF LaunchInvariant, CanRun, Contactable, RunningIsActive, LaunchIsOrdered

(* OneValidatorRuns: a launch that could still produce a result is active, *)
(* and only the last launch is (commit_validator_intent).                  *)
THEOREM OneValidatorAtATime == Spec => []OneValidatorRuns
  <1>1. LaunchInvariant => OneValidatorRuns
    BY RunningIsLast DEF OneValidatorRuns, Intents
  <1>2. QED BY <1>1, LaunchesHold, PTL

(* AppliedIsCeased: an applied result belongs to a validator that has      *)
(* stopped, and whose target holds the result (_apply_validator_-          *)
(* observation, reconcile_validator_result).                               *)
THEOREM AppliedResultsAreCeased == Spec => []AppliedIsCeased
  <1>1. TypeOK /\ LaunchInvariant => AppliedIsCeased
    <2> SUFFICES ASSUME TypeOK, LaunchInvariant, NEW v \in Intents, val[v].applied # "no"
                 PROVE  val[v].ceased # "no" /\ target[v].halted = "result"
      BY DEF AppliedIsCeased
    <2>1. v \in Launches /\ target[v] \in TargetRows BY DEF Intents, TypeOK, TargetRows
    <2>2. target[v].halted \in {"no", "result", "interrupted"} BY <2>1 DEF TargetRows
    <2>3. QED BY <2>1, <2>2 DEF LaunchInvariant, RecordsAreTrue, TargetFollowsContact
  <1>2. QED BY <1>1, TypesHold, LaunchesHold, PTL

-----------------------------------------------------------------------------
(* What the steps do to the run. *)

(* The run moves on, and not to COMPLETED. *)
LifeMoves == life' = life \/ (life \notin Terminal /\ life' # "COMPLETED")

(* Nothing that RunInvariant reads of launch v changes. *)
SameRow(v) ==
  /\ val'[v].intent = val[v].intent /\ val'[v].applied = val[v].applied /\ val'[v].check = val[v].check
  /\ proc'[v] = proc[v] /\ target'[v] = target[v]

(* Launch v may be settled, but while the run goes on not with a result    *)
(* that is not applied; an active one may get its result or be applied.    *)
Settles(v) ==
  /\ val'[v].check = val[v].check
  /\ val'[v].intent = val[v].intent \/ (val[v].intent # "none" /\ val'[v].intent = "SETTLED")
  /\ val[v].intent # "ACTIVE" => target'[v].result = target[v].result
  /\ \/ val'[v].applied = val[v].applied
     \/ val[v].intent = "ACTIVE" /\ val'[v].applied # "no" /\ life \notin Terminal
  /\ val'[v].intent = "SETTLED" =>
       \/ val[v].intent = "SETTLED" \/ val'[v].applied # "no"
       \/ target'[v].result = "none" \/ life' \in Terminal

Halts(v) == target[v].halted = "interrupted" => target'[v].halted = "interrupted"

(* The fence of an active launch's pause stands until it is settled. *)
KeepsPause(i) ==
  pauses[i].mode = "active" /\ pauses[i].settled = "no" /\ Fence("PAUSE", i) \in fences =>
    Fence("PAUSE", i) \in fences'

(* The applications of a check are those of its launches. *)
LEMMA PassedSame ==
  ASSUME NEW c, \A v \in Launches : /\ val'[v].check = val[v].check /\ val'[v].applied = val[v].applied
                                    /\ (val'[v].intent = "none") <=> (val[v].intent = "none")
  PROVE  Passed(c)' <=> Passed(c)
  <1> DEFINE S == {v \in LaunchesOf(c) : val[v].applied # "no"}
  <1>1. S' = S BY DEF LaunchesOf, Intents
  <1>2. S \in SUBSET Launches BY DEF LaunchesOf, Intents
  <1>3. LastApplied(c) = Max(S \cup {0}) /\ LastApplied(c)' = Max(S' \cup {0}) BY DEF LastApplied
  <1> HIDE DEF S
  <1>4. LastApplied(c)' = LastApplied(c) BY <1>1, <1>3
  <1>5. LastApplied(c) # 0 => LastApplied(c) \in Launches BY <1>2, <1>3, LastLaunch
  <1>6. QED BY <1>4, <1>5 DEF Passed, LatestApplication

LEMMA SettledStaysDone ==
  ASSUME SettledIsDone, LifeMoves, \A v \in Launches : Settles(v)
  PROVE  SettledIsDone'
  <1> SUFFICES ASSUME NEW v \in Launches, val'[v].intent = "SETTLED", life' \notin Terminal
               PROVE  val'[v].applied # "no" \/ target'[v].result = "none"
    BY DEF SettledIsDone
  <1>1. life \notin Terminal BY DEF LifeMoves
  <1>2. Settles(v) OBVIOUS
  <1>3. QED BY <1>1, <1>2 DEF Settles, SettledIsDone

LEMMA CompletedStaysClosed ==
  ASSUME CompletedIsClosed, LifeMoves, \A v \in Launches : Settles(v)
  PROVE  CompletedIsClosed'
  <1> SUFFICES ASSUME life' = "COMPLETED" PROVE CompletedIsClosed' BY DEF CompletedIsClosed
  <1>1. life = "COMPLETED" /\ life \in Terminal BY DEF LifeMoves, Terminal
  <1>2. \A v \in Launches : val[v].intent # "ACTIVE" BY <1>1 DEF CompletedIsClosed, Active
  <1>3. \A v \in Launches : /\ val'[v].check = val[v].check /\ val'[v].applied = val[v].applied
                            /\ (val'[v].intent = "none") <=> (val[v].intent = "none")
                            /\ val'[v].intent # "ACTIVE" /\ target'[v].result = target[v].result
    BY <1>1, <1>2 DEF Settles
  <1>4. Active' = {} BY <1>3 DEF Active
  <1>5. \A c \in Checks : Passed(c)' BY <1>1, <1>3, PassedSame DEF CompletedIsClosed
  <1>6. \A v \in Launches : target'[v].result # "none" => val'[v].applied # "no"
    BY <1>1, <1>3 DEF CompletedIsClosed
  <1>7. QED BY <1>4, <1>5, <1>6 DEF CompletedIsClosed

LEMMA PausesStayHeld ==
  ASSUME PausesHold, pauses' = pauses, launches' = launches,
         \A v \in Launches : Halts(v), \A i \in DOMAIN pauses : KeepsPause(i)
  PROVE  PausesHold'
  BY DEF PausesHold, Halts, KeepsPause

(* A step that settles launches. *)
LEMMA SettlingStep ==
  ASSUME RunInvariant, LifeMoves, \A v \in Launches : Settles(v),
         settled' = settled \/ (life \in Terminal /\ life' = life),
         PausedIsTouched', PausesHold'
  PROVE  RunInvariant'
  <1>1. SettledHasEnded'
    <2>1. life \in Terminal => life' \in Terminal BY DEF LifeMoves
    <2>2. CASE settled' = settled BY <2>1, <2>2 DEF RunInvariant, SettledHasEnded
    <2>3. CASE life \in Terminal /\ life' = life BY <2>3 DEF SettledHasEnded
    <2>4. QED BY <2>2, <2>3
  <1>2. QED BY <1>1, SettledStaysDone, CompletedStaysClosed DEF RunInvariant

(* A step that leaves the launches where they are, and pauses nothing. *)
LEMMA SteadyStep ==
  ASSUME RunInvariant, \A v \in Launches : SameRow(v), UNCHANGED <<settled, pauses, launches>>,
         life' = life \/ (life \notin Terminal /\ life' \notin {"PAUSED", "COMPLETED"}),
         \A i \in DOMAIN pauses : KeepsPause(i)
  PROVE  RunInvariant'
  <1>1. \A v \in Launches : Settles(v) /\ Halts(v) BY DEF SameRow, Settles, Halts
  <1>2. PausesHold' BY <1>1, PausesStayHeld DEF RunInvariant
  <1>3. PausedIsTouched' BY DEF RunInvariant, PausedIsTouched, SameRow
  <1>4. LifeMoves BY DEF LifeMoves
  <1>5. QED BY <1>1, <1>2, <1>3, <1>4, SettlingStep

LEMMA CheckStepRun ==
  ASSUME TypeOK, LaunchInvariant, RunInvariant, NEW c \in Checks, CheckStep(c)
  PROVE  RunInvariant'
  <1> USE DEF gateVars, launchVars, budgetVars, closingVars
  <1>1. CASE \E status \in {"PASS", "FAIL"} : RecordGateFact(c, status)
    <2>1. ASSUME NEW v \in Launches PROVE SameRow(v)
      <3>0. val[v] \in LaunchRows BY DEF TypeOK
      <3>1. val'[v] = val[v] \/ val'[v] = [val[v] EXCEPT !.stale = TRUE] BY <1>1 DEF RecordGateFact
      <3>2. QED BY <1>1, <3>0, <3>1 DEF RecordGateFact, SameRow, LaunchRows
    <2>2. UNCHANGED <<life, settled, pauses, launches, fences>> BY <1>1 DEF RecordGateFact, Note, Record
    <2>3. QED BY <2>1, <2>2, SteadyStep DEF KeepsPause
  <1>2. CASE EvaluateLaunch(c) \/ BlockLaunch(c) \/ ResolveLaunchBlocker(c)
    <2>1. /\ UNCHANGED <<val, proc, target, settled, pauses, launches, fences>>
          /\ life' = life \/ (life \in {"VALIDATING", "BLOCKED"} /\ life' \in {"VALIDATING", "BLOCKED"})
      BY <1>2 DEF EvaluateLaunch, BlockLaunch, ResolveLaunchBlocker, Record, Preparable, LaunchBlockerResolvable
    <2>2. \A v \in Launches : SameRow(v) BY <2>1 DEF SameRow
    <2>3. \A i \in DOMAIN pauses : KeepsPause(i) BY <2>1 DEF KeepsPause
    <2>4. QED BY <2>1, <2>2, <2>3, SteadyStep DEF Terminal
  <1>3. CASE CommitValidator(c)
    <2>1. PICK v \in Launches : v = launches + 1
      BY <1>3, ValidationBounds DEF CommitValidator, Launches, TypeOK
    <2>2. /\ life = "VALIDATING" /\ life' = RECON /\ UNCHANGED <<settled, pauses, target>> /\ fences = {}
          /\ val'[v] = [Unlaunched EXCEPT !.check = c, !.intent = "ACTIVE"]
          /\ \A w \in Launches \ {v} : val'[w] = val[w]
      BY <1>3, <2>1 DEF CommitValidator, LaunchPermitted, Record, TypeOK
    <2>3. val'[v].intent = "ACTIVE" BY <2>2 DEF Unlaunched
    <2>4. SettledHasEnded' BY <2>2 DEF RunInvariant, SettledHasEnded, Terminal
    <2>5. SettledIsDone' BY <2>2, <2>3 DEF RunInvariant, SettledIsDone, Terminal
    <2>6. CompletedIsClosed' /\ PausedIsTouched' BY <2>2 DEF CompletedIsClosed, PausedIsTouched, RECON
    <2>7. PausesHold' BY <2>2 DEF RunInvariant, PausesHold
    <2>8. QED BY <2>4, <2>5, <2>6, <2>7 DEF RunInvariant
  <1>4. CASE \E source \in SettlementSources : SettleTerminal(c, source)
    <2>1. PICK source \in SettlementSources : SettleTerminal(c, source) BY <1>4
    <2>2. PICK v : v = Max(LaunchesOf(c) \cup {0}) OBVIOUS
    <2>3. /\ life \in {"STOPPED", "FAILED_FINAL"} /\ UNCHANGED <<life, launches, pauses, proc, target, fences>>
          /\ val' = IF v = 0 THEN val ELSE [val EXCEPT ![v].intent = "SETTLED"]
      BY <2>1, <2>2 DEF SettleTerminal, TerminallySettleable, Note, Record
    <2>4. v # 0 => v \in Launches /\ val[v].intent # "none"
      <3>1. LaunchesOf(c) \in SUBSET Launches BY DEF LaunchesOf, Intents
      <3>2. v # 0 => v \in LaunchesOf(c) BY <2>2, <3>1, LastLaunch
      <3>3. QED BY <3>2 DEF LaunchesOf, Intents
    <2>5. ASSUME NEW w \in Launches PROVE Settles(w) /\ Halts(w)
      <3>0. val[w] \in LaunchRows BY DEF TypeOK
      <3>1. \/ val'[w] = val[w]
            \/ val'[w] = [val[w] EXCEPT !.intent = "SETTLED"] /\ val[w].intent # "none"
        BY <2>3, <2>4 DEF TypeOK
      <3>2. CASE val'[w] = val[w] BY <2>3, <3>2 DEF Settles, Halts
      <3>3. CASE val'[w] = [val[w] EXCEPT !.intent = "SETTLED"] /\ val[w].intent # "none"
        <4>1. /\ val'[w].intent = "SETTLED" /\ val'[w].check = val[w].check
              /\ val'[w].applied = val[w].applied
          BY <3>0, <3>3 DEF LaunchRows
        <4>2. QED BY <2>3, <3>3, <4>1 DEF Settles, Halts, Terminal
      <3>4. QED BY <3>1, <3>2, <3>3
    <2>6. PausesHold' BY <2>3, <2>5, PausesStayHeld DEF RunInvariant, KeepsPause
    <2>7. PausedIsTouched' BY <2>3 DEF PausedIsTouched
    <2>8. QED BY <2>3, <2>5, <2>6, <2>7, SettlingStep DEF LifeMoves, Terminal
  <1>5. QED BY <1>1, <1>2, <1>3, <1>4 DEF CheckStep

LEMMA LaunchStepRun ==
  ASSUME TypeOK, LaunchInvariant, RunInvariant, NEW v \in Launches, LaunchStep(v)
  PROVE  RunInvariant'
  <1> USE DEF gateVars, launchVars, budgetVars, closingVars, NoEvent
  <1>0. val[v] \in LaunchRows /\ target[v] \in TargetRows /\ v \in Nat /\ launches \in Nat
    BY LaunchBounds DEF TypeOK, TargetRows
  \* Who could still run is active, and the last launch.
  <1>a. \A w \in Launches : /\ proc[w] = "contacted" /\ target[w] = Untouched => val[w].intent = "ACTIVE"
                            /\ val[w].intent = "ACTIVE" => w = launches
    BY DEF LaunchInvariant, RunningIsActive, LaunchIsOrdered
  <1>b. ASSUME NEW row, val' = [val EXCEPT ![v] = row],
               row.intent = val[v].intent, row.applied = val[v].applied, row.check = val[v].check,
               UNCHANGED <<proc, target>>
        PROVE  \A w \in Launches : SameRow(w)
    BY <1>b DEF SameRow, TypeOK
  <1>1. CASE Contact(v)
    <2>1. PICK row : row = [val[v] EXCEPT !.contact = TRUE] OBVIOUS
    <2>2. /\ val'[v] = row /\ \A w \in Launches \ {v} : val'[w] = val[w]
          /\ life = RECON /\ life' = "VALIDATING" /\ UNCHANGED <<launches, target, settled, pauses, fences>>
      BY <1>1, <2>1 DEF Contact, Contactable, AwaitsContact, ClaimContact, Record, TypeOK
    <2>3. row.intent = val[v].intent /\ row.check = val[v].check /\ row.applied = val[v].applied
      BY <1>0, <2>1 DEF LaunchRows
    <2>4. \A w \in Launches : Settles(w) /\ Halts(w) BY <2>2, <2>3 DEF Settles, Halts
    <2>5. PausesHold' BY <2>2, <2>4, PausesStayHeld DEF RunInvariant, KeepsPause
    <2>6. PausedIsTouched' /\ LifeMoves BY <2>2 DEF PausedIsTouched, LifeMoves, RECON, Terminal
    <2>7. QED BY <2>2, <2>4, <2>5, <2>6, SettlingStep
  <1>2. CASE DisableInitiation(v)
    <2>1. /\ life = RECON /\ life' = "BLOCKED" /\ UNCHANGED <<launches, val, target, settled, pauses>>
          /\ fences \subseteq fences'
      BY <1>2 DEF DisableInitiation, Contactable, AwaitsContact, Record
    <2>2. \A w \in Launches : Settles(w) /\ Halts(w) BY <2>1 DEF Settles, Halts
    <2>3. PausesHold' BY <2>1, <2>2, PausesStayHeld DEF RunInvariant, KeepsPause
    <2>4. PausedIsTouched' /\ LifeMoves BY <2>1 DEF PausedIsTouched, LifeMoves, RECON, Terminal
    <2>5. QED BY <2>1, <2>2, <2>3, <2>4, SettlingStep
  <1>3. CASE \/ \E verdict \in {"PASS", "FAIL"}, billed \in BOOLEAN : Produce(v, verdict, billed)
             \/ SealNonexecution(v) \/ SealCessation(v)
    <2>1. PICK row : /\ target' = [target EXCEPT ![v] = row] /\ row # Untouched
                     /\ row.result = target[v].result \/ val[v].intent = "ACTIVE"
                     /\ target[v].halted = "interrupted" => row.halted = "interrupted"
      <3>1. CASE \E verdict \in {"PASS", "FAIL"}, billed \in BOOLEAN : Produce(v, verdict, billed)
        <4>1. PICK verdict \in {"PASS", "FAIL"}, billed \in BOOLEAN : Produce(v, verdict, billed) BY <3>1
        <4>2. PICK row : row = [target[v] EXCEPT !.result = verdict, !.billed = billed] OBVIOUS
        <4>3. target' = [target EXCEPT ![v] = row] BY <4>1, <4>2 DEF Produce, TypeOK
        <4>4. row.result = verdict /\ row.halted = target[v].halted BY <1>0, <4>2 DEF TargetRows
        <4>5. row # Untouched BY <4>4 DEF Untouched
        <4>6. val[v].intent = "ACTIVE" BY <1>a, <4>1 DEF Produce
        <4>7. QED BY <4>3, <4>4, <4>5, <4>6
      <3>2. CASE SealNonexecution(v)
        <4>1. PICK row : row = [target[v] EXCEPT !.sealed = TRUE] OBVIOUS
        <4>2. row.sealed = TRUE /\ row.result = target[v].result /\ row.halted = target[v].halted
          BY <1>0, <4>1 DEF TargetRows
        <4>3. row # Untouched BY <4>2 DEF Untouched
        <4>4. QED BY <3>2, <4>1, <4>2, <4>3 DEF SealNonexecution
      <3>3. CASE SealCessation(v)
        <4>1. PICK row, x : /\ row = [target[v] EXCEPT !.halted = x]
                            /\ x = IF target[v].result = "none" THEN "interrupted" ELSE "result"
          OBVIOUS
        <4>2. row.result = target[v].result /\ row.halted = x BY <1>0, <4>1 DEF TargetRows
        <4>3. row # Untouched BY <4>1, <4>2 DEF Untouched
        <4>4. target' = [target EXCEPT ![v] = row] /\ target[v].halted = "no" BY <3>3, <4>1 DEF SealCessation
        <4>5. QED BY <4>2, <4>3, <4>4
      <3>4. QED BY <1>3, <3>1, <3>2, <3>3
    <2>2. /\ UNCHANGED <<life, launches, val, settled, pauses, fences>>
          /\ target'[v] = row /\ \A w \in Launches \ {v} : target'[w] = target[w] /\ proc'[w] = proc[w]
      <3>1. /\ UNCHANGED <<life, launches, val, settled, pauses, fences>>
            /\ proc' = proc \/ proc' = [proc EXCEPT ![v] = "idle"]
        BY <1>3 DEF Produce, SealNonexecution, SealCessation
      <3>2. QED BY <2>1, <3>1 DEF TypeOK
    <2>3. \A w \in Launches : Settles(w) /\ Halts(w) BY <2>1, <2>2 DEF Settles, Halts
    <2>4. PausesHold' BY <2>2, <2>3, PausesStayHeld DEF RunInvariant, KeepsPause
    <2>5. PausedIsTouched' BY <2>1, <2>2 DEF RunInvariant, PausedIsTouched
    <2>6. QED BY <2>2, <2>3, <2>4, <2>5, SettlingStep DEF LifeMoves
  <1>4. CASE \E next \in Dispositions, citing \in BOOLEAN : SettleValidator(v, next, citing)
    <2>1. PICK next \in Dispositions, citing \in BOOLEAN : SettleValidator(v, next, citing) BY <1>4
    <2>2. PICK row : row = Cites(v, citing) OBVIOUS
    <2>3. row.intent = val[v].intent /\ row.check = val[v].check /\ row.applied = val[v].applied
      BY <2>2, CitesSame
    <2>4. /\ val' = [val EXCEPT ![v] = row] /\ fences' = FencesAfter(v, next)
          /\ UNCHANGED <<life, launches, proc, target, settled, pauses>>
      BY <2>1, <2>2 DEF SettleValidator, Unmoved
    <2>5. \A w \in Launches : SameRow(w) BY <1>b, <2>3, <2>4
    <2>6. \A i \in DOMAIN pauses : KeepsPause(i) BY <2>4 DEF KeepsPause, FencesAfter, Fence
    <2>7. QED BY <2>4, <2>5, <2>6, SteadyStep
  <1>5. CASE RecordCessation(v) \/ (\E current \in BOOLEAN : RecordObservation(v, current)) \/ ResolveBlocker(v)
    <2>1. PICK row : /\ val' = [val EXCEPT ![v] = row] /\ row.intent = val[v].intent
                     /\ row.check = val[v].check /\ row.applied = val[v].applied
      <3>1. CASE RecordCessation(v)
        <4>1. PICK x : val' = [val EXCEPT ![v].ceased = x] BY <3>1 DEF RecordCessation
        <4>2. PICK row : row = [val[v] EXCEPT !.ceased = x] OBVIOUS
        <4>3. row.intent = val[v].intent /\ row.check = val[v].check /\ row.applied = val[v].applied
          BY <1>0, <4>2 DEF LaunchRows
        <4>4. QED BY <4>1, <4>2, <4>3
      <3>2. CASE \E current \in BOOLEAN : RecordObservation(v, current)
        <4>1. PICK x, current : val' = [val EXCEPT ![v].seen = x, ![v].cited = {}, ![v].fresh = current]
          BY <3>2 DEF RecordObservation, ObservationRow
        <4>2. PICK row : row = [val[v] EXCEPT !.seen = x, !.cited = {}, !.fresh = current] OBVIOUS
        <4>3. row.intent = val[v].intent /\ row.check = val[v].check /\ row.applied = val[v].applied
          BY <1>0, <4>2 DEF LaunchRows
        <4>4. QED BY <4>1, <4>2, <4>3
      <3>3. CASE ResolveBlocker(v)
        <4>1. PICK row : row = [val[v] EXCEPT !.resolved = TRUE] OBVIOUS
        <4>2. row.intent = val[v].intent /\ row.check = val[v].check /\ row.applied = val[v].applied
          BY <1>0, <4>1 DEF LaunchRows
        <4>3. QED BY <3>3, <4>1, <4>2 DEF ResolveBlocker
      <3>4. QED BY <1>5, <3>1, <3>2, <3>3
    <2>2. /\ UNCHANGED <<launches, proc, target, settled, pauses>> /\ fences \subseteq fences'
          /\ life' = life \/ (life \notin Terminal /\ life' \in {"VALIDATING", RECON})
      <3>1. CASE RecordCessation(v) BY <3>1 DEF RecordCessation, Note, Record
      <3>2. CASE \E current \in BOOLEAN : RecordObservation(v, current)
        BY <3>2 DEF RecordObservation, ObservationRow, ObservedState, Record
      <3>3. CASE ResolveBlocker(v)
        BY <3>3 DEF ResolveBlocker, BlockerResolvable, Record, Terminal
      <3>4. QED BY <1>5, <3>1, <3>2, <3>3
    <2>3. \A w \in Launches : SameRow(w) BY <1>b, <2>1, <2>2
    <2>4. \A i \in DOMAIN pauses : KeepsPause(i) BY <2>2 DEF KeepsPause
    <2>5. QED BY <2>2, <2>3, <2>4, SteadyStep DEF RECON
  <1>6. CASE DenyApplication(v)
    <2>1. UNCHANGED <<life, val, proc, target, settled, pauses, launches, fences>>
      BY <1>6 DEF DenyApplication, Note, Record
    <2>2. QED BY <2>1, SteadyStep DEF SameRow, KeepsPause
  <1>7. CASE \E next \in Dispositions, all \in BOOLEAN : ProveNonexecution(v, next, all)
    <2>1. PICK next \in Dispositions, all \in BOOLEAN : ProveNonexecution(v, next, all) BY <1>7
    <2>b. PICK base : base = Cites(v, FALSE) OBVIOUS
    <2>c. PICK closes \in BOOLEAN : \E proof :
            /\ val' = [val EXCEPT ![v] = [base EXCEPT !.proof = proof, !.intent = IF closes THEN "SETTLED" ELSE @]]
            /\ FencesAfter(v, next) \ {Fence("INITIATION_DISABLED", v)} \subseteq fences'
      BY <2>1, <2>b DEF ProveNonexecution, Only
    <2>2. PICK proof, row :
            /\ base = Cites(v, FALSE)
            /\ row = [base EXCEPT !.proof = proof, !.intent = IF closes THEN "SETTLED" ELSE @]
            /\ val' = [val EXCEPT ![v] = row]
            /\ FencesAfter(v, next) \ {Fence("INITIATION_DISABLED", v)} \subseteq fences'
      BY <2>b, <2>c
    <2>3. /\ v \in Intents /\ (val[v].contact => target[v].sealed)
          /\ UNCHANGED <<launches, proc, target, settled, pauses>>
      BY <2>1 DEF ProveNonexecution, ValidatorNonexecutionPermitted
    <2>4. base \in LaunchRows BY <2>2, CitesTyped
    <2>5. /\ row.check = base.check /\ row.applied = base.applied
          /\ row.intent = IF closes THEN "SETTLED" ELSE base.intent
      BY <2>2, <2>4 DEF LaunchRows
    <2>6. base.check = val[v].check /\ base.applied = val[v].applied /\ base.intent = val[v].intent
      BY <2>2, UncitedSame
    <2>7. val'[v] = row /\ \A w \in Launches \ {v} : val'[w] = val[w] BY <2>2 DEF TypeOK
    <2>8. target[v].result = "none" /\ ~(proc[v] = "contacted" /\ target[v] = Untouched)
      BY <2>3 DEF LaunchInvariant, TargetFollowsContact, Untouched
    <2>9. \A w \in Launches : Settles(w) /\ Halts(w)
      BY <2>3, <2>5, <2>6, <2>7, <2>8 DEF Settles, Halts, Intents
    <2>10. \A i \in DOMAIN pauses : KeepsPause(i) BY <2>2 DEF KeepsPause, FencesAfter, Fence
    <2>11. PausesHold' BY <2>3, <2>9, <2>10, PausesStayHeld DEF RunInvariant
    <2>12. life' = life \/ /\ life \notin Terminal /\ life' \in {RECON, "PAUSED", "BLOCKED"}
                           /\ life' = "PAUSED" => v \in Active
      <3>1. PICK b, u, p : life' = ValidatorNonexecutionRoute(life, cursor, b, u, v \in Active, p)[1]
        BY <2>1 DEF ProveNonexecution, Record
      <3>2. QED BY <3>1 DEF ValidatorNonexecutionRoute, RECON
    <2>13. PausedIsTouched'
      <3> SUFFICES ASSUME life' = "PAUSED", NEW w \in Launches, proc'[w] = "contacted" /\ target'[w] = Untouched
                   PROVE  FALSE
        BY DEF PausedIsTouched
      <3>1. CASE life = "PAUSED" BY <2>3, <3>1 DEF RunInvariant, PausedIsTouched
      <3>2. CASE v \in Active BY <1>a, <2>3, <2>8, <3>2 DEF Active
      <3>3. QED BY <2>12, <3>1, <3>2
    <2>14. LifeMoves BY <2>12 DEF LifeMoves, RECON
    <2>15. QED BY <2>3, <2>9, <2>11, <2>13, <2>14, SettlingStep
  <1>8. CASE \E outcome \in {"PASS", "RECOVERABLE", "FINAL"} : ApplyObservation(v, outcome)
    <2>1. PICK outcome \in {"PASS", "RECOVERABLE", "FINAL"} : ApplyObservation(v, outcome) BY <1>8
    <2>2. PICK row : row = [val[v] EXCEPT !.applied = outcome, !.intent = "SETTLED"] OBVIOUS
    <2>3. /\ val'[v] = row /\ \A w \in Launches \ {v} : val'[w] = val[w]
          /\ UNCHANGED <<launches, proc, target, settled, pauses>> /\ fences \subseteq fences'
          /\ life = "VALIDATING" /\ val[v].intent = "ACTIVE"
      BY <2>1, <2>2 DEF ApplyObservation, ApplicationPermitted, TypeOK
    <2>4. row.applied = outcome /\ row.intent = "SETTLED" /\ row.check = val[v].check
      BY <1>0, <2>2 DEF LaunchRows
    <2>5. life' \in {"VALIDATING", "BLOCKED", "FAILED_FINAL"}
      <3>1. PICK to : /\ Authorized(IF outcome = "PASS" THEN "T11" ELSE "T12", life, to) /\ life' = to
        BY <2>1 DEF ApplyObservation, Record
      <3>2. QED BY <3>1, AuthorizedValidationRows
    <2>6. \A w \in Launches : Settles(w) /\ Halts(w) BY <2>3, <2>4 DEF Settles, Halts, Terminal
    <2>7. PausesHold' BY <2>3, <2>6, PausesStayHeld DEF RunInvariant, KeepsPause
    <2>8. PausedIsTouched' /\ LifeMoves BY <2>3, <2>5 DEF PausedIsTouched, LifeMoves, Terminal
    <2>9. QED BY <2>3, <2>6, <2>7, <2>8, SettlingStep
  <1>9. CASE ReconcileResult(v)
    <2>1. PICK row : row = [val[v] EXCEPT !.reconciled = TRUE] OBVIOUS
    <2>2. /\ val' = [val EXCEPT ![v] = row] /\ UNCHANGED <<launches, proc, target, settled, pauses>>
          /\ fences' = fences \ UncertaintiesOf(v) /\ life = RECON /\ life' \in LifecycleStates
          /\ val[v].seen # "no" /\ val[v].applied = "no"
      <3>1. PICK to : Authorized("T17", life, to) /\ life' = to BY <1>9 DEF ReconcileResult, Record
      <3>2. to \in LifecycleStates BY <3>1, AuthorizedValidationRows
      <3>3. QED BY <1>9, <2>1, <3>1, <3>2 DEF ReconcileResult, Reconcilable
    <2>3. row.intent = val[v].intent /\ row.check = val[v].check /\ row.applied = val[v].applied
      BY <1>0, <2>1 DEF LaunchRows
    <2>4. \A w \in Launches : SameRow(w) BY <1>b, <2>2, <2>3
    <2>5. \A w \in Launches : Settles(w) /\ Halts(w) BY <2>4 DEF SameRow, Settles, Halts
    <2>6. \A i \in DOMAIN pauses : KeepsPause(i) BY <2>2 DEF KeepsPause, UncertaintiesOf, Fence
    <2>7. PausesHold' BY <2>2, <2>5, <2>6, PausesStayHeld DEF RunInvariant
    <2>8. val[v].intent = "ACTIVE"
      <3>1. target[v].result # "none" BY <2>2 DEF LaunchInvariant, RecordsAreTrue
      <3>2. val[v].intent # "none" BY <1>0, <3>1 DEF LaunchInvariant, LaunchIsOrdered, Untouched
      <3>3. val[v].intent # "SETTLED" BY <2>2, <3>1 DEF RunInvariant, SettledIsDone, RECON, Terminal
      <3>4. QED BY <1>0, <3>2, <3>3 DEF LaunchRows
    <2>9. ~(proc[v] = "contacted" /\ target[v] = Untouched) BY <2>2, ShownIsTouched
    <2>10. PausedIsTouched' BY <1>a, <2>2, <2>8, <2>9 DEF PausedIsTouched
    <2>11. LifeMoves
      <3>1. life' # "COMPLETED" BY <1>9 DEF ReconcileResult, Record, RouteUnder, ReconciliationRoute, RECON
      <3>2. QED BY <2>2, <3>1 DEF LifeMoves, RECON, Terminal
    <2>12. QED BY <2>2, <2>5, <2>7, <2>10, <2>11, SettlingStep
  <1>10. QED BY <1>1, <1>2, <1>3, <1>4, <1>5, <1>6, <1>7, <1>8, <1>9 DEF LaunchStep

LEMMA PauseStepRun ==
  ASSUME TypeOK, LaunchInvariant, RunInvariant, NEW n \in 1..MaxPauses, PauseStep(n)
  PROVE  RunInvariant'
  <1> USE DEF gateVars, launchVars, budgetVars, closingVars
  <1>0. \A w \in Launches : val[w] \in LaunchRows BY DEF TypeOK
  <1>1. CASE \E how \in {"NONLAUNCH", "RESULT_CESSATION", "INTERRUPTION_CESSATION"} : SettlePause(n, how)
    <2>1. PICK how \in {"NONLAUNCH", "RESULT_CESSATION", "INTERRUPTION_CESSATION"} : SettlePause(n, how)
      BY <1>1
    <2>2. PICK v : v = pauses[n].launch OBVIOUS
    <2>3. /\ PauseResolvable(v, how) /\ n \in DOMAIN pauses /\ v # 0
          /\ pauses[n].mode = "active" \/ life = "PAUSED"
          /\ pauses[n].settled = "no" /\ life \in {"PAUSING", "PAUSED"} /\ life' = "PAUSED"
          /\ pauses' = [pauses EXCEPT ![n].settled = how]
          /\ val' = IF how = "RESULT_CESSATION" THEN val ELSE [val EXCEPT ![v].intent = "SETTLED"]
          /\ UNCHANGED <<launches, proc, target, fences, settled>>
      BY <2>1, <2>2 DEF SettlePause, PauseSettleable, Record
    <2>4. v \in Launches
      <3>1. pauses[n] \in PauseRows BY <2>3 DEF TypeOK
      <3>2. v \in 0..MaxLaunches BY <2>2, <3>1 DEF PauseRows
      <3>3. QED BY <2>3, <3>2, ValidationBounds DEF Launches
    <2>5. how # "RESULT_CESSATION" =>
            target[v].result = "none" /\ (val[v].proof = "certain" \/ val[v].ceased # "no")
      <3>1. CASE how = "NONLAUNCH"
        BY <2>3, <2>4, <3>1 DEF PauseResolvable, LaunchInvariant, RecordsAreTrue, TargetFollowsContact
      <3>2. CASE how = "INTERRUPTION_CESSATION"
        BY <2>3, <2>4, <3>2 DEF PauseResolvable, LaunchInvariant, TargetFollowsContact
      <3>3. QED BY <3>1, <3>2
    <2>6. how = "RESULT_CESSATION" => val[v].seen # "no" BY <2>3 DEF PauseResolvable
    <2>7. how = "INTERRUPTION_CESSATION" => target[v].halted = "interrupted" BY <2>3 DEF PauseResolvable
    <2>8. ~(proc[v] = "contacted" /\ target[v] = Untouched) BY <2>4, <2>5, <2>6, ShownIsTouched
    <2>9. how # "RESULT_CESSATION" => val[v].intent # "none"
      <3>1. LaunchHolds(v) /\ v \in Nat /\ launches \in Nat
        BY <2>4, LaunchBounds DEF LaunchInvariant, LaunchHolds, TypeOK
      <3>2. v > launches => val[v].proof = "no" /\ val[v].ceased = "no"
        BY <3>1 DEF LaunchHolds, LaunchIsOrdered, RecordsAreTrue, Untouched
      <3>3. QED BY <2>5, <3>1, <3>2 DEF LaunchHolds, LaunchIsOrdered
    <2>10. ASSUME NEW w \in Launches PROVE Settles(w) /\ Halts(w)
      <3>1. \/ val'[w] = val[w]
            \/ val'[w] = [val[w] EXCEPT !.intent = "SETTLED"] /\ w = v /\ how # "RESULT_CESSATION"
        <4>1. CASE how = "RESULT_CESSATION"
          <5>1. val' = val BY <2>3, <4>1
          <5>2. QED BY <5>1
        <4>2. CASE how # "RESULT_CESSATION" /\ w = v BY <2>3, <2>4, <4>2 DEF TypeOK
        <4>3. CASE how # "RESULT_CESSATION" /\ w # v
          <5>1. val' = [val EXCEPT ![v].intent = "SETTLED"] BY <2>3, <4>3
          <5>2. QED BY <4>3, <5>1 DEF TypeOK
        <4>4. QED BY <4>1, <4>2, <4>3
      <3>2. CASE val'[w] = val[w] BY <2>3, <3>2 DEF Settles, Halts
      <3>3. CASE val'[w] = [val[w] EXCEPT !.intent = "SETTLED"] /\ w = v /\ how # "RESULT_CESSATION"
        <4>1. /\ val'[w].intent = "SETTLED" /\ val'[w].check = val[w].check
              /\ val'[w].applied = val[w].applied
          BY <1>0, <3>3 DEF LaunchRows
        <4>2. QED BY <2>3, <2>5, <2>9, <3>3, <4>1 DEF Settles, Halts
      <3>4. QED BY <3>1, <3>2, <3>3
    <2>11. PausesHold'
      <3>1. DOMAIN pauses' = DOMAIN pauses BY <2>3 DEF TypeOK
      <3> SUFFICES ASSUME NEW i \in DOMAIN pauses
                   PROVE  /\ pauses'[i].settled = "INTERRUPTION_CESSATION" =>
                               pauses'[i].launch \in Launches /\ target'[pauses'[i].launch].halted = "interrupted"
                          /\ pauses'[i].mode = "active" /\ pauses'[i].settled = "no" =>
                               Fence("PAUSE", i) \in fences' /\ pauses'[i].launch = launches'
        BY <3>1 DEF PausesHold
      <3>2. CASE i = n
        <4>0. pauses[n] \in PauseRows BY <2>3 DEF TypeOK
        <4>1. pauses'[n] = [pauses[n] EXCEPT !.settled = how] BY <2>3 DEF TypeOK
        <4>2. pauses'[n].settled = how /\ pauses'[n].launch = v BY <2>2, <4>0, <4>1 DEF PauseRows
        <4>3. QED BY <2>3, <2>4, <2>7, <3>2, <4>2
      <3>3. CASE i # n
        <4>1. pauses'[i] = pauses[i] BY <2>3, <3>3 DEF TypeOK
        <4>2. QED BY <2>3, <4>1 DEF RunInvariant, PausesHold
      <3>4. QED BY <3>2, <3>3
    <2>12. PausedIsTouched'
      <3> SUFFICES ASSUME NEW w \in Launches, proc[w] = "contacted" /\ target[w] = Untouched PROVE FALSE
        BY <2>3 DEF PausedIsTouched
      <3>1. CASE life = "PAUSED" BY <3>1 DEF RunInvariant, PausedIsTouched
      <3>2. CASE life # "PAUSED"
        <4>1. v = launches BY <2>2, <2>3, <3>2 DEF RunInvariant, PausesHold
        <4>2. w = launches BY DEF LaunchInvariant, RunningIsActive, LaunchIsOrdered
        <4>3. QED BY <2>8, <4>1, <4>2
      <3>3. QED BY <3>1, <3>2
    <2>13. QED BY <2>3, <2>10, <2>11, <2>12, SettlingStep DEF LifeMoves, Terminal
  <1>2. CASE ResumeSettled(n) \/ ResumeValidation(n)
    <2>1. /\ UNCHANGED <<launches, val, proc, target, settled, pauses>> /\ fences' = fences \ {Fence("PAUSE", n)}
          /\ life = "PAUSED" /\ n \in DOMAIN pauses
          /\ pauses[n].settled # "no" \/ pauses[n].mode = "validation"
      BY <1>2 DEF ResumeSettled, RestsOnPause, ResumeValidation, ValidationResumable
    <2>2. life' \in {"PLANNED", "VALIDATING", "PAUSED", "BLOCKED"}
      <3>1. PICK to : Authorized("T14", life, to) /\ life' = to
        BY <1>2 DEF ResumeSettled, ResumeValidation, Record
      <3>2. QED BY <3>1, AuthorizedRows
    <2>3. \A w \in Launches : SameRow(w) BY <2>1 DEF SameRow
    <2>4. \A i \in DOMAIN pauses : KeepsPause(i) BY <2>1 DEF KeepsPause, Fence
    <2>5. QED BY <2>1, <2>2, <2>3, <2>4, SteadyStep DEF Terminal
  <1>3. CASE ResumeReconciliationPause(n)
    <2>1. /\ UNCHANGED <<launches, val, proc, target, settled, pauses>>
          /\ fences' = fences \ {Fence("RECONCILIATION_PAUSE", n)} /\ life = "PAUSED"
      BY <1>3 DEF ResumeReconciliationPause, ReconciliationPauseResumable
    <2>2. life' \in {"PLANNED", "VALIDATING", "PAUSED", "BLOCKED"}
      <3>1. PICK to : Authorized("T14", life, to) /\ life' = to
        BY <1>3 DEF ResumeReconciliationPause, Record
      <3>2. QED BY <3>1, AuthorizedRows
    <2>3. \A w \in Launches : SameRow(w) BY <2>1 DEF SameRow
    <2>4. \A i \in DOMAIN pauses : KeepsPause(i) BY <2>1 DEF KeepsPause, Fence
    <2>5. QED BY <2>1, <2>2, <2>3, <2>4, SteadyStep DEF Terminal
  <1>4. CASE RecoverSettledPause(n)
    <2>1. PICK v : v = pauses[n].launch OBVIOUS
    <2>2. /\ val' = [val EXCEPT ![v].resolved = TRUE] /\ life = "BLOCKED" /\ life' = "VALIDATING"
          /\ UNCHANGED <<launches, proc, target, fences, settled, pauses>>
      BY <1>4, <2>1 DEF RecoverSettledPause, PauseRecoverable, RestsOnPause, Record
    <2>3. ASSUME NEW w \in Launches PROVE SameRow(w)
      <3>1. val'[w] = val[w] \/ val'[w] = [val[w] EXCEPT !.resolved = TRUE] BY <2>2 DEF TypeOK
      <3>2. QED BY <1>0, <2>2, <3>1 DEF SameRow, LaunchRows
    <2>4. QED BY <2>2, <2>3, SteadyStep DEF KeepsPause, Terminal
  <1>5. QED BY <1>1, <1>2, <1>3, <1>4 DEF PauseStep

(* A new pause of an active launch is fenced, and stands on the last one. *)
LEMMA NewPauseHolds ==
  ASSUME TypeOK, PausesHold, NEW row \in PauseRows, pauses' = Append(pauses, row), fences \subseteq fences',
         UNCHANGED <<launches, target>>, row.settled = "no",
         row.mode = "active" => Fence("PAUSE", Len(pauses) + 1) \in fences' /\ row.launch = launches
  PROVE  PausesHold'
  <1> SUFFICES ASSUME NEW i \in DOMAIN pauses'
               PROVE  /\ pauses'[i].settled = "INTERRUPTION_CESSATION" =>
                           pauses'[i].launch \in Launches /\ target'[pauses'[i].launch].halted = "interrupted"
                      /\ pauses'[i].mode = "active" /\ pauses'[i].settled = "no" =>
                           Fence("PAUSE", i) \in fences' /\ pauses'[i].launch = launches'
    BY DEF PausesHold
  <1>1. pauses \in Seq(PauseRows) BY DEF TypeOK
  <1>2. CASE i = Len(pauses) + 1
    <2>1. pauses'[i] = row BY <1>1, <1>2
    <2>2. QED BY <1>2, <2>1
  <1>3. CASE i # Len(pauses) + 1
    <2>1. i \in DOMAIN pauses /\ pauses'[i] = pauses[i] BY <1>1, <1>3
    <2>2. QED BY <2>1 DEF PausesHold
  <1>4. QED BY <1>2, <1>3

LEMMA RunStepRun ==
  ASSUME TypeOK, LaunchInvariant, RunInvariant, RunStep
  PROVE  RunInvariant'
  <1> USE DEF gateVars, launchVars, budgetVars, closingVars
  <1>a. \A w \in Launches : /\ proc[w] = "contacted" /\ target[w] = Untouched => val[w].intent = "ACTIVE"
                            /\ val[w].intent = "ACTIVE" => w = launches
    BY DEF LaunchInvariant, RunningIsActive, LaunchIsOrdered
  <1>b. Active \in SUBSET Launches /\ \A w \in Launches : val[w] \in LaunchRows BY DEF Active, TypeOK
  <1>1. CASE Finalize
    <2>1. /\ life = "BLOCKED" /\ life' = "COMPLETED" /\ Active = {} /\ \A c \in Checks : Passed(c)
          /\ UNCHANGED <<launches, val, proc, target, settled, pauses, fences>>
      BY <1>1 DEF Finalize, Finalizable, Record
    <2>2. SettledHasEnded' BY <2>1 DEF SettledHasEnded, Terminal
    <2>3. SettledIsDone' /\ PausedIsTouched' BY <2>1 DEF SettledIsDone, PausedIsTouched, Terminal
    <2>4. PausesHold' BY <2>1 DEF RunInvariant, PausesHold
    <2>5. ASSUME NEW v \in Launches, target[v].result # "none" PROVE val[v].applied # "no"
      <3>1. v \in Nat /\ launches \in Nat BY LaunchBounds DEF TypeOK
      <3>2. val[v].intent # "none" BY <2>5, <3>1 DEF LaunchInvariant, LaunchIsOrdered, Untouched
      <3>3. val[v].intent = "SETTLED" BY <1>b, <2>1, <3>2 DEF Active, LaunchRows
      <3>4. QED BY <2>1, <2>5, <3>3 DEF RunInvariant, SettledIsDone, Terminal
    <2>6. CompletedIsClosed'
      <3>1. Active' = {} BY <2>1 DEF Active
      <3>2. \A c \in Checks : Passed(c)' BY <2>1, PassedSame
      <3>3. QED BY <2>1, <2>5, <3>1, <3>2 DEF CompletedIsClosed
    <2>7. QED BY <2>2, <2>3, <2>4, <2>6 DEF RunInvariant
  <1>2. CASE PauseValidation
    <2>1. PICK row \in PauseRows :
            /\ row = PauseRow("validation", PausedState) /\ ChargePaused(row)
            /\ Pause(row, "PAUSE", "VALIDATION_PAUSE_CHECKPOINTED")
      BY <1>2, PauseRowTyped DEF PauseValidation, PausedState
    <2>2. /\ row.settled = "no" /\ row.mode = "validation" /\ row.to = PausedState
      BY <2>1 DEF PauseRow
    <2>3. /\ UNCHANGED <<launches, proc, target, settled>> /\ fences \subseteq fences' /\ life' = PausedState
          /\ pauses' = Append(pauses, row) /\ life \in {"VALIDATING", RECON}
      BY <1>2, <2>1, <2>2 DEF PauseValidation, ValidationPausable, Pause, Record
    <2>4. PausesHold' BY <2>2, <2>3, NewPauseHolds DEF RunInvariant
    <2>5. \A w \in Launches : SameRow(w)
      <3>1. PICK v : v = row.launch OBVIOUS
      <3>2. CASE val' = val BY <2>3, <3>2 DEF SameRow
      <3>3. CASE val' = [val EXCEPT ![v] = Cites(v, FALSE)]
        <4> SUFFICES ASSUME NEW w \in Launches PROVE SameRow(w) OBVIOUS
        <4>1. PICK cited : cited = Cites(w, FALSE) OBVIOUS
        <4>2. cited.intent = val[w].intent /\ cited.check = val[w].check /\ cited.applied = val[w].applied
          BY <4>1, UncitedSame
        <4>3. val'[w] = val[w] \/ val'[w] = cited BY <3>3, <4>1 DEF TypeOK
        <4>4. QED BY <2>3, <4>2, <4>3 DEF SameRow
      <3>4. QED BY <2>1, <3>1, <3>2, <3>3 DEF ChargePaused
    <2>6. PausedIsTouched'
      <3> SUFFICES ASSUME life' = "PAUSED", NEW w \in Launches, proc[w] = "contacted" /\ target[w] = Untouched
                   PROVE  FALSE
        BY <2>3 DEF PausedIsTouched
      <3>1. w \in Active BY <1>a DEF Active
      <3>2. Checkpoint = "ELIGIBLE_RESULT_SETTLED"
        BY <2>3, <3>1 DEF PausedState, Checkpoint, RECON
      <3>3. Eligible(Max(Active)) BY <3>1, <3>2 DEF Checkpoint
      <3>4. Max(Active) \in Active
        <4>1. Active \in SUBSET Reservations BY <1>b, LaunchBounds
        <4>2. QED BY <3>1, <4>1, GreatestLaunch
      <3>5. Max(Active) = w BY <1>a, <3>1, <3>4 DEF Active
      <3>6. val[w].seen # "no" BY <3>3, <3>5 DEF Eligible
      <3>7. QED BY <3>6, ShownIsTouched
    <2>7. \A w \in Launches : Settles(w) BY <2>5 DEF SameRow, Settles
    <2>8. LifeMoves BY <2>3 DEF LifeMoves, PausedState, RECON, Terminal
    <2>9. QED BY <2>3, <2>4, <2>6, <2>7, <2>8, SettlingStep
  <1>3. CASE PauseActive \/ PauseReconciliation
    <2>1. PICK row \in PauseRows :
            /\ pauses' = Append(pauses, row) /\ row.settled = "no"
            /\ row.mode = "active" => Fence("PAUSE", Len(pauses) + 1) \in fences' /\ row.launch = launches
            /\ life' \in {"PAUSING", RECON} /\ life \in {"VALIDATING", RECON}
      <3>1. CASE PauseActive
        <4>1. PICK row \in PauseRows : /\ row = PauseRow("active", "PAUSING") /\ ActivePausable(row.launch)
                                       /\ Pause(row, "PAUSE", "VALIDATION_PAUSE_CHECKPOINTED")
          BY <3>1, PauseRowTyped DEF PauseActive
        <4>2. /\ row.settled = "no" /\ row.launch = Max(Active \cup {0}) /\ row.to = "PAUSING"
          BY <4>1 DEF PauseRow
        <4>3. row.launch \in Active BY <1>b, <4>1, <4>2, LastLaunch DEF ActivePausable
        <4>4. row.launch = launches BY <1>a, <4>3 DEF Active
        <4>5. QED BY <4>1, <4>2, <4>4 DEF Pause, Record, ActivePausable
      <3>2. CASE PauseReconciliation
        <4>1. PICK row : row = ReconciliationPauseRow(cursor) OBVIOUS
        <4>2. row \in PauseRows
          BY <4>1, ValidationBounds DEF ReconciliationPauseRow, PauseRows, Checkpoints, TypeOK
        <4>3. row.settled = "no" /\ row.mode = "reconciliation" /\ row.to = RECON
          BY <4>1 DEF ReconciliationPauseRow
        <4>4. QED BY <3>2, <4>1, <4>2, <4>3 DEF PauseReconciliation, Pause, Record
      <3>3. QED BY <1>3, <3>1, <3>2
    <2>2. UNCHANGED <<launches, val, proc, target, settled>> /\ fences \subseteq fences'
      BY <1>3 DEF PauseActive, PauseReconciliation, Pause
    <2>3. PausesHold' BY <2>1, <2>2, NewPauseHolds DEF RunInvariant
    <2>4. PausedIsTouched' /\ LifeMoves BY <2>1 DEF PausedIsTouched, LifeMoves, RECON, Terminal
    <2>5. \A w \in Launches : Settles(w) BY <2>2 DEF Settles
    <2>6. QED BY <2>2, <2>3, <2>4, <2>5, SettlingStep
  <1>4. CASE \E mode \in {"GRACEFUL", "IMMEDIATE"} : Stop(mode)
    <2>1. PICK mode \in {"GRACEFUL", "IMMEDIATE"} : Stop(mode) BY <1>4
    <2>2. PICK charged :
            /\ val' = [v \in Launches |-> IF v \in charged THEN Cites(v, FALSE) ELSE val[v]]
            /\ UNCHANGED <<launches, proc, target, settled, pauses>> /\ fences \subseteq fences'
            /\ life' = "STOPPED"
      BY <2>1 DEF Stop, Record
    <2>3. life \notin Terminal
      BY <2>1, AuthorizedRows DEF Stop, Nonterminal
    <2>4. ASSUME NEW w \in Launches PROVE SameRow(w)
      <3>1. PICK cited : cited = Cites(w, FALSE) OBVIOUS
      <3>2. cited.intent = val[w].intent /\ cited.check = val[w].check /\ cited.applied = val[w].applied
        BY <3>1, UncitedSame
      <3>3. val'[w] = val[w] \/ val'[w] = cited BY <2>2, <3>1
      <3>4. QED BY <2>2, <3>2, <3>3 DEF SameRow
    <2>5. QED BY <2>2, <2>3, <2>4, SteadyStep DEF KeepsPause
  <1>5. CASE (\E known \in BOOLEAN : IntakeLateReceipt(known)) \/ (\E next \in Dispositions : SettleOperation(next))
    <2>1. PICK next : /\ FencesAfter(0, next) \subseteq fences'
                      /\ UNCHANGED <<life, launches, val, proc, target, settled, pauses>>
      <3>1. CASE \E known \in BOOLEAN : IntakeLateReceipt(known) BY <3>1 DEF IntakeLateReceipt, Note, Record
      <3>2. CASE \E next \in Dispositions : SettleOperation(next) BY <3>2 DEF SettleOperation, Unmoved
      <3>3. QED BY <1>5, <3>1, <3>2
    <2>2. \A i \in DOMAIN pauses : KeepsPause(i) BY <2>1 DEF KeepsPause, FencesAfter, Fence
    <2>3. QED BY <2>1, <2>2, SteadyStep DEF SameRow
  <1>6. CASE \E scope \in OtherScopes : FenceOther(scope)
    <2>1. UNCHANGED <<life, launches, val, proc, target, settled, pauses>> BY <1>6 DEF FenceOther, NoEvent
    <2>2. \A i \in DOMAIN pauses : KeepsPause(i) BY <1>6 DEF FenceOther, OtherScopes, KeepsPause, Fence
    <2>3. QED BY <2>1, <2>2, SteadyStep DEF SameRow
  <1>7. QED BY <1>1, <1>2, <1>3, <1>4, <1>5, <1>6 DEF RunStep

(* What a run that is paused, completed or ended may still have under way. *)
THEOREM RunsHold == Spec => []RunInvariant
  <1>1. Init => RunInvariant
    <2> SUFFICES ASSUME Init PROVE RunInvariant OBVIOUS
    <2>1. \A v \in Launches : val[v] = Unlaunched BY DEF Init
    <2>2. life \in {"VALIDATING", "STOPPED"} /\ pauses = << >> /\ \A c \in Checks : settled[c] = "no"
      BY DEF Init
    <2>3. SettledHasEnded /\ PausesHold /\ CompletedIsClosed /\ PausedIsTouched
      BY <2>2 DEF SettledHasEnded, PausesHold, CompletedIsClosed, PausedIsTouched
    <2>4. SettledIsDone BY <2>1 DEF SettledIsDone, Unlaunched
    <2>5. QED BY <2>3, <2>4 DEF RunInvariant
  <1>2. TypeOK /\ LaunchInvariant /\ RunInvariant /\ [Next]_vars => RunInvariant'
    <2> SUFFICES ASSUME TypeOK, LaunchInvariant, RunInvariant, [Next]_vars PROVE RunInvariant' OBVIOUS
    <2>1. CASE Next
      BY <2>1, RunStepRun, CheckStepRun, LaunchStepRun, PauseStepRun DEF Next
    <2>2. CASE UNCHANGED vars
      <3>1. UNCHANGED <<life, launches, val, proc, target, settled, pauses, fences>>
        BY <2>2 DEF vars, runVars, launchVars, closingVars
      <3>2. QED BY <3>1, SteadyStep DEF SameRow, KeepsPause
    <2>3. QED BY <2>1, <2>2
  <1>3. QED BY <1>1, <1>2, TypesHold, LaunchesHold, PTL DEF Spec

(* PausedIsQuiet: no pause, settlement of a pause, proof or reconciliation *)
(* leaves a paused run with a launch that could still produce a result     *)
(* (pause_validation, settle_validation_pause, reconcile_validator_result).*)
THEOREM PausedRunsAreQuiet == Spec => []PausedIsQuiet
  <1>1. RunInvariant => PausedIsQuiet
    BY DEF RunInvariant, PausedIsTouched, PausedIsQuiet, CanRun, Contactable, AwaitsContact, RECON, Intents
  <1>2. QED BY <1>1, RunsHold, PTL

(* CompletedIsValidated: what _finalize_operation reads of the store is    *)
(* true of the targets: every check passed there, and no result is left    *)
(* out or still to come.                                                   *)
THEOREM CompletedRunsAreValidated == Spec => []CompletedIsValidated
  <1>1. TypeOK /\ LaunchInvariant /\ RunInvariant => CompletedIsValidated
    <2> SUFFICES ASSUME TypeOK, LaunchInvariant, RunInvariant, life = "COMPLETED"
                 PROVE  /\ \A c \in Checks : LastApplied(c) # 0 /\ target[LastApplied(c)].result = "PASS"
                        /\ \A v \in Intents : ~CanRun(v) /\ (target[v].result # "none" => val[v].applied # "no")
      BY DEF CompletedIsValidated
    <2>1. ASSUME NEW c \in Checks PROVE LastApplied(c) # 0 /\ target[LastApplied(c)].result = "PASS"
      <3>1. Passed(c) BY DEF RunInvariant, CompletedIsClosed
      <3>2. LastApplied(c) # 0 /\ val[LastApplied(c)].applied = "PASS"
        BY <3>1 DEF Passed, LatestApplication
      <3>3. {v \in LaunchesOf(c) : val[v].applied # "no"} \in SUBSET Launches BY DEF LaunchesOf, Intents
      <3>4. LastApplied(c) \in Launches BY <3>2, <3>3, LastLaunch DEF LastApplied
      <3>5. QED BY <3>2, <3>4 DEF LaunchInvariant, RecordsAreTrue
    <2>2. ASSUME NEW v \in Intents PROVE ~CanRun(v) /\ (target[v].result # "none" => val[v].applied # "no")
      <3>1. v \in Launches /\ val[v].intent # "ACTIVE" BY DEF Intents, RunInvariant, CompletedIsClosed, Active
      <3>2. QED BY <3>1, RunningIsLast DEF RunInvariant, CompletedIsClosed
    <2>3. QED BY <2>1, <2>2
  <1>2. QED BY <1>1, TypesHold, LaunchesHold, RunsHold, PTL

-----------------------------------------------------------------------------
(* The slot. *)

(* What is closed owes nothing. *)
LEMMA ClosedOwesNothing ==
  ASSUME NEW d, NEW observed, NEW settling, NEW source, AccountingClosed(d, observed, settling, source)
  PROVE  /\ observed /\ \A r \in Reservations : d[r] \notin {"RESERVED", "UNKNOWN"}
         /\ \A v \in Intents : val[v].intent = "SETTLED" \/ v = settling
  BY DEF AccountingClosed, Known, KnownDispositions

(* What SlotReleaseIsClosed says of a step. *)
ReleaseIsClosed ==
  slot # slot' =>
    /\ ~slot' /\ receipt'
    /\ \A r \in Reservations : disp'[r] \notin {"RESERVED", "UNKNOWN"}
    /\ Active' = {} /\ \A v \in Intents : ~CanRun(v)

LEMMA SteadySlot ==
  ASSUME slot' = slot
  PROVE  ReleaseIsClosed
  BY DEF ReleaseIsClosed

(* Only active launches, of which there are none but perhaps the one being *)
(* settled, can run.                                                       *)
LEMMA SettledCannotRun ==
  ASSUME LaunchInvariant, NEW settling,
         \A v \in Intents : val[v].intent = "SETTLED" \/ v = settling,
         settling \in Launches =>
           life # RECON /\ ~(proc[settling] = "contacted" /\ target[settling] = Untouched)
  PROVE  \A v \in Intents : ~CanRun(v)
  <1> SUFFICES ASSUME NEW v \in Intents, CanRun(v) PROVE FALSE OBVIOUS
  <1>1. v \in Launches BY DEF Intents
  <1>2. val[v].intent = "ACTIVE" BY <1>1, RunningIsLast
  <1>3. v = settling BY <1>2
  <1>4. QED BY <1>1, <1>3 DEF CanRun, Contactable, AwaitsContact

LEMMA CheckStepSlot ==
  ASSUME TypeOK, LaunchInvariant, NEW c \in Checks, CheckStep(c)
  PROVE  ReleaseIsClosed
  <1> USE DEF closingVars
  <1>1. CASE \E status \in {"PASS", "FAIL"} : RecordGateFact(c, status)
    BY <1>1, SteadySlot DEF RecordGateFact
  <1>2. CASE EvaluateLaunch(c) \/ BlockLaunch(c) \/ ResolveLaunchBlocker(c) \/ CommitValidator(c)
    BY <1>2, SteadySlot DEF EvaluateLaunch, BlockLaunch, ResolveLaunchBlocker, CommitValidator
  <1>3. CASE \E source \in SettlementSources : SettleTerminal(c, source)
    <2>1. PICK source \in SettlementSources : SettleTerminal(c, source) BY <1>3
    <2>2. PICK v, settling : /\ v = Max(LaunchesOf(c) \cup {0})
                             /\ settling = IF source = "VALIDATION_APPLICATION" THEN 0 ELSE v
      OBVIOUS
    <2>3. /\ slot = TRUE /\ life \in {"STOPPED", "FAILED_FINAL"} /\ SourceShows(v, source)
          /\ slot' = ~SettlementReleases(c, v, source)
          /\ val' = IF v = 0 THEN val ELSE [val EXCEPT ![v].intent = "SETTLED"]
          /\ UNCHANGED <<disp, receipt>>
      BY <2>1, <2>2 DEF SettleTerminal, TerminallySettleable, budgetVars, TypeOK
    <2> SUFFICES ASSUME slot # slot' PROVE ReleaseIsClosed BY DEF ReleaseIsClosed
    <2>4. AccountingClosed(disp, receipt, settling, source) /\ ~slot'
      BY <2>2, <2>3 DEF SettlementReleases
    <2>5. /\ receipt /\ \A r \in Reservations : disp[r] \notin {"RESERVED", "UNKNOWN"}
          /\ \A w \in Intents : val[w].intent = "SETTLED" \/ w = settling
      BY <2>4, ClosedOwesNothing
    <2>6. settling \in Launches => ~(proc[settling] = "contacted" /\ target[settling] = Untouched)
      BY <2>2, <2>3, SourceIsTouched, LaunchBounds
    <2>7. \A w \in Intents : ~CanRun(w) BY <2>3, <2>5, <2>6, SettledCannotRun DEF RECON
    <2>8. Active' = {}
      <3> SUFFICES ASSUME NEW w \in Launches PROVE val'[w].intent # "ACTIVE" BY DEF Active
      <3>0. val[w] \in LaunchRows BY DEF TypeOK
      <3>1. CASE w = v /\ v # 0
        <4>1. val'[w] = [val[w] EXCEPT !.intent = "SETTLED"] BY <2>3, <3>1 DEF TypeOK
        <4>2. QED BY <3>0, <4>1 DEF LaunchRows
      <3>2. CASE ~(w = v /\ v # 0)
        <4>1. w # v /\ w # 0 BY <3>2, LaunchBounds
        <4>2. val'[w] = val[w]
          <5>1. CASE v = 0 BY <2>3, <5>1
          <5>2. CASE v # 0
            <6>1. val' = [val EXCEPT ![v].intent = "SETTLED"] BY <2>3, <5>2
            <6>2. QED BY <4>1, <6>1 DEF TypeOK
          <5>3. QED BY <5>1, <5>2
        <4>3. w # settling BY <2>2, <4>1
        <4>4. QED BY <2>5, <4>2, <4>3 DEF Intents
      <3>3. QED BY <3>1, <3>2
    <2>9. QED BY <2>3, <2>4, <2>5, <2>7, <2>8 DEF ReleaseIsClosed
  <1>4. QED BY <1>1, <1>2, <1>3 DEF CheckStep

LEMMA LaunchStepSlot ==
  ASSUME TypeOK, LaunchInvariant, NEW v \in Launches, LaunchStep(v)
  PROVE  ReleaseIsClosed
  <1> USE DEF closingVars
  <1>1. CASE Contact(v) \/ DisableInitiation(v) \/ SealNonexecution(v) \/ SealCessation(v)
    BY <1>1, SteadySlot DEF Contact, ClaimContact, DisableInitiation, SealNonexecution, SealCessation
  <1>2. CASE \E verdict \in {"PASS", "FAIL"}, billed \in BOOLEAN : Produce(v, verdict, billed)
    BY <1>2, SteadySlot DEF Produce
  <1>3. CASE \E next \in Dispositions, citing \in BOOLEAN : SettleValidator(v, next, citing)
    BY <1>3, SteadySlot DEF SettleValidator
  <1>4. CASE \E next \in Dispositions, all \in BOOLEAN : ProveNonexecution(v, next, all)
    BY <1>4, SteadySlot DEF ProveNonexecution
  <1>5. CASE \/ RecordCessation(v) \/ DenyApplication(v) \/ ResolveBlocker(v) \/ ReconcileResult(v)
             \/ \E current \in BOOLEAN : RecordObservation(v, current)
    BY <1>5, SteadySlot
    DEF RecordCessation, RecordObservation, ObservationRow, DenyApplication, ResolveBlocker, ReconcileResult
  <1>6. CASE \E outcome \in {"PASS", "RECOVERABLE", "FINAL"} : ApplyObservation(v, outcome)
    <2>1. PICK outcome \in {"PASS", "RECOVERABLE", "FINAL"} : ApplyObservation(v, outcome) BY <1>6
    <2> SUFFICES ASSUME slot # slot' PROVE ReleaseIsClosed BY DEF ReleaseIsClosed
    <2>2. /\ ~slot' /\ AccountingClosed(disp, receipt, v, "VALIDATOR_OBSERVATION")
      BY <2>1 DEF ApplyObservation, ApplicationReleases, TypeOK
    <2>3. /\ life = "VALIDATING" /\ val[v].seen # "no" /\ UNCHANGED <<disp, receipt>>
          /\ val' = [val EXCEPT ![v] = [val[v] EXCEPT !.applied = outcome, !.intent = "SETTLED"]]
      BY <2>1 DEF ApplyObservation, ApplicationPermitted, budgetVars, TypeOK
    <2>4. /\ receipt /\ \A r \in Reservations : disp[r] \notin {"RESERVED", "UNKNOWN"}
          /\ \A w \in Intents : val[w].intent = "SETTLED" \/ w = v
      BY <2>2, ClosedOwesNothing
    <2>5. ~(proc[v] = "contacted" /\ target[v] = Untouched) BY <2>3, ShownIsTouched
    <2>6. \A w \in Intents : ~CanRun(w) BY <2>3, <2>4, <2>5, SettledCannotRun DEF RECON
    <2>7. Active' = {}
      <3> SUFFICES ASSUME NEW w \in Launches PROVE val'[w].intent # "ACTIVE" BY DEF Active
      <3>1. CASE w = v
        <4>1. val[v] \in LaunchRows BY DEF TypeOK
        <4>2. val'[v] = [val[v] EXCEPT !.applied = outcome, !.intent = "SETTLED"] BY <2>3 DEF TypeOK
        <4>3. QED BY <3>1, <4>1, <4>2 DEF LaunchRows
      <3>2. CASE w # v
        <4>1. val'[w] = val[w] BY <2>3, <3>2 DEF TypeOK
        <4>2. QED BY <2>4, <3>2, <4>1 DEF Intents
      <3>3. QED BY <3>1, <3>2
    <2>8. QED BY <2>2, <2>3, <2>4, <2>6, <2>7 DEF ReleaseIsClosed
  <1>7. QED BY <1>1, <1>2, <1>3, <1>4, <1>5, <1>6 DEF LaunchStep

LEMMA PauseStepSlot ==
  ASSUME NEW n \in 1..MaxPauses, PauseStep(n)
  PROVE  ReleaseIsClosed
  BY SteadySlot DEF PauseStep, SettlePause, ResumeSettled, ResumeValidation, RecoverSettledPause,
                    ResumeReconciliationPause, closingVars

LEMMA RunStepSlot ==
  ASSUME TypeOK, LaunchInvariant, RunStep
  PROVE  ReleaseIsClosed
  <1> USE DEF closingVars
  <1>1. CASE PauseValidation \/ PauseActive \/ PauseReconciliation \/ (\E scope \in OtherScopes : FenceOther(scope))
    BY <1>1, SteadySlot DEF PauseValidation, PauseActive, PauseReconciliation, Pause, FenceOther
  <1>2. CASE \/ \E mode \in {"GRACEFUL", "IMMEDIATE"} : Stop(mode)
             \/ \E next \in Dispositions : SettleOperation(next)
    BY <1>2, SteadySlot DEF Stop, SettleOperation
  <1>3. CASE Finalize \/ \E known \in BOOLEAN : IntakeLateReceipt(known)
    <2> SUFFICES ASSUME slot # slot' PROVE ReleaseIsClosed BY DEF ReleaseIsClosed
    <2>1. PICK d, observed : /\ AccountingClosed(d, observed, 0, "no") /\ ~slot' /\ (observed => receipt')
                             /\ d = disp' /\ val' = val
      <3>1. CASE Finalize
        BY <3>1 DEF Finalize, Finalizable, budgetVars, launchVars
      <3>2. CASE \E known \in BOOLEAN : IntakeLateReceipt(known)
        <4>1. PICK known \in BOOLEAN : IntakeLateReceipt(known) BY <3>2
        <4>2. PICK d : d = disp' OBVIOUS
        <4>3. ReceiptReleases(d) /\ ~slot' BY <4>1, <4>2 DEF IntakeLateReceipt, TypeOK
        <4>4. PICK observed : observed = TRUE OBVIOUS
        <4>5. AccountingClosed(d, observed, 0, "no") BY <4>3, <4>4 DEF ReceiptReleases
        <4>6. QED BY <4>1, <4>2, <4>3, <4>5 DEF IntakeLateReceipt, launchVars
      <3>3. QED BY <1>3, <3>1, <3>2
    <2>2. /\ receipt' /\ \A r \in Reservations : disp'[r] \notin {"RESERVED", "UNKNOWN"}
          /\ \A w \in Intents : val[w].intent = "SETTLED" \/ w = 0
      BY <2>1, ClosedOwesNothing
    <2>3. \A w \in Intents : ~CanRun(w) BY <2>2, SettledCannotRun, LaunchBounds
    <2>4. Active' = {} BY <2>1, <2>2, LaunchBounds DEF Active, Intents
    <2>5. QED BY <2>1, <2>2, <2>3, <2>4 DEF ReleaseIsClosed
  <1>4. QED BY <1>1, <1>2, <1>3 DEF RunStep

(* SlotReleaseIsClosed: each of the four operations that give the slot     *)
(* back (_finalize_operation, a final failure, settle_terminal_validation, *)
(* a late receipt) does so only when nothing is owed, active or running.   *)
THEOREM SlotReleasesAreClosed == Spec => SlotReleaseIsClosed
  <1>1. TypeOK /\ LaunchInvariant /\ [Next]_vars => [ReleaseIsClosed]_vars
    <2> SUFFICES ASSUME TypeOK, LaunchInvariant, [Next]_vars PROVE [ReleaseIsClosed]_vars OBVIOUS
    <2>1. CASE Next
      BY <2>1, RunStepSlot, CheckStepSlot, LaunchStepSlot, PauseStepSlot DEF Next
    <2>2. CASE UNCHANGED vars BY <2>2
    <2>3. QED BY <2>1, <2>2
  <1>2. QED BY <1>1, TypesHold, LaunchesHold, PTL DEF Spec, SlotReleaseIsClosed, ReleaseIsClosed
=============================================================================
