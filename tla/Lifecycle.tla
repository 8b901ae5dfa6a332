------------------------------ MODULE Lifecycle ------------------------------
(***************************************************************************)
(* The lifecycle tables of the control plane.  Transitions is the writer's *)
(* deny-by-default table (engine.py); LifecycleRoutes is the table against *)
(* which replay accepts an event's (from, to) pair (storage.py).  The two  *)
(* are written separately in the code, so that they agree on every step    *)
(* the writer takes is something to check, not to assume.  Below them are  *)
(* the pure functions that derive the state a handler routes a run to.     *)
(***************************************************************************)
EXTENDS Accounting

LifecycleStates ==
  {"PLANNED", "RUNNING", "PAUSING", "PAUSED", "VALIDATING",
   "RECONCILIATION_REQUIRED", "BLOCKED", "FAILED_FINAL", "COMPLETED", "STOPPED"}

Terminal == {"COMPLETED", "FAILED_FINAL", "STOPPED"}

Nonterminal == LifecycleStates \ Terminal

(* A run with no accepted plan has no row in the runs table. *)
Absent == "ABSENT"

(* TRANSITIONS: the states each transition may leave and may reach. *)
Transitions ==
  LET Row(from, to) == [from |-> from, to |-> to]
      RECON == "RECONCILIATION_REQUIRED"
      Any   == Row(LifecycleStates, LifecycleStates)
      Stop  == Row(Nonterminal, {"STOPPED"})
      Pause == Row({"RUNNING"}, {"PAUSING", RECON})
  IN [ T01 |-> Row({Absent}, {"PLANNED"}),
       T02 |-> Row({"PLANNED", "BLOCKED"}, {"PLANNED", "BLOCKED"}),
       T03 |-> Row({"PLANNED"}, {"RUNNING"}),
       T04 |-> Row({"PLANNED", "BLOCKED"}, {"PAUSED"}),
       T05 |-> Pause,
       T06 |-> Pause,
       T07 |-> Row({"PAUSING"}, {"PAUSED", RECON}),
       T08 |-> Row({"VALIDATING"}, {"PAUSING", "PAUSED", RECON}),
       T09 |-> Row({RECON}, {RECON}),
       T10 |-> Row({"RUNNING", "PAUSING"}, {"VALIDATING", "PAUSING", RECON}),
       T11 |-> Row({"VALIDATING"}, {"VALIDATING", "BLOCKED"}),
       T12 |-> Row({"VALIDATING"}, {"BLOCKED", "FAILED_FINAL"}),
       T13 |-> Any,
       T14 |-> Row({"PAUSED"}, {"PLANNED", "VALIDATING", "PAUSED", "BLOCKED"}),
       T15 |-> Row(Nonterminal, {"PAUSED", "BLOCKED", RECON}),
       T16 |-> Row({"BLOCKED"}, {"PLANNED", "VALIDATING", "PAUSED", "COMPLETED"}),
       T17 |-> Row({RECON}, {RECON, "PAUSED", "BLOCKED", "VALIDATING",
                             "PLANNED", "STOPPED", "FAILED_FINAL"}),
       T18 |-> Stop,
       T19 |-> Stop,
       T20 |-> Row({"STOPPED"}, {"STOPPED"}),
       T21 |-> Any,
       T22 |-> Row(Terminal, Terminal),
       T23 |-> Any,
       T24 |-> Any,
       T25 |-> Any,
       T26 |-> Row({"STOPPED", "FAILED_FINAL"}, {"STOPPED", "FAILED_FINAL"}),
       T27 |-> Row({"VALIDATING"}, {"VALIDATING", "BLOCKED"}),
       T28 |-> Row({"PLANNED", "BLOCKED"}, {"VALIDATING"}) ]

(* A variant with a bug: only the reached state is looked up. *)
AuthorizedTarget(t, from, to) == to \in Transitions[t].to

(* TransitionEngine.authorize.  Production callers pass every guard as     *)
(* satisfied, so the row and the terminal rule are what it decides.        *)
Authorized(t, from, to) ==
  /\ from \in Transitions[t].from
  /\ to \in Transitions[t].to
  /\ from \in Terminal => to = from

(* _LIFECYCLE_ROUTES: the pairs replay accepts, for the event kinds of the *)
(* operation side.                                                         *)
PreserveRoutes == {<<s, s>> : s \in LifecycleStates}

SpecializedRoutes == LifecycleStates \X LifecycleStates

LifecycleRoutes ==
  LET RECON == "RECONCILIATION_REQUIRED"
  IN [ ADAPTER_CONTACT_CLAIMED  |-> PreserveRoutes \cup {<<RECON, "VALIDATING">>},
       BLOCKER_RESOLVED         |-> {"BLOCKED"} \X {"PLANNED", "VALIDATING"},
       INTENT_COMMITTED         |-> {<<"PLANNED", "RUNNING">>},
       LATE_RECEIPT_RECORDED    |-> SpecializedRoutes,
       NONDISPATCH_PROVEN       |-> SpecializedRoutes,
       OPERATION_LAUNCH_CLAIMED |-> {"RUNNING"} \X {"RUNNING", RECON},
       PAUSE_REQUESTED          |-> {<<"PLANNED", "PLANNED">>, <<"BLOCKED", "BLOCKED">>,
                                     <<"RUNNING", "PAUSING">>, <<"RUNNING", RECON>>,
                                     <<RECON, RECON>>},
       PAUSE_FENCE_RECORDED     |-> {<<RECON, RECON>>},
       PAUSE_SETTLED            |-> {"PLANNED", "BLOCKED", "PAUSING", "PAUSED"} \X {"PAUSED"},
       PLAN_ACCEPTED            |-> {<<Absent, "PLANNED">>},
       READINESS_EVALUATED      |-> {"PLANNED", "BLOCKED"} \X {"PLANNED", "BLOCKED"},
       RECEIPT_RECORDED         |-> SpecializedRoutes,
       RECONCILIATION_RECORDED  |-> {RECON} \X {RECON, "PAUSED", "BLOCKED", "VALIDATING",
                                                "PLANNED", "STOPPED", "FAILED_FINAL"},
       RESUME_ACCEPTED          |-> {"PAUSED"} \X {"PLANNED", "VALIDATING", "PAUSED", "BLOCKED"},
       STOP_RECORDED            |-> Nonterminal \X {"STOPPED"},
       STOP_ESCALATED           |-> {<<"STOPPED", "STOPPED">>} ]

-----------------------------------------------------------------------------
(* Continuation cursors.  The code stores a typed string that names the    *)
(* launch, attempt or observation; the attempt's generation identifies it. *)
CursorKinds == {"operation-launch", "operation-effect", "operation-recovery",
                "operation-validation", "pending-validation"}

NullCursor == [kind |-> "none", gen |-> 0]

Cursor(kind, gen) == [kind |-> kind, gen |-> gen]

(* A handler that would raise instead of returning a state. *)
Denied == "DENIED"

(* _derive_resume_route, for the cursors a run can be paused on before     *)
(* dispatch: only a run with no cursor has a typed continuation.           *)
ResumeRoute(preserved, cur, blockers) ==
  IF blockers # {} THEN "BLOCKED"
  ELSE IF preserved \in {"PLANNED", "BLOCKED"} /\ cur = NullCursor THEN "PLANNED"
  ELSE IF preserved = "VALIDATING" /\ cur = NullCursor THEN "VALIDATING" ELSE Denied

(* _derive_effect_observation_route: the transition, and the state reached *)
(* by a receipt whose billing or source/control classification may still   *)
(* be unknown.                                                             *)
ObservationTransition(ordinary, reconciles) ==
  IF ordinary THEN "T10" ELSE IF reconciles THEN "T17" ELSE "T23"

(* Variants with a bug: a receipt moves a terminal run like any other, or  *)
(* hides what it leaves unknown.                                           *)
RouteReopens(state, unknown, ordinary, reconciles) ==
  IF reconciles /\ ~unknown THEN "VALIDATING" ELSE "RECONCILIATION_REQUIRED"

RouteHidesUnknown(state, unknown, ordinary, reconciles) ==
  IF state \in Terminal THEN state
  ELSE IF reconciles THEN "VALIDATING" ELSE "RECONCILIATION_REQUIRED"

ObservationRoute(state, unknown, ordinary, reconciles) ==
  IF state \in Terminal THEN state
  ELSE IF ~unknown /\ (reconciles \/ (ordinary /\ state = "RUNNING")) THEN "VALIDATING"
  ELSE IF ~unknown /\ ordinary /\ state = "PAUSING" THEN "PAUSING"
  ELSE "RECONCILIATION_REQUIRED"

(* A variant with a bug: a late receipt is filed as a reconciliation. *)
LateAsReconciliation(ordinary, reconciles) ==
  IF ordinary THEN "RECEIPT_RECORDED" ELSE "RECONCILIATION_RECORDED"

ObservationEvent(ordinary, reconciles) ==
  IF ordinary THEN "RECEIPT_RECORDED"
  ELSE IF reconciles THEN "RECONCILIATION_RECORDED" ELSE "LATE_RECEIPT_RECORDED"

(* A variant with a bug: a proof pauses the run though nothing paused it. *)
NonexecutionPauses(state, cur, contradiction, uncertain, current, externalPause, gen) ==
  IF state \in Terminal THEN [life |-> state, cursor |-> cur]
  ELSE [life |-> IF uncertain THEN "RECONCILIATION_REQUIRED" ELSE "PAUSED",
        cursor |-> Cursor("operation-recovery", gen)]

(* _derive_nonexecution_route for an operation attempt of generation gen. *)
NonexecutionRoute(state, cur, contradiction, uncertain, current, externalPause, gen) ==
  LET Keep         == [life |-> state, cursor |-> cur]
      Recover(next) == [life |-> next, cursor |-> Cursor("operation-recovery", gen)]
  IN IF state \in Terminal THEN Keep
     ELSE IF contradiction \/ uncertain THEN Recover("RECONCILIATION_REQUIRED")
     ELSE IF ~current THEN Keep
     ELSE IF state = "PAUSED" \/ externalPause THEN Recover("PAUSED")
     ELSE IF state = "PAUSING" THEN Keep ELSE Recover("BLOCKED")
=============================================================================
