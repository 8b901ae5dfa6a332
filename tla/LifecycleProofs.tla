--------------------------- MODULE LifecycleProofs ---------------------------
(***************************************************************************)
(* What the lifecycle tables and the settlement arithmetic give: the facts *)
(* the proofs about the operation kernel cite instead of the tables.       *)
(***************************************************************************)
EXTENDS Lifecycle, TLAPS

(* The row of each transition the operation side requests, as the engine's *)
(* authorize decides it.                                                   *)
LEMMA AuthorizedRows ==
  ASSUME NEW from, NEW to
  PROVE  /\ Authorized("T01", from, to) => from = Absent /\ to = "PLANNED"
         /\ Authorized("T02", from, to) => /\ from \in {"PLANNED", "BLOCKED"}
                                           /\ to \in {"PLANNED", "BLOCKED"}
         /\ Authorized("T03", from, to) => from = "PLANNED" /\ to = "RUNNING"
         /\ Authorized("T04", from, to) => from \in {"PLANNED", "BLOCKED"} /\ to = "PAUSED"
         /\ Authorized("T05", from, to) => from = "RUNNING"
         /\ Authorized("T07", from, to) => from = "PAUSING"
         /\ Authorized("T09", from, to) => from = "RECONCILIATION_REQUIRED"
         /\ Authorized("T14", from, to) => /\ from = "PAUSED"
                                           /\ to \in {"PLANNED", "VALIDATING", "PAUSED", "BLOCKED"}
         /\ Authorized("T16", from, to) => from = "BLOCKED"
         /\ Authorized("T17", from, to) => from = "RECONCILIATION_REQUIRED"
         /\ Authorized("T18", from, to) => from \in Nonterminal /\ to = "STOPPED"
         /\ Authorized("T19", from, to) => from \in Nonterminal /\ to = "STOPPED"
         /\ Authorized("T20", from, to) => from = "STOPPED" /\ to = "STOPPED"
  BY DEF Authorized, Transitions

(* Whatever the transition, authorize lets no run out of a terminal state. *)
LEMMA AuthorizedKeepsTerminal ==
  ASSUME NEW t, NEW from \in Terminal, NEW to, Authorized(t, from, to)
  PROVE  to = from
  BY DEF Authorized

(* The event kinds of the replay table. *)
LEMMA EventKinds ==
  DOMAIN LifecycleRoutes =
    {"ADAPTER_CONTACT_CLAIMED", "BLOCKER_RESOLVED", "INTENT_COMMITTED", "LATE_RECEIPT_RECORDED",
     "NONDISPATCH_PROVEN", "OPERATION_LAUNCH_CLAIMED", "PAUSE_REQUESTED", "PAUSE_FENCE_RECORDED",
     "PAUSE_SETTLED", "PLAN_ACCEPTED", "READINESS_EVALUATED", "RECEIPT_RECORDED",
     "RECONCILIATION_RECORDED", "RESUME_ACCEPTED", "STOP_RECORDED", "STOP_ESCALATED"}
  BY DEF LifecycleRoutes

(* What settlements derive is a natural number of units whenever known     *)
(* usage was stated: an absent amount never reaches the ledger.            *)
LEMMA SettledChargeNat ==
  ASSUME NEW current, NEW charged \in Nat, NEW worst \in Nat, NEW next \in Dispositions \ {"RESERVED"},
         NEW actual \in Nat \cup {NoAmount}, next \in KnownDispositions => actual # NoAmount
  PROVE  SettledCharge(current, charged, worst, next, actual) \in Nat
  BY DEF SettledCharge, ExpectedAdditionalLiability, Dispositions, KnownDispositions, NoAmount

(* The transitions a receipt and a proof of non-execution request leave    *)
(* and reach recorded states only.                                         *)
LEMMA AuthorizedAnywhere ==
  ASSUME NEW t \in {"T10", "T17", "T23", "T25"}, NEW from, NEW to, Authorized(t, from, to)
  PROVE  from \in LifecycleStates /\ to \in LifecycleStates
  <1>1. CASE t = "T10" BY <1>1 DEF Authorized, Transitions, LifecycleStates
  <1>2. CASE t = "T17" BY <1>2 DEF Authorized, Transitions, LifecycleStates
  <1>3. CASE t = "T23" BY <1>3 DEF Authorized, Transitions
  <1>4. CASE t = "T25" BY <1>4 DEF Authorized, Transitions
  <1>5. QED BY <1>1, <1>2, <1>3, <1>4

(* The pairs the operation side writes, as the rows of the replay table    *)
(* have them.                                                              *)
LEMMA RouteRows ==
  /\ \A s \in LifecycleStates : <<s, s>> \in LifecycleRoutes["ADAPTER_CONTACT_CLAIMED"]
  /\ <<"BLOCKED", "PLANNED">> \in LifecycleRoutes["BLOCKER_RESOLVED"]
  /\ <<"PLANNED", "RUNNING">> \in LifecycleRoutes["INTENT_COMMITTED"]
  /\ \A s, t \in LifecycleStates : /\ <<s, t>> \in LifecycleRoutes["LATE_RECEIPT_RECORDED"]
                                   /\ <<s, t>> \in LifecycleRoutes["NONDISPATCH_PROVEN"]
                                   /\ <<s, t>> \in LifecycleRoutes["RECEIPT_RECORDED"]
  /\ <<"RUNNING", "RECONCILIATION_REQUIRED">> \in LifecycleRoutes["OPERATION_LAUNCH_CLAIMED"]
  /\ <<"RUNNING", "PAUSING">> \in LifecycleRoutes["PAUSE_REQUESTED"]
  /\ \A k \in {"PAUSE_REQUESTED", "PAUSE_FENCE_RECORDED"} :
       <<"RECONCILIATION_REQUIRED", "RECONCILIATION_REQUIRED">> \in LifecycleRoutes[k]
  /\ \A s \in {"PLANNED", "BLOCKED", "PAUSING"} : <<s, "PAUSED">> \in LifecycleRoutes["PAUSE_SETTLED"]
  /\ <<Absent, "PLANNED">> \in LifecycleRoutes["PLAN_ACCEPTED"]
  /\ \A s, t \in {"PLANNED", "BLOCKED"} : <<s, t>> \in LifecycleRoutes["READINESS_EVALUATED"]
  /\ \A t \in {"RECONCILIATION_REQUIRED", "PAUSED", "BLOCKED", "VALIDATING", "STOPPED", "FAILED_FINAL"} :
       <<"RECONCILIATION_REQUIRED", t>> \in LifecycleRoutes["RECONCILIATION_RECORDED"]
  /\ \A t \in {"PLANNED", "VALIDATING", "PAUSED", "BLOCKED"} :
       <<"PAUSED", t>> \in LifecycleRoutes["RESUME_ACCEPTED"]
  /\ \A s \in Nonterminal : <<s, "STOPPED">> \in LifecycleRoutes["STOP_RECORDED"]
  /\ <<"STOPPED", "STOPPED">> \in LifecycleRoutes["STOP_ESCALATED"]
  BY DEF LifecycleRoutes, PreserveRoutes, SpecializedRoutes

(* The rows of the transitions the validation side requests. *)
LEMMA AuthorizedValidationRows ==
  ASSUME NEW from, NEW to
  PROVE  /\ Authorized("T08", from, to) => from = "VALIDATING"
         /\ Authorized("T11", from, to) => from = "VALIDATING" /\ to \in {"VALIDATING", "BLOCKED"}
         /\ Authorized("T12", from, to) => from = "VALIDATING" /\ to \in {"BLOCKED", "FAILED_FINAL"}
         /\ Authorized("T16", from, to) => from = "BLOCKED"
         /\ Authorized("T17", from, to) => from = "RECONCILIATION_REQUIRED" /\ to \in LifecycleStates
         /\ Authorized("T24", from, to) => from \in LifecycleStates /\ to \in LifecycleStates
         /\ Authorized("T27", from, to) => from = "VALIDATING"
  <1>1. Authorized("T17", from, to) => from = "RECONCILIATION_REQUIRED" /\ to \in LifecycleStates
    BY DEF Authorized, Transitions, LifecycleStates
  <1>2. Authorized("T24", from, to) => from \in LifecycleStates /\ to \in LifecycleStates
    BY DEF Authorized, Transitions
  <1>3. QED BY <1>1, <1>2 DEF Authorized, Transitions
=============================================================================
