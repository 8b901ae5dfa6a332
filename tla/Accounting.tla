----------------------------- MODULE Accounting -----------------------------
(***************************************************************************)
(* The budget arithmetic of the delivery control plane: which settlement   *)
(* may follow which, what it charges, and when it is a breach.  These are  *)
(* the pure functions of storage.py that the writer and the replaying      *)
(* reader both call.                                                       *)
(***************************************************************************)
EXTENDS Integers

(* A usage or an amount the receipt does not state (None in the code). *)
NoAmount == -1

(* BudgetDisposition; "NONE" is a reservation not yet created by an intent. *)
Dispositions == {"RESERVED", "CONSUMED", "ADJUSTED", "UNKNOWN", "RELEASED"}

KnownDispositions == {"CONSUMED", "ADJUSTED"}

(* _SETTLEMENT_TRANSITIONS: the dispositions that may follow each one. *)
SettlementTransitions ==
  [ RESERVED |-> {"CONSUMED", "RELEASED", "UNKNOWN"},
    CONSUMED |-> {"ADJUSTED", "UNKNOWN"},
    ADJUSTED |-> {"ADJUSTED", "RELEASED", "UNKNOWN"},
    UNKNOWN  |-> {"ADJUSTED", "RELEASED", "UNKNOWN"},
    RELEASED |-> {"ADJUSTED", "UNKNOWN"} ]

(* A settlement of unknown accounting on top of known usage adds a second  *)
(* liability; the request must say so, and must not say so otherwise.      *)
ExpectedAdditionalLiability(current, next) ==
  next = "UNKNOWN" /\ current \in KnownDispositions

(* _derive_settlement_accounting: when it does not raise ... *)
SettlementAllowed(current, next, actual, additional, nonDispatch, zero) ==
  /\ next \in SettlementTransitions[current]
  /\ additional = ExpectedAdditionalLiability(current, next)
  /\ next = "UNKNOWN" => actual = NoAmount
  /\ next = "RELEASED" => nonDispatch /\ zero
  /\ next \in KnownDispositions => actual # NoAmount

(* A variant with a bug, for sensitivity: unknown usage is charged as      *)
(* stated instead of at its worst case.                                    *)
SettledChargeAsStated(current, charged, worst, next, actual) ==
  IF next = "RELEASED" THEN 0 ELSE actual

(* ... and the charge it returns (nothing stays held, and the accounting   *)
(* is uncertain exactly when the disposition is UNKNOWN).                  *)
SettledCharge(current, charged, worst, next, actual) ==
  IF ExpectedAdditionalLiability(current, next) THEN charged + worst
  ELSE IF next = "UNKNOWN" THEN (IF charged > worst THEN charged ELSE worst)
  ELSE IF next = "RELEASED" THEN 0 ELSE actual

(* A variant with a bug: an overrun within the cap is not a breach. *)
BreachOnlyOverCap(disp, charged, reserved, cap) == charged > cap

(* _is_budget_breach: an overrun of the cap, or known usage above what was *)
(* reserved.                                                               *)
IsBudgetBreach(disp, charged, reserved, cap) ==
  charged > cap \/ (disp \in KnownDispositions /\ charged > reserved)

(* The disposition an effect receipt settles its reservation to: a receipt *)
(* that states its usage makes it known, one that does not leaves a known  *)
(* head open to an additional liability.                                   *)
ReceiptDisposition(current, usage) ==
  IF usage = NoAmount THEN "UNKNOWN"
  ELSE IF current = "RESERVED" THEN "CONSUMED" ELSE "ADJUSTED"
=============================================================================
