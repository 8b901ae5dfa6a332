--------------------------- MODULE MCBudgetLedger ---------------------------
(* Instances of BudgetLedger for TLC: one capped dimension and one without *)
(* a ceiling.                                                              *)
EXTENDS BudgetLedger

TwoDimensions == {"calls", "cents"}

CallLimit == [d \in {"calls"} |-> 3]

SmallAmounts == {Zero, [calls |-> 1, cents |-> 0], [calls |-> 2, cents |-> 0],
                 [calls |-> 1, cents |-> 1]}
=============================================================================
