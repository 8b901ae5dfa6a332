----------------------- MODULE ValidationKernelReplay -----------------------
(***************************************************************************)
(* The writer of validation against its reader: ValidationKernel composed  *)
(* with ValidationReplay, as KernelReplay does for operations.  The        *)
(* refinement mapping takes each table to the projection of that name; of  *)
(* the target only what an observation or a cessation has recorded is in   *)
(* the log.                                                                *)
(*                                                                         *)
(* A writer that has appended an event its reader refuses can do nothing   *)
(* more; the model lets it go on, so every event is compared.              *)
(***************************************************************************)
EXTENDS ValidationKernel

(* The row of launch v as the log shows it. *)
LoggedRow(v) ==
  [f \in DOMAIN Unlaunched \ {"stale"} |-> val[v][f]]
  @@ [verdict |-> IF val[v].seen = "no" THEN "none" ELSE target[v].result,
      halted  |-> IF val[v].ceased = "no" THEN "no" ELSE target[v].halted]

Replay == INSTANCE ValidationReplay WITH rows <- [v \in Launches |-> LoggedRow(v)]

logVars == <<runVars, gate, closingVars, launches, [v \in Launches |-> LoggedRow(v)], disp, open,
             pauses, fences>>

Appends == logVars' # logVars

-----------------------------------------------------------------------------
(* The events that the writer appends and the reader refuses. *)

(* A terminal settlement right after an ordinary one: the reader wants the *)
(* event before it to carry the terminal state, and a BUDGET_SETTLED event *)
(* carries none.                                                           *)
AfterOrdinarySettlement ==
  kind = "BUDGET_SETTLED" /\ \E c \in Checks, source \in SettlementSources : SettleTerminal(c, source)

(* A complete claim of nonexecution whose accounting is unknown: the       *)
(* writer keeps the intent active, the reader expects it settled.          *)
CompleteButUnknown == \E v \in Launches : ProveNonexecution(v, "UNKNOWN", TRUE)

(* A denial for want of a reconciliation that is the head, of accounting   *)
(* that is known all the same.                                             *)
DeniedThoughKnown == life = "VALIDATING" /\ \E v \in Launches : Known(disp, v) /\ DenyApplication(v)

(* The end of a liability behind a second unknown settlement: the reader   *)
(* expects its fence to go.                                                *)
LingeringLiability == \E r \in Reservations : open[r] = "open" /\ open'[r] = "no"

(* A fence of another run in this one's scope after a recovery of this one. *)
FencedAfterRecovery ==
  /\ \E scope \in OtherScopes \ {"OTHER_ITEM"} : FenceOther(scope)
  /\ \E v \in Intents : val[v].resolved /\ val[v].applied = "RECOVERABLE"

(* A pause or a resume after a validation pause has been settled: its      *)
(* settlement has no fence of its own for the reader to find.              *)
PausedAgain ==
  /\ \E i \in DOMAIN pauses : pauses[i].settled # "no"
  /\ PauseValidation \/ \E n \in DOMAIN pauses : ResumeValidation(n)

Refused ==
  \/ AfterOrdinarySettlement \/ CompleteButUnknown \/ DeniedThoughKnown
  \/ LingeringLiability \/ FencedAfterRecovery \/ PausedAgain

-----------------------------------------------------------------------------
(* Apart from those, every event of validation, whichever way results,     *)
(* proofs, settlements, pauses, stops and recoveries interleave, is one    *)
(* that replay accepts with the same rows, fences, slot and cursor.        *)
ValidationHistoryReplays ==
  /\ Replay!Init
  /\ [][Appends => Replay!Next \/ Refused]_logVars
=============================================================================
