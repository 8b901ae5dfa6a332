----------------------------- MODULE KernelReplay -----------------------------
(***************************************************************************)
(* The writer against the reader: OperationKernel composed with            *)
(* OperationReplay.  Every operation of the store replays the whole log    *)
(* before it does anything, and none replays the event it has just         *)
(* appended.  An event that replay refuses is therefore committed, and     *)
(* every later operation on the repository fails.                          *)
(*                                                                         *)
(* The refinement mapping takes each table of the writer to the projection *)
(* of that name; the target, its usage, the dispatching process and the    *)
(* count of asked settlements have no counterpart in the log.              *)
(***************************************************************************)
EXTENDS OperationKernel

Replay == INSTANCE OperationReplay WITH
  life <- life, cursor <- cursor, kind <- kind, codes <- codes, ready <- ready,
  pauses <- pauses, pauseRow <- pauseRow, stopMode <- stopMode, slot <- slot, gen <- gen,
  launched <- launched, contacted <- contacted, observed <- observed, proven <- proven,
  auth <- auth, disp <- disp, charged <- charged, open <- open, released <- released,
  fences <- fences

logVars == <<runVars, pauseVars, slot, attemptVars, disp, charged, open, released, fences>>

Appends == logVars' # logVars

(* A proof of non-dispatch for an attempt that a retry has replaced.  The  *)
(* writer sees that the slot is no longer the attempt's and leaves the run *)
(* where it is; the reader asks only whether a settlement has released the *)
(* slot, expects a recovery and reports that the route of T25 diverges.    *)
ReplacedProof ==
  \E a \in Attempts : a[2] < gen[a[1]] /\ \E q \in NonexecutionClaims : ProveNondispatch(a, q)

(* A recovery under a fence that names another item and effect: the writer *)
(* looks for fences on its own scope, the reader for any fence at all.     *)
ForeignFence == \E r \in Runs : RecoverProven(r) /\ ActivityFences(fences) # {}

(* The end of a liability behind a second unknown settlement: the writer   *)
(* clears the fence of the settlement it follows, the reader expects the   *)
(* one still open to go.                                                   *)
LingeringLiability == \E a \in Attempts : open[a] = "open" /\ open'[a] = "no"

Refused == ReplacedProof \/ ForeignFence \/ LingeringLiability

(* Apart from these three and from the time after a retry's slot has been   *)
(* released, which the reader takes for a disconnected history (see        *)
(* ActivityConnected), every event the kernel appends in any interleaving  *)
(* is one that replay accepts with the same rows.                          *)
HistoryReplays ==
  /\ Replay!Init
  /\ [][Appends /\ ActivityConnected => Replay!Next \/ Refused]_logVars
=============================================================================
