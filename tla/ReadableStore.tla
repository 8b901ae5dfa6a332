---------------------------- MODULE ReadableStore ----------------------------
(***************************************************************************)
(* The kernel over a store that must first be read.  Every operation of    *)
(* the store calls _verify_projections before it looks at anything; when   *)
(* that raises, the operation fails and so does every later one.  The      *)
(* dispatching process and the target do not read the store and go on.     *)
(*                                                                         *)
(* OperationKernel lets its operations go on over a history that the       *)
(* reader refuses, which adds behaviours and so proves no less about what  *)
(* never happens.  What can still happen needs the store to be readable.   *)
(***************************************************************************)
EXTENDS KernelReplay

(* Whether _verify_projections accepts the log. *)
VARIABLE readable

storeVars == <<vars, readable>>

StoreInit == Init /\ readable = TRUE

(* _verify_projections at the start of an operation: the log is accepted   *)
(* while each event in it was one its prefix supports.                     *)
VerifyProjections ==
  /\ Appends => readable
  /\ readable' = (readable /\ (Appends => Replay!Next))

StoreNext == Next /\ VerifyProjections

StoreSpec == StoreInit /\ [][StoreNext]_storeVars

-----------------------------------------------------------------------------
(* The receipt of an executed effect can be taken while the store can be   *)
(* read: whatever the run, its pauses, its stop and its settlements have   *)
(* come to, intake_effect_receipt has a settlement and a route for it, and *)
(* the event it appends leaves the store readable unless it ends a         *)
(* lingering liability.                                                    *)
ReceiptIsAdmissible ==
  \A a \in Attempts : readable /\ target[a] = "executed" /\ a \notin observed =>
    \A unknownControl \in BOOLEAN :
      ENABLED (IntakeReceipt(a, unknownControl) /\ (Replay!Next \/ LingeringLiability))
=============================================================================
