---------------------------- MODULE BudgetLedger ----------------------------
(***************************************************************************)
(* The budget ledger of the evaluation runner (budget.py, BudgetLedger):   *)
(* reservations before dispatch, reconciliation after it, a kill switch,   *)
(* and the store from which a restarted process continues.                 *)
(*                                                                         *)
(* A call holds the ledger's lock to its end, so calls do not interleave;  *)
(* but each event a call appends is first applied in memory, then written  *)
(* to the store, then pinned by a checkpoint file, and the process may die *)
(* or a write may fail between any two of these.  The store is represented *)
(* by what load computes from its lines, with whether the lines still form *)
(* one chain and whether the checkpoint pins the last of them.  One        *)
(* process at a time uses a store.                                         *)
(***************************************************************************)
EXTENDS Integers, Sequences, FiniteSets

CONSTANTS
  Dimensions,     \* the budget dimensions
  Limits,         \* BudgetCaps.limits, defined on the capped dimensions
  ConcurrencyCap, \* BudgetCaps.effective_concurrency_cap
  Amounts,        \* what a reservation may ask and a reconciliation state
  MaxEvents       \* bound: events of one ledger

Zero == [d \in Dimensions |-> 0]

ASSUME CapsAssumption ==
  /\ DOMAIN Limits \subseteq Dimensions
  /\ \A d \in DOMAIN Limits : Limits[d] \in Nat
  /\ ConcurrencyCap \in Nat

ASSUME AmountsAssumption == Amounts \subseteq [Dimensions -> Nat] /\ Zero \in Amounts

ASSUME EventsAssumption == MaxEvents \in Nat

VARIABLES
  up,       \* does a process have the ledger open
  mem,      \* its totals, reservations, kill switch and sequence
  store,    \* the ledger load would compute from the store's lines
  intact,   \* do the lines parse and form one chain
  anchored, \* does the checkpoint pin the store's bytes
  pending,  \* events of the call under way, the first one being written
  stage,    \* what is written next for it
  overdue,  \* has the recorded deadline passed
  granted,  \* reservations returned to a caller
  settled,  \* reservations whose actual use was accepted
  killed,   \* has a call that engages the kill switch recorded it
  faulted   \* has a write failed or been torn

vars == <<up, mem, store, intact, anchored, pending, stage, overdue,
          granted, settled, killed, faulted>>

(* reservation_id: the sequence number of the RESERVE event. *)
Ids == 1..MaxEvents

(* No reservation is all zero, so Zero marks one that is not in flight. *)
Ledgers == [reserved : [Dimensions -> Int], actual : [Dimensions -> Nat],
            released : [Dimensions -> Nat], held : [Ids -> Amounts],
            kill : BOOLEAN, drift : BOOLEAN, seq : 0..MaxEvents]

EmptyLedger == [reserved |-> Zero, actual |-> Zero, released |-> Zero,
                held |-> [i \in Ids |-> Zero], kill |-> FALSE, drift |-> FALSE, seq |-> 0]

EventKinds == {"LEDGER_OPENED", "RESERVE", "RECONCILE", "DRIFT", "DENY", "KILL_SWITCH"}

Events == [kind : EventKinds, id : 0..MaxEvents, amounts : Amounts]

Entry(kind, id, amounts) == [kind |-> kind, id |-> id, amounts |-> amounts]

(* An event that names no reservation. *)
Note(kind) == Entry(kind, 0, Zero)

TypeOK ==
  /\ up \in BOOLEAN /\ mem \in Ledgers /\ store \in Ledgers
  /\ intact \in BOOLEAN /\ anchored \in BOOLEAN
  /\ pending \in Seq(Events) /\ Len(pending) <= 2
  /\ stage \in {"append", "checkpoint"}
  /\ overdue \in BOOLEAN /\ killed \in BOOLEAN /\ faulted \in BOOLEAN
  /\ granted \in [Ids -> Amounts]
  /\ settled \subseteq Ids

Init ==
  /\ up = FALSE /\ mem = EmptyLedger /\ store = EmptyLedger
  /\ intact = TRUE /\ anchored = FALSE
  /\ pending = <<>> /\ stage = "append"
  /\ overdue = FALSE /\ killed = FALSE /\ faulted = FALSE
  /\ granted = [i \in Ids |-> Zero]
  /\ settled = {}

-----------------------------------------------------------------------------
Plus(f, g) == [d \in Dimensions |-> f[d] + g[d]]

Minus(f, g) == [d \in Dimensions |-> f[d] - g[d]]

(* A variant with a bug: an overrun in one dimension is not seen. *)
ExceedsEverywhere(f, g) == \A d \in Dimensions : f[d] > g[d]

(* Is the use f more than the reservation g in some dimension? *)
Exceeds(f, g) == \E d \in Dimensions : f[d] > g[d]

(* Reserve amounts under an id. *)
Charge(l, id, amounts) ==
  [l EXCEPT !.reserved = Plus(@, amounts), !.held[id] = amounts]

(* A variant with a bug: what was not used is not given back. *)
SettleKeepsUnused(l, id, actuals) ==
  [l EXCEPT !.actual = Plus(@, actuals),
            !.released = Plus(@, Minus(l.held[id], actuals)),
            !.held[id] = Zero]

(* Record the actual use of a reservation and release the rest of it. *)
Settle(l, id, actuals) ==
  LET unused == Minus(l.held[id], actuals)
  IN [l EXCEPT !.actual = Plus(@, actuals),
               !.released = Plus(@, unused),
               !.reserved = Minus(@, unused),
               !.held[id] = Zero]

(* Variants with a bug: a recorded kill switch is not replayed, or a drift *)
(* ends the reservation it concerns.                                       *)
ApplyWithoutKill(l, e) ==
  LET n == [l EXCEPT !.seq = @ + 1]
  IN IF e.kind = "RESERVE" THEN Charge(n, e.id, e.amounts)
     ELSE IF e.kind = "RECONCILE" THEN Settle(n, e.id, e.amounts)
     ELSE IF e.kind = "DRIFT" THEN [n EXCEPT !.drift = TRUE] ELSE n

ApplyDriftEnds(l, e) ==
  LET n == [l EXCEPT !.seq = @ + 1]
  IN IF e.kind = "RESERVE" THEN Charge(n, e.id, e.amounts)
     ELSE IF e.kind = "RECONCILE" THEN Settle(n, e.id, e.amounts)
     ELSE IF e.kind = "KILL_SWITCH" THEN [n EXCEPT !.kill = TRUE]
     ELSE IF e.kind = "DRIFT" THEN [n EXCEPT !.drift = TRUE, !.held[e.id] = Zero] ELSE n

(* What an event does to the totals, in memory and when load replays it: a *)
(* drift only leaves its trace, a denial nothing but its line.             *)
Apply(l, e) ==
  LET n == [l EXCEPT !.seq = @ + 1]
  IN IF e.kind = "RESERVE" THEN Charge(n, e.id, e.amounts)
     ELSE IF e.kind = "RECONCILE" THEN Settle(n, e.id, e.amounts)
     ELSE IF e.kind = "KILL_SWITCH" THEN [n EXCEPT !.kill = TRUE]
     ELSE IF e.kind = "DRIFT" THEN [n EXCEPT !.drift = TRUE] ELSE n

(* A variant with a bug: a reservation used in full is refused. *)
AcceptsUnused(l, e, seq) ==
  /\ seq = l.seq + 1
  /\ e.kind = "RECONCILE" => \A d \in Dimensions : e.amounts[d] < l.held[e.id][d]

(* Does load accept event e, numbered seq, after the lines of l?  A number *)
(* that is missing is an event whose hash the next line still names.       *)
Accepts(l, e, seq) ==
  /\ seq = l.seq + 1
  /\ e.kind = "LEDGER_OPENED" <=> seq = 1
  /\ e.kind = "RESERVE" => l.held[e.id] = Zero
  /\ e.kind = "RECONCILE" => l.held[e.id] # Zero /\ ~Exceeds(e.amounts, l.held[e.id])

(* Would load succeed? *)
Loadable == store.seq > 0 /\ intact /\ anchored

-----------------------------------------------------------------------------
(* The process. *)

(* A call that appends these events begins with the first one in memory. *)
Call(events) ==
  /\ up /\ pending = <<>>
  /\ mem.seq + Len(events) <= MaxEvents
  /\ mem' = Apply(mem, events[1])
  /\ pending' = events /\ stage' = "append"
  /\ UNCHANGED <<up, store, intact, anchored, overdue, granted, killed, faulted>>

(* BudgetLedger(caps, store_path): refuses a store that has bytes. *)
Open ==
  /\ ~up /\ store.seq = 0 /\ intact
  /\ MaxEvents > 0
  /\ up' = TRUE /\ mem' = Apply(EmptyLedger, Note("LEDGER_OPENED"))
  /\ pending' = <<Note("LEDGER_OPENED")>> /\ stage' = "append"
  /\ overdue' = FALSE
  /\ UNCHANGED <<store, intact, anchored, granted, settled, killed, faulted>>

(* BudgetLedger.load *)
Load ==
  /\ ~up /\ Loadable
  /\ up' = TRUE /\ mem' = store
  /\ UNCHANGED <<store, intact, anchored, pending, stage, overdue, granted, settled,
                 killed, faulted>>

InFlight(l) == {i \in Ids : l.held[i] # Zero}

(* A variant with a bug: a dimension without a ceiling is not checked. *)
HeadroomOfCappedOnly(l, amounts) ==
  \A d \in DOMAIN Limits : amounts[d] > 0 => l.reserved[d] + amounts[d] <= Limits[d]

(* _headroom_violation returns None: a dimension without a ceiling has no  *)
(* headroom at all.                                                        *)
HasHeadroom(l, amounts) ==
  \A d \in Dimensions :
    amounts[d] > 0 => d \in DOMAIN Limits /\ l.reserved[d] + amounts[d] <= Limits[d]

(* A variant with a bug: the kill switch is not looked at. *)
AdmitsWhenKilled(l, amounts) ==
  amounts # Zero /\ Cardinality(InFlight(l)) < ConcurrencyCap /\ HasHeadroom(l, amounts)

(* May the reservation be made? *)
Admits(l, amounts) ==
  /\ ~l.kill
  /\ amounts # Zero
  /\ Cardinality(InFlight(l)) < ConcurrencyCap
  /\ HasHeadroom(l, amounts)

(* reserve: past the deadline it engages the kill switch and denies. *)
Reserve(amounts) ==
  /\ Call(IF overdue /\ ~mem.kill THEN <<Note("KILL_SWITCH"), Note("DENY")>>
          ELSE IF overdue \/ ~Admits(mem, amounts) THEN <<Note("DENY")>>
          ELSE <<Entry("RESERVE", mem.seq + 1, amounts)>>)
  /\ UNCHANGED settled

(* reconcile, by a caller that was given the reservation: use beyond it is *)
(* a drift, which keeps it in flight and engages the kill switch.          *)
Reconcile(id, actuals) ==
  LET drift == Exceeds(actuals, mem.held[id])
  IN /\ granted[id] # Zero /\ mem.held[id] # Zero
     /\ Call(IF ~drift THEN <<Entry("RECONCILE", id, actuals)>>
             ELSE IF mem.kill THEN <<Entry("DRIFT", id, Zero)>>
             ELSE <<Entry("DRIFT", id, Zero), Note("KILL_SWITCH")>>)
     /\ settled' = IF drift THEN settled ELSE settled \cup {id}

(* engage_kill_switch *)
EngageKillSwitch == Call(<<Note("KILL_SWITCH")>>) /\ UNCHANGED settled

(* _append_event writes the line ... *)
AppendLine ==
  LET e  == pending[1]
      ok == intact /\ Accepts(store, e, mem.seq)
  IN /\ pending # <<>> /\ stage = "append"
     /\ store' = IF ok THEN Apply(store, e) ELSE store
     /\ intact' = ok /\ anchored' = FALSE
     /\ stage' = "checkpoint"
     /\ UNCHANGED <<up, mem, pending, overdue, granted, settled, killed, faulted>>

(* ... and _write_checkpoint pins it; then the call goes on to its next    *)
(* event, or returns.                                                      *)
Checkpoint ==
  LET e == pending[1]
  IN /\ pending # <<>> /\ stage = "checkpoint"
     /\ anchored' = TRUE
     /\ pending' = Tail(pending) /\ stage' = "append"
     /\ mem' = IF Len(pending) = 2 THEN Apply(mem, pending[2]) ELSE mem
     /\ granted' = IF e.kind = "RESERVE" THEN [granted EXCEPT ![e.id] = e.amounts] ELSE granted
     /\ killed' = (killed \/ e.kind = "KILL_SWITCH")
     /\ UNCHANGED <<up, store, intact, overdue, settled, faulted>>

(* A write raises: the call ends, and what it had done in memory stays.    *)
(* The line may be missing or torn; a constructor that raises opens        *)
(* nothing.                                                                *)
WriteFails(torn) ==
  /\ pending # <<>>
  /\ torn => stage = "append"
  /\ intact' = (intact /\ ~torn) /\ anchored' = (anchored /\ ~torn)
  /\ up' = (pending[1].kind # "LEDGER_OPENED")
  /\ mem' = IF up' THEN mem ELSE EmptyLedger
  /\ pending' = <<>> /\ stage' = "append"
  /\ faulted' = TRUE
  /\ UNCHANGED <<store, overdue, granted, settled, killed>>

(* The process dies, perhaps in the middle of a line. *)
Crash(torn) ==
  /\ up
  /\ torn => pending # <<>> /\ stage = "append"
  /\ intact' = (intact /\ ~torn) /\ anchored' = (anchored /\ ~torn)
  /\ faulted' = (faulted \/ torn)
  /\ up' = FALSE /\ mem' = EmptyLedger
  /\ pending' = <<>> /\ stage' = "append"
  /\ UNCHANGED <<store, overdue, granted, settled, killed>>

(* The deadline is absolute and is recorded with LEDGER_OPENED, so that it *)
(* passes once, whoever has the ledger open.                               *)
DeadlinePasses ==
  /\ store.seq > 0 /\ ~overdue
  /\ overdue' = TRUE
  /\ UNCHANGED <<up, mem, store, intact, anchored, pending, stage, granted, settled,
                 killed, faulted>>

Next ==
  \/ Open
  \/ Load
  \/ \E amounts \in Amounts : Reserve(amounts)
  \/ \E id \in Ids, actuals \in Amounts : Reconcile(id, actuals)
  \/ EngageKillSwitch
  \/ AppendLine
  \/ Checkpoint
  \/ \E torn \in BOOLEAN : WriteFails(torn)
  \/ \E torn \in BOOLEAN : Crash(torn)
  \/ DeadlinePasses

Spec == Init /\ [][Next]_vars

-----------------------------------------------------------------------------
(* Correctness. *)

(* The totals l never exceed a ceiling, nor have reservations in a         *)
(* dimension that has none.                                                *)
WithinLimits(l) ==
  \A d \in Dimensions : l.reserved[d] <= IF d \in DOMAIN Limits THEN Limits[d] ELSE 0

(* No sequence of calls, crashes, failed writes and reloads takes the      *)
(* committed budget past its ceilings, in memory or as a reload sees it.   *)
BudgetHolds == WithinLimits(mem) /\ WithinLimits(store)

(* What the reservations 1..n hold in dimension d, for each n. *)
HeldTotals(l, d) ==
  LET total[n \in 0..MaxEvents] == IF n = 0 THEN 0 ELSE total[n - 1] + l.held[n][d]
  IN total

(* What is committed is what was used plus what is still in flight. *)
Conserved(l) ==
  \A d \in Dimensions : l.reserved[d] = l.actual[d] + HeldTotals(l, d)[MaxEvents]

(* Nothing is counted twice or lost: what is committed is what was used    *)
(* plus what is still in flight, in memory and as a reload sees it.        *)
BudgetConserved == Conserved(mem) /\ Conserved(store)

(* A reservation a caller was given is never forgotten: a store that loads *)
(* holds it in full until its actual use was accepted.                     *)
GrantedIsDurable ==
  Loadable => \A i \in Ids : granted[i] # Zero /\ i \notin settled => store.held[i] = granted[i]

(* A kill switch that a call has recorded survives every restart. *)
KillIsDurable == Loadable /\ killed => store.kill

(* Without failed or torn writes the lines always form one chain, and      *)
(* between calls the memory is exactly what a reload would compute.        *)
MemoryIsStored ==
  ~faulted => intact /\ (up /\ pending = <<>> => anchored /\ mem = store)

(* No reservation is granted under an id that was granted before, and none *)
(* once the kill switch is recorded, whatever was lost and reloaded since. *)
GrantsAreFresh ==
  [][\A i \in Ids : granted'[i] # granted[i] => granted[i] = Zero /\ ~killed]_vars

(* What reconcile says of a drift: no further reservation is granted, in   *)
(* memory or after a replay.                                               *)
DriftStopsReload == Loadable /\ ~up /\ store.drift => store.kill
=============================================================================
