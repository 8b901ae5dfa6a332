------------------------- MODULE BudgetLedgerProofs -------------------------
(***************************************************************************)
(* The ledger's promises for every set of dimensions, ceilings and amounts *)
(* and any number of events.  The inductive invariant says how far the     *)
(* memory may run ahead of the store at each stage of a call.              *)
(***************************************************************************)
EXTENDS BudgetLedger, Induction, SequenceTheorems, TLAPS

(* Can event e be applied to l without leaving the ledgers? *)
Applicable(l, e) ==
  /\ e.kind = "RESERVE" => e.id \in Ids
  /\ e.kind = "RECONCILE" => e.id \in Ids /\ ~Exceeds(e.amounts, l.held[e.id])

(* Charging a ledger yields a ledger. *)
LEMMA ChargeType ==
  ASSUME NEW l \in Ledgers, NEW id \in Ids, NEW amounts \in Amounts
  PROVE  Charge(l, id, amounts) \in Ledgers /\ Charge(l, id, amounts).seq = l.seq
<1>1. Plus(l.reserved, amounts) \in [Dimensions -> Int]
  BY AmountsAssumption DEF Plus, Ledgers
<1>2. [l.held EXCEPT ![id] = amounts] \in [Ids -> Amounts]
  BY DEF Ledgers
<1> QED BY <1>1, <1>2 DEF Charge, Ledgers

(* Settling within the reservation yields a ledger. *)
LEMMA SettleType ==
  ASSUME NEW l \in Ledgers, NEW id \in Ids, NEW actuals \in Amounts,
         ~Exceeds(actuals, l.held[id])
  PROVE  Settle(l, id, actuals) \in Ledgers /\ Settle(l, id, actuals).seq = l.seq
<1> DEFINE unused == Minus(l.held[id], actuals)
<1>1. l.held[id] \in [Dimensions -> Nat] /\ actuals \in [Dimensions -> Nat]
  BY AmountsAssumption DEF Ledgers
<1>2. unused \in [Dimensions -> Nat]
  BY <1>1 DEF Minus, Exceeds
<1>3. Settle(l, id, actuals) = [l EXCEPT !.actual = Plus(@, actuals),
         !.released = Plus(@, unused), !.reserved = Minus(@, unused), !.held[id] = Zero]
  BY DEF Settle
<1> HIDE DEF unused
<1>4. /\ Plus(l.actual, actuals) \in [Dimensions -> Nat]
      /\ Plus(l.released, unused) \in [Dimensions -> Nat]
      /\ Minus(l.reserved, unused) \in [Dimensions -> Int]
  BY <1>1, <1>2 DEF Plus, Minus, Ledgers
<1>5. [l.held EXCEPT ![id] = Zero] \in [Ids -> Amounts]
  BY AmountsAssumption DEF Ledgers
<1> QED BY <1>3, <1>4, <1>5 DEF Ledgers

(* Applying an event yields a ledger with the next sequence number. *)
LEMMA ApplyType ==
  ASSUME NEW l \in Ledgers, NEW e \in Events, l.seq < MaxEvents, Applicable(l, e)
  PROVE  Apply(l, e) \in Ledgers /\ Apply(l, e).seq = l.seq + 1
<1> DEFINE n == [l EXCEPT !.seq = @ + 1]
<1>1. n \in Ledgers /\ n.seq = l.seq + 1 /\ n.held = l.held
  BY EventsAssumption DEF Ledgers
<1>2. CASE e.kind = "RESERVE"
  <2>1. Apply(l, e) = Charge(n, e.id, e.amounts)
    BY <1>2 DEF Apply
  <2> HIDE DEF n
  <2> QED BY <1>1, <1>2, <2>1, ChargeType DEF Events, Applicable
<1>3. CASE e.kind = "RECONCILE"
  <2>1. Apply(l, e) = Settle(n, e.id, e.amounts)
    BY <1>3 DEF Apply
  <2> HIDE DEF n
  <2> QED BY <1>1, <1>3, <2>1, SettleType DEF Events, Applicable
<1>4. CASE e.kind \notin {"RESERVE", "RECONCILE"}
  BY <1>1, <1>4 DEF Apply, Ledgers
<1> QED BY <1>2, <1>3, <1>4

(* What an event changes of the reservations and the kill switch. *)
LEMMA ApplyFacts ==
  ASSUME NEW l \in Ledgers, NEW e \in Events, l.seq < MaxEvents, Applicable(l, e)
  PROVE  /\ Apply(l, e).kill = (l.kill \/ e.kind = "KILL_SWITCH")
         /\ \A i \in Ids : Apply(l, e).held[i] =
              IF i = e.id /\ e.kind = "RESERVE" THEN e.amounts
              ELSE IF i = e.id /\ e.kind = "RECONCILE" THEN Zero ELSE l.held[i]
<1>1. CASE e.kind = "RESERVE"
  BY <1>1 DEF Apply, Charge, Ledgers, Events, Applicable
<1>2. CASE e.kind = "RECONCILE"
  BY <1>2 DEF Apply, Settle, Ledgers, Events, Applicable
<1>3. CASE e.kind \notin {"RESERVE", "RECONCILE"}
  BY <1>3 DEF Apply, Ledgers, Events
<1> QED BY <1>1, <1>2, <1>3

(* An applied event stays within the limits if a reservation has headroom. *)
LEMMA ApplyWithin ==
  ASSUME NEW l \in Ledgers, NEW e \in Events, l.seq < MaxEvents, Applicable(l, e),
         WithinLimits(l), e.kind = "RESERVE" => HasHeadroom(l, e.amounts)
  PROVE  WithinLimits(Apply(l, e))
<1> USE AmountsAssumption, CapsAssumption
<1>1. CASE e.kind = "RESERVE"
  <2>1. Apply(l, e).reserved = Plus(l.reserved, e.amounts)
    BY <1>1 DEF Apply, Charge, Ledgers
  <2> QED BY <1>1, <2>1 DEF WithinLimits, HasHeadroom, Plus, Ledgers, Events
<1>2. CASE e.kind = "RECONCILE"
  <2>1. Apply(l, e).reserved = Minus(l.reserved, Minus(l.held[e.id], e.amounts))
    BY <1>2 DEF Apply, Settle, Ledgers
  <2>2. /\ l.held[e.id] \in [Dimensions -> Nat] /\ e.amounts \in [Dimensions -> Nat]
        /\ \A d \in Dimensions : l.held[e.id][d] - e.amounts[d] >= 0
    BY <1>2 DEF Applicable, Exceeds, Ledgers, Events
  <2>3. \A d \in Dimensions :
          Apply(l, e).reserved[d] = l.reserved[d] - (l.held[e.id][d] - e.amounts[d])
    BY <2>1 DEF Minus
  <2> QED BY <2>2, <2>3 DEF WithinLimits, Ledgers
<1>3. CASE e.kind \notin {"RESERVE", "RECONCILE"}
  BY <1>3 DEF Apply, WithinLimits, Ledgers
<1> QED BY <1>1, <1>2, <1>3

-----------------------------------------------------------------------------
(* The inductive invariant. *)

(* A call is under way only in an open ledger, and leaves room for its     *)
(* events; a second event is a kill switch or a denial.                    *)
CallShape ==
  /\ ~up => pending = <<>>
  /\ up => mem.seq >= 1
  /\ store.seq = 0 => store = EmptyLedger
  /\ pending # <<>> => mem.seq + Len(pending) <= MaxEvents + 1
  /\ Len(pending) = 2 => pending[2].kind \in {"KILL_SWITCH", "DENY"}

(* No id is in use before its number is reached. *)
HeldBelow(l) == \A i \in Ids : l.held[i] # Zero => i <= l.seq

IdsBelow == HeldBelow(mem) /\ HeldBelow(store)

(* What the memory already shows of the event being written. *)
PendingInMemory ==
  pending # <<>> =>
    LET e == pending[1]
    IN /\ e.kind = "RESERVE" => /\ e.id = mem.seq /\ mem.held[e.id] = e.amounts
                                /\ granted[e.id] = Zero /\ ~mem.kill
       /\ e.kind = "RECONCILE" => e.id \in settled
       /\ e.kind = "KILL_SWITCH" => mem.kill

(* While the lines form a chain, the memory is never behind them; it is    *)
(* ahead by what is being written and by what failed to be.                *)
InStep ==
  intact /\ up =>
    /\ pending = <<>> => mem.seq >= store.seq /\ (mem.seq = store.seq => mem = store)
    /\ pending # <<>> /\ stage = "checkpoint" => mem = store
    /\ pending # <<>> /\ stage = "append" =>
         mem.seq >= store.seq + 1 /\ (mem.seq = store.seq + 1 => mem = Apply(store, pending[1]))

(* Granted reservations are behind both the store and the memory. *)
GrantsBehind ==
  /\ intact => \A i \in Ids : granted[i] # Zero =>
                 i <= store.seq /\ (i \notin settled => store.held[i] = granted[i])
  /\ up => \A i \in Ids : granted[i] # Zero => i <= mem.seq

(* A recorded kill switch is in the store and in the memory. *)
KillSeen == killed => (intact => store.kill) /\ (up => mem.kill)

(* Until a write fails, what is written next is what load expects next. *)
FaultFree ==
  ~faulted =>
    /\ intact
    /\ up /\ pending = <<>> => anchored /\ mem = store
    /\ pending # <<>> /\ stage = "append" => Accepts(store, pending[1], mem.seq)

LedgerInvariant ==
  /\ TypeOK /\ BudgetHolds /\ CallShape /\ IdsBelow /\ PendingInMemory
  /\ InStep /\ GrantsBehind /\ KillSeen /\ FaultFree

-----------------------------------------------------------------------------
(* The empty ledger is a ledger within every limit. *)
LEMMA EmptyFacts ==
  /\ EmptyLedger \in Ledgers /\ EmptyLedger.seq = 0 /\ EmptyLedger.kill = FALSE
  /\ \A i \in Ids : EmptyLedger.held[i] = Zero
  /\ WithinLimits(EmptyLedger)
<1>1. Zero \in Amounts /\ Zero \in [Dimensions -> Nat] /\ \A d \in Dimensions : Zero[d] = 0
  BY AmountsAssumption DEF Zero
<1>2. EmptyLedger \in Ledgers
  BY <1>1, EventsAssumption DEF EmptyLedger, Ledgers
<1>3. WithinLimits(EmptyLedger)
  BY <1>1, CapsAssumption DEF EmptyLedger, WithinLimits
<1> QED BY <1>2, <1>3 DEF EmptyLedger

(* The opening event changes nothing but the sequence. *)
LEMMA OpenedFacts ==
  ASSUME MaxEvents > 0
  PROVE  LET l == Apply(EmptyLedger, Note("LEDGER_OPENED"))
         IN /\ Note("LEDGER_OPENED") \in Events /\ Note("LEDGER_OPENED").kind = "LEDGER_OPENED"
            /\ l \in Ledgers /\ l.seq = 1 /\ ~l.kill /\ WithinLimits(l)
            /\ \A i \in Ids : l.held[i] = Zero
<1> DEFINE e == Note("LEDGER_OPENED")
<1>1. e \in Events /\ e.kind = "LEDGER_OPENED"
  BY AmountsAssumption, EventsAssumption DEF Note, Entry, Events, EventKinds
<1> HIDE DEF e
<1>2. Applicable(EmptyLedger, e)
  BY <1>1 DEF Applicable
<1>3. Apply(EmptyLedger, e) \in Ledgers /\ Apply(EmptyLedger, e).seq = 1
  BY <1>1, <1>2, EmptyFacts, ApplyType
<1>4. ~Apply(EmptyLedger, e).kill /\ \A i \in Ids : Apply(EmptyLedger, e).held[i] = Zero
  BY <1>1, <1>2, EmptyFacts, ApplyFacts
<1>5. WithinLimits(Apply(EmptyLedger, e))
  BY <1>1, <1>2, EmptyFacts, ApplyWithin
<1> QED BY <1>1, <1>3, <1>4, <1>5 DEF e

(* The invariant holds at first. *)
LEMMA LedgerInit == Init => LedgerInvariant
<1> SUFFICES ASSUME Init PROVE LedgerInvariant
  OBVIOUS
<1> USE EmptyFacts
<1>1. TypeOK
  <2>1. pending \in Seq(Events) /\ Len(pending) <= 2
    BY DEF Init
  <2>2. granted \in [Ids -> Amounts] /\ settled \subseteq Ids
    BY AmountsAssumption DEF Init
  <2> QED BY <2>1, <2>2 DEF Init, TypeOK
<1>2. BudgetHolds /\ CallShape /\ PendingInMemory /\ InStep /\ FaultFree
  BY DEF Init, BudgetHolds, CallShape, PendingInMemory, InStep, FaultFree
<1>3. IdsBelow /\ GrantsBehind /\ KillSeen
  BY DEF Init, IdsBelow, HeldBelow, GrantsBehind, KillSeen
<1> QED BY <1>1, <1>2, <1>3 DEF LedgerInvariant

(* The beginning of a call on an open ledger keeps the invariant. *)
LEMMA CallKeeps ==
  ASSUME LedgerInvariant, NEW events \in Seq(Events), 1 <= Len(events), Len(events) <= 2,
         Call(events),
         settled \subseteq settled', settled' \subseteq Ids,
         Applicable(mem, events[1]), events[1].kind # "LEDGER_OPENED",
         Len(events) = 2 => events[2].kind \in {"KILL_SWITCH", "DENY"},
         events[1].kind = "RESERVE" => /\ events[1].id = mem.seq + 1 /\ ~mem.kill
                                       /\ HasHeadroom(mem, events[1].amounts),
         events[1].kind = "RECONCILE" => events[1].id \in settled' /\ mem.held[events[1].id] # Zero
  PROVE  LedgerInvariant'
<1> DEFINE e == events[1]
<1>1. e \in Events /\ mem \in Ledgers /\ store \in Ledgers /\ up /\ mem.seq < MaxEvents
  BY EventsAssumption DEF LedgerInvariant, TypeOK, Call, Ledgers
<1>2. mem' = Apply(mem, e) /\ pending' = events /\ stage' = "append" /\ pending = <<>>
      /\ UNCHANGED <<up, store, intact, anchored, overdue, granted, killed, faulted>>
  BY DEF Call
<1>3. pending' # <<>> /\ pending'[1] = e
  BY <1>2
<1>4. mem' \in Ledgers /\ mem'.seq = mem.seq + 1
  BY <1>1, <1>2, ApplyType
<1>5. /\ mem'.kill = (mem.kill \/ e.kind = "KILL_SWITCH")
      /\ \A i \in Ids : mem'.held[i] =
           IF i = e.id /\ e.kind = "RESERVE" THEN e.amounts
           ELSE IF i = e.id /\ e.kind = "RECONCILE" THEN Zero ELSE mem.held[i]
  BY <1>1, <1>2, ApplyFacts
<1>6. mem.seq \in 0..MaxEvents /\ store.seq \in 0..MaxEvents /\ e.id \in 0..MaxEvents
  BY <1>1 DEF Ledgers, Events
<1>7. TypeOK'
  <2>1. pending' \in Seq(Events) /\ Len(pending') <= 2
    BY <1>2, Zenon
  <2>2. stage' \in {"append", "checkpoint"} /\ settled' \subseteq Ids /\ mem' \in Ledgers
    BY <1>2, <1>4
  <2> QED BY <1>2, <2>1, <2>2, Zenon DEF LedgerInvariant, TypeOK
<1>8. BudgetHolds'
  BY <1>1, <1>2, ApplyWithin DEF LedgerInvariant, BudgetHolds
<1> USE EventsAssumption
<1>9. CallShape'
  BY <1>1, <1>2, <1>4, <1>6 DEF LedgerInvariant, CallShape, Call
<1>10. IdsBelow'
  <2>1. HeldBelow(mem')
    BY <1>4, <1>5, <1>6 DEF LedgerInvariant, IdsBelow, HeldBelow, Ids
  <2> QED BY <1>2, <2>1 DEF LedgerInvariant, IdsBelow
<1>11. PendingInMemory'
  <2>1. e.kind = "RESERVE" => e.id \in Ids /\ granted[e.id] = Zero
    BY <1>1, <1>6 DEF LedgerInvariant, GrantsBehind, Ids, Applicable
  <2> QED BY <1>2, <1>3, <1>4, <1>5, <1>6, <2>1 DEF PendingInMemory
<1>12. InStep'
  BY <1>1, <1>2, <1>3, <1>4, <1>6 DEF LedgerInvariant, InStep
<1>13. GrantsBehind'
  BY <1>1, <1>2, <1>4, <1>6 DEF LedgerInvariant, GrantsBehind, Ids
<1>14. KillSeen'
  BY <1>1, <1>2, <1>5 DEF LedgerInvariant, KillSeen
<1>15. FaultFree'
  <2>1. ~faulted => mem = store
    BY <1>1, <1>2 DEF LedgerInvariant, FaultFree
  <2>2. e.kind = "RESERVE" => mem.held[e.id] = Zero
    BY <1>1, <1>6 DEF LedgerInvariant, IdsBelow, HeldBelow, Applicable
  <2>3. mem.seq >= 1
    BY <1>1 DEF LedgerInvariant, CallShape
  <2>4. Accepts(mem, e, mem.seq + 1)
    BY <1>6, <2>2, <2>3 DEF Accepts, Applicable
  <2> QED BY <1>1, <1>2, <1>3, <1>4, <2>1, <2>4 DEF LedgerInvariant, FaultFree
<1> QED BY <1>7, <1>8, <1>9, <1>10, <1>11, <1>12, <1>13, <1>14, <1>15 DEF LedgerInvariant

(* Opening an empty store keeps the invariant. *)
LEMMA OpenKeeps == LedgerInvariant /\ Open => LedgerInvariant'
<1> SUFFICES ASSUME LedgerInvariant, Open PROVE LedgerInvariant'
  OBVIOUS
<1> DEFINE e == Note("LEDGER_OPENED")
<1>1. /\ e \in Events /\ e.kind = "LEDGER_OPENED" /\ mem' \in Ledgers /\ mem'.seq = 1
      /\ ~mem'.kill /\ WithinLimits(mem') /\ \A i \in Ids : mem'.held[i] = Zero
  BY OpenedFacts DEF Open
<1>2. /\ store = EmptyLedger /\ store.seq = 0 /\ ~store.kill /\ intact
      /\ mem' = Apply(store, e) /\ \A i \in Ids : store.held[i] = Zero
  BY EmptyFacts DEF Open, LedgerInvariant, CallShape
<1>3. /\ up' /\ pending' = <<e>> /\ stage' = "append" /\ overdue' = FALSE
      /\ UNCHANGED <<store, intact, anchored, granted, settled, killed, faulted>>
      /\ MaxEvents > 0
  BY DEF Open
<1> HIDE DEF e
<1>4. pending' \in Seq(Events) /\ Len(pending') = 1 /\ pending' # <<>> /\ pending'[1] = e
  BY <1>1, <1>3
<1>5. TypeOK'
  <2>1. Len(pending') <= 2
    BY <1>4
  <2>2. up' \in BOOLEAN /\ overdue' \in BOOLEAN /\ stage' \in {"append", "checkpoint"}
    BY <1>3
  <2> QED BY <1>1, <1>3, <1>4, <2>1, <2>2 DEF LedgerInvariant, TypeOK
<1>6. BudgetHolds' /\ IdsBelow'
  BY <1>1, <1>2, <1>3 DEF LedgerInvariant, BudgetHolds, IdsBelow, HeldBelow
<1>11. CallShape'
  BY <1>1, <1>2, <1>3, <1>4, EventsAssumption DEF LedgerInvariant, CallShape
<1>7. PendingInMemory' /\ InStep'
  BY <1>1, <1>2, <1>3, <1>4 DEF PendingInMemory, InStep
<1>8. \A i \in Ids : granted[i] = Zero
  BY <1>2 DEF LedgerInvariant, GrantsBehind, Ids
<1>9. GrantsBehind' /\ KillSeen'
  BY <1>2, <1>3, <1>8 DEF LedgerInvariant, GrantsBehind, KillSeen
<1>10. FaultFree'
  BY <1>1, <1>2, <1>3, <1>4 DEF FaultFree, Accepts
<1> QED BY <1>5, <1>6, <1>7, <1>9, <1>10, <1>11 DEF LedgerInvariant

(* load keeps the invariant: the memory becomes what the lines say. *)
LEMMA LoadKeeps == LedgerInvariant /\ Load => LedgerInvariant'
<1> SUFFICES ASSUME LedgerInvariant, Load PROVE LedgerInvariant'
  OBVIOUS
<1>1. /\ up' /\ mem' = store /\ pending = <<>> /\ intact /\ anchored /\ store.seq > 0
      /\ UNCHANGED <<store, intact, anchored, pending, stage, overdue, granted, settled,
                     killed, faulted>>
  BY DEF Load, Loadable, LedgerInvariant, CallShape
<1>2. store \in Ledgers /\ store.seq \in Int
  BY DEF LedgerInvariant, TypeOK, Ledgers
<1>3. TypeOK'
  BY <1>1, <1>2 DEF LedgerInvariant, TypeOK
<1>4. BudgetHolds' /\ CallShape' /\ IdsBelow' /\ PendingInMemory' /\ InStep'
  BY <1>1, <1>2
    DEF LedgerInvariant, BudgetHolds, CallShape, IdsBelow, PendingInMemory, InStep
<1>5. GrantsBehind' /\ KillSeen' /\ FaultFree'
  BY <1>1, <1>2 DEF LedgerInvariant, GrantsBehind, KillSeen, FaultFree
<1> QED BY <1>3, <1>4, <1>5 DEF LedgerInvariant

(* Every event a call builds is an event. *)
LEMMA EntryType ==
  ASSUME NEW kind \in EventKinds, NEW id \in 0..MaxEvents, NEW amounts \in Amounts
  PROVE  /\ Entry(kind, id, amounts) \in Events
         /\ Entry(kind, id, amounts).kind = kind
         /\ Entry(kind, id, amounts).id = id
         /\ Entry(kind, id, amounts).amounts = amounts
BY DEF Entry, Events

(* An event without a reservation is an event. *)
LEMMA NoteType ==
  ASSUME NEW kind \in EventKinds
  PROVE  Note(kind) \in Events /\ Note(kind).kind = kind
BY EntryType, AmountsAssumption, EventsAssumption DEF Note

(* A call of one event that carries nothing. *)
LEMMA NoteCallKeeps ==
  ASSUME LedgerInvariant, NEW kind \in {"DENY", "KILL_SWITCH"}, Call(<<Note(kind)>>),
         settled' = settled
  PROVE  LedgerInvariant'
<1> DEFINE events == <<Note(kind)>>
<1>1. Note(kind) \in Events /\ Note(kind).kind = kind
  BY NoteType DEF EventKinds
<1>2. events \in Seq(Events) /\ Len(events) = 1 /\ events[1] = Note(kind)
  BY <1>1
<1>3. Applicable(mem, events[1])
  BY <1>1, <1>2 DEF Applicable
<1>4. settled' \subseteq Ids
  BY DEF LedgerInvariant, TypeOK
<1>5. Call(events)
  OBVIOUS
<1> HIDE DEF events
<1> QED BY <1>1, <1>2, <1>3, <1>4, <1>5, CallKeeps

(* reserve keeps the invariant, whichever way it decides. *)
LEMMA ReserveKeeps ==
  ASSUME LedgerInvariant, NEW amounts \in Amounts, Reserve(amounts)
  PROVE  LedgerInvariant'
<1>1. settled' = settled /\ settled' \subseteq Ids
  BY DEF Reserve, LedgerInvariant, TypeOK
<1>2. CASE overdue /\ ~mem.kill
  <2> DEFINE events == <<Note("KILL_SWITCH"), Note("DENY")>>
  <2>1. Call(events)
    BY <1>2 DEF Reserve
  <2>2. /\ Note("KILL_SWITCH") \in Events /\ Note("KILL_SWITCH").kind = "KILL_SWITCH"
        /\ Note("DENY") \in Events /\ Note("DENY").kind = "DENY"
    BY NoteType DEF EventKinds
  <2>3. /\ events \in Seq(Events) /\ 1 <= Len(events) /\ Len(events) <= 2
        /\ events[1].kind = "KILL_SWITCH" /\ events[2].kind \in {"KILL_SWITCH", "DENY"}
    BY <2>2
  <2>4. Applicable(mem, events[1])
    BY <2>3 DEF Applicable
  <2> HIDE DEF events
  <2> QED BY <1>1, <2>1, <2>3, <2>4, CallKeeps
<1>3. CASE ~(overdue /\ ~mem.kill) /\ (overdue \/ ~Admits(mem, amounts))
  BY <1>1, <1>3, NoteCallKeeps DEF Reserve
<1>4. CASE ~overdue /\ Admits(mem, amounts)
  <2>8. mem.seq + 1 \in 1..MaxEvents
    <3>1. mem.seq \in 0..MaxEvents
      BY DEF LedgerInvariant, TypeOK, Ledgers
    <3>2. mem.seq + 1 <= MaxEvents
      BY <1>4 DEF Reserve, Call
    <3> QED BY <3>1, <3>2, EventsAssumption
  <2>9. PICK n \in 1..MaxEvents : n = mem.seq + 1
    BY <2>8
  <2> DEFINE e == Entry("RESERVE", n, amounts)
             events == <<e>>
  <2>1. Call(events)
    BY <1>4, <2>9 DEF Reserve
  <2>2. n \in Ids /\ n \in 0..MaxEvents
    BY EventsAssumption DEF Ids
  <2>3. e \in Events /\ e.kind = "RESERVE" /\ e.id = mem.seq + 1 /\ e.amounts = amounts
    BY <2>2, <2>9, EntryType DEF EventKinds
  <2> HIDE DEF e
  <2>4. events \in Seq(Events) /\ Len(events) = 1 /\ events[1] = e
    BY <2>3
  <2>5. Applicable(mem, events[1])
    BY <2>2, <2>3, <2>4, <2>9 DEF Applicable
  <2>6. ~mem.kill /\ HasHeadroom(mem, amounts)
    BY <1>4 DEF Admits
  <2>7. /\ events[1].kind = "RESERVE" /\ events[1].id = mem.seq + 1
        /\ HasHeadroom(mem, events[1].amounts)
    BY <2>3, <2>4, <2>6
  <2> HIDE DEF events
  <2>10. /\ settled \subseteq settled' /\ Len(events) <= 2 /\ 1 <= Len(events)
         /\ events \in Seq(Events) /\ Len(events) # 2
    BY <1>1, <2>4
  <2> QED BY <1>1, <2>1, <2>5, <2>6, <2>7, <2>10, CallKeeps
<1> QED BY <1>2, <1>3, <1>4

(* reconcile keeps the invariant, with and without a drift. *)
LEMMA ReconcileKeeps ==
  ASSUME LedgerInvariant, NEW id \in Ids, NEW actuals \in Amounts, Reconcile(id, actuals)
  PROVE  LedgerInvariant'
<1>1. settled \subseteq settled' /\ settled' \subseteq Ids /\ id \in 0..MaxEvents
  BY DEF Reconcile, LedgerInvariant, TypeOK, Ids
<1>2. CASE ~Exceeds(actuals, mem.held[id])
  <2> DEFINE e == Entry("RECONCILE", id, actuals)
             events == <<e>>
  <2>1. Call(events) /\ id \in settled' /\ mem.held[id] # Zero
    BY <1>2 DEF Reconcile
  <2>2. e \in Events /\ e.kind = "RECONCILE" /\ e.id = id /\ e.amounts = actuals
    BY <1>1, EntryType DEF EventKinds
  <2> HIDE DEF e
  <2>3. events \in Seq(Events) /\ Len(events) = 1 /\ events[1] = e
    BY <2>2
  <2>4. Applicable(mem, events[1])
    BY <1>2, <2>2, <2>3 DEF Applicable
  <2>5. events[1].kind = "RECONCILE" /\ events[1].id = id
    BY <2>2, <2>3
  <2> HIDE DEF events
  <2>6. /\ Len(events) <= 2 /\ 1 <= Len(events) /\ events \in Seq(Events) /\ Len(events) # 2
        /\ mem.held[events[1].id] # Zero /\ events[1].id \in settled'
    BY <2>1, <2>3, <2>5
  <2> QED BY <1>1, <2>1, <2>4, <2>5, <2>6, CallKeeps
<1>3. ASSUME Exceeds(actuals, mem.held[id]), NEW events \in Seq(Events), Call(events),
             1 <= Len(events), Len(events) <= 2, events[1] = Entry("DRIFT", id, Zero),
             Len(events) = 2 => events[2].kind \in {"KILL_SWITCH", "DENY"}
      PROVE  LedgerInvariant'
  <2>1. events[1].kind = "DRIFT"
    BY <1>1, <1>3, EntryType, AmountsAssumption DEF EventKinds
  <2>2. Applicable(mem, events[1])
    BY <2>1 DEF Applicable
  <2>3. events[1].kind # "RESERVE" /\ events[1].kind # "RECONCILE"
        /\ events[1].kind # "LEDGER_OPENED"
    BY <2>1
  <2> QED BY <1>1, <1>3, <2>2, <2>3, CallKeeps
<1>4. /\ Entry("DRIFT", id, Zero) \in Events
      /\ Note("KILL_SWITCH") \in Events /\ Note("KILL_SWITCH").kind = "KILL_SWITCH"
  BY <1>1, EntryType, NoteType, AmountsAssumption DEF EventKinds
<1>5. CASE Exceeds(actuals, mem.held[id]) /\ mem.kill
  <2> DEFINE events == <<Entry("DRIFT", id, Zero)>>
  <2>1. Call(events)
    BY <1>5 DEF Reconcile
  <2>2. /\ events \in Seq(Events) /\ 1 <= Len(events) /\ Len(events) <= 2
        /\ events[1] = Entry("DRIFT", id, Zero) /\ Len(events) # 2
    BY <1>4
  <2> HIDE DEF events
  <2> QED BY <1>3, <1>5, <2>1, <2>2
<1>6. CASE Exceeds(actuals, mem.held[id]) /\ ~mem.kill
  <2> DEFINE events == <<Entry("DRIFT", id, Zero), Note("KILL_SWITCH")>>
  <2>1. Call(events)
    BY <1>6 DEF Reconcile
  <2>2. /\ events \in Seq(Events) /\ 1 <= Len(events) /\ Len(events) <= 2
        /\ events[1] = Entry("DRIFT", id, Zero)
        /\ events[2].kind \in {"KILL_SWITCH", "DENY"}
    BY <1>4
  <2> HIDE DEF events
  <2> QED BY <1>3, <1>6, <2>1, <2>2
<1> QED BY <1>2, <1>5, <1>6

(* A line is written. *)
LEMMA AppendKeeps == LedgerInvariant /\ AppendLine => LedgerInvariant'
<1> SUFFICES ASSUME LedgerInvariant, AppendLine PROVE LedgerInvariant'
  OBVIOUS
<1> DEFINE e == pending[1]
<1>1. /\ pending # <<>> /\ stage = "append" /\ stage' = "checkpoint" /\ anchored' = FALSE
      /\ intact' = (intact /\ Accepts(store, e, mem.seq))
      /\ store' = IF intact' THEN Apply(store, e) ELSE store
      /\ UNCHANGED <<up, mem, pending, overdue, granted, settled, killed, faulted>>
  BY DEF AppendLine
<1>2. up /\ e \in Events /\ mem \in Ledgers /\ store \in Ledgers
  BY <1>1 DEF LedgerInvariant, TypeOK, CallShape
<1>3. mem.seq \in 0..MaxEvents /\ store.seq \in 0..MaxEvents /\ mem.seq >= 1
  BY <1>2 DEF LedgerInvariant, CallShape, Ledgers
<1> HIDE DEF e
<1> USE EventsAssumption
<1>4. ASSUME intact'
      PROVE  /\ mem.seq = store.seq + 1 /\ store' = mem /\ store' = Apply(store, e)
             /\ store.seq < MaxEvents /\ Applicable(store, e)
  <2>1. intact /\ Accepts(store, e, mem.seq) /\ store' = Apply(store, e)
    BY <1>1, <1>4
  <2>2. mem.seq = store.seq + 1
    BY <2>1 DEF Accepts
  <2>3. mem = Apply(store, e)
    BY <1>1, <1>2, <2>1, <2>2 DEF LedgerInvariant, InStep, e
  <2>4. e.kind = "RESERVE" => e.id \in Ids
    BY <1>1, <1>3 DEF LedgerInvariant, PendingInMemory, e, Ids
  <2>5. e.kind = "RECONCILE" => e.id \in Ids /\ ~Exceeds(e.amounts, store.held[e.id])
    BY <1>1, <2>1 DEF LedgerInvariant, PendingInMemory, e, Accepts, TypeOK
  <2> QED BY <1>3, <2>1, <2>2, <2>3, <2>4, <2>5 DEF Applicable
<1>5. store' \in Ledgers /\ intact' \in BOOLEAN /\ WithinLimits(store') /\ HeldBelow(store')
  <2>1. CASE intact'
    BY <1>2, <1>4, <2>1 DEF LedgerInvariant, BudgetHolds, IdsBelow
  <2>2. CASE ~intact'
    BY <1>1, <1>2, <2>2 DEF LedgerInvariant, BudgetHolds, IdsBelow
  <2>3. intact' \in BOOLEAN
    BY <1>1
  <2> QED BY <2>1, <2>2, <2>3
<1>6. TypeOK'
  BY <1>1, <1>5 DEF LedgerInvariant, TypeOK
<1>7. BudgetHolds' /\ IdsBelow'
  BY <1>1, <1>5 DEF LedgerInvariant, BudgetHolds, IdsBelow
<1>8. CallShape'
  <2>1. store'.seq = 0 => store' = EmptyLedger
    BY <1>1, <1>3, <1>4 DEF LedgerInvariant, CallShape
  <2> QED BY <1>1, <2>1 DEF LedgerInvariant, CallShape
<1>9. PendingInMemory' /\ InStep'
  BY <1>1, <1>4 DEF LedgerInvariant, PendingInMemory, InStep
<1>10. GrantsBehind'
  <2>1. SUFFICES ASSUME intact', NEW i \in Ids, granted[i] # Zero
                 PROVE  i <= store'.seq /\ (i \notin settled => store'.held[i] = granted[i])
    BY <1>1 DEF LedgerInvariant, GrantsBehind
  <2>2. intact /\ i <= store.seq /\ (i \notin settled => store.held[i] = granted[i])
    BY <1>1, <2>1 DEF LedgerInvariant, GrantsBehind
  <2>3. i <= store'.seq
    BY <1>3, <1>4, <2>1, <2>2 DEF Ids
  <2>4. e.kind = "RESERVE" => i # e.id
    BY <1>1, <1>3, <1>4, <2>1, <2>2 DEF LedgerInvariant, PendingInMemory, e, Ids
  <2>5. e.kind = "RECONCILE" => e.id \in settled
    BY <1>1 DEF LedgerInvariant, PendingInMemory, e
  <2>6. i \notin settled => store'.held[i] = store.held[i]
    BY <1>2, <1>4, <2>1, <2>4, <2>5, ApplyFacts
  <2> QED BY <2>2, <2>3, <2>6
<1>11. KillSeen'
  <2>1. intact' /\ store.kill => store'.kill
    <3>1. intact' => store'.kill = (store.kill \/ e.kind = "KILL_SWITCH")
      BY <1>2, <1>4, ApplyFacts
    <3> QED BY <3>1, Zenon
  <2> QED BY <1>1, <2>1 DEF LedgerInvariant, KillSeen
<1>12. FaultFree'
  BY <1>1, <1>2 DEF LedgerInvariant, FaultFree, e
<1> QED BY <1>6, <1>7, <1>8, <1>9, <1>10, <1>11, <1>12 DEF LedgerInvariant

(* A sequence of at most two elements that is not empty. *)
LEMMA ShortSequence ==
  ASSUME NEW S, NEW s \in Seq(S), s # <<>>, Len(s) <= 2
  PROVE  Len(s) = 1 \/ Len(s) = 2
<1>1. Len(s) \in Nat \ {0}
  BY EmptySeq, Zenon
<1>2. \A n \in Nat \ {0} : n <= 2 => n = 1 \/ n = 2
  OBVIOUS
<1> QED BY <1>1, <1>2, Zenon

(* What is left of a sequence of two. *)
LEMMA TailOfTwo ==
  ASSUME NEW S, NEW s \in Seq(S), Len(s) = 2
  PROVE  /\ s[2] \in S /\ Tail(s) \in Seq(S) /\ Len(Tail(s)) = 1 /\ Tail(s) # <<>>
         /\ Tail(s)[1] = s[2]
<1>1. s # <<>>
  BY EmptySeq
<1>2. /\ Tail(s) \in Seq(S) /\ Len(Tail(s)) = Len(s) - 1
      /\ \A i \in 1..Len(Tail(s)) : Tail(s)[i] = s[i + 1]
  BY <1>1, HeadTailProperties
<1>3. s[2] \in S
  BY ElementOfSeq
<1>4. Len(Tail(s)) = 1
  BY <1>2
<1>5. Tail(s) # <<>>
  <2>1. Len(<<>>) # 1
    OBVIOUS
  <2> QED BY <1>4, <2>1, Zenon
<1>6. Tail(s)[1] = s[2]
  <2>1. 1 \in 1..1 /\ 1 + 1 = 2
    OBVIOUS
  <2>2. \A i \in 1..1 : Tail(s)[i] = s[i + 1]
    BY <1>2, <1>4, Zenon
  <2> HIDE <1>2, <1>4
  <2> QED BY <2>1, <2>2, Zenon
<1> QED BY <1>2, <1>3, <1>4, <1>5, <1>6

(* The checkpoint pins the line, and the call continues or returns. *)
LEMMA CheckpointKeeps == LedgerInvariant /\ Checkpoint => LedgerInvariant'
<1> SUFFICES ASSUME LedgerInvariant, Checkpoint PROVE LedgerInvariant'
  OBVIOUS
<1> DEFINE e == pending[1]
<1>1. /\ pending # <<>> /\ stage = "checkpoint" /\ stage' = "append" /\ anchored' = TRUE
      /\ pending' = Tail(pending)
      /\ mem' = IF Len(pending) = 2 THEN Apply(mem, pending[2]) ELSE mem
      /\ granted' = IF e.kind = "RESERVE" THEN [granted EXCEPT ![e.id] = e.amounts] ELSE granted
      /\ killed' = (killed \/ e.kind = "KILL_SWITCH")
      /\ UNCHANGED <<up, store, intact, overdue, settled, faulted>>
  BY DEF Checkpoint
<1>2. /\ up /\ e \in Events /\ mem \in Ledgers /\ store \in Ledgers
      /\ pending \in Seq(Events) /\ Len(pending) <= 2
  BY <1>1 DEF LedgerInvariant, TypeOK, CallShape
<1> HIDE DEF e
<1>3. /\ mem.seq \in 1..MaxEvents /\ store.seq \in 0..MaxEvents
      /\ mem.seq + Len(pending) <= MaxEvents + 1
  BY <1>1, <1>2, EventsAssumption DEF LedgerInvariant, CallShape, Ledgers
<1>4. /\ intact => mem = store
      /\ ~faulted => intact
  BY <1>1, <1>2 DEF LedgerInvariant, InStep, FaultFree
<1>5. /\ e.kind = "RESERVE" => /\ e.id = mem.seq /\ e.id \in Ids /\ mem.held[e.id] = e.amounts
                               /\ granted[e.id] = Zero /\ ~mem.kill
      /\ e.kind = "KILL_SWITCH" => mem.kill
  BY <1>1, <1>3 DEF LedgerInvariant, PendingInMemory, e, Ids
<1>6. granted' \in [Ids -> Amounts] /\ killed' \in BOOLEAN
  <2>1. granted \in [Ids -> Amounts] /\ e.amounts \in Amounts
    BY <1>2 DEF LedgerInvariant, TypeOK, Events
  <2>2. killed' \in BOOLEAN
    BY <1>1
  <2> QED BY <1>1, <2>1, <2>2
<1>7. ASSUME NEW i \in Ids, granted'[i] # Zero
      PROVE  /\ i <= mem.seq
             /\ intact => i <= store.seq /\ (i \notin settled => store.held[i] = granted'[i])
  <2>1. CASE e.kind = "RESERVE" /\ i = e.id
    <3>1. granted'[i] = e.amounts
      BY <1>1, <2>1 DEF LedgerInvariant, TypeOK
    <3> QED BY <1>3, <1>4, <1>5, <2>1, <3>1
  <2>2. CASE ~(e.kind = "RESERVE" /\ i = e.id)
    <3>1. granted'[i] = granted[i]
      BY <1>1, <2>2 DEF LedgerInvariant, TypeOK
    <3> QED BY <1>2, <1>7, <3>1 DEF LedgerInvariant, GrantsBehind
  <2> QED BY <2>1, <2>2
<1>8. killed' => mem.kill /\ (intact => store.kill)
  BY <1>1, <1>2, <1>4, <1>5 DEF LedgerInvariant, KillSeen
<1>9. CASE Len(pending) = 1
  <2>1. pending' = <<>> /\ mem' = mem
    BY <1>1, <1>2, <1>9
  <2>2. TypeOK'
    <3>1. pending' \in Seq(Events) /\ Len(pending') <= 2
      BY <2>1
    <3>2. stage' \in {"append", "checkpoint"} /\ anchored' \in BOOLEAN
      BY <1>1
    <3> QED BY <1>1, <1>6, <2>1, <3>1, <3>2 DEF LedgerInvariant, TypeOK
  <2>3. BudgetHolds' /\ IdsBelow' /\ PendingInMemory'
    BY <1>1, <2>1 DEF LedgerInvariant, BudgetHolds, IdsBelow, PendingInMemory
  <2>4. CallShape'
    <3>1. up' = up /\ store' = store /\ pending' = <<>> /\ mem' = mem /\ Len(pending') # 2
      BY <1>1, <2>1
    <3> QED BY <3>1 DEF LedgerInvariant, CallShape
  <2>5. InStep' /\ FaultFree'
    BY <1>1, <1>3, <1>4, <2>1 DEF InStep, FaultFree
  <2>6. GrantsBehind' /\ KillSeen'
    BY <1>1, <1>7, <1>8, <2>1 DEF GrantsBehind, KillSeen
  <2> QED BY <2>2, <2>3, <2>4, <2>5, <2>6 DEF LedgerInvariant
<1>10. CASE Len(pending) = 2
  <2> DEFINE f == pending[2]
  <2>1. /\ f \in Events /\ f.kind \in {"KILL_SWITCH", "DENY"} /\ mem' = Apply(mem, f)
        /\ mem.seq < MaxEvents
    <3>1. f \in Events
      BY <1>2, <1>10, TailOfTwo
    <3>4. mem.seq < MaxEvents
      BY <1>3, <1>10, EventsAssumption
    <3>2. f.kind \in {"KILL_SWITCH", "DENY"}
      BY <1>10 DEF LedgerInvariant, CallShape
    <3>3. mem' = Apply(mem, f)
      BY <1>1, <1>10
    <3> QED BY <3>1, <3>2, <3>3, <3>4
  <2>2. /\ pending' \in Seq(Events) /\ Len(pending') = 1 /\ pending' # <<>> /\ pending'[1] = f
    <3>1. pending' = Tail(pending)
      BY <1>1
    <3> QED BY <1>2, <1>10, <3>1, TailOfTwo
  <2> HIDE DEF f
  <2>3. Applicable(mem, f)
    BY <2>1 DEF Applicable
  <2>4. mem' \in Ledgers /\ mem'.seq = mem.seq + 1
    BY <1>2, <2>1, <2>3, ApplyType
  <2>5. /\ mem'.kill = (mem.kill \/ f.kind = "KILL_SWITCH")
        /\ \A i \in Ids : mem'.held[i] = mem.held[i]
    BY <1>2, <2>1, <2>3, ApplyFacts
  <2>6. WithinLimits(mem')
    BY <1>2, <2>1, <2>3, ApplyWithin DEF LedgerInvariant, BudgetHolds
  <2>7. TypeOK'
    <3>1. pending' \in Seq(Events) /\ Len(pending') <= 2
      BY <2>2
    <3>2. stage' \in {"append", "checkpoint"} /\ anchored' \in BOOLEAN
      BY <1>1
    <3> QED BY <1>1, <1>6, <2>4, <3>1, <3>2 DEF LedgerInvariant, TypeOK
  <2>8. BudgetHolds' /\ IdsBelow'
    <3>1. HeldBelow(mem')
      BY <1>3, <2>4, <2>5 DEF LedgerInvariant, IdsBelow, HeldBelow, Ids
    <3> QED BY <1>1, <2>6, <3>1 DEF LedgerInvariant, BudgetHolds, IdsBelow
  <2>13. up' = up /\ store' = store /\ intact' = intact /\ settled' = settled /\ stage' = "append"
    BY <1>1
  <2>9. CallShape'
    <3>1. mem'.seq + Len(pending') <= MaxEvents + 1 /\ mem'.seq >= 1 /\ Len(pending') # 2
      BY <1>3, <1>10, <2>2, <2>4, EventsAssumption
    <3> QED BY <1>2, <2>13, <3>1 DEF LedgerInvariant, CallShape
  <2>10. PendingInMemory' /\ InStep'
    <3>1. PendingInMemory'
      BY <2>1, <2>2, <2>5 DEF PendingInMemory
    <3>2. InStep'
      BY <1>3, <1>4, <2>1, <2>2, <2>4, <2>13 DEF InStep
    <3> QED BY <3>1, <3>2
  <2>11. GrantsBehind' /\ KillSeen'
    <3>1. \A i \in Ids : i <= mem.seq => i <= mem'.seq
      BY <1>3, <2>4 DEF Ids
    <3>2. GrantsBehind'
      BY <1>7, <2>13, <3>1 DEF GrantsBehind
    <3>3. mem.kill => mem'.kill
      BY <2>5, Zenon
    <3>4. KillSeen'
      BY <1>8, <2>13, <3>3 DEF KillSeen
    <3> QED BY <3>2, <3>4
  <2>12. FaultFree'
    BY <1>1, <1>3, <1>4, <2>1, <2>2, <2>4 DEF FaultFree, Accepts
  <2> QED BY <2>7, <2>8, <2>9, <2>10, <2>11, <2>12 DEF LedgerInvariant
<1>11. Len(pending) = 1 \/ Len(pending) = 2
  <2>1. pending # <<>>
    BY <1>1
  <2> QED BY <1>2, <2>1, ShortSequence
<1> QED BY <1>9, <1>10, <1>11

(* A write that raises keeps the invariant, torn or not. *)
LEMMA WriteFailsKeeps ==
  ASSUME LedgerInvariant, NEW torn \in BOOLEAN, WriteFails(torn)
  PROVE  LedgerInvariant'
<1>1. /\ pending # <<>> /\ pending' = <<>> /\ stage' = "append" /\ faulted' = TRUE
      /\ intact' = (intact /\ ~torn) /\ anchored' = (anchored /\ ~torn)
      /\ up' = (pending[1].kind # "LEDGER_OPENED")
      /\ mem' = IF up' THEN mem ELSE EmptyLedger
      /\ UNCHANGED <<store, overdue, granted, settled, killed>>
  BY DEF WriteFails
<1>2. up /\ mem \in Ledgers /\ store \in Ledgers
  BY <1>1 DEF LedgerInvariant, TypeOK, CallShape
<1>3. mem.seq \in 0..MaxEvents /\ store.seq \in 0..MaxEvents
  BY <1>2 DEF Ledgers
<1>4. mem' \in Ledgers /\ WithinLimits(mem') /\ HeldBelow(mem') /\ (up' => mem' = mem)
  <2>1. CASE up'
    BY <1>1, <1>2, <2>1 DEF LedgerInvariant, BudgetHolds, IdsBelow
  <2>2. CASE ~up'
    BY <1>1, <2>2, EmptyFacts DEF HeldBelow
  <2> QED BY <2>1, <2>2
<1>5. TypeOK'
  <2>1. up' \in BOOLEAN /\ intact' \in BOOLEAN /\ anchored' \in BOOLEAN /\ faulted' \in BOOLEAN
    BY <1>1
  <2>2. pending' \in Seq(Events) /\ Len(pending') <= 2
    <3>1. pending' = <<>>
      BY <1>1
    <3> QED BY <3>1
  <2>3. stage' \in {"append", "checkpoint"}
    BY <1>1
  <2> QED BY <1>1, <1>4, <2>1, <2>2, <2>3 DEF LedgerInvariant, TypeOK
<1>6. BudgetHolds' /\ IdsBelow' /\ PendingInMemory' /\ FaultFree'
  BY <1>1, <1>4 DEF LedgerInvariant, BudgetHolds, IdsBelow, PendingInMemory, FaultFree
<1>7. CallShape'
  <2>1. store' = store /\ pending' = <<>> /\ Len(pending') # 2 /\ (up' => mem' = mem)
    <3>1. pending' = <<>>
      BY <1>1
    <3> QED BY <1>1, <1>4, <3>1
  <2> QED BY <1>2, <2>1 DEF LedgerInvariant, CallShape
<1>8. InStep'
  <2>1. SUFFICES ASSUME intact', up'
                 PROVE  mem.seq >= store.seq /\ (mem.seq = store.seq => mem = store)
    BY <1>1, <1>4 DEF InStep
  <2>2. intact /\ stage \in {"append", "checkpoint"}
    BY <1>1, <2>1 DEF LedgerInvariant, TypeOK
  <2>3. CASE stage = "append"
    BY <1>1, <1>2, <1>3, <2>2, <2>3 DEF LedgerInvariant, InStep
  <2>4. CASE stage = "checkpoint"
    BY <1>1, <1>2, <1>3, <2>2, <2>4 DEF LedgerInvariant, InStep
  <2> QED BY <2>2, <2>3, <2>4
<1>9. GrantsBehind' /\ KillSeen'
  BY <1>1, <1>2, <1>4 DEF LedgerInvariant, GrantsBehind, KillSeen
<1> QED BY <1>5, <1>6, <1>7, <1>8, <1>9 DEF LedgerInvariant

(* The end of the process keeps the invariant. *)
LEMMA CrashKeeps ==
  ASSUME LedgerInvariant, NEW torn \in BOOLEAN, Crash(torn)
  PROVE  LedgerInvariant'
<1>1. /\ up' = FALSE /\ mem' = EmptyLedger /\ pending' = <<>> /\ stage' = "append"
      /\ intact' = (intact /\ ~torn) /\ anchored' = (anchored /\ ~torn)
      /\ faulted' = (faulted \/ torn)
      /\ UNCHANGED <<store, overdue, granted, settled, killed>>
  BY DEF Crash
<1>2. TypeOK'
  <2>1. up' \in BOOLEAN /\ intact' \in BOOLEAN /\ anchored' \in BOOLEAN /\ faulted' \in BOOLEAN
    BY <1>1
  <2>2. pending' \in Seq(Events) /\ Len(pending') <= 2
    <3>1. pending' = <<>>
      BY <1>1
    <3> QED BY <3>1
  <2>3. stage' \in {"append", "checkpoint"} /\ mem' \in Ledgers
    BY <1>1, EmptyFacts
  <2> QED BY <1>1, <2>1, <2>2, <2>3 DEF LedgerInvariant, TypeOK
<1>3. BudgetHolds' /\ IdsBelow' /\ PendingInMemory' /\ InStep' /\ FaultFree'
  BY <1>1, EmptyFacts
    DEF LedgerInvariant, BudgetHolds, IdsBelow, HeldBelow, PendingInMemory, InStep, FaultFree
<1>4. CallShape'
  <2>1. store' = store /\ pending' = <<>> /\ ~up' /\ Len(<<>>) # 2
    BY <1>1
  <2> QED BY <2>1 DEF LedgerInvariant, CallShape
<1>5. GrantsBehind' /\ KillSeen'
  BY <1>1 DEF LedgerInvariant, GrantsBehind, KillSeen
<1> QED BY <1>2, <1>3, <1>4, <1>5 DEF LedgerInvariant

(* The deadline and stuttering leave everything else alone. *)
LEMMA QuietKeeps ==
  ASSUME LedgerInvariant, overdue' \in BOOLEAN,
         UNCHANGED <<up, mem, store, intact, anchored, pending, stage, granted, settled,
                     killed, faulted>>
  PROVE  LedgerInvariant'
<1>1. TypeOK'
  BY DEF LedgerInvariant, TypeOK
<1>2. BudgetHolds' /\ CallShape' /\ IdsBelow' /\ PendingInMemory'
  BY DEF LedgerInvariant, BudgetHolds, CallShape, IdsBelow, PendingInMemory
<1>3. InStep' /\ GrantsBehind' /\ KillSeen' /\ FaultFree'
  BY DEF LedgerInvariant, InStep, GrantsBehind, KillSeen, FaultFree
<1> QED BY <1>1, <1>2, <1>3 DEF LedgerInvariant

(* Every step keeps the invariant. *)
LEMMA LedgerStep == LedgerInvariant /\ [Next]_vars => LedgerInvariant'
<1> SUFFICES ASSUME LedgerInvariant, [Next]_vars PROVE LedgerInvariant'
  OBVIOUS
<1>1. CASE Open
  BY <1>1, OpenKeeps
<1>2. CASE Load
  BY <1>2, LoadKeeps
<1>3. ASSUME NEW amounts \in Amounts, Reserve(amounts) PROVE LedgerInvariant'
  BY <1>3, ReserveKeeps
<1>4. ASSUME NEW id \in Ids, NEW actuals \in Amounts, Reconcile(id, actuals)
      PROVE LedgerInvariant'
  BY <1>4, ReconcileKeeps
<1>5. CASE EngageKillSwitch
  BY <1>5, NoteCallKeeps DEF EngageKillSwitch
<1>6. CASE AppendLine
  BY <1>6, AppendKeeps
<1>7. CASE Checkpoint
  BY <1>7, CheckpointKeeps
<1>8. ASSUME NEW torn \in BOOLEAN, WriteFails(torn) PROVE LedgerInvariant'
  BY <1>8, WriteFailsKeeps
<1>9. ASSUME NEW torn \in BOOLEAN, Crash(torn) PROVE LedgerInvariant'
  BY <1>9, CrashKeeps
<1>10. CASE DeadlinePasses
  BY <1>10, QuietKeeps DEF DeadlinePasses
<1>11. CASE UNCHANGED vars
  <2>1. overdue' \in BOOLEAN
    BY <1>11 DEF LedgerInvariant, TypeOK, vars
  <2> QED BY <1>11, <2>1, QuietKeeps DEF vars
<1> QED
  BY <1>1, <1>2, <1>3, <1>4, <1>5, <1>6, <1>7, <1>8, <1>9, <1>10, <1>11 DEF Next

(* The invariant holds of every behaviour of the ledger. *)
THEOREM LedgerCorrect == Spec => []LedgerInvariant
BY LedgerInit, LedgerStep, PTL DEF Spec

-----------------------------------------------------------------------------
(* TypeOK: the totals of budget.py stay numbers and the released and used  *)
(* amounts never negative, since reconcile refuses an overrun before it    *)
(* subtracts.                                                              *)
THEOREM LedgerTypes == Spec => []TypeOK
<1>1. LedgerInvariant => TypeOK
  BY DEF LedgerInvariant
<1> QED BY <1>1, LedgerCorrect, PTL

(* BudgetHolds: reserve never takes the committed totals past a ceiling,   *)
(* whatever crashed, failed to be written or was reloaded in between.      *)
THEOREM BudgetSafe == Spec => []BudgetHolds
<1>1. LedgerInvariant => BudgetHolds
  BY DEF LedgerInvariant
<1> QED BY <1>1, LedgerCorrect, PTL

(* GrantedIsDurable: a store that BudgetLedger.load accepts still holds    *)
(* every reservation that reserve returned and reconcile did not settle.   *)
THEOREM GrantsDurable == Spec => []GrantedIsDurable
<1>1. LedgerInvariant => GrantedIsDurable
  BY DEF LedgerInvariant, GrantsBehind, GrantedIsDurable, Loadable
<1> QED BY <1>1, LedgerCorrect, PTL

(* KillIsDurable: load restores a kill switch that a call has recorded. *)
THEOREM KillDurable == Spec => []KillIsDurable
<1>1. LedgerInvariant => KillIsDurable
  BY DEF LedgerInvariant, KillSeen, KillIsDurable, Loadable
<1> QED BY <1>1, LedgerCorrect, PTL

(* MemoryIsStored: while _append_event succeeds, what load would replay is *)
(* what the open ledger has in memory.                                     *)
THEOREM MemoryStored == Spec => []MemoryIsStored
<1>1. LedgerInvariant => MemoryIsStored
  BY DEF LedgerInvariant, FaultFree, MemoryIsStored
<1> QED BY <1>1, LedgerCorrect, PTL

(* GrantsAreFresh: reserve never returns an id twice, nor anything after a *)
(* recorded kill switch.                                                   *)
THEOREM GrantsFresh == Spec => GrantsAreFresh
<1> DEFINE Fresh == \A i \in Ids : granted'[i] # granted[i] => granted[i] = Zero /\ ~killed
<1>1. LedgerInvariant /\ [Next]_vars => [Fresh]_vars
  <2> SUFFICES ASSUME LedgerInvariant, Next PROVE Fresh
    OBVIOUS
  <2>1. CASE Checkpoint
    <3>1. /\ pending # <<>> /\ up /\ granted \in [Ids -> Amounts]
          /\ granted' = IF pending[1].kind = "RESERVE"
                         THEN [granted EXCEPT ![pending[1].id] = pending[1].amounts]
                         ELSE granted
      BY <2>1 DEF Checkpoint, LedgerInvariant, TypeOK, CallShape
    <3>2. pending[1].kind = "RESERVE" => granted[pending[1].id] = Zero /\ ~killed
      BY <3>1 DEF LedgerInvariant, PendingInMemory, KillSeen
    <3> QED BY <3>1, <3>2
  <2>2. CASE ~Checkpoint
    BY <2>2 DEF Next, Open, Load, Reserve, Reconcile, EngageKillSwitch, Call, AppendLine,
                WriteFails, Crash, DeadlinePasses
  <2> QED BY <2>1, <2>2
<1> QED BY <1>1, LedgerCorrect, PTL DEF Spec, GrantsAreFresh

-----------------------------------------------------------------------------
(* Sums of the reservations. *)

(* Is s the function of partial sums of h over 1..N? *)
IsSum(s, h, N) ==
  /\ s \in [0..N -> Int] /\ s[0] = 0
  /\ \A n \in 1..N : s[n] = s[n - 1] + h[n]

(* Are s and t the sums of two functions h and g that differ at i at most? *)
SumsBut(s, h, t, g, N, i) ==
  /\ N \in Nat /\ i \in 1..N
  /\ h \in [1..N -> Int] /\ IsSum(s, h, N)
  /\ g \in [1..N -> Int] /\ IsSum(t, g, N)
  /\ \A n \in 1..N : n # i => g[n] = h[n]

(* Every function on 1..N has partial sums. *)
LEMMA SumExists ==
  ASSUME NEW N \in Nat, NEW h \in [1..N -> Int]
  PROVE  \E s : IsSum(s, h, N)
<1> DEFINE S == {k \in Nat : k <= N => \E s : IsSum(s, h, k)}
<1>1. 0 \in S
  <2>1. IsSum([n \in 0..0 |-> 0], h, 0)
    BY DEF IsSum
  <2> QED BY <2>1
<1>2. ASSUME NEW k \in Nat, k \in S PROVE k + 1 \in S
  <2> SUFFICES ASSUME k + 1 <= N PROVE \E s : IsSum(s, h, k + 1)
    OBVIOUS
  <2>1. PICK s : IsSum(s, h, k)
    BY <1>2
  <2> DEFINE t == [n \in 0..(k + 1) |-> IF n = k + 1 THEN s[k] + h[k + 1] ELSE s[n]]
  <2>2. s[k] \in Int /\ h[k + 1] \in Int /\ \A n \in 0..k : s[n] \in Int
    BY <2>1 DEF IsSum
  <2>3. t \in [0..(k + 1) -> Int] /\ t[0] = 0 /\ t[k + 1] = t[k] + h[k + 1]
    BY <2>1, <2>2 DEF IsSum
  <2>4. \A n \in 1..k : t[n] = t[n - 1] + h[n]
    BY <2>1 DEF IsSum
  <2>5. (k + 1) - 1 = k /\ \A n \in 1..(k + 1) : n = k + 1 \/ n \in 1..k
    OBVIOUS
  <2> HIDE DEF t
  <2> QED BY <2>3, <2>4, <2>5 DEF IsSum
<1> HIDE DEF S
<1>3. N \in S
  BY <1>1, <1>2, SetInduction
<1> QED BY <1>3 DEF S

(* Changing one value changes the sum by the difference. *)
LEMMA SumChanges ==
  ASSUME NEW s, NEW h, NEW t, NEW g, NEW N, NEW i, SumsBut(s, h, t, g, N, i)
  PROVE  t[N] = s[N] + (g[i] - h[i])
<1>0. /\ N \in Nat /\ i \in 1..N
      /\ h \in [1..N -> Int] /\ IsSum(s, h, N)
      /\ g \in [1..N -> Int] /\ IsSum(t, g, N)
      /\ \A n \in 1..N : n # i => g[n] = h[n]
  BY DEF SumsBut
<1> USE <1>0
<1> DEFINE S == {k \in Nat : k <= N => t[k] = s[k] + (IF k >= i THEN g[i] - h[i] ELSE 0)}
<1>1. 0 \in S
  BY DEF IsSum
<1>2. ASSUME NEW k \in Nat, k \in S PROVE k + 1 \in S
  <2> SUFFICES ASSUME k + 1 <= N
               PROVE  t[k + 1] = s[k + 1] + (IF k + 1 >= i THEN g[i] - h[i] ELSE 0)
    OBVIOUS
  <2>1. t[k] = s[k] + (IF k >= i THEN g[i] - h[i] ELSE 0)
    BY <1>2
  <2>2. k + 1 \in 1..N /\ (k + 1) - 1 = k
    OBVIOUS
  <2>3. t[k + 1] = t[k] + g[k + 1] /\ s[k + 1] = s[k] + h[k + 1]
    BY <2>2 DEF IsSum
  <2>4. /\ t[k] \in Int /\ s[k] \in Int /\ g[k + 1] \in Int /\ h[k + 1] \in Int
        /\ g[i] \in Int /\ h[i] \in Int
    <3>1. k \in 0..N
      OBVIOUS
    <3>2. t[k] \in Int /\ s[k] \in Int
      BY <3>1 DEF IsSum
    <3> QED BY <2>2, <3>2
  <2>5. CASE k + 1 = i
    <3>1. ~(k >= i) /\ k + 1 >= i
      BY <2>5
    <3>2. t[k + 1] = t[k] + g[i] /\ s[k + 1] = s[k] + h[i]
      BY <2>3, <2>5
    <3>3. t[k] = s[k]
      BY <2>1, <2>4, <3>1
    <3> QED BY <2>4, <3>1, <3>2, <3>3
  <2>6. CASE k + 1 # i
    BY <2>1, <2>2, <2>3, <2>4, <2>6
  <2> QED BY <2>5, <2>6
<1> HIDE DEF S
<1>3. N \in S
  BY <1>1, <1>2, SetInduction
<1> QED BY <1>3 DEF S

(* Equal functions have equal sums. *)
LEMMA SumSame ==
  ASSUME NEW N \in Nat, NEW h, NEW g, \A n \in 1..N : g[n] = h[n],
         NEW s, IsSum(s, h, N), NEW t, IsSum(t, g, N)
  PROVE  t[N] = s[N]
<1> DEFINE S == {k \in Nat : k <= N => t[k] = s[k]}
<1>1. 0 \in S
  BY DEF IsSum
<1>2. ASSUME NEW k \in Nat, k \in S PROVE k + 1 \in S
  <2> SUFFICES ASSUME k + 1 <= N PROVE t[k + 1] = s[k + 1]
    OBVIOUS
  <2>1. t[k] = s[k]
    BY <1>2
  <2>2. k + 1 \in 1..N /\ (k + 1) - 1 = k
    OBVIOUS
  <2>3. t[k + 1] = t[k] + g[k + 1] /\ s[k + 1] = s[k] + h[k + 1]
    BY <2>2 DEF IsSum
  <2> QED BY <2>1, <2>2, <2>3
<1> HIDE DEF S
<1>3. N \in S
  BY <1>1, <1>2, SetInduction
<1> QED BY <1>3 DEF S

(* What the reservations of a ledger hold in dimension d, by id. *)
HeldIn(l, d) == [i \in Ids |-> l.held[i][d]]

(* HeldTotals is the function of their partial sums. *)
LEMMA TotalsAreSums ==
  ASSUME NEW l \in Ledgers, NEW d \in Dimensions
  PROVE  IsSum(HeldTotals(l, d), HeldIn(l, d), MaxEvents) /\ HeldIn(l, d) \in [1..MaxEvents -> Int]
<1> DEFINE h == HeldIn(l, d)
           Sums(s) == s = [n \in 0..MaxEvents |-> IF n = 0 THEN 0 ELSE s[n - 1] + l.held[n][d]]
<1>1. h \in [1..MaxEvents -> Int] /\ \A n \in 1..MaxEvents : h[n] = l.held[n][d]
  <2>1. \A n \in 1..MaxEvents : l.held[n] \in Amounts
    BY DEF Ids, Ledgers
  <2>2. \A n \in 1..MaxEvents : l.held[n][d] \in Int
    BY <2>1, AmountsAssumption
  <2> QED BY <2>2 DEF HeldIn, Ids
<1> HIDE DEF h
<1>2. PICK s : IsSum(s, h, MaxEvents)
  BY <1>1, SumExists, EventsAssumption
<1>3. Sums(s)
  BY <1>1, <1>2, EventsAssumption DEF IsSum
<1>4. HeldTotals(l, d) = CHOOSE t : Sums(t)
  BY DEF HeldTotals
<1> DEFINE t == HeldTotals(l, d)
<1>5. Sums(t)
  BY <1>3, <1>4
<1> HIDE DEF t
<1>6. t \in [0..MaxEvents -> Int]
  <2> DEFINE T == {k \in Nat : k <= MaxEvents => t[k] = s[k]}
  <2>1. 0 \in T
    BY <1>3, <1>5, EventsAssumption
  <2>2. ASSUME NEW k \in Nat, k \in T PROVE k + 1 \in T
    <3> SUFFICES ASSUME k + 1 <= MaxEvents PROVE t[k + 1] = s[k + 1]
      OBVIOUS
    <3>1. k + 1 \in 0..MaxEvents /\ k + 1 # 0 /\ (k + 1) - 1 = k /\ t[k] = s[k]
      BY <2>2, EventsAssumption
    <3>2. t[k + 1] = t[k] + l.held[k + 1][d]
      BY <1>5, <3>1
    <3>3. s[k + 1] = s[k] + l.held[k + 1][d]
      BY <1>3, <3>1
    <3> QED BY <3>1, <3>2, <3>3
  <2> HIDE DEF T
  <2>3. \A k \in Nat : k \in T
    BY <2>1, <2>2, SetInduction
  <2>4. \A k \in 0..MaxEvents : t[k] = s[k] /\ s[k] \in Int
    BY <1>2, <2>3, EventsAssumption DEF T, IsSum
  <2>5. t = [n \in 0..MaxEvents |-> t[n]]
    BY <1>5
  <2> QED BY <2>4, <2>5
<1>7. IsSum(t, h, MaxEvents)
  <2>1. t[0] = 0
    BY <1>5, EventsAssumption
  <2>2. \A n \in 1..MaxEvents : t[n] = t[n - 1] + h[n]
    BY <1>1, <1>5, EventsAssumption
  <2> QED BY <1>6, <2>1, <2>2 DEF IsSum
<1> QED BY <1>1, <1>7 DEF h, t

(* What changing one reservation does to the total held. *)
LEMMA TotalChanges ==
  ASSUME NEW l \in Ledgers, NEW m \in Ledgers, NEW d \in Dimensions, NEW i \in Ids,
         \A n \in Ids : n # i => m.held[n] = l.held[n]
  PROVE  HeldTotals(m, d)[MaxEvents]
           = HeldTotals(l, d)[MaxEvents] + (m.held[i][d] - l.held[i][d])
<1> DEFINE h == HeldIn(l, d)
           g == HeldIn(m, d)
           s == HeldTotals(l, d)
           t == HeldTotals(m, d)
<1>1. /\ IsSum(s, h, MaxEvents) /\ h \in [1..MaxEvents -> Int]
      /\ IsSum(t, g, MaxEvents) /\ g \in [1..MaxEvents -> Int]
  BY TotalsAreSums
<1>2. /\ \A n \in 1..MaxEvents : n # i => g[n] = h[n]
      /\ g[i] = m.held[i][d] /\ h[i] = l.held[i][d] /\ i \in 1..MaxEvents
  BY DEF HeldIn, Ids
<1> HIDE DEF h, g, s, t
<1>3. SumsBut(s, h, t, g, MaxEvents, i)
  BY <1>1, <1>2, EventsAssumption DEF SumsBut
<1>4. t[MaxEvents] = s[MaxEvents] + (g[i] - h[i])
  BY <1>3, SumChanges
<1>5. t[MaxEvents] = s[MaxEvents] + (m.held[i][d] - l.held[i][d])
  BY <1>2, <1>4
<1> QED BY <1>5 DEF s, t

(* The total held is a number, and depends on the reservations only. *)
LEMMA TotalFacts ==
  ASSUME NEW l \in Ledgers, NEW d \in Dimensions
  PROVE  /\ HeldTotals(l, d)[MaxEvents] \in Int
         /\ \A m \in Ledgers : (\A n \in Ids : m.held[n] = l.held[n]) =>
              HeldTotals(m, d)[MaxEvents] = HeldTotals(l, d)[MaxEvents]
<1>1. IsSum(HeldTotals(l, d), HeldIn(l, d), MaxEvents)
  BY TotalsAreSums
<1>2. HeldTotals(l, d)[MaxEvents] \in Int
  BY <1>1, EventsAssumption DEF IsSum
<1>3. ASSUME NEW m \in Ledgers, \A n \in Ids : m.held[n] = l.held[n]
      PROVE  HeldTotals(m, d)[MaxEvents] = HeldTotals(l, d)[MaxEvents]
  <2>1. IsSum(HeldTotals(m, d), HeldIn(m, d), MaxEvents)
    BY TotalsAreSums
  <2>2. \A n \in 1..MaxEvents : HeldIn(m, d)[n] = HeldIn(l, d)[n]
    BY <1>3 DEF HeldIn, Ids
  <2> QED BY <1>1, <2>1, <2>2, SumSame, EventsAssumption
<1> QED BY <1>2, <1>3

(* An event keeps the balance, if a reservation is made under a free id. *)
LEMMA ApplyConserves ==
  ASSUME NEW l \in Ledgers, NEW e \in Events, l.seq < MaxEvents, Applicable(l, e),
         Conserved(l), e.kind = "RESERVE" => l.held[e.id] = Zero
  PROVE  Conserved(Apply(l, e))
<1> DEFINE m == Apply(l, e)
<1>1. m \in Ledgers
  BY ApplyType
<1>2. \A i \in Ids : m.held[i] =
        IF i = e.id /\ e.kind = "RESERVE" THEN e.amounts
        ELSE IF i = e.id /\ e.kind = "RECONCILE" THEN Zero ELSE l.held[i]
  BY ApplyFacts
<1> SUFFICES ASSUME NEW d \in Dimensions
             PROVE  m.reserved[d] = m.actual[d] + HeldTotals(m, d)[MaxEvents]
  BY DEF Conserved
<1> DEFINE a == HeldTotals(l, d)[MaxEvents]
           b == HeldTotals(m, d)[MaxEvents]
<1>3. /\ l.reserved[d] = l.actual[d] + a /\ a \in Int /\ l.reserved[d] \in Int /\ l.actual[d] \in Int
      /\ e.amounts[d] \in Int /\ Zero[d] = 0
  <2>1. l.reserved[d] = l.actual[d] + a
    BY DEF Conserved
  <2>2. l.reserved[d] \in Int /\ l.actual[d] \in Int
    BY DEF Ledgers
  <2>3. e.amounts[d] \in Int
    BY AmountsAssumption DEF Events
  <2> QED BY <2>1, <2>2, <2>3, TotalFacts DEF Zero
<1>4. CASE e.kind = "RESERVE"
  <2>1. m.reserved[d] = l.reserved[d] + e.amounts[d] /\ m.actual[d] = l.actual[d]
    BY <1>4 DEF Apply, Charge, Ledgers, Plus
  <2>2. e.id \in Ids /\ l.held[e.id][d] = 0 /\ m.held[e.id] = e.amounts
    BY <1>2, <1>3, <1>4 DEF Applicable
  <2>3. \A n \in Ids : n # e.id => m.held[n] = l.held[n]
    BY <1>2
  <2> HIDE DEF m
  <2>4. b = a + (e.amounts[d] - 0)
    BY <1>1, <2>2, <2>3, TotalChanges
  <2> HIDE DEF a, b
  <2>5. m.reserved[d] = m.actual[d] + b
    BY <1>3, <2>1, <2>4
  <2> QED BY <2>5 DEF b
<1>5. CASE e.kind = "RECONCILE"
  <2>1. e.id \in Ids /\ m.held[e.id][d] = 0 /\ l.held[e.id][d] \in Int
    <3>1. e.id \in Ids
      BY <1>5 DEF Applicable
    <3>2. m.held[e.id] = Zero
      BY <1>2, <1>5, <3>1
    <3>3. l.held[e.id] \in Amounts
      BY <3>1 DEF Ledgers
    <3> QED BY <1>3, <3>1, <3>2, <3>3, AmountsAssumption
  <2>2. /\ m.reserved[d] = l.reserved[d] - (l.held[e.id][d] - e.amounts[d])
        /\ m.actual[d] = l.actual[d] + e.amounts[d]
    <3>1. /\ m.reserved = Minus(l.reserved, Minus(l.held[e.id], e.amounts))
          /\ m.actual = Plus(l.actual, e.amounts)
      BY <1>5 DEF Apply, Settle, Ledgers
    <3> QED BY <3>1 DEF Minus, Plus
  <2>3. \A n \in Ids : n # e.id => m.held[n] = l.held[n]
    BY <1>2
  <2> HIDE DEF m
  <2>4. b = a + (0 - l.held[e.id][d])
    BY <1>1, <2>1, <2>3, TotalChanges
  <2> HIDE DEF a, b
  <2>5. m.reserved[d] = m.actual[d] + b
    BY <1>3, <2>1, <2>2, <2>4
  <2> QED BY <2>5 DEF b
<1>6. CASE e.kind \notin {"RESERVE", "RECONCILE"}
  <2>1. m.reserved = l.reserved /\ m.actual = l.actual
    BY <1>6 DEF Apply, Ledgers
  <2>2. \A n \in Ids : m.held[n] = l.held[n]
    BY <1>2, <1>6
  <2> HIDE DEF m
  <2>3. b = a
    BY <1>1, <2>2, TotalFacts
  <2> QED BY <1>3, <2>1, <2>3
<1> QED BY <1>4, <1>5, <1>6

(* The empty ledger is balanced. *)
LEMMA EmptyConserved == Conserved(EmptyLedger)
<1> SUFFICES ASSUME NEW d \in Dimensions
             PROVE  EmptyLedger.reserved[d]
                      = EmptyLedger.actual[d] + HeldTotals(EmptyLedger, d)[MaxEvents]
  BY DEF Conserved
<1>1. /\ EmptyLedger \in Ledgers /\ EmptyLedger.reserved[d] = 0 /\ EmptyLedger.actual[d] = 0
      /\ \A i \in Ids : EmptyLedger.held[i] = Zero /\ Zero[d] = 0
  BY EmptyFacts DEF EmptyLedger, Zero
<1> DEFINE z == [n \in 0..MaxEvents |-> 0]
<1>2. IsSum(z, HeldIn(EmptyLedger, d), MaxEvents)
  BY <1>1, EventsAssumption DEF IsSum, HeldIn, Ids
<1>3. IsSum(HeldTotals(EmptyLedger, d), HeldIn(EmptyLedger, d), MaxEvents)
  BY <1>1, TotalsAreSums
<1>4. z[MaxEvents] = 0
  BY EventsAssumption
<1> HIDE DEF z
<1>5. HeldTotals(EmptyLedger, d)[MaxEvents] = 0
  BY <1>2, <1>3, <1>4, SumSame, EventsAssumption
<1> QED BY <1>1, <1>5

(* The beginning of a call keeps the balance. *)
LEMMA CallConserves ==
  ASSUME LedgerInvariant, BudgetConserved, NEW events, Call(events), 1 <= Len(events),
         events[1] \in Events, Applicable(mem, events[1]), Len(events) \in Nat,
         events[1].kind = "RESERVE" => events[1].id = mem.seq + 1
  PROVE  BudgetConserved'
<1>1. mem \in Ledgers /\ mem.seq \in 0..MaxEvents /\ mem.seq < MaxEvents
  BY EventsAssumption DEF LedgerInvariant, TypeOK, Ledgers, Call
<1>2. events[1].kind = "RESERVE" => mem.held[events[1].id] = Zero
  BY <1>1 DEF LedgerInvariant, IdsBelow, HeldBelow, Applicable
<1>3. mem' = Apply(mem, events[1]) /\ store' = store
  BY DEF Call
<1>4. Conserved(Apply(mem, events[1]))
  BY <1>1, <1>2, ApplyConserves DEF BudgetConserved
<1>5. Conserved(mem') /\ Conserved(store')
  BY <1>3, <1>4 DEF BudgetConserved
<1> QED BY <1>5 DEF BudgetConserved

(* reserve, reconcile and engage_kill_switch keep the balance. *)
LEMMA CallsConserve ==
  ASSUME LedgerInvariant, BudgetConserved,
         \/ \E amounts \in Amounts : Reserve(amounts)
         \/ \E id \in Ids, actuals \in Amounts : Reconcile(id, actuals)
         \/ EngageKillSwitch
  PROVE  BudgetConserved'
<1>1. ASSUME NEW kind \in {"DENY", "KILL_SWITCH"}, Call(<<Note(kind)>>) PROVE BudgetConserved'
  <2> DEFINE events == <<Note(kind)>>
  <2>1. Note(kind) \in Events /\ Note(kind).kind = kind
    BY NoteType DEF EventKinds
  <2>2. events[1] = Note(kind) /\ Len(events) \in Nat /\ 1 <= Len(events) /\ Call(events)
    BY <1>1
  <2> HIDE DEF events
  <2>3. Applicable(mem, events[1])
    BY <2>1, <2>2 DEF Applicable
  <2> QED BY <2>1, <2>2, <2>3, CallConserves
<1>2. ASSUME NEW events, Call(events), Len(events) \in Nat, 1 <= Len(events), events[1] \in Events,
             events[1].kind \notin {"RESERVE", "RECONCILE"}
      PROVE  BudgetConserved'
  <2>1. Applicable(mem, events[1])
    BY <1>2 DEF Applicable
  <2> QED BY <1>2, <2>1, CallConserves
<1>3. ASSUME NEW amounts \in Amounts, Reserve(amounts) PROVE BudgetConserved'
  <2>1. CASE overdue /\ ~mem.kill
    <3> DEFINE events == <<Note("KILL_SWITCH"), Note("DENY")>>
    <3>1. Call(events)
      BY <1>3, <2>1 DEF Reserve
    <3>2. Note("KILL_SWITCH") \in Events /\ Note("KILL_SWITCH").kind = "KILL_SWITCH"
      BY NoteType DEF EventKinds
    <3>3. /\ Len(events) \in Nat /\ 1 <= Len(events) /\ events[1] \in Events
          /\ events[1].kind = "KILL_SWITCH"
      BY <3>2
    <3> HIDE DEF events
    <3> QED BY <1>2, <3>1, <3>3
  <2>2. CASE ~(overdue /\ ~mem.kill) /\ (overdue \/ ~Admits(mem, amounts))
    BY <1>1, <1>3, <2>2 DEF Reserve
  <2>3. CASE ~overdue /\ Admits(mem, amounts)
    <3>1. mem.seq + 1 \in 1..MaxEvents
      <4>1. mem.seq \in 0..MaxEvents
        BY DEF LedgerInvariant, TypeOK, Ledgers
      <4>2. mem.seq + 1 <= MaxEvents
        BY <1>3, <2>3 DEF Reserve, Call
      <4> QED BY <4>1, <4>2, EventsAssumption
    <3>2. PICK n \in 1..MaxEvents : n = mem.seq + 1
      BY <3>1
    <3> DEFINE e == Entry("RESERVE", n, amounts)
               events == <<e>>
    <3>3. Call(events)
      BY <1>3, <2>3, <3>2 DEF Reserve
    <3>4. n \in Ids /\ n \in 0..MaxEvents
      BY EventsAssumption DEF Ids
    <3>5. e \in Events /\ e.kind = "RESERVE" /\ e.id = n
      BY <3>4, EntryType DEF EventKinds
    <3> HIDE DEF e
    <3>6. Len(events) \in Nat /\ 1 <= Len(events) /\ events[1] = e
      OBVIOUS
    <3> HIDE DEF events
    <3>7. Applicable(mem, events[1])
      BY <3>4, <3>5, <3>6 DEF Applicable
    <3> QED BY <3>2, <3>3, <3>5, <3>6, <3>7, CallConserves
  <2> QED BY <2>1, <2>2, <2>3
<1>4. ASSUME NEW id \in Ids, NEW actuals \in Amounts, Reconcile(id, actuals) PROVE BudgetConserved'
  <2>1. id \in 0..MaxEvents
    BY DEF Ids
  <2>2. CASE ~Exceeds(actuals, mem.held[id])
    <3> DEFINE e == Entry("RECONCILE", id, actuals)
               events == <<e>>
    <3>1. Call(events)
      BY <1>4, <2>2 DEF Reconcile
    <3>2. e \in Events /\ e.kind = "RECONCILE" /\ e.id = id /\ e.amounts = actuals
      BY <2>1, EntryType DEF EventKinds
    <3> HIDE DEF e
    <3>3. Len(events) \in Nat /\ 1 <= Len(events) /\ events[1] = e
      OBVIOUS
    <3> HIDE DEF events
    <3>4. Applicable(mem, events[1])
      BY <2>2, <3>2, <3>3 DEF Applicable
    <3> QED BY <3>1, <3>2, <3>3, <3>4, CallConserves
  <2>3. Entry("DRIFT", id, Zero) \in Events /\ Entry("DRIFT", id, Zero).kind = "DRIFT"
    BY <2>1, EntryType, AmountsAssumption DEF EventKinds
  <2>4. CASE Exceeds(actuals, mem.held[id]) /\ mem.kill
    <3> DEFINE events == <<Entry("DRIFT", id, Zero)>>
    <3>1. Call(events)
      BY <1>4, <2>4 DEF Reconcile
    <3>2. /\ Len(events) \in Nat /\ 1 <= Len(events) /\ events[1] \in Events
          /\ events[1].kind = "DRIFT"
      BY <2>3
    <3> HIDE DEF events
    <3> QED BY <1>2, <3>1, <3>2
  <2>5. CASE Exceeds(actuals, mem.held[id]) /\ ~mem.kill
    <3> DEFINE events == <<Entry("DRIFT", id, Zero), Note("KILL_SWITCH")>>
    <3>1. Call(events)
      BY <1>4, <2>5 DEF Reconcile
    <3>2. /\ Len(events) \in Nat /\ 1 <= Len(events) /\ events[1] \in Events
          /\ events[1].kind = "DRIFT"
      BY <2>3
    <3> HIDE DEF events
    <3> QED BY <1>2, <3>1, <3>2
  <2> QED BY <2>2, <2>4, <2>5
<1>5. CASE EngageKillSwitch
  BY <1>1, <1>5 DEF EngageKillSwitch
<1> QED BY <1>3, <1>4, <1>5

(* Every step keeps the balance. *)
LEMMA ConservedStep == LedgerInvariant /\ BudgetConserved /\ [Next]_vars => BudgetConserved'
<1> SUFFICES ASSUME LedgerInvariant, BudgetConserved, [Next]_vars PROVE BudgetConserved'
  OBVIOUS
<1>1. Conserved(mem) /\ Conserved(store)
  BY DEF BudgetConserved
<1> SUFFICES ASSUME ~( \/ \E amounts \in Amounts : Reserve(amounts)
                       \/ \E id \in Ids, actuals \in Amounts : Reconcile(id, actuals)
                       \/ EngageKillSwitch )
             PROVE  Conserved(mem') /\ Conserved(store')
  BY CallsConserve DEF BudgetConserved
<1>2. CASE Open
  <2> DEFINE e == Note("LEDGER_OPENED")
  <2>1. MaxEvents > 0 /\ mem' = Apply(EmptyLedger, e) /\ store' = store
    BY <1>2 DEF Open
  <2>2. e \in Events /\ e.kind = "LEDGER_OPENED"
    BY NoteType DEF EventKinds
  <2> HIDE DEF e
  <2>3. Applicable(EmptyLedger, e)
    BY <2>2 DEF Applicable
  <2>4. Conserved(Apply(EmptyLedger, e))
    BY <2>1, <2>2, <2>3, EmptyFacts, EmptyConserved, ApplyConserves
  <2> QED BY <1>1, <2>1, <2>4
<1>3. CASE Load
  BY <1>1, <1>3 DEF Load
<1>4. CASE AppendLine
  <2> DEFINE e == pending[1]
  <2>1. /\ pending # <<>> /\ stage = "append" /\ mem' = mem
        /\ store' = IF intact /\ Accepts(store, e, mem.seq) THEN Apply(store, e) ELSE store
    BY <1>4 DEF AppendLine
  <2>2. CASE intact /\ Accepts(store, e, mem.seq)
    <3>1. up /\ mem.seq = store.seq + 1
      BY <2>1, <2>2 DEF LedgerInvariant, CallShape, Accepts
    <3>2. mem = Apply(store, e)
      BY <2>1, <2>2, <3>1 DEF LedgerInvariant, InStep
    <3> QED BY <1>1, <2>1, <2>2, <3>2
  <2>3. CASE ~(intact /\ Accepts(store, e, mem.seq))
    BY <1>1, <2>1, <2>3
  <2> QED BY <2>2, <2>3
<1>5. CASE Checkpoint
  <2>1. store' = store /\ mem' = IF Len(pending) = 2 THEN Apply(mem, pending[2]) ELSE mem
    BY <1>5 DEF Checkpoint
  <2>2. CASE Len(pending) = 2
    <3> DEFINE f == pending[2]
    <3>1. pending \in Seq(Events) /\ mem \in Ledgers /\ mem.seq \in 0..MaxEvents
      BY DEF LedgerInvariant, TypeOK, Ledgers
    <3>2. f \in Events
      BY <2>2, <3>1, TailOfTwo
    <3>3. f.kind \in {"KILL_SWITCH", "DENY"}
      BY <2>2 DEF LedgerInvariant, CallShape
    <3>4. mem.seq < MaxEvents
      <4>1. pending # <<>>
        BY <1>5 DEF Checkpoint
      <4>2. mem.seq + Len(pending) <= MaxEvents + 1
        BY <4>1 DEF LedgerInvariant, CallShape
      <4> QED BY <2>2, <3>1, <4>2, EventsAssumption
    <3>5. mem' = Apply(mem, f)
      BY <2>1, <2>2
    <3> HIDE DEF f
    <3>6. Applicable(mem, f)
      BY <3>3 DEF Applicable
    <3>7. Conserved(Apply(mem, f))
      BY <1>1, <3>1, <3>2, <3>3, <3>4, <3>6, ApplyConserves
    <3> QED BY <1>1, <2>1, <3>5, <3>7
  <2>3. CASE Len(pending) # 2
    BY <1>1, <2>1, <2>3
  <2> QED BY <2>2, <2>3
<1>6. ASSUME NEW torn \in BOOLEAN, WriteFails(torn) PROVE Conserved(mem') /\ Conserved(store')
  BY <1>1, <1>6, EmptyConserved DEF WriteFails
<1>7. ASSUME NEW torn \in BOOLEAN, Crash(torn) PROVE Conserved(mem') /\ Conserved(store')
  BY <1>1, <1>7, EmptyConserved DEF Crash
<1>8. CASE DeadlinePasses
  BY <1>1, <1>8 DEF DeadlinePasses
<1>9. CASE UNCHANGED vars
  BY <1>1, <1>9 DEF vars
<1> QED BY <1>2, <1>3, <1>4, <1>5, <1>6, <1>7, <1>8, <1>9 DEF Next

(* BudgetConserved: in budget.py the committed totals are at all times the *)
(* accepted use plus what _in_flight still holds, in memory and in what    *)
(* load replays; no crash, failed write or second settlement counts an     *)
(* amount twice or loses one.                                              *)
THEOREM BudgetBalances == Spec => []BudgetConserved
<1>1. Init => BudgetConserved
  BY EmptyConserved DEF Init, BudgetConserved
<1> QED BY <1>1, ConservedStep, LedgerCorrect, PTL DEF Spec
=============================================================================
