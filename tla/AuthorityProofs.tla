---------------------------- MODULE AuthorityProofs ----------------------------
(***************************************************************************)
(* The authority store, for any processes, grants and commands and any     *)
(* number of uses, facts, corrections and crashes.  The theorems are about *)
(* AdoptionSpec, so they hold for the source grants as well.               *)
(*                                                                         *)
(* The invariant has two halves that no action mixes: UseInvariant ties    *)
(* the two stores and the memory of the processes to the durable uses, and *)
(* FactInvariant ties the tables of the facts to their history.            *)
(***************************************************************************)
EXTENDS Adoption, Induction, SequenceTheorems, TLAPS

allVars == <<vars, adoptionVars>>

(* The types of what the uses read and write. *)
UseTypes ==
  /\ kind \in Kinds
  /\ mem \in [Processes -> [grants : SUBSET Grants, claims : SUBSET Grants,
                             bound : [Grants -> Commands \cup {None}]]]
  /\ source \in [Grants -> [state : {"NONE", "CLAIMED", "INTENT_COMMITTED"}, granted : BOOLEAN,
                             intent : Commands \cup {None}]]
  /\ redeemed \in [Commands -> Grants \cup {None}] /\ contacted \subseteq Commands
  /\ proc \in [Processes -> [at : {"idle", "committed", "marked", "launched"},
                              cmd : Commands \cup {None}, grant : Grants \cup {None}]]
  /\ writer \in Processes \cup {None} /\ crashes \in 0..MaxCrashes
  /\ life \in {"READY", "RUNNING", "VALIDATING", "RECONCILIATION_REQUIRED", "BLOCKED"}

(* A dispatch under way is of a durable use of the grant it holds. *)
DispatchNamesItsUse ==
  \A p \in Processes : proc[p].at # "idle" =>
    /\ proc[p].cmd \in Commands /\ proc[p].grant \in Grants
    /\ redeemed[proc[p].cmd] = proc[p].grant

UseInvariant == UseTypes /\ DispatchNamesItsUse /\ MarkerNamesItsUse /\ OneUsePerGrant

(* The record sets of the memory, the rows and the dispatches. *)
MemType == [grants : SUBSET Grants, claims : SUBSET Grants, bound : [Grants -> Commands \cup {None}]]
RowType == [state : {"NONE", "CLAIMED", "INTENT_COMMITTED"}, granted : BOOLEAN,
            intent : Commands \cup {None}]
ProcType == [at : {"idle", "committed", "marked", "launched"},
             cmd : Commands \cup {None}, grant : Grants \cup {None}]

--------------------------------------------------------------------------------
(* A process that starts is well typed and remembers what the rows say. *)
LEMMA StartedTyped ==
  ASSUME NEW k, NEW rows, rows \in [Grants -> RowType]
  PROVE  /\ Started(k, rows) \in MemType
         /\ \A g \in Grants : Started(k, rows).bound[g] \in {None, rows[g].intent}
  BY DEF Started, MemType, RowType

(* Nothing is in use at first. *)
LEMMA InitUses == Init => UseInvariant
  <1> SUFFICES ASSUME Init PROVE UseInvariant OBVIOUS
  <1>1. source \in [Grants -> RowType] /\ \A g \in Grants : source[g].intent = None
    BY DEF Init, Unclaimed, RowType
  <1>2. /\ Started(kind, source) \in MemType
        /\ \A g \in Grants : Started(kind, source).bound[g] = None
    BY <1>1, StartedTyped
  <1>3. mem \in [Processes -> MemType] /\ \A p \in Processes, g \in Grants : mem[p].bound[g] = None
    BY <1>2 DEF Init, MemType
  <1>4. MarkerNamesItsUse BY <1>1, <1>3 DEF MarkerNamesItsUse
  <1>5. UseTypes
    BY <1>1, <1>3, AuthorityBounds DEF Init, UseTypes, MemType, RowType, Idle, Usable, Kinds
  <1>6. DispatchNamesItsUse /\ OneUsePerGrant
    BY DEF Init, DispatchNamesItsUse, OneUsePerGrant, Idle
  <1>7. QED BY <1>4, <1>5, <1>6 DEF UseInvariant

(* What the uses read and write apart from the claims. *)
useVars == <<kind, redeemed, contacted, proc, writer, crashes, life>>

(* Registering, claiming and releasing touch no marker. *)
LEMMA ClaimsKeepUses ==
  ASSUME UseInvariant, UNCHANGED useVars,
         mem' \in [Processes -> MemType], source' \in [Grants -> RowType],
         \A g \in Grants : source'[g].intent = source[g].intent,
         \A p \in Processes, g \in Grants : mem'[p].bound[g] = mem[p].bound[g]
  PROVE  UseInvariant'
  BY DEF UseInvariant, UseTypes, DispatchNamesItsUse, MarkerNamesItsUse, OneUsePerGrant,
     useVars, MemType, RowType

(* Taking hold of a claim in memory changes no binding. *)
LEMMA HoldTyped ==
  ASSUME UseTypes, NEW p \in Processes, NEW g \in Grants, Hold(p, g)
  PROVE  /\ mem' \in [Processes -> MemType]
         /\ \A q \in Processes, x \in Grants : mem'[q].bound[x] = mem[q].bound[x]
  BY DEF Hold, UseTypes, MemType

(* A row that is claimed keeps its marker. *)
LEMMA ClaimedTyped ==
  ASSUME UseTypes, NEW g \in Grants, source' = [source EXCEPT ![g] = ClaimedRow(@)]
  PROVE  /\ source' \in [Grants -> RowType]
         /\ \A x \in Grants : source'[x].intent = source[x].intent
  BY DEF ClaimedRow, UseTypes, RowType

(* What changes in a process's memory besides its bindings. *)
LEMMA MemoryFields ==
  \A m \in MemType, S \in SUBSET Grants :
    /\ [m EXCEPT !.grants = S] \in MemType /\ [m EXCEPT !.grants = S].bound = m.bound
    /\ [m EXCEPT !.claims = S] \in MemType /\ [m EXCEPT !.claims = S].bound = m.bound
  BY DEF MemType

(* The dispatch of a process that has none. *)
LEMMA ProcFields == Idle \in ProcType /\ Idle.at = "idle"
  BY DEF Idle, ProcType

(* Registering grants changes no binding and no marker. *)
LEMMA RegistersTyped ==
  ASSUME UseTypes, NEW p \in Processes, Registers(p)
  PROVE  /\ mem' \in [Processes -> MemType]
         /\ \A q \in Processes, x \in Grants : mem'[q].bound[x] = mem[q].bound[x]
         /\ GrantedRows \in [Grants -> RowType]
         /\ \A x \in Grants : GrantedRows[x].intent = source[x].intent
  <1>1. /\ mem' \in [Processes -> MemType]
        /\ \A q \in Processes, x \in Grants : mem'[q].bound[x] = mem[q].bound[x]
    <2>1. mem \in [Processes -> MemType] BY DEF UseTypes, MemType
    <2>2. mem' = [mem EXCEPT ![p] = [mem[p] EXCEPT !.grants = Grants]] BY DEF Registers
    <2>3. QED BY <2>1, <2>2, MemoryFields
  <1>2. \A x \in Grants : source[x] \in RowType BY DEF UseTypes, RowType
  <1>3. \A row \in RowType : /\ [row EXCEPT !.granted = TRUE] \in RowType
                            /\ [row EXCEPT !.granted = TRUE].intent = row.intent
    BY DEF RowType
  <1>4. QED BY <1>1, <1>2, <1>3 DEF GrantedRows

LEMMA UnchangedSource ==
  ASSUME UseTypes, source' = source
  PROVE  /\ source' \in [Grants -> RowType]
         /\ \A x \in Grants : source'[x].intent = source[x].intent
  BY DEF UseTypes, RowType

(* Steps of the claim store keep the invariant. *)
LEMMA ClaimStepKeepsUses ==
  ASSUME UseInvariant, NEW p \in Processes, ClaimStep(p)
  PROVE  UseInvariant'
  <1>0. UseTypes /\ UNCHANGED useVars BY DEF UseInvariant, ClaimStep, controlVars, useVars
  <1>1. CASE Register(p) \/ RegisterValidator(p) \/ RegisterOperator(p)
    <2>1. Registers(p) /\ (source' = source \/ source' = GrantedRows)
      BY <1>1 DEF Register, RegisterValidator, RegisterOperator
    <2>2. /\ source' \in [Grants -> RowType]
          /\ \A x \in Grants : source'[x].intent = source[x].intent
      BY <1>0, <2>1, RegistersTyped, UnchangedSource
    <2>3. QED BY <1>0, <2>1, <2>2, RegistersTyped, ClaimsKeepUses
  <1>2. CASE \E g \in Grants :
               \/ Claim(p, g) \/ ClaimOrRecover(p, g) \/ ClaimValidator(p, g)
               \/ ClaimOrRecoverValidator(p, g) \/ ClaimOperator(p, g)
    <2>1. PICK g \in Grants : /\ Hold(p, g)
                              /\ source' = source \/ source' = [source EXCEPT ![g] = ClaimedRow(@)]
      BY <1>2 DEF Claim, ClaimOrRecover, ClaimValidator, ClaimOrRecoverValidator, ClaimOperator
    <2>2. QED BY <1>0, <2>1, HoldTyped, ClaimedTyped, UnchangedSource, ClaimsKeepUses
  <1>3. CASE \E g \in Grants : ReleaseUncommittedValidatorClaim(p, g)
    <2>1. PICK g \in Grants : mem' = [mem EXCEPT ![p].claims = @ \ {g}] /\ source' = source
      BY <1>3 DEF ReleaseUncommittedValidatorClaim
    <2>2. /\ mem' \in [Processes -> MemType]
          /\ \A q \in Processes, x \in Grants : mem'[q].bound[x] = mem[q].bound[x]
      <3>1. mem[p].claims \ {g} \in SUBSET Grants BY <1>0 DEF UseTypes
      <3>2. mem \in [Processes -> MemType] BY <1>0 DEF UseTypes, MemType
      <3>3. mem' = [mem EXCEPT ![p] = [mem[p] EXCEPT !.claims = mem[p].claims \ {g}]] BY <2>1
      <3>4. QED BY <3>1, <3>2, <3>3, MemoryFields
    <2>3. QED BY <1>0, <2>1, <2>2, UnchangedSource, ClaimsKeepUses
  <1>4. QED BY <1>1, <1>2, <1>3 DEF ClaimStep

(* A process that is lost remembers, when it starts again, only what the   *)
(* claim store says.                                                       *)
LEMMA CrashKeepsUses ==
  ASSUME UseInvariant, NEW p \in Processes, Crash(p)
  PROVE  UseInvariant'
  <1>1. /\ UNCHANGED <<kind, source, redeemed, contacted, life>>
        /\ mem' = [mem EXCEPT ![p] = Started(kind, source)]
        /\ proc' = [proc EXCEPT ![p] = Idle]
        /\ writer' = IF writer = p THEN None ELSE writer
        /\ crashes < MaxCrashes /\ crashes' = crashes + 1
    BY DEF Crash, controlVars
  <1>2. source \in [Grants -> RowType] BY DEF UseInvariant, UseTypes, RowType
  <1>3. /\ Started(kind, source) \in MemType
        /\ \A g \in Grants : Started(kind, source).bound[g] \in {None, source[g].intent}
    <2>1. PICK k, rows : k = kind /\ rows = source OBVIOUS
    <2>2. QED BY <1>2, <2>1, StartedTyped
  <1>4. mem' \in [Processes -> MemType]
    BY <1>1, <1>3 DEF UseInvariant, UseTypes, MemType
  <1>5. \A q \in Processes, g \in Grants : mem'[q].bound[g] \in {None, source[g].intent, mem[q].bound[g]}
    BY <1>1, <1>3 DEF UseInvariant, UseTypes, MemType
  <1>6. MarkerNamesItsUse'
    BY <1>1, <1>5 DEF UseInvariant, MarkerNamesItsUse
  <1>7. UseTypes'
    BY <1>1, <1>4, AuthorityBounds DEF UseInvariant, UseTypes, MemType, Idle
  <1>8. DispatchNamesItsUse'
    BY <1>1 DEF UseInvariant, UseTypes, DispatchNamesItsUse, Idle
  <1>9. QED BY <1>1, <1>6, <1>7, <1>8 DEF UseInvariant, OneUsePerGrant

(* A use becomes durable under a grant that nobody has redeemed and a      *)
(* command that has redeemed nothing.                                      *)
LEMMA RedeemKeepsUses ==
  ASSUME UseInvariant, NEW p \in Processes, NEW c \in Commands, NEW g \in Grants,
         Redeem(p, c, g), redeemed[c] = None, Unredeemed(g),
         writer' \in {writer, p}, life' \in {life, "RUNNING", "RECONCILIATION_REQUIRED"},
         mem' \in [Processes -> MemType], source' \in [Grants -> RowType],
         \A x \in Grants : source'[x].intent = source[x].intent,
         \A q \in Processes, x \in Grants : mem'[q].bound[x] = mem[q].bound[x]
  PROVE  UseInvariant'
  <1>1. /\ redeemed' = [redeemed EXCEPT ![c] = g]
        /\ proc' = [proc EXCEPT ![p] = [at |-> "committed", cmd |-> c, grant |-> g]]
        /\ UNCHANGED <<kind, contacted, crashes>>
    BY DEF Redeem
  <1>2. UseTypes'
    BY <1>1 DEF UseInvariant, UseTypes, MemType, RowType
  <1>3. \A d \in Commands : redeemed[d] # None => redeemed'[d] = redeemed[d]
    BY <1>1 DEF UseInvariant, UseTypes
  <1>4. DispatchNamesItsUse'
    BY <1>1, <1>3, NoneIsNoCommand DEF UseInvariant, UseTypes, DispatchNamesItsUse
  <1>5. MarkerNamesItsUse'
    <2>1. \A d \in Commands, x \in Grants : redeemed[d] = x => redeemed'[d] = x
      BY <1>3, NoneIsNoCommand
    <2>2. \A x \in Grants : source'[x].intent \in Commands \cup {None}
      BY DEF RowType
    <2>3. \A q \in Processes, x \in Grants : mem'[q].bound[x] \in Commands \cup {None}
      BY DEF MemType
    <2>4. QED BY <2>1, <2>2, <2>3 DEF UseInvariant, MarkerNamesItsUse
  <1>6. OneUsePerGrant'
    BY <1>1 DEF UseInvariant, UseTypes, OneUsePerGrant, Unredeemed
  <1>7. QED BY <1>2, <1>4, <1>5, <1>6 DEF UseInvariant

LEMMA CommitStepKeepsUses ==
  ASSUME UseInvariant, NEW p \in Processes, NEW c \in Commands, NEW g \in Grants, CommitStep(p, c, g)
  PROVE  UseInvariant'
  <1>0. UseTypes BY DEF UseInvariant
  <1>1. Redeem(p, c, g) /\ redeemed[c] = None /\ Unredeemed(g)
    BY DEF CommitStep, CommitIntent, CommitValidatorIntent, OperatorAction, NewUse
  <1>2. writer' \in {writer, p} /\ life' \in {life, "RUNNING", "RECONCILIATION_REQUIRED"}
    BY DEF CommitStep, CommitIntent, CommitValidatorIntent, OperatorAction
  <1>3. CASE UNCHANGED claimVars
    BY <1>0, <1>1, <1>2, <1>3, RedeemKeepsUses, UnchangedSource DEF claimVars, UseTypes, MemType
  <1>4. CASE Hold(p, g) /\ source' = [source EXCEPT ![g] = ClaimedRow(@)]
    BY <1>0, <1>1, <1>2, <1>4, RedeemKeepsUses, HoldTyped, ClaimedTyped
  <1>5. QED BY <1>3, <1>4 DEF CommitStep, CommitIntent, CommitValidatorIntent, OperatorAction

(* A marker put for a durable use of its grant names it. *)
LEMMA MarkKeepsMarkers ==
  ASSUME UseInvariant, NEW p \in Processes, NEW c \in Commands, NEW g \in Grants,
         redeemed[c] = g, redeemed' = redeemed, Remember(p, c, g),
         source' = source \/ source' = [source EXCEPT ![g] = MarkedRow(@, c)]
  PROVE  /\ MarkerNamesItsUse'
         /\ mem' \in [Processes -> MemType] /\ source' \in [Grants -> RowType]
  <1>1. mem \in [Processes -> MemType] /\ source \in [Grants -> RowType]
    BY DEF UseInvariant, UseTypes, MemType, RowType
  <1> DEFINE m == [mem[p] EXCEPT !.bound[g] = c, !.claims = @ \cup {g}]
  <1>2. m \in MemType /\ \A x \in Grants : m.bound[x] = IF x = g THEN c ELSE mem[p].bound[x]
    <2>1. mem[p] \in MemType /\ mem[p].claims \cup {g} \in SUBSET Grants
      BY <1>1 DEF MemType
    <2>2. m = [mem[p] EXCEPT !.bound[g] = c, !.claims = mem[p].claims \cup {g}]
      BY <2>1 DEF MemType
    <2>3. m \in MemType /\ m.bound = [mem[p].bound EXCEPT ![g] = c]
      <3>1. PICK b \in [Grants -> Commands \cup {None}] : b = [mem[p].bound EXCEPT ![g] = c]
        BY <2>1 DEF MemType
      <3>2. PICK mm \in MemType, S \in SUBSET Grants : mm = mem[p] /\ S = mem[p].claims \cup {g}
        BY <2>1
      <3>3. /\ [mm EXCEPT !.bound = b, !.claims = S] \in MemType
            /\ [mm EXCEPT !.bound = b, !.claims = S].bound = b
        BY DEF MemType
      <3>4. m = [mm EXCEPT !.bound = b, !.claims = S] BY <2>2, <3>1, <3>2
      <3> HIDE DEF m
      <3>5. QED BY <3>1, <3>3, <3>4
    <2>4. QED BY <2>1, <2>3 DEF MemType
  <1>3. mem' = [mem EXCEPT ![p] = m] BY DEF Remember
  <1> HIDE DEF m
  <1>4. mem' \in [Processes -> MemType] BY <1>1, <1>2, <1>3
  <1>5. MarkedRow(source[g], c) \in RowType /\ MarkedRow(source[g], c).intent = c
    <2>1. source[g] \in RowType BY <1>1
    <2>2. QED BY <2>1 DEF MarkedRow, RowType
  <1>6. source' \in [Grants -> RowType]
        /\ \A x \in Grants : source'[x].intent = source[x].intent \/ (x = g /\ source'[x].intent = c)
    BY <1>1, <1>5
  <1>7. \A q \in Processes, x \in Grants :
          mem'[q].bound[x] = mem[q].bound[x] \/ (x = g /\ mem'[q].bound[x] = c)
    BY <1>1, <1>2, <1>3
  <1>8. MarkerNamesItsUse' BY <1>6, <1>7 DEF UseInvariant, MarkerNamesItsUse
  <1>9. QED BY <1>4, <1>6, <1>8

(* The call that committed a use marks its claim. *)
LEMMA MarkStepKeepsUses ==
  ASSUME UseInvariant, NEW p \in Processes, MarkStep(p)
  PROVE  UseInvariant'
  <1>1. /\ proc[p].at = "committed"
        /\ UNCHANGED <<kind, redeemed, contacted, crashes, life>> /\ writer' \in {writer, None}
    BY DEF MarkStep, MarkIntent, MarkValidatorIntent, MarkOperatorAction, controlVars
  <1>2. PICK c \in Commands, g \in Grants : proc[p].cmd = c /\ proc[p].grant = g /\ redeemed[c] = g
    BY <1>1 DEF UseInvariant, DispatchNamesItsUse
  <1>3. Remember(p, c, g) /\ (source' = source \/ source' = [source EXCEPT ![g] = MarkedRow(@, c)])
    BY <1>2 DEF MarkStep, MarkIntent, MarkValidatorIntent, MarkOperatorAction,
       MarkOrRecoverIntent, MarkValidatorIntentBinding
  <1>4. /\ MarkerNamesItsUse'
        /\ mem' \in [Processes -> MemType] /\ source' \in [Grants -> RowType]
    BY <1>1, <1>2, <1>3, MarkKeepsMarkers
  <1>5. proc' = [proc EXCEPT ![p].at = "marked"] \/ proc' = [proc EXCEPT ![p] = Idle]
    BY DEF MarkStep, MarkIntent, MarkValidatorIntent, MarkOperatorAction
  <1>6. UseTypes'
    <2>1. proc \in [Processes -> ProcType] BY DEF UseInvariant, UseTypes, ProcType
    <2>2. proc' \in [Processes -> ProcType]
      <3>1. proc' = [proc EXCEPT ![p] = [proc[p] EXCEPT !.at = "marked"]] \/ proc' = [proc EXCEPT ![p] = Idle]
        BY <1>5
      <3>2. [proc[p] EXCEPT !.at = "marked"] \in ProcType BY <2>1 DEF ProcType
      <3>3. QED BY <2>1, <3>1, <3>2, ProcFields
    <2>3. QED BY <1>1, <1>4, <2>2 DEF UseInvariant, UseTypes, MemType, RowType, ProcType
  <1>7. DispatchNamesItsUse'
    <2>1. proc \in [Processes -> ProcType] BY DEF UseInvariant, UseTypes, ProcType
    <2>2. \A q \in Processes :
            \/ proc'[q].at = "idle"
            \/ proc[q].at # "idle" /\ proc'[q].cmd = proc[q].cmd /\ proc'[q].grant = proc[q].grant
      <3>1. proc' = [proc EXCEPT ![p] = [proc[p] EXCEPT !.at = "marked"]] \/ proc' = [proc EXCEPT ![p] = Idle]
        BY <1>5
      <3>2. /\ [proc[p] EXCEPT !.at = "marked"].cmd = proc[p].cmd
            /\ [proc[p] EXCEPT !.at = "marked"].grant = proc[p].grant
        BY <2>1 DEF ProcType
      <3>3. QED BY <1>1, <2>1, <3>1, <3>2, ProcFields
    <2>3. QED BY <1>1, <2>2 DEF UseInvariant, DispatchNamesItsUse
  <1>8. QED BY <1>1, <1>4, <1>6, <1>7 DEF UseInvariant, OneUsePerGrant

(* A repeated command marks the claim it redeemed. *)
LEMMA ReplayStepKeepsUses ==
  ASSUME UseInvariant, NEW p \in Processes, NEW c \in Commands, NEW g \in Grants, ReplayStep(p, c, g)
  PROVE  UseInvariant'
  <1>1. redeemed[c] = g /\ UNCHANGED useVars
    BY DEF ReplayStep, ReplayIntent, ReplayValidatorIntent, Replays, ReplayBinds, useVars, controlVars
  <1>2. Remember(p, c, g) /\ source' = [source EXCEPT ![g] = MarkedRow(@, c)]
    BY DEF ReplayStep, ReplayIntent, ReplayValidatorIntent,
       MarkOrRecoverIntent, MarkValidatorIntentBinding
  <1>3. /\ MarkerNamesItsUse'
        /\ mem' \in [Processes -> MemType] /\ source' \in [Grants -> RowType]
    BY <1>1, <1>2, MarkKeepsMarkers DEF useVars
  <1>4. UseTypes' /\ DispatchNamesItsUse' /\ OneUsePerGrant'
    BY <1>1, <1>3 DEF UseInvariant, UseTypes, MemType, RowType, DispatchNamesItsUse,
       OneUsePerGrant, useVars
  <1>5. QED BY <1>3, <1>4 DEF UseInvariant

(* A step that leaves the claims and the uses alone, and brings no         *)
(* dispatch further than its grant and command, keeps the invariant.       *)
LEMMA DispatchKeepsUses ==
  ASSUME UseInvariant, UNCHANGED <<kind, claimVars, redeemed, writer, crashes>>,
         contacted' \subseteq Commands,
         life' \in {"READY", "RUNNING", "VALIDATING", "RECONCILIATION_REQUIRED", "BLOCKED"},
         \/ proc' = proc
         \/ \E p \in Processes : proc[p].at # "idle" /\ proc' = [proc EXCEPT ![p].at = "launched"]
         \/ \E p \in Processes : proc' = [proc EXCEPT ![p] = Idle]
  PROVE  UseInvariant'
  <1>0. proc \in [Processes -> ProcType] BY DEF UseInvariant, UseTypes, ProcType
  <1>1. /\ proc' \in [Processes -> ProcType]
        /\ \A q \in Processes :
             \/ proc'[q].at = "idle"
             \/ proc[q].at # "idle" /\ proc'[q].cmd = proc[q].cmd /\ proc'[q].grant = proc[q].grant
    <2>1. CASE proc' = proc BY <1>0, <2>1
    <2>2. CASE \E p \in Processes : proc[p].at # "idle" /\ proc' = [proc EXCEPT ![p].at = "launched"]
      <3>1. PICK p \in Processes :
              proc[p].at # "idle" /\ proc' = [proc EXCEPT ![p] = [proc[p] EXCEPT !.at = "launched"]]
        BY <2>2
      <3>2. /\ [proc[p] EXCEPT !.at = "launched"] \in ProcType
            /\ [proc[p] EXCEPT !.at = "launched"].cmd = proc[p].cmd
            /\ [proc[p] EXCEPT !.at = "launched"].grant = proc[p].grant
        BY <1>0 DEF ProcType
      <3>3. QED BY <1>0, <3>1, <3>2
    <2>3. CASE \E p \in Processes : proc' = [proc EXCEPT ![p] = Idle]
      BY <1>0, <2>3, ProcFields
    <2>4. QED BY <2>1, <2>2, <2>3
  <1>2. UseTypes' /\ DispatchNamesItsUse'
    BY <1>1 DEF UseInvariant, UseTypes, ProcType, DispatchNamesItsUse, claimVars
  <1>3. QED BY <1>2 DEF UseInvariant, MarkerNamesItsUse, OneUsePerGrant, claimVars

LEMMA DispatchStepKeepsUses ==
  ASSUME UseInvariant, NEW p \in Processes, DispatchStep(p)
  PROVE  UseInvariant'
  <1>0. UseTypes /\ contacted \subseteq Commands BY DEF UseInvariant, UseTypes
  <1>1. CASE ClaimOperationLaunch(p)
    BY <1>0, <1>1, DispatchKeepsUses DEF ClaimOperationLaunch
  <1>2. CASE GiveUp(p)
    BY <1>0, <1>2, DispatchKeepsUses DEF GiveUp, controlVars, UseTypes
  <1>3. CASE ContactOperation(p) \/ ContactCommittedValidator(p)
    <2>1. proc[p].at # "idle" /\ Contacts(p)
      BY <1>3 DEF ContactOperation, ContactCommittedValidator
    <2>2. proc[p].cmd \in Commands BY <2>1 DEF UseInvariant, DispatchNamesItsUse
    <2>3. QED BY <1>0, <2>1, <2>2, DispatchKeepsUses DEF Contacts, UseTypes
  <1>4. QED BY <1>1, <1>2, <1>3 DEF DispatchStep

(* A fact moves the run and no use. *)
LEMMA FactKeepsUses ==
  ASSUME UseInvariant, NEW f, RecordFact(f)
  PROVE  UseInvariant'
  <1>1. life' \in {life, "RECONCILIATION_REQUIRED", "BLOCKED"}
    BY DEF RecordFact, AuthorityFactRoute
  <1>2. QED BY <1>1, DispatchKeepsUses DEF RecordFact, UseInvariant, UseTypes

(* Every step keeps what is known of the uses. *)
LEMMA NextKeepsUses == UseInvariant /\ [AdoptionNext]_allVars => UseInvariant'
  <1> SUFFICES ASSUME UseInvariant, [AdoptionNext]_allVars PROVE UseInvariant' OBVIOUS
  <1>1. CASE Next
    <2>1. CASE Reopen
      BY <2>1, DispatchKeepsUses DEF Reopen, Usable, UseInvariant, UseTypes
    <2>2. QED
      BY <1>1, <2>1, ClaimStepKeepsUses, MarkStepKeepsUses, DispatchStepKeepsUses, CrashKeepsUses,
         CommitStepKeepsUses, ReplayStepKeepsUses, FactKeepsUses DEF Next
  <1>2. CASE UNCHANGED <<useVars, claimVars>>
    BY <1>2 DEF UseInvariant, UseTypes, DispatchNamesItsUse, MarkerNamesItsUse, OneUsePerGrant,
       useVars, claimVars
  <1>3. CASE UNCHANGED privateVars \/ UNCHANGED allVars
    BY <1>2, <1>3 DEF privateVars, allVars, vars, useVars, claimVars, controlVars
  <1>4. QED BY <1>1, <1>3 DEF AdoptionNext

(* The stores never disagree about a use: whatever is lost between the     *)
(* commit in the control store and the marker in the claim store, every    *)
(* marker, memory and dispatch names the durable use of its own grant.     *)
THEOREM UsesHold == AdoptionSpec => []UseInvariant
  <1>1. AdoptionInit => UseInvariant BY InitUses DEF AdoptionInit
  <1>2. QED BY <1>1, NextKeepsUses, PTL DEF AdoptionSpec, allVars

(* OneUsePerGrant: a grant of authority.py authorizes one durable use.     *)
THEOREM GrantsAreUsedOnce == AdoptionSpec => []OneUsePerGrant
  <1>1. UseInvariant => OneUsePerGrant BY DEF UseInvariant
  <1>2. QED BY <1>1, UsesHold, PTL

(* MarkerNamesItsUse: the claim store of authority.py and what a process   *)
(* remembers of it are never ahead of the control store, nor about another *)
(* use.                                                                    *)
THEOREM MarkersNameTheirUse == AdoptionSpec => []MarkerNamesItsUse
  <1>1. UseInvariant => MarkerNamesItsUse BY DEF UseInvariant
  <1>2. QED BY <1>1, UsesHold, PTL

--------------------------------------------------------------------------------
(* What a recorded fact is: an authority fact or a fact about a source     *)
(* grant, which has a run and an effective time too.                       *)
FactRows ==
  [grant : Grants, kind : {"REVOKED", "SUPERSEDED", "OWN_CONSUMED", "CLAIM_STATUS_UNKNOWN", "CORRECTION"},
   order : {"BEFORE", "AFTER"}, governs : Commands \cup {None}, successor : Grants \cup {None},
   corrects : Nat, gen : Nat]

SourceRows ==
  [grant : Grants, kind : {"REVOKED", "OWN_CONSUMED", "CORRECTION"},
   order : {"BEFORE", "AFTER", "UNKNOWN"}, governs : {None}, successor : {None},
   corrects : Nat, gen : Nat, run : Grants \cup {Root, None}, eff : Times]

AnyRow == FactRows \cup SourceRows

(* A correction names an earlier fact about the same grant, and nothing    *)
(* else corrects anything.                                                 *)
HistoryTyped ==
  /\ facts \in Seq(AnyRow)
  /\ kind = "SOURCE" => \A i \in DOMAIN facts : facts[i] \in SourceRows
  /\ \A i \in DOMAIN facts :
       /\ facts[i].corrects \in 0..(i - 1)
       /\ (facts[i].kind = "CORRECTION") <=> (facts[i].corrects # 0)
       /\ facts[i].corrects # 0 => facts[facts[i].corrects].grant = facts[i].grant

(* The denials of a grant, of which the generations keep count. *)
DenialsOf(h, g) == {i \in DOMAIN h : h[i].grant = g /\ h[i].kind # "CORRECTION"}

GenerationsCount ==
  \A g \in Grants :
    /\ \A i \in DOMAIN facts : facts[i].grant = g => facts[i].gen \in 1..Cardinality(DenialsOf(facts, g))
    /\ DenialsOf(facts, g) # {} =>
         \E i \in DOMAIN facts : facts[i].grant = g /\ facts[i].gen = Cardinality(DenialsOf(facts, g))

FactInvariant == HistoryTyped /\ GenerationsCount /\ FactTablesReplay

(* The fact f is recorded as the row: what both kinds of facts share. *)
Records(f, row) ==
  /\ WellFormed(f) /\ CorrectsItsGrant(f)
  /\ row \in AnyRow
  /\ kind = "SOURCE" => row \in SourceRows
  /\ row.grant = f.grant /\ row.kind = f.kind /\ row.order = f.order
  /\ row.successor = f.successor /\ row.corrects = f.corrects
  /\ row.gen = Generation(f)
  /\ facts' = Append(facts, row)

(* The latest of a set of sequence numbers is the greatest of them. *)
LEMMA LatestIsGreatest ==
  ASSUME NEW n \in Nat, NEW S, S \subseteq 1..n, S # {}
  PROVE  Latest(S) \in S /\ \A j \in S : j <= Latest(S)
  <1>1. S \subseteq 0..n OBVIOUS
  <1>2. \E i \in S : \A j \in S : j <= i BY <1>1, GreatestNatural
  <1>3. QED BY <1>2 DEF Latest

(* ... and the greatest is the latest. *)
LEMMA GreatestIsLatest ==
  ASSUME NEW S, S \subseteq Nat, NEW i \in S, \A j \in S : j <= i
  PROVE  Latest(S) = i
  <1>1. Latest(S) \in S /\ \A j \in S : j <= Latest(S) BY DEF Latest
  <1>2. Latest(S) \in Nat /\ i \in Nat BY <1>1
  <1>3. Latest(S) <= i /\ i <= Latest(S) BY <1>1
  <1>4. QED BY <1>2, <1>3

(* The history grows by one fact. *)
LEMMA HistoryGrows ==
  ASSUME HistoryTyped, NEW f, NEW row, Records(f, row)
  PROVE  /\ facts' \in Seq(AnyRow) /\ Len(facts) \in Nat
         /\ Len(facts') = Len(facts) + 1
         /\ DOMAIN facts = 1..Len(facts) /\ DOMAIN facts' = 1..(Len(facts) + 1)
         /\ \A i \in 1..Len(facts) : facts'[i] = facts[i]
         /\ facts'[Len(facts) + 1] = row
  BY DEF HistoryTyped, Records

(* The types of a recorded fact. *)
LEMMA RowFields ==
  ASSUME NEW row \in AnyRow
  PROVE  /\ row.grant \in Grants /\ row.corrects \in Nat /\ row.gen \in Nat
         /\ row \in SourceRows => row.kind # "SUPERSEDED"
  <1>1. CASE row \in FactRows
    <2>1. row.grant \in Grants /\ row.corrects \in Nat /\ row.gen \in Nat BY <1>1 DEF FactRows
    <2>2. row \in SourceRows => row.kind # "SUPERSEDED" BY DEF SourceRows
    <2>3. QED BY <2>1, <2>2
  <1>2. CASE row \in SourceRows
    BY <1>2 DEF SourceRows
  <1>3. QED BY <1>1, <1>2 DEF AnyRow

(* A new fact keeps the history well formed. *)
LEMMA RecordKeepsHistory ==
  ASSUME HistoryTyped, NEW f, NEW row, Records(f, row), kind' = kind
  PROVE  HistoryTyped'
  <1>0. /\ facts' \in Seq(AnyRow) /\ Len(facts) \in Nat
        /\ DOMAIN facts = 1..Len(facts) /\ DOMAIN facts' = 1..(Len(facts) + 1)
        /\ \A i \in 1..Len(facts) : facts'[i] = facts[i]
        /\ facts'[Len(facts) + 1] = row
    BY HistoryGrows
  <1>1. /\ row.corrects \in 0..Len(facts)
        /\ (row.kind = "CORRECTION") <=> (row.corrects # 0)
        /\ row.corrects # 0 => facts[row.corrects].grant = row.grant
    BY <1>0 DEF Records, WellFormed, CorrectsItsGrant
  <1>2. ASSUME NEW i \in 1..Len(facts)
        PROVE  /\ facts'[i].corrects \in 0..(i - 1)
               /\ (facts'[i].kind = "CORRECTION") <=> (facts'[i].corrects # 0)
               /\ facts'[i].corrects # 0 => facts'[facts'[i].corrects].grant = facts'[i].grant
    BY <1>0 DEF HistoryTyped
  <1>3. \A i \in 1..(Len(facts) + 1) : i \in 1..Len(facts) \/ i = Len(facts) + 1
    BY <1>0
  <1>4. kind = "SOURCE" => \A i \in DOMAIN facts' : facts'[i] \in SourceRows
    BY <1>0, <1>3 DEF HistoryTyped, Records
  <1>5. QED BY <1>0, <1>1, <1>2, <1>3, <1>4 DEF HistoryTyped

(* What the new fact corrects is corrected, and nothing else. *)
LEMMA CorrectedGrows ==
  ASSUME HistoryTyped, NEW f, NEW row, Records(f, row)
  PROVE  Corrected(facts') = (Corrected(facts) \cup {f.corrects}) \ {0}
  <1>0. /\ Len(facts) \in Nat
        /\ DOMAIN facts = 1..Len(facts) /\ DOMAIN facts' = 1..(Len(facts) + 1)
        /\ \A i \in 1..Len(facts) : facts'[i] = facts[i]
        /\ facts'[Len(facts) + 1] = row
    BY HistoryGrows
  <1>1. row.corrects = f.corrects BY DEF Records
  <1>2. \A i \in 1..(Len(facts) + 1) : i \in 1..Len(facts) \/ i = Len(facts) + 1 BY <1>0
  <1>3. \A i \in 1..Len(facts) : i \in 1..(Len(facts) + 1) BY <1>0
  <1>4. Len(facts) + 1 \in 1..(Len(facts) + 1) BY <1>0
  <1>5. ASSUME NEW x \in Corrected(facts') PROVE x \in (Corrected(facts) \cup {f.corrects}) \ {0}
    <2>1. PICK i \in DOMAIN facts' : x = facts'[i].corrects /\ x # 0 BY <1>5 DEF Corrected
    <2>2. QED BY <2>1, <1>0, <1>1, <1>2 DEF Corrected
  <1>6. ASSUME NEW x \in (Corrected(facts) \cup {f.corrects}) \ {0} PROVE x \in Corrected(facts')
    <2>1. CASE x \in Corrected(facts)
      <3>1. PICK i \in DOMAIN facts : x = facts[i].corrects /\ x # 0 BY <2>1 DEF Corrected
      <3>2. QED BY <3>1, <1>0, <1>3 DEF Corrected
    <2>2. CASE x = f.corrects
      <3>1. x = facts'[Len(facts) + 1].corrects BY <2>2, <1>0, <1>1
      <3>2. QED BY <3>1, <1>0, <1>4, <1>6 DEF Corrected
    <2>3. QED BY <2>1, <2>2, <1>6
  <1>7. QED BY <1>5, <1>6

(* Nothing corrects a fact that is still to come, and a correction names a *)
(* fact about its own grant.                                               *)
LEMMA CorrectedIsPast ==
  ASSUME HistoryTyped
  PROVE  Corrected(facts) \subseteq 1..Len(facts)
  <1>0. Len(facts) \in Nat /\ DOMAIN facts = 1..Len(facts) BY DEF HistoryTyped
  <1>1. \A i \in 1..Len(facts) : facts[i].corrects \in 0..(i - 1) BY <1>0 DEF HistoryTyped
  <1>2. QED BY <1>0, <1>1 DEF Corrected

(* A new denial stands, and a correction takes down what it names. *)
LEMMA StandingGrows ==
  ASSUME HistoryTyped, NEW f, NEW row, Records(f, row), NEW g
  PROVE  Standing(facts', g) =
           (Standing(facts, g) \ {f.corrects})
             \cup (IF f.kind # "CORRECTION" /\ f.grant = g THEN {Len(facts) + 1} ELSE {})
  <1>0. /\ Len(facts) \in Nat
        /\ DOMAIN facts = 1..Len(facts) /\ DOMAIN facts' = 1..(Len(facts) + 1)
        /\ \A i \in 1..Len(facts) : facts'[i] = facts[i]
        /\ facts'[Len(facts) + 1] = row
    BY HistoryGrows
  <1>1. Corrected(facts') = (Corrected(facts) \cup {f.corrects}) \ {0} BY CorrectedGrows
  <1>2. Corrected(facts) \subseteq 1..Len(facts) BY CorrectedIsPast
  <1>3. \A i \in 1..(Len(facts) + 1) : i \in 1..Len(facts) \/ i = Len(facts) + 1 BY <1>0
  <1>4. \A i \in 1..Len(facts) : i \in 1..(Len(facts) + 1) /\ i # 0 /\ i # Len(facts) + 1 BY <1>0
  <1>5. Len(facts) + 1 \in 1..(Len(facts) + 1) BY <1>0
  <1>6. row.kind = f.kind /\ row.grant = f.grant BY DEF Records
  <1>7. f.corrects # Len(facts) + 1 /\ (f.kind # "CORRECTION" => f.corrects = 0)
    BY <1>0, <1>4 DEF Records, WellFormed, CorrectsItsGrant
  <1>8. Len(facts) + 1 \notin Corrected(facts') BY <1>1, <1>2, <1>4, <1>7
  <1>9. ASSUME NEW i \in 1..Len(facts)
        PROVE  i \in Standing(facts', g) <=> i \in Standing(facts, g) /\ i # f.corrects
    BY <1>0, <1>1, <1>4 DEF Standing
  <1>10. Len(facts) + 1 \in Standing(facts', g) <=> f.kind # "CORRECTION" /\ f.grant = g
    BY <1>0, <1>5, <1>6, <1>8 DEF Standing
  <1>11. Standing(facts, g) \subseteq 1..Len(facts) /\ Standing(facts', g) \subseteq 1..(Len(facts) + 1)
    BY <1>0 DEF Standing
  <1>12. QED BY <1>3, <1>4, <1>7, <1>9, <1>10, <1>11

(* The same of one fact. *)
LEMMA StandsGrows ==
  ASSUME HistoryTyped, NEW f, NEW row, Records(f, row)
  PROVE  /\ \A i \in 1..Len(facts) : Stands(facts', i) <=> Stands(facts, i) /\ i # f.corrects
         /\ Stands(facts', Len(facts) + 1) <=> f.kind # "CORRECTION"
  <1>0. /\ Len(facts) \in Nat /\ DOMAIN facts = 1..Len(facts)
        /\ \A i \in 1..Len(facts) : facts'[i] = facts[i]
        /\ facts'[Len(facts) + 1] = row
    BY HistoryGrows
  <1>1. row.grant = f.grant BY DEF Records
  <1>2. \A i \in 1..Len(facts) : i # Len(facts) + 1 BY <1>0
  <1>3. ASSUME NEW i \in 1..Len(facts)
        PROVE  Stands(facts', i) <=> Stands(facts, i) /\ i # f.corrects
    <2>1. PICK g : g = facts[i].grant OBVIOUS
    <2>2. i \in Standing(facts', g) <=> i \in Standing(facts, g) /\ i # f.corrects
      BY StandingGrows, <1>2
    <2>3. QED BY <2>1, <2>2, <1>0 DEF Stands
  <1>4. Stands(facts', Len(facts) + 1) <=> f.kind # "CORRECTION"
    <2>1. Len(facts) + 1 \notin Standing(facts, f.grant) BY <1>0, <1>2 DEF Standing
    <2>2. Len(facts) + 1 \in Standing(facts', f.grant) <=> f.kind # "CORRECTION"
      BY StandingGrows, <2>1
    <2>3. QED BY <2>2, <1>0, <1>1 DEF Stands
  <1>5. QED BY <1>3, <1>4

(* effective_authority follows the history. *)
LEMMA EffectiveFollows ==
  ASSUME HistoryTyped, NEW f, NEW row, Records(f, row), f.grant \in Grants,
         effective = ExpectedEffective(facts), effective' = EffectiveAfter(facts', f)
  PROVE  effective' = ExpectedEffective(facts')
  <1>0. Len(facts) \in Nat /\ Len(facts') = Len(facts) + 1 /\ DOMAIN facts = 1..Len(facts)
    BY HistoryGrows
  <1>1. ASSUME NEW g \in Grants PROVE effective'[g] = Latest(Standing(facts', g))
    <2>0. Standing(facts', g) =
            (Standing(facts, g) \ {f.corrects})
              \cup (IF f.kind # "CORRECTION" /\ f.grant = g THEN {Len(facts) + 1} ELSE {})
      BY StandingGrows
    <2>1. CASE g # f.grant
      <3>1. f.corrects \notin Standing(facts, g)
        BY <2>1, <1>0 DEF Standing, Records, WellFormed, CorrectsItsGrant
      <3>2. Standing(facts', g) = Standing(facts, g) BY <2>0, <2>1, <3>1
      <3>3. effective'[g] = effective[g] BY <2>1 DEF EffectiveAfter, ExpectedEffective
      <3>4. QED BY <3>2, <3>3 DEF ExpectedEffective
    <2>2. CASE g = f.grant /\ f.kind = "CORRECTION"
      BY <2>2 DEF EffectiveAfter, ExpectedEffective
    <2>3. CASE g = f.grant /\ f.kind # "CORRECTION"
      <3>1. Standing(facts, g) \subseteq 1..Len(facts) BY <1>0 DEF Standing
      <3>2. PICK S : S = Standing(facts', g) OBVIOUS
      <3>3. PICK n \in Nat : n = Len(facts) + 1 BY <1>0
      <3>4. S \subseteq Nat /\ n \in S /\ \A j \in S : j <= n
        BY <1>0, <2>0, <2>3, <3>1, <3>2, <3>3
      <3>5. Latest(S) = n BY <3>4, GreatestIsLatest
      <3>6. effective'[g] = Len(facts') BY <2>3 DEF EffectiveAfter, ExpectedEffective
      <3>7. QED BY <3>2, <3>3, <3>5, <3>6, <1>0
    <2>4. QED BY <2>1, <2>2, <2>3
  <1>2. effective' = [g \in Grants |-> effective'[g]] BY DEF EffectiveAfter, ExpectedEffective
  <1>3. QED BY <1>1, <1>2 DEF ExpectedEffective

(* dispatch_fences follows the history. *)
LEMMA FencesFollow ==
  ASSUME HistoryTyped, NEW f, NEW row, Records(f, row),
         fences = ExpectedAuthorityFences(facts), fences' = FencesAfter(f)
  PROVE  fences' = ExpectedAuthorityFences(facts')
  <1>0. /\ Len(facts) \in Nat
        /\ DOMAIN facts = 1..Len(facts) /\ DOMAIN facts' = 1..(Len(facts) + 1)
        /\ \A i \in 1..Len(facts) : facts'[i] = facts[i]
        /\ facts'[Len(facts) + 1] = row
    BY HistoryGrows
  <1>1. /\ \A i \in 1..Len(facts) : Stands(facts', i) <=> Stands(facts, i) /\ i # f.corrects
        /\ Stands(facts', Len(facts) + 1) <=> f.kind # "CORRECTION"
    BY StandsGrows
  <1>2. \A i \in 1..(Len(facts) + 1) : i \in 1..Len(facts) \/ i = Len(facts) + 1 BY <1>0
  <1>3. \A i \in 1..Len(facts) : i \in 1..(Len(facts) + 1) /\ i # 0 /\ i # Len(facts) + 1 BY <1>0
  <1>4. Len(facts) + 1 \in 1..(Len(facts) + 1) BY <1>0
  <1>5. (f.kind = "CORRECTION") <=> (f.corrects # 0) BY DEF Records, WellFormed
  <1>6. Fenced(row) <=> Fenced(f) BY DEF Records, Fenced
  <1>7. Fenced(f) => f.kind # "CORRECTION" BY DEF Fenced
  <1>8. fences \subseteq 1..Len(facts) /\ fences' \subseteq 1..(Len(facts) + 1)
    BY <1>0, <1>3, <1>4 DEF FencesAfter, ExpectedAuthorityFences
  <1>9. ASSUME NEW i \in 1..Len(facts) PROVE i \in fences' <=> i \in ExpectedAuthorityFences(facts')
    <2>1. i \in ExpectedAuthorityFences(facts') <=> i \in fences /\ i # f.corrects
      BY <1>0, <1>1, <1>3 DEF ExpectedAuthorityFences
    <2>2. i \in fences' <=> i \in fences /\ i # f.corrects
      BY <1>3, <1>5, <1>7 DEF FencesAfter
    <2>3. QED BY <2>1, <2>2
  <1>10. Len(facts) + 1 \in fences' <=> Len(facts) + 1 \in ExpectedAuthorityFences(facts')
    <2>1. Len(facts) + 1 \notin fences BY <1>3, <1>8
    <2>2. Len(facts) + 1 \in fences' <=> Fenced(f)
      <3>1. CASE Fenced(f) BY <3>1, <1>7 DEF FencesAfter
      <3>2. CASE ~Fenced(f)
        <4>1. fences' \subseteq fences BY <3>2 DEF FencesAfter
        <4>2. QED BY <2>1, <3>2, <4>1
      <3>3. QED BY <3>1, <3>2
    <2>3. Len(facts) + 1 \in ExpectedAuthorityFences(facts') <=> Fenced(f)
      BY <1>0, <1>1, <1>4, <1>6, <1>7 DEF ExpectedAuthorityFences
    <2>4. QED BY <2>2, <2>3
  <1>11. ExpectedAuthorityFences(facts') \subseteq 1..(Len(facts) + 1)
    BY <1>0 DEF ExpectedAuthorityFences
  <1>12. QED BY <1>2, <1>8, <1>9, <1>10, <1>11

(* The supersession a fact makes. *)
Edge(i) == [pred |-> facts[i].grant, succ |-> facts[i].successor, fact |-> i]

(* authority_supersessions follows the history. *)
LEMMA EdgesFollow ==
  ASSUME HistoryTyped, NEW f, NEW row, Records(f, row),
         edges = ExpectedSupersessions(facts), edges' = EdgesAfter(f)
  PROVE  edges' = ExpectedSupersessions(facts')
  <1>0. /\ Len(facts) \in Nat
        /\ DOMAIN facts = 1..Len(facts) /\ DOMAIN facts' = 1..(Len(facts) + 1)
        /\ \A i \in 1..Len(facts) : facts'[i] = facts[i]
        /\ facts'[Len(facts) + 1] = row
    BY HistoryGrows
  <1>1. /\ \A i \in 1..Len(facts) : Stands(facts', i) <=> Stands(facts, i) /\ i # f.corrects
        /\ Stands(facts', Len(facts) + 1) <=> f.kind # "CORRECTION"
    BY StandsGrows
  <1>2. \A i \in 1..(Len(facts) + 1) : i \in 1..Len(facts) \/ i = Len(facts) + 1 BY <1>0
  <1>3. \A i \in 1..Len(facts) : i \in 1..(Len(facts) + 1) /\ i # 0 /\ i # Len(facts) + 1 BY <1>0
  <1>4. Len(facts) + 1 \in 1..(Len(facts) + 1) BY <1>0
  <1>5. (f.kind = "CORRECTION") <=> (f.corrects # 0) BY DEF Records, WellFormed
  <1>6. row.kind = f.kind /\ row.grant = f.grant /\ row.successor = f.successor BY DEF Records
  <1> DEFINE New == [pred |-> f.grant, succ |-> f.successor, fact |-> Len(facts) + 1]
             Old == {i \in 1..Len(facts) : facts[i].kind = "SUPERSEDED" /\ Stands(facts, i)}
  <1>7. edges = {Edge(i) : i \in Old}
    BY <1>0 DEF ExpectedSupersessions, Edge
  <1>8. ExpectedSupersessions(facts') =
          {Edge(i) : i \in {j \in Old : j # f.corrects}} \cup (IF f.kind = "SUPERSEDED" THEN {New} ELSE {})
    <2>1. ASSUME NEW e \in ExpectedSupersessions(facts')
          PROVE  e \in {Edge(i) : i \in {j \in Old : j # f.corrects}} \cup (IF f.kind = "SUPERSEDED" THEN {New} ELSE {})
      <3>1. PICK i \in DOMAIN facts' :
                   /\ facts'[i].kind = "SUPERSEDED" /\ Stands(facts', i)
                   /\ e = [pred |-> facts'[i].grant, succ |-> facts'[i].successor, fact |-> i]
        BY <2>1 DEF ExpectedSupersessions
      <3>2. CASE i \in 1..Len(facts)
        <4>1. i \in {j \in Old : j # f.corrects} BY <3>1, <3>2, <1>0, <1>1
        <4>2. e = Edge(i) BY <3>1, <3>2, <1>0 DEF Edge
        <4>3. QED BY <4>1, <4>2
      <3>3. CASE i = Len(facts) + 1
        BY <3>1, <3>3, <1>0, <1>6
      <3>4. QED BY <3>2, <3>3, <1>0, <1>2
    <2>2. ASSUME NEW i \in Old, i # f.corrects
          PROVE  Edge(i) \in ExpectedSupersessions(facts')
      <3>1. i \in DOMAIN facts' /\ facts'[i].kind = "SUPERSEDED" /\ Stands(facts', i)
        BY <2>2, <1>0, <1>1, <1>3
      <3>2. Edge(i) = [pred |-> facts'[i].grant, succ |-> facts'[i].successor, fact |-> i]
        BY <2>2, <1>0 DEF Edge
      <3>3. QED BY <3>1, <3>2 DEF ExpectedSupersessions
    <2>3. ASSUME f.kind = "SUPERSEDED" PROVE New \in ExpectedSupersessions(facts')
      <3>1. /\ Len(facts) + 1 \in DOMAIN facts' /\ facts'[Len(facts) + 1].kind = "SUPERSEDED"
            /\ Stands(facts', Len(facts) + 1)
        BY <2>3, <1>0, <1>1, <1>4, <1>6
      <3>2. New = [pred |-> facts'[Len(facts) + 1].grant, succ |-> facts'[Len(facts) + 1].successor,
                   fact |-> Len(facts) + 1]
        BY <1>0, <1>6
      <3>3. QED BY <3>1, <3>2 DEF ExpectedSupersessions
    <2>4. QED BY <2>1, <2>2, <2>3
  <1> HIDE DEF New, Old
  <1>9. \A i : Edge(i).fact = i BY DEF Edge
  <1>10. Old \subseteq 1..Len(facts) BY DEF Old
  <1>11. CASE f.kind = "SUPERSEDED"
    <2>1. edges' = edges \cup {New} BY <1>11 DEF EdgesAfter, New
    <2>2. {j \in Old : j # f.corrects} = Old BY <1>3, <1>5, <1>10, <1>11
    <2>3. QED BY <2>1, <2>2, <1>7, <1>8, <1>11
  <1>12. CASE f.kind = "CORRECTION"
    <2>1. edges' = {e \in edges : e.fact # f.corrects} BY <1>12 DEF EdgesAfter
    <2>2. QED BY <2>1, <1>7, <1>8, <1>9, <1>12
  <1>13. CASE f.kind \notin {"SUPERSEDED", "CORRECTION"}
    <2>1. edges' = edges BY <1>13 DEF EdgesAfter
    <2>2. {j \in Old : j # f.corrects} = Old BY <1>3, <1>5, <1>10, <1>13
    <2>3. QED BY <2>1, <2>2, <1>7, <1>8, <1>13
  <1>14. QED BY <1>11, <1>12, <1>13

(* The denials of a grant are finitely many, and a new one adds one. *)
LEMMA DenialsGrow ==
  ASSUME HistoryTyped, NEW f, NEW row, Records(f, row), NEW g
  PROVE  /\ Cardinality(DenialsOf(facts, g)) \in Nat
         /\ DenialsOf(facts, g) # {} <=> Cardinality(DenialsOf(facts, g)) # 0
         /\ Cardinality(DenialsOf(facts', g)) =
              Cardinality(DenialsOf(facts, g)) + (IF f.kind # "CORRECTION" /\ f.grant = g THEN 1 ELSE 0)
  <1>0. /\ Len(facts) \in Nat
        /\ DOMAIN facts = 1..Len(facts) /\ DOMAIN facts' = 1..(Len(facts) + 1)
        /\ \A i \in 1..Len(facts) : facts'[i] = facts[i]
        /\ facts'[Len(facts) + 1] = row
    BY HistoryGrows
  <1>1. \A i \in 1..(Len(facts) + 1) : i \in 1..Len(facts) \/ i = Len(facts) + 1 BY <1>0
  <1>2. \A i \in 1..Len(facts) : i \in 1..(Len(facts) + 1) /\ i # Len(facts) + 1 BY <1>0
  <1>3. Len(facts) + 1 \in 1..(Len(facts) + 1) BY <1>0
  <1>4. row.kind = f.kind /\ row.grant = f.grant BY DEF Records
  <1>5. DenialsOf(facts, g) \subseteq 1..Len(facts) BY <1>0 DEF DenialsOf
  <1>6. PICK D : D = DenialsOf(facts, g) OBVIOUS
  <1>7. IsFiniteSet(D)
    <2>1. IsFiniteSet(1..Len(facts)) BY <1>0, FS_Interval
    <2>2. QED BY <1>5, <1>6, <2>1, FS_Subset
  <1>8. Cardinality(D) \in Nat /\ (D # {} <=> Cardinality(D) # 0)
    BY <1>7, FS_CardinalityType, FS_EmptySet
  <1>9. CASE f.kind # "CORRECTION" /\ f.grant = g
    <2>1. DenialsOf(facts', g) = D \cup {Len(facts) + 1}
      BY <1>0, <1>1, <1>2, <1>3, <1>4, <1>6, <1>9 DEF DenialsOf
    <2>2. Len(facts) + 1 \notin D BY <1>2, <1>5, <1>6
    <2>3. Cardinality(D \cup {Len(facts) + 1}) = Cardinality(D) + 1 BY <1>7, <2>2, FS_AddElement
    <2>4. QED BY <1>6, <1>8, <1>9, <2>1, <2>3
  <1>10. CASE ~(f.kind # "CORRECTION" /\ f.grant = g)
    <2>1. DenialsOf(facts', g) = D
      BY <1>0, <1>1, <1>2, <1>3, <1>4, <1>6, <1>10 DEF DenialsOf
    <2>2. QED BY <1>6, <1>8, <1>10, <2>1
  <1>11. QED BY <1>9, <1>10

(* A new denial takes the generation after the last of its grant. *)
LEMMA NewGeneration ==
  ASSUME HistoryTyped, GenerationsCount, NEW f, NEW row, Records(f, row), f.grant \in Grants,
         f.kind # "CORRECTION"
  PROVE  row.gen = Cardinality(DenialsOf(facts, f.grant)) + 1
  <1> DEFINE C == Cardinality(DenialsOf(facts, f.grant))
             Gens == {facts[i].gen : i \in {j \in DOMAIN facts : facts[j].grant = f.grant}}
  <1>1. row.gen = 1 + Latest(Gens) BY DEF Records, Generation
  <1>2. C \in Nat /\ (DenialsOf(facts, f.grant) # {} <=> C # 0) BY DenialsGrow
  <1>3. /\ \A i \in DOMAIN facts : facts[i].grant = f.grant => facts[i].gen \in 1..C
        /\ C # 0 => \E i \in DOMAIN facts : facts[i].grant = f.grant /\ facts[i].gen = C
    BY <1>2 DEF GenerationsCount
  <1>4. Gens \subseteq 1..C BY <1>3
  <1>5. CASE C = 0
    <2>1. Gens = {} BY <1>2, <1>4, <1>5
    <2>2. Latest(Gens) = 0 BY <2>1 DEF Latest
    <2>3. QED BY <1>1, <1>5, <2>2
  <1>6. CASE C # 0
    <2>1. C \in Gens BY <1>3, <1>6
    <2>2. PICK S : S = Gens OBVIOUS
    <2>3. PICK c : c = C OBVIOUS
    <2>4. S \subseteq Nat /\ c \in S /\ \A j \in S : j <= c BY <1>2, <1>4, <2>1, <2>2, <2>3
    <2>5. Latest(S) = c BY <2>4, GreatestIsLatest
    <2>6. QED BY <1>1, <1>2, <2>2, <2>3, <2>5
  <1>7. QED BY <1>5, <1>6

(* The generations keep counting. *)
LEMMA GenerationsFollow ==
  ASSUME HistoryTyped, GenerationsCount, NEW f, NEW row, Records(f, row), f.grant \in Grants
  PROVE  GenerationsCount'
  <1>0. /\ Len(facts) \in Nat
        /\ DOMAIN facts = 1..Len(facts) /\ DOMAIN facts' = 1..(Len(facts) + 1)
        /\ \A i \in 1..Len(facts) : facts'[i] = facts[i]
        /\ facts'[Len(facts) + 1] = row
    BY HistoryGrows
  <1>1. \A i \in 1..(Len(facts) + 1) : i \in 1..Len(facts) \/ i = Len(facts) + 1 BY <1>0
  <1>2. \A i \in 1..Len(facts) : i \in 1..(Len(facts) + 1) BY <1>0
  <1>3. Len(facts) + 1 \in 1..(Len(facts) + 1) BY <1>0
  <1>4. row.grant = f.grant BY DEF Records
  <1> SUFFICES ASSUME NEW g \in Grants
               PROVE  /\ \A i \in DOMAIN facts' :
                           facts'[i].grant = g => facts'[i].gen \in 1..Cardinality(DenialsOf(facts', g))
                      /\ DenialsOf(facts', g) # {} =>
                           \E i \in DOMAIN facts' :
                             facts'[i].grant = g /\ facts'[i].gen = Cardinality(DenialsOf(facts', g))
    BY DEF GenerationsCount
  <1> DEFINE C == Cardinality(DenialsOf(facts, g))
             D == Cardinality(DenialsOf(facts', g))
  <1>5. /\ C \in Nat /\ (DenialsOf(facts, g) # {} <=> C # 0)
        /\ D = C + (IF f.kind # "CORRECTION" /\ f.grant = g THEN 1 ELSE 0)
    BY DenialsGrow
  <1>6. /\ \A i \in 1..Len(facts) : facts[i].grant = g => facts[i].gen \in 1..C
        /\ C # 0 => \E i \in 1..Len(facts) : facts[i].grant = g /\ facts[i].gen = C
    BY <1>0, <1>5 DEF GenerationsCount
  <1>7. CASE f.kind # "CORRECTION" /\ f.grant = g
    <2>1. row.gen = C + 1 BY <1>7, NewGeneration
    <2>2. D = C + 1 BY <1>5, <1>7
    <2> HIDE DEF C, D
    <2>3. \A i \in 1..Len(facts) : facts'[i].grant = g => facts'[i].gen \in 1..D
      BY <1>0, <1>5, <1>6, <2>2
    <2>4. facts'[Len(facts) + 1].gen = D /\ D \in 1..D /\ facts'[Len(facts) + 1].grant = g
      BY <1>0, <1>4, <1>5, <1>7, <2>1, <2>2
    <2>5. QED BY <1>0, <1>1, <1>3, <2>3, <2>4 DEF D
  <1>8. CASE ~(f.kind # "CORRECTION" /\ f.grant = g)
    <2>1. D = C BY <1>5, <1>8
    <2>2. row.grant = g => row.gen \in 1..C
      <3>1. SUFFICES ASSUME row.grant = g PROVE row.gen \in 1..C OBVIOUS
      <3>2. f.kind = "CORRECTION" BY <1>4, <1>8, <3>1
      <3>3. f.corrects \in 1..Len(facts) /\ facts[f.corrects].grant = g /\ row.gen = facts[f.corrects].gen
        BY <1>0, <1>4, <3>1, <3>2 DEF Records, CorrectsItsGrant, Generation
      <3>4. QED BY <1>6, <3>3
    <2> HIDE DEF C, D
    <2>3. \A i \in 1..(Len(facts) + 1) : facts'[i].grant = g => facts'[i].gen \in 1..D
      BY <1>0, <1>1, <1>6, <2>1, <2>2
    <2>4. D # 0 => \E i \in 1..(Len(facts) + 1) : facts'[i].grant = g /\ facts'[i].gen = D
      BY <1>0, <1>2, <1>6, <2>1
    <2>5. DenialsOf(facts', g) # {} => D # 0
      <3>1. DenialsOf(facts', g) \subseteq 1..(Len(facts) + 1) BY <1>0 DEF DenialsOf
      <3>2. PICK S : S = DenialsOf(facts', g) OBVIOUS
      <3>3. IsFiniteSet(S)
        <4>1. IsFiniteSet(1..(Len(facts) + 1)) BY <1>0, FS_Interval
        <4>2. QED BY <3>1, <3>2, <4>1, FS_Subset
      <3>4. Cardinality(S) = 0 => S = {} BY <3>3, FS_EmptySet
      <3>5. QED BY <3>2, <3>4 DEF D
    <2>6. QED BY <1>0, <2>3, <2>4, <2>5 DEF D
  <1>9. QED BY <1>7, <1>8

(* The reader's generations are the recorded ones. *)
LEMMA GenerationsRead ==
  ASSUME HistoryTyped, GenerationsCount, NEW f, NEW row, Records(f, row), f.grant \in Grants,
         \A i \in DOMAIN facts : facts[i].gen = ExpectedGeneration(facts, i)
  PROVE  \A i \in DOMAIN facts' : facts'[i].gen = ExpectedGeneration(facts', i)
  <1>0. /\ Len(facts) \in Nat
        /\ DOMAIN facts = 1..Len(facts) /\ DOMAIN facts' = 1..(Len(facts) + 1)
        /\ \A i \in 1..Len(facts) : facts'[i] = facts[i]
        /\ facts'[Len(facts) + 1] = row
    BY HistoryGrows
  <1>1. \A i \in 1..(Len(facts) + 1) : i \in 1..Len(facts) \/ i = Len(facts) + 1 BY <1>0
  <1>2. row.grant = f.grant /\ row.kind = f.kind /\ row.corrects = f.corrects /\ row.gen = Generation(f)
    BY DEF Records
  <1>3. ASSUME NEW i \in 1..Len(facts) PROVE facts'[i].gen = ExpectedGeneration(facts', i)
    <2>1. CASE facts[i].kind = "CORRECTION"
      <3>1. facts[i].corrects \in 1..Len(facts) BY <1>0, <2>1 DEF HistoryTyped
      <3>2. facts[i].gen = facts[facts[i].corrects].gen BY <1>0, <2>1 DEF ExpectedGeneration
      <3>3. QED BY <1>0, <2>1, <3>1, <3>2 DEF ExpectedGeneration
    <2>2. CASE facts[i].kind # "CORRECTION"
      <3>1. \A j \in 1..i : facts'[j] = facts[j] BY <1>0
      <3>2. {j \in 1..i : facts'[j].grant = facts'[i].grant /\ facts'[j].kind # "CORRECTION"}
              = {j \in 1..i : facts[j].grant = facts[i].grant /\ facts[j].kind # "CORRECTION"}
        BY <1>0, <3>1
      <3>3. QED BY <1>0, <2>2, <3>2 DEF ExpectedGeneration
    <2>3. QED BY <2>1, <2>2
  <1>4. row.gen = ExpectedGeneration(facts', Len(facts) + 1)
    <2>1. CASE f.kind = "CORRECTION"
      <3>1. f.corrects \in 1..Len(facts) BY <1>0, <2>1 DEF Records, CorrectsItsGrant
      <3>2. row.gen = facts[f.corrects].gen BY <1>2, <2>1 DEF Generation
      <3>3. QED BY <1>0, <1>2, <2>1, <3>1, <3>2 DEF ExpectedGeneration
    <2>2. CASE f.kind # "CORRECTION"
      <3>1. row.gen = Cardinality(DenialsOf(facts, f.grant)) + 1 BY <2>2, NewGeneration
      <3>2. Cardinality(DenialsOf(facts', f.grant)) = Cardinality(DenialsOf(facts, f.grant)) + 1
        BY <2>2, DenialsGrow
      <3>3. DenialsOf(facts', f.grant)
              = {j \in 1..(Len(facts) + 1) :
                   facts'[j].grant = facts'[Len(facts) + 1].grant /\ facts'[j].kind # "CORRECTION"}
        BY <1>0, <1>2 DEF DenialsOf
      <3>4. QED BY <1>0, <1>2, <2>2, <3>1, <3>2, <3>3 DEF ExpectedGeneration
    <2>3. QED BY <2>1, <2>2
  <1>5. QED BY <1>0, <1>1, <1>3, <1>4

(* A recorded fact keeps all that is known of the facts, once the edges    *)
(* are known to follow.                                                    *)
LEMMA RecordKeepsFacts ==
  ASSUME FactInvariant, NEW f, NEW row, Records(f, row), f.grant \in Grants, kind' = kind,
         effective' = EffectiveAfter(facts', f), fences' = FencesAfter(f),
         edges' = ExpectedSupersessions(facts')
  PROVE  FactInvariant'
  <1>1. HistoryTyped' BY RecordKeepsHistory DEF FactInvariant
  <1>2. GenerationsCount' BY GenerationsFollow DEF FactInvariant
  <1>3. effective' = ExpectedEffective(facts') BY EffectiveFollows DEF FactInvariant, FactTablesReplay
  <1>4. fences' = ExpectedAuthorityFences(facts') BY FencesFollow DEF FactInvariant, FactTablesReplay
  <1>5. \A i \in DOMAIN facts' : facts'[i].gen = ExpectedGeneration(facts', i)
    BY GenerationsRead DEF FactInvariant, FactTablesReplay
  <1>6. QED BY <1>1, <1>2, <1>3, <1>4, <1>5 DEF FactInvariant, FactTablesReplay

(* The generation of a request is a number. *)
LEMMA GenerationIsNatural ==
  ASSUME HistoryTyped, GenerationsCount, NEW f, f.grant \in Grants, CorrectsItsGrant(f)
  PROVE  Generation(f) \in Nat
  <1>0. Len(facts) \in Nat /\ DOMAIN facts = 1..Len(facts) /\ \A i \in 1..Len(facts) : facts[i] \in AnyRow
    BY DEF HistoryTyped
  <1>1. \A i \in 1..Len(facts) : facts[i].gen \in Nat BY <1>0, RowFields
  <1>2. CASE f.kind = "CORRECTION"
    BY <1>0, <1>1, <1>2 DEF CorrectsItsGrant, Generation
  <1>3. CASE f.kind # "CORRECTION"
    <2> DEFINE Gens == {facts[i].gen : i \in {j \in DOMAIN facts : facts[j].grant = f.grant}}
    <2>1. Generation(f) = 1 + Latest(Gens) BY <1>3 DEF Generation
    <2>2. PICK C : C = Cardinality(DenialsOf(facts, f.grant)) OBVIOUS
    <2>3. C \in Nat
      <3>1. IsFiniteSet(1..Len(facts)) BY <1>0, FS_Interval
      <3>2. PICK D : D = DenialsOf(facts, f.grant) OBVIOUS
      <3>3. D \subseteq 1..Len(facts) BY <1>0, <3>2 DEF DenialsOf
      <3>4. IsFiniteSet(D) BY <3>1, <3>3, FS_Subset
      <3>5. QED BY <2>2, <3>2, <3>4, FS_CardinalityType
    <2>4. PICK S : S = Gens OBVIOUS
    <2>5. S \subseteq 1..C BY <2>2, <2>4 DEF GenerationsCount
    <2> HIDE DEF Gens
    <2>6. Latest(S) \in Nat
      <3>1. CASE S = {} BY <3>1 DEF Latest
      <3>2. CASE S # {}
        <4>1. Latest(S) \in S BY <2>3, <2>5, <3>2, LatestIsGreatest
        <4>2. Latest(S) \in 1..C BY <2>5, <4>1
        <4>3. QED BY <2>3, <4>2
      <3>3. QED BY <3>1, <3>2
    <2>7. QED BY <2>1, <2>4, <2>6
  <1>4. QED BY <1>2, <1>3

(* The requests are made of grants, commands and numbers. *)
LEMMA RequestFields ==
  ASSUME NEW f \in Requests
  PROVE  \E g \in Grants, k \in {"REVOKED", "SUPERSEDED", "OWN_CONSUMED", "CLAIM_STATUS_UNKNOWN", "CORRECTION"},
            o \in {"BEFORE", "AFTER"}, c \in Commands \cup {None}, s \in Grants \cup {None}, n \in Nat :
           f = Fact(g, k, o, c, s, n)
  <1> DEFINE Uses == {<<"BEFORE", None>>} \cup ({"AFTER"} \X Commands)
  <1>1. \A u \in Uses : u[1] \in {"BEFORE", "AFTER"} /\ u[2] \in Commands \cup {None}
    OBVIOUS
  <1>2. f \in Denying \/ f \in Correcting BY DEF Requests, Bounded
  <1>3. CASE f \in Correcting
    <2>1. PICK g \in Grants, n \in 1..(MaxDenials + MaxCorrections) :
                 f = Fact(g, "CORRECTION", "BEFORE", None, None, n)
      BY <1>3 DEF Correcting
    <2>2. n \in Nat BY <2>1, AuthorityBounds
    <2>3. QED BY <2>1, <2>2
  <1>4. CASE f \in Denying
    <2>1. \/ f \in {Fact(g, "REVOKED", u[1], u[2], None, 0) : g \in Grants, u \in Uses}
          \/ f \in {Fact(g, "SUPERSEDED", u[1], u[2], s, 0) : g \in Grants, u \in Uses, s \in Grants}
          \/ f \in {Fact(g, k, "BEFORE", c, None, 0) :
                      g \in Grants, k \in {"OWN_CONSUMED", "CLAIM_STATUS_UNKNOWN"}, c \in Commands}
      BY <1>4 DEF Denying
    <2> HIDE DEF Uses
    <2>2. CASE f \in {Fact(g, "REVOKED", u[1], u[2], None, 0) : g \in Grants, u \in Uses}
      <3>1. PICK g \in Grants, u \in Uses : f = Fact(g, "REVOKED", u[1], u[2], None, 0) BY <2>2
      <3>2. QED BY <3>1, <1>1
    <2>3. CASE f \in {Fact(g, "SUPERSEDED", u[1], u[2], s, 0) : g \in Grants, u \in Uses, s \in Grants}
      <3>1. PICK g \in Grants, u \in Uses, s \in Grants : f = Fact(g, "SUPERSEDED", u[1], u[2], s, 0) BY <2>3
      <3>2. QED BY <3>1, <1>1
    <2>4. CASE f \in {Fact(g, k, "BEFORE", c, None, 0) :
                        g \in Grants, k \in {"OWN_CONSUMED", "CLAIM_STATUS_UNKNOWN"}, c \in Commands}
      <3>1. PICK g \in Grants, k \in {"OWN_CONSUMED", "CLAIM_STATUS_UNKNOWN"}, c \in Commands :
                   f = Fact(g, k, "BEFORE", c, None, 0)
        BY <2>4
      <3>2. QED BY <3>1
    <2>5. QED BY <2>1, <2>2, <2>3, <2>4
  <1>5. QED BY <1>2, <1>3, <1>4

(* So are the ones about a source grant. *)
LEMMA SourceRequestFields ==
  ASSUME NEW f \in SourceRequests
  PROVE  \E g \in Grants, r \in Grants \cup {Root}, k \in {"REVOKED", "OWN_CONSUMED", "CORRECTION"},
            o \in {"BEFORE", "AFTER", "UNKNOWN"}, key \in HostKeys \cup {Adopting, None}, eff \in Times, n \in Nat :
           f = SourceFact(g, r, k, o, key, eff, n)
  <1>0. 0 \in Times BY AdoptionBounds DEF Times
  <1>2. f \in SourceDenying \/ f \in SourceCorrecting BY DEF SourceRequests, Bounded
  <1>3. CASE f \in SourceCorrecting
    <2>1. PICK g \in Grants, o \in {"BEFORE", "UNKNOWN"}, eff \in Times,
               n \in 1..(MaxSourceDenials + MaxCorrections) :
                 f = SourceFact(g, Root, "CORRECTION", o, None, eff, n)
      BY <1>3 DEF SourceCorrecting
    <2>2. n \in Nat BY <2>1, AdoptionBounds, AuthorityBounds
    <2>3. QED BY <2>1, <2>2
  <1>4. CASE f \in SourceDenying
    <2>1. \/ \E g \in Grants, r \in Grants \cup {Root}, key \in {None, Adopting}, eff \in Times :
               f = SourceFact(g, r, "REVOKED", "BEFORE", key, eff, 0)
          \/ \E g \in Grants, r \in Grants \cup {Root} :
               f = SourceFact(g, r, "REVOKED", "UNKNOWN", None, 0, 0)
          \/ \E g \in Grants, k \in {"REVOKED", "OWN_CONSUMED"}, o \in {"BEFORE", "AFTER"},
                key \in HostKeys \cup {Adopting}, eff \in Times :
               f = SourceFact(g, Root, k, o, key, eff, 0)
      BY <1>4 DEF SourceDenying, Dependents
    <2>2. CASE \E g \in Grants, r \in Grants \cup {Root}, key \in {None, Adopting}, eff \in Times :
                 f = SourceFact(g, r, "REVOKED", "BEFORE", key, eff, 0)
      BY <2>2
    <2>3. CASE \E g \in Grants, r \in Grants \cup {Root} :
                 f = SourceFact(g, r, "REVOKED", "UNKNOWN", None, 0, 0)
      BY <1>0, <2>3
    <2>4. CASE \E g \in Grants, k \in {"REVOKED", "OWN_CONSUMED"}, o \in {"BEFORE", "AFTER"},
                  key \in HostKeys \cup {Adopting}, eff \in Times :
                 f = SourceFact(g, Root, k, o, key, eff, 0)
      BY <2>4
    <2>5. QED BY <2>1, <2>2, <2>3, <2>4
  <1>5. QED BY <1>2, <1>3, <1>4

(* record_authority_fact keeps what is known of the facts. *)
LEMMA RecordFactKeepsFacts ==
  ASSUME FactInvariant, kind # "SOURCE", NEW f \in Requests, RecordFact(f)
  PROVE  FactInvariant' /\ f.grant \in Grants
  <1>1. PICK g \in Grants, k \in {"REVOKED", "SUPERSEDED", "OWN_CONSUMED", "CLAIM_STATUS_UNKNOWN", "CORRECTION"},
             o \in {"BEFORE", "AFTER"}, c \in Commands \cup {None}, s \in Grants \cup {None}, n \in Nat :
               f = Fact(g, k, o, c, s, n)
    BY RequestFields
  <1>2. /\ f.grant = g /\ f.kind = k /\ f.order = o /\ f.governs = c /\ f.successor = s /\ f.corrects = n
        /\ f.grant \in Grants
    BY <1>1 DEF Fact
  <1>3. Generation(f) \in Nat
    BY <1>2, GenerationIsNatural DEF RecordFact, FactInvariant
  <1>4. PICK m \in Nat : m = Generation(f) BY <1>3
  <1>5. PICK e \in Commands \cup {None} : e = IF k = "OWN_CONSUMED" THEN c ELSE None BY <1>1
  <1>6. PICK row : row = [grant |-> g, kind |-> k, order |-> o, governs |-> e, successor |-> s,
                          corrects |-> n, gen |-> m]
    OBVIOUS
  <1>7. Recorded(f) = row
    <2>1. f = [grant |-> g, kind |-> k, order |-> o, governs |-> c, successor |-> s, corrects |-> n, gen |-> 0]
      BY <1>1 DEF Fact
    <2>2. Recorded(f) = [f EXCEPT !.gen = m, !.governs = IF k = "OWN_CONSUMED" THEN @ ELSE None]
      BY <1>2, <1>4 DEF Recorded
    <2>3. CASE k = "OWN_CONSUMED" BY <1>5, <1>6, <2>1, <2>2, <2>3
    <2>4. CASE k # "OWN_CONSUMED" BY <1>5, <1>6, <2>1, <2>2, <2>4
    <2>5. QED BY <2>3, <2>4
  <1>8. row \in AnyRow BY <1>6 DEF AnyRow, FactRows
  <1>9. Records(f, row)
    BY <1>2, <1>4, <1>6, <1>7, <1>8 DEF Records, RecordFact
  <1>10. edges' = ExpectedSupersessions(facts')
    <2>1. edges' = EdgesAfter(f) /\ edges = ExpectedSupersessions(facts)
      BY DEF RecordFact, FactInvariant, FactTablesReplay
    <2>2. QED BY <1>9, <2>1, EdgesFollow DEF FactInvariant
  <1>11. effective' = EffectiveAfter(facts', f) /\ fences' = FencesAfter(f) /\ kind' = kind
    BY DEF RecordFact
  <1>12. QED BY <1>2, <1>9, <1>10, <1>11, RecordKeepsFacts

(* Facts about source grants supersede nothing. *)
LEMMA SourcesSupersedeNothing ==
  ASSUME HistoryTyped, kind = "SOURCE"
  PROVE  ExpectedSupersessions(facts) = {}
  <1>1. \A i \in DOMAIN facts : facts[i].kind # "SUPERSEDED"
    BY RowFields DEF HistoryTyped, AnyRow
  <1>2. QED BY <1>1 DEF ExpectedSupersessions

(* What a fact about a source grant is recorded as. *)
LEMMA SourceRecords ==
  ASSUME FactInvariant, NEW f \in SourceRequests, NEW now, RecordSourceFact(f, now)
  PROVE  /\ Records(f, SourceRecorded(f)) /\ f.grant \in Grants /\ f.run \in Grants \cup {Root}
         /\ SourceRecorded(f).run = IF Fenced(f) THEN SourceRun(f) ELSE None
  <1>1. PICK g \in Grants, r \in Grants \cup {Root}, k \in {"REVOKED", "OWN_CONSUMED", "CORRECTION"},
             o \in {"BEFORE", "AFTER", "UNKNOWN"}, key \in HostKeys \cup {Adopting, None}, eff \in Times, n \in Nat :
               f = SourceFact(g, r, k, o, key, eff, n)
    BY SourceRequestFields
  <1>2. f = [grant |-> g, kind |-> k, order |-> o, governs |-> key, successor |-> None,
             corrects |-> n, gen |-> 0, run |-> r, eff |-> eff]
    BY <1>1 DEF SourceFact
  <1>3. /\ f.grant = g /\ f.kind = k /\ f.order = o /\ f.successor = None /\ f.corrects = n
        /\ f.run = r /\ f.grant \in Grants
    BY <1>2
  <1>4. Generation(f) \in Nat
    BY <1>3, GenerationIsNatural DEF RecordSourceFact, FactInvariant
  <1>5. PICK m \in Nat : m = Generation(f) BY <1>4
  <1>6. PICK x \in Grants \cup {Root, None} : x = IF Fenced(f) THEN SourceRun(f) ELSE None
    BY <1>3 DEF SourceRun
  <1>7. PICK row : row = [grant |-> g, kind |-> k, order |-> o, governs |-> None, successor |-> None,
                          corrects |-> n, gen |-> m, run |-> x, eff |-> eff]
    OBVIOUS
  <1>8. SourceRecorded(f) = row
    <2>1. SourceRecorded(f) = [f EXCEPT !.gen = m, !.governs = None, !.run = x]
      BY <1>5, <1>6 DEF SourceRecorded
    <2>2. QED BY <1>2, <1>7, <2>1
  <1>9. row \in SourceRows BY <1>7 DEF SourceRows
  <1>10. Records(f, row)
    BY <1>3, <1>5, <1>7, <1>8, <1>9 DEF Records, RecordSourceFact, AnyRow
  <1>11. row.run = x BY <1>7
  <1>12. QED BY <1>3, <1>6, <1>8, <1>10, <1>11

(* A fact about a source grant keeps what is known of the facts. *)
LEMMA RecordSourceFactKeepsFacts ==
  ASSUME FactInvariant, kind = "SOURCE", kind' = kind, edges' = edges,
         NEW f \in SourceRequests, NEW now, RecordSourceFact(f, now)
  PROVE  FactInvariant'
  <1>1. PICK row : Records(f, row) BY SourceRecords
  <1>2. f.grant \in Grants BY SourceRecords
  <1>3. edges' = ExpectedSupersessions(facts')
    <2>1. HistoryTyped' BY <1>1, RecordKeepsHistory DEF FactInvariant
    <2>2. ExpectedSupersessions(facts') = {}
      <3>1. \A i \in DOMAIN facts' : facts'[i] \in SourceRows /\ facts'[i] \in AnyRow
        BY <2>1 DEF HistoryTyped, AnyRow
      <3>2. \A i \in DOMAIN facts' : facts'[i].kind # "SUPERSEDED" BY <3>1, RowFields
      <3>3. QED BY <3>2 DEF ExpectedSupersessions
    <2>3. edges = {} BY SourcesSupersedeNothing DEF FactInvariant, FactTablesReplay
    <2>4. QED BY <2>2, <2>3
  <1>4. effective' = EffectiveAfter(facts', f) /\ fences' = FencesAfter(f)
    BY DEF RecordSourceFact
  <1>5. QED BY <1>1, <1>2, <1>3, <1>4, RecordKeepsFacts

(* Nothing but a fact touches the facts. *)
LEMMA OthersKeepFacts ==
  ASSUME NEW p \in Processes,
         ClaimStep(p) \/ MarkStep(p) \/ DispatchStep(p) \/ Crash(p)
           \/ \E c \in Commands, g \in Grants : CommitStep(p, c, g) \/ ReplayStep(p, c, g)
  PROVE  UNCHANGED <<kind, factVars>>
  <1>1. CASE ClaimStep(p) BY <1>1 DEF ClaimStep
  <1>2. CASE MarkStep(p) BY <1>2 DEF MarkStep, MarkIntent, MarkValidatorIntent, MarkOperatorAction
  <1>3. CASE DispatchStep(p)
    BY <1>3 DEF DispatchStep, ClaimOperationLaunch, ContactOperation, ContactCommittedValidator, Contacts, GiveUp
  <1>4. CASE Crash(p) BY <1>4 DEF Crash
  <1>5. CASE \E c \in Commands, g \in Grants : CommitStep(p, c, g)
    BY <1>5 DEF CommitStep, CommitIntent, CommitValidatorIntent, OperatorAction, Redeem
  <1>6. CASE \E c \in Commands, g \in Grants : ReplayStep(p, c, g)
    BY <1>6 DEF ReplayStep, ReplayIntent, ReplayValidatorIntent, Replays
  <1>7. QED BY <1>1, <1>2, <1>3, <1>4, <1>5, <1>6

(* A step that touches neither keeps what is known of the facts. *)
LEMMA UntouchedFacts ==
  ASSUME FactInvariant, UNCHANGED <<kind, factVars>>
  PROVE  FactInvariant'
  BY DEF FactInvariant, HistoryTyped, GenerationsCount, FactTablesReplay, factVars

(* The empty history. *)
LEMMA InitFacts == ASSUME Init PROVE FactInvariant
  <1>1. facts = <<>> /\ DOMAIN facts = {} /\ facts \in Seq(AnyRow) BY DEF Init
  <1>2. HistoryTyped BY <1>1 DEF HistoryTyped
  <1>3. \A g \in Grants : DenialsOf(facts, g) = {} /\ Standing(facts, g) = {}
    BY <1>1 DEF DenialsOf, Standing
  <1>4. GenerationsCount BY <1>1, <1>3 DEF GenerationsCount
  <1>5. effective = ExpectedEffective(facts) BY <1>3 DEF Init, ExpectedEffective, Latest
  <1>6. edges = ExpectedSupersessions(facts) BY <1>1 DEF Init, ExpectedSupersessions
  <1>7. fences = ExpectedAuthorityFences(facts) BY <1>1 DEF Init, ExpectedAuthorityFences
  <1>8. QED BY <1>1, <1>2, <1>4, <1>5, <1>6, <1>7 DEF FactInvariant, FactTablesReplay

(* Every step keeps what is known of the facts. *)
LEMMA NextKeepsFacts == FactInvariant /\ [AdoptionNext]_allVars => FactInvariant'
  <1> SUFFICES ASSUME FactInvariant, [AdoptionNext]_allVars PROVE FactInvariant' OBVIOUS
  <1>1. CASE kind # "SOURCE" /\ Next
    <2>1. CASE \E f \in Requests : RecordFact(f) BY <1>1, <2>1, RecordFactKeepsFacts
    <2>2. CASE Reopen BY <2>2, UntouchedFacts DEF Reopen
    <2>3. QED BY <1>1, <2>1, <2>2, OthersKeepFacts, UntouchedFacts DEF Next
  <1>2. CASE kind = "SOURCE" /\ UNCHANGED privateVars /\ \E now \in floor..MaxTime : AdoptionStep(now)
    <2>1. kind' = kind /\ edges' = edges BY <1>2 DEF privateVars
    <2>2. PICK now \in floor..MaxTime : AdoptionStep(now) BY <1>2
    <2>3. CASE \E f \in SourceRequests : RecordSourceFact(f, now)
      BY <1>2, <2>1, <2>3, RecordSourceFactKeepsFacts
    <2>4. CASE ~\E f \in SourceRequests : RecordSourceFact(f, now)
      <3>1. UNCHANGED sharedVars
        BY <2>2, <2>4 DEF AdoptionStep, RegisterSourceGrant, ConsumeSourceForTest, AdoptVerifiedEffect
      <3>2. QED BY <2>1, <3>1, UntouchedFacts DEF sharedVars, factVars
    <2>5. QED BY <2>3, <2>4
  <1>3. CASE /\ kind = "SOURCE" /\ UNCHANGED privateVars
             /\ \/ \E d \in Dependents : FinalizeAdopted(d)
                \/ LateReceiptRecorded
                \/ \E r \in Dependents : RecordBindingMismatch(r)
    <2>1. UNCHANGED sharedVars
      BY <1>3 DEF FinalizeAdopted, LateReceiptRecorded, RecordBindingMismatch
    <2>2. QED BY <1>3, <2>1, UntouchedFacts DEF sharedVars, factVars, privateVars
  <1>4. CASE UNCHANGED allVars
    BY <1>4, UntouchedFacts DEF allVars, vars, factVars
  <1>5. QED BY <1>1, <1>2, <1>3, <1>4 DEF AdoptionNext

(* The tables that record_authority_fact and its source twin maintain row  *)
(* by row are at all times the ones _verify_projections rebuilds from the  *)
(* whole history, whatever is corrected and how often.                     *)
THEOREM FactsHold == AdoptionSpec => []FactInvariant
  <1>1. AdoptionInit => FactInvariant BY InitFacts DEF AdoptionInit
  <1>2. QED BY <1>1, NextKeepsFacts, PTL DEF AdoptionSpec, allVars

(* FactTablesReplay: effective_authority, authority_supersessions, the     *)
(* dispatch fences and the generations are a function of the facts.        *)
THEOREM TablesReplay == AdoptionSpec => []FactTablesReplay
  <1>1. FactInvariant => FactTablesReplay BY DEF FactInvariant
  <1>2. QED BY <1>1, FactsHold, PTL

(* Only a contact adds to what was contacted. *)
LEMMA OnlyContactsContact ==
  ASSUME UseInvariant, Next, NEW c \in contacted' \ contacted
  PROVE  \E p \in Processes :
           /\ Contacts(p) /\ proc[p].at # "idle" /\ proc[p].cmd = c
  <1>1. contacted' # contacted OBVIOUS
  <1>2. ASSUME NEW p \in Processes, ClaimStep(p) \/ MarkStep(p) \/ Crash(p)
               \/ \E d \in Commands, g \in Grants : CommitStep(p, d, g) \/ ReplayStep(p, d, g)
        PROVE  contacted' = contacted
    <2>1. CASE ClaimStep(p) BY <2>1 DEF ClaimStep, controlVars
    <2>2. CASE MarkStep(p)
      BY <2>2 DEF MarkStep, MarkIntent, MarkValidatorIntent, MarkOperatorAction, controlVars
    <2>3. CASE Crash(p) BY <2>3 DEF Crash, controlVars
    <2>4. CASE \E d \in Commands, g \in Grants : CommitStep(p, d, g)
      BY <2>4 DEF CommitStep, CommitIntent, CommitValidatorIntent, OperatorAction, Redeem
    <2>5. CASE \E d \in Commands, g \in Grants : ReplayStep(p, d, g)
      BY <2>5 DEF ReplayStep, ReplayIntent, ReplayValidatorIntent, Replays, controlVars
    <2>6. QED BY <1>2, <2>1, <2>2, <2>3, <2>4, <2>5
  <1>3. ~Reopen /\ \A f \in Requests : ~RecordFact(f) BY <1>1 DEF Reopen, RecordFact
  <1>4. PICK p \in Processes : DispatchStep(p) BY <1>1, <1>2, <1>3 DEF Next
  <1>5. Contacts(p) /\ proc[p].at # "idle"
    BY <1>1, <1>4 DEF DispatchStep, ClaimOperationLaunch, ContactOperation, ContactCommittedValidator, GiveUp,
       controlVars
  <1>6. contacted' = contacted \cup {proc[p].cmd} BY <1>5 DEF Contacts
  <1>7. QED BY <1>5, <1>6

(* A grant on which a fact stands has it in effective_authority, the       *)
(* latest one.                                                             *)
LEMMA EffectiveIsLatest ==
  ASSUME FactInvariant, NEW g \in Grants, Standing(facts, g) # {}
  PROVE  effective[g] # 0 /\ effective[g] = Latest(Standing(facts, g))
  <1>1. effective[g] = Latest(Standing(facts, g))
    BY DEF FactInvariant, FactTablesReplay, ExpectedEffective
  <1>2. PICK n \in Nat : n = Len(facts) /\ DOMAIN facts = 1..n BY DEF FactInvariant, HistoryTyped
  <1>3. PICK S : S = Standing(facts, g) OBVIOUS
  <1>4. S \subseteq 1..n /\ S # {} BY <1>2, <1>3 DEF Standing
  <1>5. Latest(S) \in S BY <1>4, LatestIsGreatest
  <1>6. Latest(S) # 0 BY <1>2, <1>4, <1>5
  <1>7. QED BY <1>1, <1>3, <1>6

(* A contact is authorized when it is made. *)
LEMMA ContactsAreAuthorized ==
  ASSUME UseInvariant, FactInvariant, Next, NEW c \in contacted' \ contacted
  PROVE  /\ redeemed[c] # None /\ source[redeemed[c]].intent = c
         /\ ExpectedAuthorityFences(facts) = {}
         /\ Standing(facts, redeemed[c]) # {} =>
              /\ facts[Latest(Standing(facts, redeemed[c]))].kind = "OWN_CONSUMED"
              /\ facts[Latest(Standing(facts, redeemed[c]))].governs = c
  <1>1. PICK p \in Processes : Contacts(p) /\ proc[p].at # "idle" /\ proc[p].cmd = c
    BY OnlyContactsContact
  <1>2. c \in Commands /\ proc[p].grant \in Grants /\ redeemed[c] = proc[p].grant
    BY <1>1 DEF UseInvariant, DispatchNamesItsUse
  <1>3. redeemed[c] # None BY <1>2, NoneIsNoCommand
  <1>4. source[redeemed[c]].intent = c BY <1>1, <1>2 DEF Contacts, MarkedFor
  <1>5. ExpectedAuthorityFences(facts) = {}
    BY <1>1 DEF Contacts, FactInvariant, FactTablesReplay
  <1>6. EffectiveFor(redeemed[c], c) BY <1>1, <1>2 DEF Contacts
  <1>7. ASSUME Standing(facts, redeemed[c]) # {}
        PROVE  /\ facts[Latest(Standing(facts, redeemed[c]))].kind = "OWN_CONSUMED"
               /\ facts[Latest(Standing(facts, redeemed[c]))].governs = c
    <2>1. redeemed[c] \in Grants BY <1>2
    <2>2. /\ effective[redeemed[c]] # 0
          /\ effective[redeemed[c]] = Latest(Standing(facts, redeemed[c]))
      BY <1>7, <2>1, EffectiveIsLatest
    <2>3. QED BY <1>6, <2>2 DEF EffectiveFor
  <1>8. QED BY <1>3, <1>4, <1>5, <1>7

(* ContactIsAuthorized: no interleaving of commits, markers, crashes and   *)
(* facts lets a contact of storage.py happen that its own grant, its       *)
(* marker or a standing denial forbids.                                    *)
THEOREM EveryContactIsAuthorized == AdoptionSpec => ContactIsAuthorized
  <1> DEFINE A == \A c \in contacted' \ contacted :
                    LET S == Standing(facts, redeemed[c])
                    IN  /\ redeemed[c] # None /\ source[redeemed[c]].intent = c
                        /\ ExpectedAuthorityFences(facts) = {}
                        /\ S # {} => facts[Latest(S)].kind = "OWN_CONSUMED" /\ facts[Latest(S)].governs = c
  <1>1. UseInvariant /\ FactInvariant /\ [AdoptionNext]_allVars => [A]_vars
    <2> SUFFICES ASSUME UseInvariant, FactInvariant, [AdoptionNext]_allVars PROVE [A]_vars OBVIOUS
    <2>1. CASE Next BY <2>1, ContactsAreAuthorized
    <2>2. CASE UNCHANGED privateVars
      <3>1. contacted' \ contacted = {} BY <2>2 DEF privateVars, controlVars
      <3>2. QED BY <3>1
    <2>3. CASE UNCHANGED allVars BY <2>3 DEF allVars
    <2>4. QED BY <2>1, <2>2, <2>3 DEF AdoptionNext
  <1> HIDE DEF A
  <1>2. QED BY <1>1, UsesHold, FactsHold, PTL DEF AdoptionSpec, allVars, ContactIsAuthorized, A

(* TypeOK: the store's tables and the processes' memory keep their types,  *)
(* and every row about a fact names a fact on record.                      *)
THEOREM TypesHold == AdoptionSpec => []TypeOK
  <1>1. UseInvariant /\ FactInvariant => TypeOK
    <2> SUFFICES ASSUME UseInvariant, FactInvariant PROVE TypeOK OBVIOUS
    <2>1. Len(facts) \in Nat /\ DOMAIN facts = 1..Len(facts) /\ \A i \in DOMAIN facts : facts[i] \in AnyRow
      BY DEF FactInvariant, HistoryTyped
    <2>2. \A i \in DOMAIN facts : facts[i].grant \in Grants /\ facts[i].corrects \in 0..(i - 1)
      BY <2>1, RowFields DEF FactInvariant, HistoryTyped
    <2>3. fences \subseteq DOMAIN facts
      BY DEF FactInvariant, FactTablesReplay, ExpectedAuthorityFences
    <2>4. effective \in [Grants -> 0..Len(facts)]
      <3>1. ASSUME NEW g \in Grants PROVE Latest(Standing(facts, g)) \in 0..Len(facts)
        <4>1. PICK n \in Nat : n = Len(facts) BY <2>1
        <4>2. PICK S : S = Standing(facts, g) OBVIOUS
        <4>3. S \subseteq 1..n BY <2>1, <4>1, <4>2 DEF Standing
        <4>4. CASE S = {} BY <2>1, <4>2, <4>4 DEF Latest
        <4>5. CASE S # {}
          <5>1. Latest(S) \in S BY <4>3, <4>5, LatestIsGreatest
          <5>2. Latest(S) \in 1..n BY <4>3, <5>1
          <5>3. QED BY <4>1, <4>2, <5>2
        <4>6. QED BY <4>4, <4>5
      <3>2. QED BY <3>1 DEF FactInvariant, FactTablesReplay, ExpectedEffective
    <2>5. QED BY <2>2, <2>3, <2>4 DEF TypeOK, UseInvariant, UseTypes
  <1>2. QED BY <1>1, UsesHold, FactsHold, PTL

--------------------------------------------------------------------------------
(* Supersessions.  Reached is the least set closed under the edges.        *)

Closed(A, E) == \A e \in E : e.pred \in A => e.succ \in A

(* A walk of one more step. *)
Further(A, E) == A \cup UNION {Successor(x, E) : x \in A}

(* The walk from g, as long as N steps. *)
IsWalk(w, g, E, N) == w = [n \in 0..N |-> IF n = 0 THEN {g} ELSE Further(w[n - 1], E)]

(* The recursive definition in Reached has a solution. *)
LEMMA WalkExists ==
  ASSUME NEW g, NEW E, NEW N \in Nat
  PROVE  \E w : IsWalk(w, g, E, N)
  <1> DEFINE T == {m \in Nat : \E w : IsWalk(w, g, E, m)}
  <1>1. 0 \in T
    <2>1. PICK w : w = [n \in 0..0 |-> {g}] OBVIOUS
    <2>2. w = [n \in 0..0 |-> IF n = 0 THEN {g} ELSE Further(w[n - 1], E)] BY <2>1
    <2>3. QED BY <2>2 DEF IsWalk
  <1>2. ASSUME NEW m \in Nat, m \in T PROVE m + 1 \in T
    <2>1. PICK w : w = [n \in 0..m |-> IF n = 0 THEN {g} ELSE Further(w[n - 1], E)] BY <1>2 DEF IsWalk
    <2>2. PICK v : v = [n \in 0..(m + 1) |-> IF n = m + 1 THEN Further(w[m], E) ELSE w[n]] OBVIOUS
    <2>3. ASSUME NEW n \in 0..(m + 1)
          PROVE  v[n] = IF n = 0 THEN {g} ELSE Further(v[n - 1], E)
      <3>1. CASE n = m + 1
        <4>1. n - 1 = m /\ m \in 0..(m + 1) /\ m # m + 1 /\ n # 0 BY <3>1
        <4>2. v[m] = w[m] BY <2>2, <4>1
        <4>3. v[n] = Further(w[m], E) BY <2>2, <3>1
        <4>4. QED BY <4>1, <4>2, <4>3
      <3>2. CASE n # m + 1 /\ n # 0
        <4>1. n \in 0..m /\ n - 1 \in 0..(m + 1) /\ n - 1 # m + 1 BY <3>2
        <4>2. v[n] = w[n] /\ v[n - 1] = w[n - 1] BY <2>2, <3>2, <4>1
        <4>3. w[n] = Further(w[n - 1], E) BY <2>1, <3>2, <4>1
        <4>4. QED BY <3>2, <4>2, <4>3
      <3>3. CASE n = 0
        <4>1. n \in 0..m /\ n # m + 1 BY <3>3
        <4>2. v[n] = w[n] BY <2>2, <4>1
        <4>3. w[n] = {g} BY <2>1, <3>3, <4>1
        <4>4. QED BY <3>3, <4>2, <4>3
      <3>4. QED BY <3>1, <3>2, <3>3
    <2>4. v = [n \in 0..(m + 1) |-> IF n = 0 THEN {g} ELSE Further(v[n - 1], E)]
      BY <2>2, <2>3
    <2>5. QED BY <2>4 DEF IsWalk
  <1> HIDE DEF T
  <1>3. \A n \in Nat : n \in T BY <1>1, <1>2, SetInduction
  <1>4. QED BY <1>3 DEF T

(* Reached is the end of such a walk. *)
LEMMA ReachedIsWalk ==
  ASSUME NEW g, NEW E
  PROVE  \E w : IsWalk(w, g, E, Cardinality(Grants)) /\ Reached(g, E) = w[Cardinality(Grants)]
  <1>1. Cardinality(Grants) \in Nat BY GrantsAreFinite, FS_CardinalityType
  <1>2. \E w : IsWalk(w, g, E, Cardinality(Grants)) BY <1>1, WalkExists
  <1> DEFINE s == CHOOSE w : w = [n \in 0..Cardinality(Grants) |-> IF n = 0 THEN {g} ELSE Further(w[n - 1], E)]
  <1>3. s = [n \in 0..Cardinality(Grants) |-> IF n = 0 THEN {g} ELSE Further(s[n - 1], E)]
    BY <1>2 DEF IsWalk
  <1>4. Reached(g, E) = s[Cardinality(Grants)] BY DEF Reached, Further
  <1>5. QED BY <1>3, <1>4 DEF IsWalk

(* A walk step by step. *)
LEMMA WalkSteps ==
  ASSUME NEW g, NEW E, NEW N \in Nat, NEW w, IsWalk(w, g, E, N)
  PROVE  /\ w[0] = {g}
         /\ \A n \in Nat : n + 1 <= N => w[n + 1] = Further(w[n], E)
  <1>1. w[0] = {g} BY DEF IsWalk
  <1>2. ASSUME NEW n \in Nat, n + 1 <= N PROVE w[n + 1] = Further(w[n], E)
    <2>1. n + 1 \in 0..N /\ n + 1 # 0 /\ (n + 1) - 1 = n BY <1>2
    <2>2. QED BY <2>1 DEF IsWalk
  <1>3. QED BY <1>1, <1>2

(* One more step adds the successors of what was reached. *)
LEMMA FurtherAdds ==
  ASSUME NEW A, NEW E
  PROVE  /\ A \subseteq Further(A, E)
         /\ \A e \in E : e.pred \in A => e.succ \in Further(A, E)
         /\ \A x \in Further(A, E) : x \in A \/ \E e \in E : e.pred \in A /\ x = e.succ
         /\ Closed(A, E) => Further(A, E) = A
  <1>1. A \subseteq Further(A, E) BY DEF Further
  <1>2. ASSUME NEW e \in E, e.pred \in A PROVE e.succ \in Further(A, E)
    <2>1. e.succ \in Successor(e.pred, E) BY DEF Successor
    <2>2. QED BY <1>2, <2>1 DEF Further
  <1>3. ASSUME NEW x \in Further(A, E), x \notin A PROVE \E e \in E : e.pred \in A /\ x = e.succ
    <2>1. PICK y \in A : x \in Successor(y, E) BY <1>3 DEF Further
    <2>2. QED BY <2>1 DEF Successor
  <1>4. Closed(A, E) => Further(A, E) = A BY <1>1, <1>3 DEF Closed
  <1>5. QED BY <1>1, <1>2, <1>3, <1>4

(* What is reached stays inside every closed set around g. *)
LEMMA ReachedIsLeast ==
  ASSUME NEW g, NEW E, NEW A, g \in A, Closed(A, E)
  PROVE  Reached(g, E) \subseteq A
  <1>0. Cardinality(Grants) \in Nat BY GrantsAreFinite, FS_CardinalityType
  <1>1. PICK w : IsWalk(w, g, E, Cardinality(Grants)) /\ Reached(g, E) = w[Cardinality(Grants)]
    BY ReachedIsWalk
  <1>2. PICK N \in Nat : N = Cardinality(Grants) BY <1>0
  <1>3. /\ w[0] = {g} /\ \A n \in Nat : n + 1 <= N => w[n + 1] = Further(w[n], E)
    <2>1. IsWalk(w, g, E, N) BY <1>1, <1>2
    <2>2. QED BY <2>1, WalkSteps
  <1> DEFINE T == {n \in Nat : n <= N => w[n] \subseteq A}
  <1>4. 0 \in T BY <1>3
  <1>5. ASSUME NEW n \in Nat, n \in T PROVE n + 1 \in T
    <2>1. CASE n + 1 <= N
      <3>1. w[n] \subseteq A BY <1>2, <1>5, <2>1
      <3>2. w[n + 1] = Further(w[n], E) BY <1>3, <2>1
      <3>3. \A x \in Further(w[n], E) : x \in w[n] \/ \E e \in E : e.pred \in w[n] /\ x = e.succ
        BY FurtherAdds
      <3>4. QED BY <3>1, <3>2, <3>3 DEF Closed
    <2>2. CASE ~(n + 1 <= N) BY <2>2
    <2>3. QED BY <2>1, <2>2
  <1> HIDE DEF T
  <1>6. \A n \in Nat : n \in T BY <1>4, <1>5, SetInduction
  <1>7. w[N] \subseteq A BY <1>2, <1>6 DEF T
  <1>8. QED BY <1>1, <1>2, <1>7

(* What is reached is closed: as long as a walk is not, it gains a grant   *)
(* with every step, and there are no more steps than grants.               *)
LEMMA ReachedIsClosed ==
  ASSUME NEW g \in Grants, NEW E, \A e \in E : e.succ \in Grants
  PROVE  g \in Reached(g, E) /\ Closed(Reached(g, E), E)
  <1>0. Cardinality(Grants) \in Nat BY GrantsAreFinite, FS_CardinalityType
  <1>1. PICK w : IsWalk(w, g, E, Cardinality(Grants)) /\ Reached(g, E) = w[Cardinality(Grants)]
    BY ReachedIsWalk
  <1>2. PICK N \in Nat : N = Cardinality(Grants) BY <1>0
  <1>3. /\ w[0] = {g} /\ \A n \in Nat : n + 1 <= N => w[n + 1] = Further(w[n], E)
    <2>1. IsWalk(w, g, E, N) BY <1>1, <1>2
    <2>2. QED BY <2>1, WalkSteps
  <1> DEFINE Grown(n) == /\ g \in w[n] /\ w[n] \subseteq Grants
                         /\ Closed(w[n], E) \/ n + 1 <= Cardinality(w[n])
             T == {n \in Nat : n <= N => Grown(n)}
  <1>4. 0 \in T
    <2>1. Cardinality({g}) = 1 BY FS_Singleton
    <2>2. 0 + 1 <= Cardinality(w[0]) BY <1>3, <2>1
    <2>3. g \in w[0] /\ w[0] \subseteq Grants BY <1>3
    <2>4. QED BY <2>2, <2>3
  <1>5. ASSUME NEW n \in Nat, n \in T PROVE n + 1 \in T
    <2>1. CASE n + 1 <= N
      <3>1. Grown(n) BY <1>2, <1>5, <2>1
      <3>2. PICK A : A = w[n] OBVIOUS
      <3>3. PICK B : B = w[n + 1] OBVIOUS
      <3>4. B = Further(A, E) BY <1>3, <2>1, <3>2, <3>3
      <3>5. /\ A \subseteq B /\ \A e \in E : e.pred \in A => e.succ \in B
            /\ \A x \in B : x \in A \/ \E e \in E : e.pred \in A /\ x = e.succ
            /\ Closed(A, E) => B = A
        BY <3>4, FurtherAdds
      <3>6. g \in B /\ B \subseteq Grants BY <3>1, <3>2, <3>5
      <3>7. CASE Closed(A, E)
        <4>1. Closed(B, E) BY <3>5, <3>7
        <4>2. QED BY <3>3, <3>6, <4>1
      <3>8. CASE ~Closed(A, E)
        <4>1. n + 1 <= Cardinality(A) BY <3>1, <3>2, <3>8
        <4>2. PICK e \in E : e.pred \in A /\ e.succ \notin A BY <3>8 DEF Closed
        <4>3. IsFiniteSet(A) /\ IsFiniteSet(B)
          <5>1. A \subseteq Grants BY <3>1, <3>2
          <5>2. QED BY <5>1, <3>6, GrantsAreFinite, FS_Subset
        <4>4. PICK x : x = e.succ OBVIOUS
        <4>5. /\ Cardinality(A) \in Nat /\ Cardinality(A \cup {x}) = Cardinality(A) + 1
              /\ Cardinality(B) \in Nat
          BY <4>2, <4>3, <4>4, FS_CardinalityType, FS_AddElement
        <4>6. A \cup {x} \subseteq B BY <3>5, <4>2, <4>4
        <4>7. Cardinality(A \cup {x}) <= Cardinality(B) BY <4>3, <4>6, FS_Subset
        <4>8. (n + 1) + 1 <= Cardinality(B) BY <4>1, <4>5, <4>7
        <4>9. QED BY <3>3, <3>6, <4>8
      <3>9. QED BY <3>7, <3>8
    <2>2. CASE ~(n + 1 <= N) BY <2>2
    <2>3. QED BY <2>1, <2>2
  <1> HIDE DEF T
  <1>6. \A n \in Nat : n \in T BY <1>4, <1>5, SetInduction
  <1>7. Grown(N) BY <1>2, <1>6 DEF T
  <1>8. Closed(w[N], E)
    <2>1. PICK A : A = w[N] OBVIOUS
    <2>2. A \subseteq Grants BY <1>7, <2>1
    <2>3. Cardinality(A) <= Cardinality(Grants) /\ Cardinality(A) \in Nat
      BY <2>2, GrantsAreFinite, FS_Subset, FS_CardinalityType
    <2>4. ~(N + 1 <= Cardinality(w[N])) BY <1>2, <2>1, <2>3
    <2>5. QED BY <1>7, <2>4
  <1>9. QED BY <1>1, <1>2, <1>7, <1>8

(* No supersession leads back, and every one is between grants. *)
EdgesAreBetweenGrants == \A e \in edges : e.pred \in Grants /\ e.succ \in Grants
EdgeInvariant == EdgesAreBetweenGrants /\ SupersessionIsAcyclic

(* Without an edge less is reached. *)
LEMMA FewerEdges ==
  ASSUME NEW E, NEW D, D \subseteq E, NEW g \in Grants, \A e \in E : e.succ \in Grants
  PROVE  Reached(g, D) \subseteq Reached(g, E)
  <1>1. g \in Reached(g, E) /\ Closed(Reached(g, E), E) BY ReachedIsClosed
  <1>2. Closed(Reached(g, E), D) BY <1>1 DEF Closed
  <1>3. QED BY <1>1, <1>2, ReachedIsLeast

(* An edge to a grant from which its own grant cannot be reached closes no *)
(* cycle, neither of its own nor with the edges before it.                 *)
LEMMA NewEdgeClosesNoCycle ==
  ASSUME NEW E, \A e \in E : e.pred \in Grants /\ e.succ \in Grants,
         \A e \in E : e.pred \notin Reached(e.succ, E),
         NEW d, d.pred \in Grants, d.succ \in Grants, d.pred \notin Reached(d.succ, E)
  PROVE  \A e \in E \cup {d} : e.pred \notin Reached(e.succ, E \cup {d})
  <1> DEFINE A == Reached(d.succ, E)
             D == E \cup {d}
  <1>1. d.succ \in A /\ Closed(A, E) BY ReachedIsClosed
  <1>2. d.pred \notin Reached(d.succ, D)
    <2>1. Closed(A, D) BY <1>1 DEF Closed
    <2>2. Reached(d.succ, D) \subseteq A BY <1>1, <2>1, ReachedIsLeast
    <2>3. QED BY <2>2
  <1>3. ASSUME NEW e \in E PROVE e.pred \notin Reached(e.succ, D)
    <2> DEFINE B == Reached(e.succ, E)
    <2>1. e.succ \in B /\ Closed(B, E) /\ e.pred \notin B BY ReachedIsClosed
    <2>2. CASE d.pred \notin B
      <3>1. Closed(B, D) BY <2>1, <2>2 DEF Closed
      <3>2. Reached(e.succ, D) \subseteq B BY <2>1, <3>1, ReachedIsLeast
      <3>3. QED BY <2>1, <3>2
    <2>3. CASE d.pred \in B
      <3>1. Closed(A \cup B, D) BY <1>1, <2>1 DEF Closed
      <3>2. Reached(e.succ, D) \subseteq A \cup B BY <2>1, <3>1, ReachedIsLeast
      <3>3. e.pred \notin A
        <4>1. SUFFICES ASSUME e.pred \in A PROVE FALSE OBVIOUS
        <4>2. e.succ \in A BY <1>1, <4>1 DEF Closed
        <4>3. B \subseteq A BY <1>1, <4>2, ReachedIsLeast
        <4>4. QED BY <2>3, <4>3
      <3>4. QED BY <2>1, <3>2, <3>3
    <2>4. QED BY <2>2, <2>3
  <1>4. QED BY <1>2, <1>3

(* A fact makes no cycle and a correction breaks none open. *)
LEMMA RecordFactKeepsEdges ==
  ASSUME EdgeInvariant, NEW f \in Requests, RecordFact(f)
  PROVE  EdgeInvariant'
  <1>1. PICK g \in Grants, k \in {"REVOKED", "SUPERSEDED", "OWN_CONSUMED", "CLAIM_STATUS_UNKNOWN", "CORRECTION"},
             o \in {"BEFORE", "AFTER"}, c \in Commands \cup {None}, s \in Grants \cup {None}, n \in Nat :
               f = Fact(g, k, o, c, s, n)
    BY RequestFields
  <1>2. f.grant \in Grants /\ f.successor \in Grants \cup {None} BY <1>1 DEF Fact
  <1>3. edges' = EdgesAfter(f) /\ WellFormed(f) /\ EdgePermitted(f) BY DEF RecordFact
  <1>4. PICK E : E = edges OBVIOUS
  <1>5. /\ \A e \in E : e.pred \in Grants /\ e.succ \in Grants
        /\ \A e \in E : e.pred \notin Reached(e.succ, E)
    BY <1>4 DEF EdgeInvariant, EdgesAreBetweenGrants, SupersessionIsAcyclic
  <1>6. CASE f.kind = "SUPERSEDED"
    <2>1. PICK d : d = [pred |-> f.grant, succ |-> f.successor, fact |-> Len(facts) + 1] OBVIOUS
    <2>2. edges' = E \cup {d} BY <1>3, <1>4, <1>6, <2>1 DEF EdgesAfter
    <2>3. d.pred \in Grants /\ d.succ \in Grants BY <1>2, <1>3, <1>6, <2>1 DEF WellFormed
    <2>4. d.pred \notin Reached(d.succ, E) BY <1>3, <1>4, <1>6, <2>1 DEF EdgePermitted
    <2>5. \A e \in E \cup {d} : e.pred \notin Reached(e.succ, E \cup {d})
      BY <1>5, <2>3, <2>4, NewEdgeClosesNoCycle
    <2>6. QED BY <1>5, <2>2, <2>3, <2>5 DEF EdgeInvariant, EdgesAreBetweenGrants, SupersessionIsAcyclic
  <1>7. CASE f.kind # "SUPERSEDED"
    <2>1. PICK D : D = edges' OBVIOUS
    <2>2. D \subseteq E BY <1>3, <1>4, <1>7, <2>1 DEF EdgesAfter
    <2>3. ASSUME NEW e \in D PROVE e.pred \notin Reached(e.succ, D)
      <3>1. Reached(e.succ, D) \subseteq Reached(e.succ, E) BY <1>5, <2>2, FewerEdges
      <3>2. QED BY <1>5, <2>2, <3>1
    <2>4. QED BY <1>5, <2>1, <2>2, <2>3 DEF EdgeInvariant, EdgesAreBetweenGrants, SupersessionIsAcyclic
  <1>8. QED BY <1>6, <1>7

(* SupersessionIsAcyclic: a chain of successors of record_authority_fact   *)
(* never leads back, for any number of grants and in any order of          *)
(* supersessions and corrections.                                          *)
THEOREM SupersessionsAreAcyclic == AdoptionSpec => []SupersessionIsAcyclic
  <1>1. AdoptionInit => EdgeInvariant
    BY DEF AdoptionInit, Init, EdgeInvariant, EdgesAreBetweenGrants, SupersessionIsAcyclic
  <1>2. EdgeInvariant /\ [AdoptionNext]_allVars => EdgeInvariant'
    <2> SUFFICES ASSUME EdgeInvariant, [AdoptionNext]_allVars PROVE EdgeInvariant' OBVIOUS
    <2>1. CASE edges' = edges
      BY <2>1 DEF EdgeInvariant, EdgesAreBetweenGrants, SupersessionIsAcyclic
    <2>2. CASE Next
      <3>1. CASE \E f \in Requests : RecordFact(f) BY <3>1, RecordFactKeepsEdges
      <3>2. CASE Reopen BY <2>1, <3>2 DEF Reopen, factVars
      <3>3. QED BY <2>1, <2>2, <3>1, <3>2, OthersKeepFacts DEF Next, factVars
    <2>3. QED BY <2>1, <2>2 DEF AdoptionNext, privateVars, allVars, vars, factVars
  <1>3. EdgeInvariant => SupersessionIsAcyclic BY DEF EdgeInvariant
  <1>4. QED BY <1>1, <1>2, <1>3, PTL DEF AdoptionSpec, allVars
================================================================================
