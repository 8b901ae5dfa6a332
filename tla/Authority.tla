------------------------------- MODULE Authority -------------------------------
(***************************************************************************)
(* One-use authority: the grants, claims and markers of authority.py, the  *)
(* redemptions of storage.py, and the lifecycle facts (T13) that deny a    *)
(* grant.                                                                  *)
(*                                                                         *)
(* Several processes share two durable stores: the claim store of the      *)
(* authority (one row per grant) and the control store (one redemption per *)
(* command, the facts and the tables derived from them).  Neither commits  *)
(* with the other: an intent is durable in the control store before its    *)
(* claim is marked in the claim store.  A process keeps the grants it      *)
(* registered and the claims it holds in memory; a restart rereads what    *)
(* the claim store keeps, which is different for every kind of grant.      *)
(*                                                                         *)
(* A behaviour is about the grants of one kind, all of one logical effect  *)
(* and scope (a successor must bind the same ones).  Source grants, whose  *)
(* terms and uses are in the control store itself, and the adoptions they  *)
(* authorize are module Adoption's.  The run's own progress between two    *)
(* uses is the kernels' and stands here as the one step Reopen.            *)
(***************************************************************************)
EXTENDS Naturals, Sequences, FiniteSets

CONSTANTS
  Processes,    \* controllers, each with a SyntheticAuthority of its own
  Grants,       \* one-use grants of one kind for one effect
  Commands,     \* command ids: each names at most one durable use
  None,
  MaxEvents,    \* bound: uses, facts other than corrections, and crashes together
  MaxDenials,   \* bound: facts other than corrections
  MaxCorrections, \* bound: corrections
  MaxCrashes    \* bound: processes lost

ASSUME AuthorityBounds == {MaxEvents, MaxDenials, MaxCorrections, MaxCrashes} \subseteq Nat
ASSUME GrantsAreFinite == IsFiniteSet(Grants)
ASSUME NoneIsNoCommand == None \notin Commands /\ None \notin Grants

VARIABLES
  kind,       \* EFFECT, VALIDATOR or OPERATOR; SOURCE in Adoption
  mem,        \* process -> grants, claims held, use each claim is bound to
  source,     \* grant -> row of the claim store
  redeemed,   \* command -> the grant its durable event redeemed
  contacted,  \* commands that contacted the target
  proc,       \* process -> how far its dispatch is
  writer,     \* the process inside the writer lock across two steps
  crashes,
  life,       \* lifecycle_state of the run
  facts,      \* AUTHORITY_EVALUATED events, in order
  effective,  \* grant -> its row of effective_authority
  edges,      \* authority_supersessions
  fences      \* facts with a dispatch fence

claimVars   == <<mem, source>>
controlVars == <<redeemed, contacted, life>>
factVars    == <<facts, effective, edges, fences>>
vars == <<kind, mem, source, redeemed, contacted, proc, writer, crashes, life, factVars>>

--------------------------------------------------------------------------------
Kinds == {"EFFECT", "VALIDATOR", "OPERATOR", "SOURCE"}

Durable == kind # "OPERATOR"

Unclaimed(k) == [state |-> "NONE", granted |-> k # "OPERATOR", intent |-> None]

(* A process that has just started: an effect claim is reissued from the   *)
(* claim store and every marked claim is remembered as used; validator     *)
(* claims, all grants and everything about operators are gone.             *)
Started(k, rows) ==
  [ grants |-> {},
    claims |-> IF k = "EFFECT" THEN {g \in Grants : rows[g].state # "NONE"} ELSE {},
    bound  |-> [g \in Grants |-> IF k = "OPERATOR" THEN None ELSE rows[g].intent] ]

(* The bounds.                                                             *)
Denials == {i \in DOMAIN facts : facts[i].kind # "CORRECTION"}

Room ==
  Cardinality({c \in Commands : redeemed[c] # None}) + Cardinality(Denials) + crashes < MaxEvents

Bounded(denying, most, correcting) ==
  (IF Cardinality(Denials) < most THEN denying ELSE {})
    \cup (IF Len(facts) - Cardinality(Denials) < MaxCorrections THEN correcting ELSE {})

Idle == [at |-> "idle", cmd |-> None, grant |-> None]

(* The state of the run in which a use of this kind can be committed.  An  *)
(* operator's actions have states and fences of their own                  *)
(* (OperationKernel), which are not asked here.                            *)
Usable(k) == CASE k = "EFFECT" -> "READY" [] k = "VALIDATOR" -> "VALIDATING" [] OTHER -> "BLOCKED"

(* The controllers have registered their grants and hold no claim.         *)
Init ==
  /\ kind \in Kinds
  /\ source = [g \in Grants |-> Unclaimed(kind)]
  /\ mem = [p \in Processes |-> [Started(kind, source) EXCEPT !.grants = Grants]]
  /\ redeemed = [c \in Commands |-> None] /\ contacted = {}
  /\ proc = [p \in Processes |-> Idle] /\ writer = None /\ crashes = 0
  /\ life = Usable(kind)
  /\ facts = <<>> /\ edges = {} /\ fences = {}
  /\ effective = [g \in Grants |-> 0]

(* _verify_projections needs the issuer to hold the claim behind every     *)
(* operator decision on record: a claim the process lost in a restart must *)
(* be registered and claimed again before the store can be read.           *)
Reads(p) ==
  /\ writer \in {None, p}
  /\ kind = "OPERATOR" => \A c \in Commands : redeemed[c] \in mem[p].claims \cup {None}

--------------------------------------------------------------------------------
(* The claim store.                                                        *)

(* Grants are registered in one step; a repetition is denied or changes    *)
(* nothing.                                                                *)
Registers(p) == mem[p].grants = {} /\ mem' = [mem EXCEPT ![p].grants = Grants]

GrantedRows == [g \in Grants |-> [source[g] EXCEPT !.granted = TRUE]]

Register(p) == kind = "EFFECT" /\ Registers(p) /\ source' = GrantedRows

RegisterValidator(p) == kind = "VALIDATOR" /\ Registers(p) /\ source' = GrantedRows

RegisterOperator(p) == kind = "OPERATOR" /\ Registers(p) /\ UNCHANGED source

(* A claim id is a digest of the grant's binding, so the claim recovered   *)
(* is the claim that was made, in whichever process.                       *)
Hold(p, g) == g \in mem[p].grants /\ mem' = [mem EXCEPT ![p].claims = @ \cup {g}]

ClaimedRow(row) == IF row.state = "NONE" THEN [row EXCEPT !.state = "CLAIMED"] ELSE row

Claim(p, g) ==
  /\ kind = "EFFECT" /\ g \notin mem[p].claims
  /\ source[g].granted /\ source[g].state = "NONE"
  /\ Hold(p, g) /\ source' = [source EXCEPT ![g] = ClaimedRow(@)]

ClaimOrRecover(p, g) ==
  /\ kind = "EFFECT" /\ source[g].granted
  /\ Hold(p, g) /\ source' = [source EXCEPT ![g] = ClaimedRow(@)]

ClaimValidator(p, g) ==
  /\ kind = "VALIDATOR" /\ g \notin mem[p].claims
  /\ source[g].granted /\ source[g].state = "NONE"
  /\ Hold(p, g) /\ source' = [source EXCEPT ![g] = ClaimedRow(@)]

ClaimOrRecoverValidator(p, g) ==
  /\ kind = "VALIDATOR" /\ source[g].granted
  /\ Hold(p, g) /\ source' = [source EXCEPT ![g] = ClaimedRow(@)]

ClaimOperator(p, g) ==
  kind = "OPERATOR" /\ g \notin mem[p].claims /\ Hold(p, g) /\ UNCHANGED source

(* The handle goes, the row stays.                                         *)
ReleaseUncommittedValidatorClaim(p, g) ==
  /\ kind = "VALIDATOR" /\ proc[p] = Idle
  /\ g \in mem[p].claims /\ mem[p].bound[g] = None
  /\ source[g].state = "CLAIMED"
  /\ mem' = [mem EXCEPT ![p].claims = @ \ {g}]
  /\ UNCHANGED source

(* A claim may be used when it was issued here, is unused here and, where  *)
(* there is a row, is unused in the row as it is now.                      *)
VerifyForIntent(p, g) ==
  g \in mem[p].claims /\ mem[p].bound[g] = None /\ source[g].state = "CLAIMED"

VerifyValidatorForIntent(p, g) ==
  g \in mem[p].grants /\ mem[p].bound[g] = None /\ ClaimedRow(source[g]).state = "CLAIMED"

VerifyOperatorForAction(p, g) == g \in mem[p].claims /\ mem[p].bound[g] = None

(* The marker is put, or the same marker is found again.                   *)
MarkedRow(row, c) == [row EXCEPT !.state = "INTENT_COMMITTED", !.intent = c]

RowTakes(row, c) == row.state # "NONE" /\ row.intent \in {None, c}

Remember(p, c, g) == mem' = [mem EXCEPT ![p].bound[g] = c, ![p].claims = @ \cup {g}]

MarkOrRecoverIntent(p, c, g) ==
  /\ g \in mem[p].claims /\ RowTakes(source[g], c)
  /\ Remember(p, c, g) /\ source' = [source EXCEPT ![g] = MarkedRow(@, c)]

MarkValidatorIntentBinding(p, c, g) ==
  /\ mem[p].bound[g] \in {None, c} /\ RowTakes(source[g], c)
  /\ Remember(p, c, g) /\ source' = [source EXCEPT ![g] = MarkedRow(@, c)]

(* A process is lost at any point and starts again.                        *)
Crash(p) ==
  /\ crashes < MaxCrashes /\ Room /\ crashes' = crashes + 1
  /\ mem' = [mem EXCEPT ![p] = Started(kind, source)]
  /\ proc' = [proc EXCEPT ![p] = Idle]
  /\ writer' = IF writer = p THEN None ELSE writer
  /\ UNCHANGED <<kind, source, controlVars, factVars>>

--------------------------------------------------------------------------------
(* The uses.                                                               *)

(* Variant: authority is asked for a new use only, not before contact.     *)
EffectiveAtCommit(g, c) == c = None => effective[g] = 0

(* _require_effective_authority: any standing fact about the grant denies, *)
(* except this very use's own consumption for a use that continues.        *)
EffectiveFor(g, c) ==
  effective[g] # 0 =>
    /\ c # None
    /\ facts[effective[g]].kind = "OWN_CONSUMED"
    /\ facts[effective[g]].governs = c

(* Variant: the marker alone guards against a second use.                  *)
UnredeemedUnchecked(g) == g \in Grants

(* The redemption tables hold a claim once.                                *)
Unredeemed(g) == \A c \in Commands : redeemed[c] # g

(* What every new use asks for before it is written.                       *)
NewUse(p, c, g) ==
  /\ proc[p] = Idle /\ writer = None /\ Reads(p)
  /\ redeemed[c] = None /\ Room
  /\ EffectiveFor(g, None) /\ Unredeemed(g)

Redeem(p, c, g) ==
  /\ redeemed' = [redeemed EXCEPT ![c] = g]
  /\ proc' = [proc EXCEPT ![p] = [at |-> "committed", cmd |-> c, grant |-> g]]
  /\ UNCHANGED <<kind, contacted, crashes, factVars>>

(* commit_intent of a new command: its claim is marked before the writer   *)
(* lock is left.                                                           *)
CommitIntent(p, c, g) ==
  /\ kind = "EFFECT" /\ NewUse(p, c, g) /\ VerifyForIntent(p, g)
  /\ life = "READY" /\ fences = {} /\ life' = "RUNNING"
  /\ Redeem(p, c, g) /\ writer' = p
  /\ UNCHANGED claimVars

(* commit_validator_intent of a new command, which claims for itself; lost *)
(* between the claim and the intent, it was ClaimOrRecoverValidator.       *)
CommitValidatorIntent(p, c, g) ==
  /\ kind = "VALIDATOR" /\ NewUse(p, c, g) /\ VerifyValidatorForIntent(p, g)
  /\ life = "VALIDATING" /\ fences = {} /\ life' = "RECONCILIATION_REQUIRED"
  /\ Hold(p, g) /\ source' = [source EXCEPT ![g] = ClaimedRow(@)]
  /\ Redeem(p, c, g) /\ UNCHANGED writer

(* An operator's action; pauses, stops and recoveries ask alike.           *)
OperatorAction(p, c, g) ==
  /\ kind = "OPERATOR" /\ NewUse(p, c, g) /\ VerifyOperatorForAction(p, g)
  /\ Redeem(p, c, g) /\ UNCHANGED <<claimVars, writer, life>>

(* The same call then marks the claim; a denied marker ends it.            *)
MarkIntent(p) ==
  /\ kind = "EFFECT" /\ proc[p].at = "committed"
  /\ MarkOrRecoverIntent(p, proc[p].cmd, proc[p].grant)
  /\ proc' = [proc EXCEPT ![p].at = "marked"] /\ writer' = None
  /\ UNCHANGED <<kind, controlVars, crashes, factVars>>

MarkValidatorIntent(p) ==
  /\ kind = "VALIDATOR" /\ proc[p].at = "committed" /\ proc[p].grant \in mem[p].claims
  /\ MarkValidatorIntentBinding(p, proc[p].cmd, proc[p].grant)
  /\ proc' = [proc EXCEPT ![p].at = "marked"]
  /\ UNCHANGED <<kind, controlVars, writer, crashes, factVars>>

MarkOperatorAction(p) ==
  /\ kind = "OPERATOR" /\ proc[p].at = "committed"
  /\ VerifyOperatorForAction(p, proc[p].grant)
  /\ Remember(p, proc[p].cmd, proc[p].grant)
  /\ proc' = [proc EXCEPT ![p] = Idle]
  /\ UNCHANGED <<kind, source, controlVars, writer, crashes, factVars>>

(* Variant: a repeated command marks whatever capability it presents.      *)
ReplayBindsAny(c, g) == redeemed[c] # None

(* Variant: a repeated command is answered only once it was acknowledged.  *)
ReplayAcknowledged(c, g) == redeemed[c] = g /\ source[g].intent = c

(* The capability a repeated command presents must be the one it redeemed. *)
ReplayBinds(c, g) == redeemed[c] = g

(* A command that is already durable: the marker is put or found again and *)
(* the caller is told of a replay, on which it dispatches nothing.  An     *)
(* effect's replay asks for the claim, a validator's claims for itself.    *)
Replays(p, c, g) ==
  /\ proc[p] = Idle /\ writer = None /\ Reads(p)
  /\ redeemed[c] # None /\ ReplayBinds(c, g)
  /\ UNCHANGED <<kind, controlVars, proc, writer, crashes, factVars>>

ReplayIntent(p, c, g) ==
  kind = "EFFECT" /\ Replays(p, c, g) /\ MarkOrRecoverIntent(p, c, g)

ReplayValidatorIntent(p, c, g) ==
  /\ kind = "VALIDATOR" /\ Replays(p, c, g) /\ g \in mem[p].grants
  /\ MarkValidatorIntentBinding(p, c, g)

(* claim_operation_launch: authority is asked again, the marker is not.    *)
ClaimOperationLaunch(p) ==
  /\ kind = "EFFECT" /\ proc[p].at = "marked" /\ Reads(p)
  /\ EffectiveFor(proc[p].grant, proc[p].cmd)
  /\ life = "RUNNING" /\ fences = {} /\ life' = "RECONCILIATION_REQUIRED"
  /\ proc' = [proc EXCEPT ![p].at = "launched"]
  /\ UNCHANGED <<kind, claimVars, redeemed, contacted, writer, crashes, factVars>>

(* verify_intent_committed and its validator twin: the row as it is now    *)
(* names this use.                                                         *)
MarkedFor(p, c, g) ==
  g \in mem[p].claims /\ source[g].state = "INTENT_COMMITTED" /\ source[g].intent = c

(* The contact asks for authority and for the marker once more.            *)
Contacts(p) ==
  /\ Reads(p)
  /\ EffectiveFor(proc[p].grant, proc[p].cmd)
  /\ MarkedFor(p, proc[p].cmd, proc[p].grant)
  /\ life = "RECONCILIATION_REQUIRED" /\ fences = {}
  /\ contacted' = contacted \cup {proc[p].cmd}
  /\ proc' = [proc EXCEPT ![p] = Idle]
  /\ UNCHANGED <<kind, claimVars, redeemed, writer, crashes, life, factVars>>

ContactOperation(p) == kind = "EFFECT" /\ proc[p].at = "launched" /\ Contacts(p)

ContactCommittedValidator(p) == kind = "VALIDATOR" /\ proc[p].at = "marked" /\ Contacts(p)

(* A dispatch whose launch or contact is denied ends with the exception.   *)
GiveUp(p) ==
  /\ proc[p].at \in {"marked", "launched"}
  /\ proc' = [proc EXCEPT ![p] = Idle]
  /\ UNCHANGED <<kind, claimVars, controlVars, writer, crashes, factVars>>

(* Between two uses the kernels account for the last one and bring the run *)
(* back, which they refuse while a fence stands.                           *)
Reopen ==
  /\ life # Usable(kind) /\ fences = {}
  /\ \A p \in Processes : proc[p] = Idle
  /\ life' = Usable(kind)
  /\ UNCHANGED <<kind, claimVars, redeemed, contacted, proc, writer, crashes, factVars>>

--------------------------------------------------------------------------------
(* The facts.                                                              *)

Fact(g, k, order, c, s, n) ==
  [grant |-> g, kind |-> k, order |-> order, governs |-> c, successor |-> s, corrects |-> n, gen |-> 0]

(* AuthorityLifecycleFactRequest.validate.  REVOKED stands for the facts   *)
(* that only deny: expired, revoked, consumed elsewhere, source            *)
(* unavailable.  BEFORE stands for BEFORE, DURING and UNKNOWN, which fence *)
(* and route alike.                                                        *)
WellFormed(f) ==
  /\ (f.kind = "SUPERSEDED") <=> (f.successor # None)
  /\ f.successor # f.grant
  /\ (f.kind = "CORRECTION") <=> (f.corrects # 0)
  /\ f.order = "AFTER" => f.governs # None
  /\ f.kind \in {"OWN_CONSUMED", "CLAIM_STATUS_UNKNOWN"} => f.order = "BEFORE" /\ f.governs # None

(* The grants a fact names are registered with the process that records    *)
(* it, and the event it governs is durable.                                *)
GrantsKnown(p, f) == {f.grant, f.successor} \subseteq mem[p].grants \cup {None}

GovernedIsDurable(f) == f.governs # None => redeemed[f.governs] # None

(* _authority_redemption_binding: consumption and doubt about it name a    *)
(* use of this very grant.                                                 *)
NamesItsUse(f) ==
  f.kind \in {"OWN_CONSUMED", "CLAIM_STATUS_UNKNOWN"} => redeemed[f.governs] = f.grant

(* Reached(g, E): the grants that supersede g, directly or not.            *)
Successor(g, E) == {e.succ : e \in {d \in E : d.pred = g}}
Reached(g, E) ==
  LET step[n \in 0..Cardinality(Grants)] ==
        IF n = 0 THEN {g} ELSE step[n - 1] \cup UNION {Successor(x, E) : x \in step[n - 1]}
  IN  step[Cardinality(Grants)]

(* Variant: only the two edges that touch are looked at.                   *)
EdgeUnwalked(f) ==
  f.kind = "SUPERSEDED" => \A e \in edges : e.pred # f.grant /\ e.succ # f.successor

(* A grant is superseded by one grant, a grant supersedes one grant, and   *)
(* following the successors never leads back.                              *)
EdgePermitted(f) ==
  f.kind = "SUPERSEDED" =>
    /\ \A e \in edges : e.pred # f.grant /\ e.succ # f.successor
    /\ f.grant \notin Reached(f.successor, edges)

Fenced(f) == f.kind \notin {"OWN_CONSUMED", "CORRECTION"} /\ f.order # "AFTER"

(* _authority_fact_route.                                                  *)
AuthorityFactRoute(state, f) ==
  IF ~Fenced(f) THEN state
  ELSE CASE state \in {"RUNNING", "VALIDATING"} -> "RECONCILIATION_REQUIRED"
         [] state \in {"RECONCILIATION_REQUIRED", "COMPLETED"} -> state
         [] OTHER -> "BLOCKED"

Corrected(h) == {h[i].corrects : i \in DOMAIN h} \ {0}

(* The facts of history h about grant g that are not corrections and not   *)
(* corrected.                                                              *)
Standing(h, g) ==
  {i \in DOMAIN h : h[i].grant = g /\ h[i].kind # "CORRECTION"} \ Corrected(h)

Latest(S) == IF S = {} THEN 0 ELSE CHOOSE i \in S : \A j \in S : j <= i

(* The generation of a fact: one more than any of its grant's, and a       *)
(* correction takes that of the fact it corrects.                          *)
Generation(f) ==
  IF f.kind = "CORRECTION" THEN facts[f.corrects].gen
  ELSE LET G == {facts[i].gen : i \in {j \in DOMAIN facts : facts[j].grant = f.grant}}
       IN  1 + Latest(G)

(* Variant: the row names the sequence number after the fact's own.        *)
EffectiveNext(h, f) ==
  [effective EXCEPT ![f.grant] = IF f.kind = "CORRECTION" THEN Latest(Standing(h, f.grant)) ELSE Len(h) + 1]

(* effective_authority after the fact: the fact itself, or for a           *)
(* correction the latest fact about the grant that still stands.           *)
EffectiveAfter(h, f) ==
  [effective EXCEPT ![f.grant] = IF f.kind = "CORRECTION" THEN Latest(Standing(h, f.grant)) ELSE Len(h)]

(* Variant: a correction leaves the supersession of its fact in force.     *)
EdgesKept(f) ==
  IF f.kind = "SUPERSEDED"
    THEN edges \cup {[pred |-> f.grant, succ |-> f.successor, fact |-> Len(facts) + 1]}
    ELSE edges

(* authority_supersessions after the fact.                                 *)
EdgesAfter(f) ==
  CASE f.kind = "SUPERSEDED" -> edges \cup {[pred |-> f.grant, succ |-> f.successor, fact |-> Len(facts) + 1]}
    [] f.kind = "CORRECTION" -> {e \in edges : e.fact # f.corrects}
    [] OTHER -> edges

(* dispatch_fences after the fact.                                         *)
FencesAfter(f) ==
  CASE Fenced(f) -> fences \cup {Len(facts) + 1}
    [] f.kind = "CORRECTION" -> fences \ {f.corrects}
    [] OTHER -> fences

(* What is kept of a fact: the event it governs is read again only for a   *)
(* consumption.                                                            *)
Recorded(f) ==
  [f EXCEPT !.gen = Generation(f), !.governs = IF f.kind = "OWN_CONSUMED" THEN @ ELSE None]

(* A correction names a fact on record about the same grant, corrected     *)
(* before or not.                                                          *)
CorrectsItsGrant(f) ==
  f.kind = "CORRECTION" => f.corrects \in DOMAIN facts /\ facts[f.corrects].grant = f.grant

(* record_authority_fact.                                                  *)
RecordFact(f) ==
  /\ f.kind # "CORRECTION" => Room
  /\ writer = None /\ {p \in Processes : Reads(p) /\ GrantsKnown(p, f)} # {}
  /\ WellFormed(f) /\ GovernedIsDurable(f) /\ NamesItsUse(f)
  /\ CorrectsItsGrant(f) /\ EdgePermitted(f)
  /\ facts' = Append(facts, Recorded(f))
  /\ effective' = EffectiveAfter(facts', f)
  /\ edges' = EdgesAfter(f)
  /\ fences' = FencesAfter(f)
  /\ life' = AuthorityFactRoute(life, f)
  /\ UNCHANGED <<kind, claimVars, redeemed, contacted, proc, writer, crashes>>

(* The requests told apart: a governed event only where one is asked for   *)
(* and an order only where it decides the fence.                           *)
Denying ==
  LET Uses == {<<"BEFORE", None>>} \cup ({"AFTER"} \X Commands)
  IN  {Fact(g, "REVOKED", u[1], u[2], None, 0) : g \in Grants, u \in Uses}
        \cup {Fact(g, "SUPERSEDED", u[1], u[2], s, 0) : g \in Grants, u \in Uses, s \in Grants}
        \cup {Fact(g, k, "BEFORE", c, None, 0) :
                  g \in Grants, k \in {"OWN_CONSUMED", "CLAIM_STATUS_UNKNOWN"}, c \in Commands}

Correcting == {Fact(g, "CORRECTION", "BEFORE", None, None, n) : g \in Grants, n \in 1..(MaxDenials + MaxCorrections)}

Requests == Bounded(Denying, MaxDenials, Correcting)

--------------------------------------------------------------------------------
(* The reader of the facts (_verify_projections) over the history h.       *)

Stands(h, i) == i \in Standing(h, h[i].grant)

ExpectedEffective(h) == [g \in Grants |-> Latest(Standing(h, g))]

ExpectedSupersessions(h) ==
  {[pred |-> h[i].grant, succ |-> h[i].successor, fact |-> i] :
     i \in {j \in DOMAIN h : h[j].kind = "SUPERSEDED" /\ Stands(h, j)}}

ExpectedAuthorityFences(h) == {i \in DOMAIN h : Fenced(h[i]) /\ Stands(h, i)}

ExpectedGeneration(h, i) ==
  IF h[i].kind = "CORRECTION" THEN h[h[i].corrects].gen
  ELSE Cardinality({j \in 1..i : h[j].grant = h[i].grant /\ h[j].kind # "CORRECTION"})

--------------------------------------------------------------------------------
ClaimStep(p) ==
  /\ \/ Register(p) \/ RegisterValidator(p) \/ RegisterOperator(p)
     \/ \E g \in Grants :
          \/ Claim(p, g) \/ ClaimOrRecover(p, g)
          \/ ClaimValidator(p, g) \/ ClaimOrRecoverValidator(p, g)
          \/ ClaimOperator(p, g) \/ ReleaseUncommittedValidatorClaim(p, g)
  /\ UNCHANGED <<kind, controlVars, proc, writer, crashes, factVars>>

CommitStep(p, c, g) == CommitIntent(p, c, g) \/ CommitValidatorIntent(p, c, g) \/ OperatorAction(p, c, g)

ReplayStep(p, c, g) == ReplayIntent(p, c, g) \/ ReplayValidatorIntent(p, c, g)

MarkStep(p) == MarkIntent(p) \/ MarkValidatorIntent(p) \/ MarkOperatorAction(p)

DispatchStep(p) ==
  ClaimOperationLaunch(p) \/ ContactOperation(p) \/ ContactCommittedValidator(p) \/ GiveUp(p)

Next ==
  \/ \E p \in Processes :
       \/ ClaimStep(p) \/ MarkStep(p) \/ DispatchStep(p) \/ Crash(p)
       \/ \E c \in Commands, g \in Grants : CommitStep(p, c, g) \/ ReplayStep(p, c, g)
  \/ \E f \in Requests : RecordFact(f)
  \/ Reopen

(* A call that is running ends, and a caller that lost the answer to its   *)
(* command registers its grants again where it must and repeats it.        *)
Registration(p) ==
  /\ Register(p) \/ RegisterValidator(p)
  /\ UNCHANGED <<kind, controlVars, proc, writer, crashes, factVars>>

Retries(p) ==
  /\ WF_vars(MarkStep(p)) /\ WF_vars(GiveUp(p))
  /\ WF_vars(Registration(p))
  /\ WF_vars(\E c \in Commands, g \in Grants : ReplayStep(p, c, g))

Spec == Init /\ [][Next]_vars /\ \A p \in Processes : Retries(p)

--------------------------------------------------------------------------------
TypeOK ==
  /\ kind \in Kinds
  /\ mem \in [Processes -> [grants : SUBSET Grants, claims : SUBSET Grants,
                             bound : [Grants -> Commands \cup {None}]]]
  /\ source \in [Grants -> [state : {"NONE", "CLAIMED", "INTENT_COMMITTED"}, granted : BOOLEAN,
                             intent : Commands \cup {None}]]
  /\ redeemed \in [Commands -> Grants \cup {None}] /\ contacted \subseteq Commands
  /\ proc \in [Processes -> [at : {"idle", "committed", "marked", "launched"},
                              cmd : Commands \cup {None}, grant : Grants \cup {None}]]
  /\ writer \in Processes \cup {None} /\ crashes \in 0..MaxCrashes
  /\ life \in {"READY", "RUNNING", "VALIDATING", "RECONCILIATION_REQUIRED", "BLOCKED"}
  /\ \A i \in DOMAIN facts : facts[i].grant \in Grants /\ facts[i].corrects \in 0..(i - 1)
  /\ effective \in [Grants -> 0..Len(facts)] /\ fences \subseteq DOMAIN facts

(* A grant authorizes one use, whatever processes hold its claim, however  *)
(* often they are lost between the commit and the marker, and under        *)
(* however many command ids they try (storage.py:24749, :16271).           *)
OneUsePerGrant ==
  \A c, d \in Commands : c # d /\ redeemed[c] # None => redeemed[c] # redeemed[d]

(* A marker of the claim store, and what a process remembers of it, names  *)
(* the durable use of that very grant: the stores commit apart, yet the    *)
(* claim store never gets ahead of the control store (authority.py:2257).  *)
MarkerNamesItsUse ==
  \A g \in Grants :
    /\ source[g].intent # None => redeemed[source[g].intent] = g
    /\ \A p \in Processes : mem[p].bound[g] # None => redeemed[mem[p].bound[g]] = g

(* Every contact is of a command that is durable and marked, under the     *)
(* grant it redeemed, while no fence stands and the latest standing fact   *)
(* about that grant is none, or the consumption by this very command       *)
(* (storage.py:25636, :25794).                                             *)
ContactIsAuthorized ==
  [][\A c \in contacted' \ contacted :
       LET S == Standing(facts, redeemed[c])
       IN  /\ redeemed[c] # None /\ source[redeemed[c]].intent = c
           /\ ExpectedAuthorityFences(facts) = {}
           /\ S # {} => facts[Latest(S)].kind = "OWN_CONSUMED" /\ facts[Latest(S)].governs = c]_vars

(* The tables the facts maintain step by step are the ones the reader      *)
(* rebuilds from the whole history: a correction clears the row, the edge  *)
(* and the fence of its own fact and of no other.                          *)
FactTablesReplay ==
  /\ effective = ExpectedEffective(facts)
  /\ edges = ExpectedSupersessions(facts)
  /\ fences = ExpectedAuthorityFences(facts)
  /\ \A i \in DOMAIN facts : facts[i].gen = ExpectedGeneration(facts, i)

(* No chain of supersessions leads back to its own grant, so that a grant  *)
(* in force exists for every chain (storage.py:33462, :42921).             *)
SupersessionIsAcyclic ==
  \A e \in edges : e.pred \notin Reached(e.succ, edges)

(* A use that became durable in a process that was lost before it could    *)
(* mark the claim is marked in the end, by whoever repeats the command     *)
(* (storage.py:25300, :30571).                                             *)
CommittedIsMarked ==
  []<>(Durable => \A c \in Commands : redeemed[c] # None => source[redeemed[c]].intent = c)

================================================================================
