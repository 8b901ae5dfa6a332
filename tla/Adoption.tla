-------------------------------- MODULE Adoption --------------------------------
(***************************************************************************)
(* Source grants and the adoptions they authorize (T28).                   *)
(*                                                                         *)
(* A source grant has terms (a window of time and a number of uses) that   *)
(* the control store keeps, with the uses and the lifecycle facts about    *)
(* the grant, in a log of its own; what is kept here of the log is its     *)
(* tables, its clock and, for every use, how many facts came before it.    *)
(* A run of a validation-only revision adopts the final effect of another  *)
(* run under such a grant: it takes the repository's slot, goes to         *)
(* validation and depends from then on on the run it adopted from and on   *)
(* all that run depends on.  A fact that disputes an adoption, or a        *)
(* receipt that contradicts the root, fences every run that depends on it. *)
(*                                                                         *)
(* The facts themselves, their tables and routes are Authority's; here     *)
(* they carry an effective time too.  An adoption grant is bound to one    *)
(* adoption of one run (adoption_binding_digest), so the run is named by   *)
(* its grant.  Every run is of the one effect, so every fence about the    *)
(* effect applies to all of them.  Relationship grants and supersessions   *)
(* of source grants are not modelled.                                      *)
(***************************************************************************)
EXTENDS Authority

CONSTANTS
  Root,            \* the run whose executed and finalized effect is adopted
  Awaiting,        \* runs that start blocked by a readiness evaluation for inputs only
  UseLimits,       \* the numbers of uses a grant may be issued for
  HostKeys,        \* consumer keys of the host and of manual uses
  NotBefore,       \* every grant's window
  ExpiresAt,
  MaxTime,         \* bound: the clock
  MaxSourceDenials, \* bound: facts about source grants that are not corrections
  MaxMismatches    \* bound: runs with a binding mismatch

ASSUME AdoptionBounds == {MaxTime, MaxSourceDenials, MaxMismatches} \subseteq Nat
ASSUME WindowIsProper == NotBefore < ExpiresAt /\ {NotBefore, ExpiresAt} \subseteq 0..MaxTime
ASSUME RootIsNoDependent == Root \notin Grants \cup {None} /\ Awaiting \subseteq Grants
ASSUME LimitsArePositive == UseLimits \subseteq Nat \ {0}
ASSUME HostsAdoptNothing == "adoption" \notin HostKeys

VARIABLES
  terms,      \* grant -> its row of synthetic_authority_grants
  uses,       \* synthetic_authority_uses
  floor,      \* recorded_at_floor: the time of the last source event
  stage,      \* run -> lifecycle_state
  awaiting,   \* runs blocked by a readiness evaluation that lacks inputs only
  origin,     \* run -> the run it adopted from
  deps,       \* adoption_dependencies
  holder,     \* the run in outstanding_slot
  depFences,  \* dependent_adoption_fences
  disputed,   \* a contrary receipt of the root is on record
  mismatched  \* binding_mismatches: runs whose plan no longer binds what it was accepted for

adoptionVars == <<terms, uses, floor, stage, awaiting, origin, deps, holder, depFences, disputed, mismatched>>
sourceVars   == <<terms, uses, floor>>
sharedVars   == <<facts, effective, fences>>
privateVars  == <<kind, claimVars, controlVars, proc, writer, crashes, edges>>

Unregistered == [from |-> None, limit |-> 0]

Dependents == Grants
Adopting   == "adoption"
Times      == 0..MaxTime

AdoptionInit ==
  /\ Init
  /\ terms = [g \in Grants |-> Unregistered] /\ uses = {} /\ floor = 0
  /\ origin = [d \in Dependents |-> None]
  /\ awaiting = Awaiting
  /\ stage = [r \in Dependents \cup {Root} |->
                CASE r = Root -> "COMPLETED" [] r \in awaiting -> "BLOCKED" [] OTHER -> "PLANNED"]
  /\ deps = {} /\ holder = None /\ depFences = {}
  /\ disputed = FALSE /\ mismatched = {}

--------------------------------------------------------------------------------
(* The source log.                                                         *)

(* The clock may not go back behind the last event, which sets it.         *)
StoreUtcNow(now) == now >= floor /\ floor' = now

(* A grant binds the origin it adopts from by hash, so it is issued when   *)
(* that origin is final.                                                   *)
OriginFinal(d, from) ==
  \/ from = Root
  \/ from \in Dependents \ {d} /\ origin[from] # None /\ stage[from] = "COMPLETED"

RegisterSourceGrant(g, from, limit, now) ==
  /\ terms[g] = Unregistered /\ OriginFinal(g, from) /\ StoreUtcNow(now)
  /\ terms' = [terms EXCEPT ![g] = [from |-> from, limit |-> limit]]
  /\ UNCHANGED <<sharedVars, uses, stage, awaiting, origin, deps, holder, depFences, disputed, mismatched>>

UsesOf(g) == {u \in uses : u.grant = g}

(* A consumer key is used once: an adoption's is the adoption's own, a     *)
(* host's is the host's, under whichever grant.                            *)
KeyUsed(g, key) == \E u \in uses : u.key = key /\ (key = Adopting => u.grant = g)

InWindow(t) == NotBefore <= t /\ t < ExpiresAt

(* Variant: the limit is reached one use later.                            *)
WithinLimitInclusive(g) == Cardinality(UsesOf(g)) <= terms[g].limit

WithinLimit(g) == Cardinality(UsesOf(g)) < terms[g].limit

(* _require_source_grant_effective_for_use at time t, over the facts F: a  *)
(* fact of unknown order, or in force by t, denies unless it is corrected  *)
(* by a correction that is itself in force and of known order.             *)
LifecycleDenies(F, g, t) ==
  LET mine == {i \in F : facts[i].grant = g}
      corrections == {i \in mine : facts[i].kind = "CORRECTION" /\ facts[i].order # "UNKNOWN" /\ facts[i].eff <= t}
      corrected == {facts[i].corrects : i \in corrections}
  IN  \E i \in mine \ corrected :
        facts[i].kind # "CORRECTION" /\ (facts[i].order = "UNKNOWN" \/ facts[i].eff <= t)

(* _consume_synthetic_source of a key not used before; of a used one it    *)
(* returns the receipt and changes nothing.                                *)
Consumes(g, key, now) ==
  /\ ~KeyUsed(g, key) /\ terms[g] # Unregistered /\ StoreUtcNow(now)
  /\ InWindow(now) /\ ~LifecycleDenies(DOMAIN facts, g, now) /\ WithinLimit(g)
  /\ uses' = uses \cup {[grant |-> g, key |-> key, at |-> now, after |-> Len(facts)]}
  /\ UNCHANGED terms

ConsumeSourceForTest(g, key, now) ==
  /\ Consumes(g, key, now)
  /\ UNCHANGED <<sharedVars, stage, awaiting, origin, deps, holder, depFences, disputed, mismatched>>

--------------------------------------------------------------------------------
(* Adoption.                                                               *)

(* Every fence here is about the one effect or about the repository.       *)
NoFence == fences = {} /\ depFences = {} /\ ~disputed /\ mismatched = {}

(* A run that is planned, or blocked for inputs only and by the very last  *)
(* event of its history.                                                   *)
Adoptable(d) == stage[d] = "PLANNED" \/ d \in awaiting

(* Variant: the new dependent is linked to the run it adopted from only.   *)
DependenciesImmediate(d, from) == {[anc |-> from, dep |-> d, depth |-> 1]}

(* The rows a new adoption adds: its immediate origin, and whatever that   *)
(* depends on one step further away.                                       *)
DependenciesOf(d, from) ==
  {[anc |-> from, dep |-> d, depth |-> 1]}
    \cup {[anc |-> e.anc, dep |-> d, depth |-> e.depth + 1] : e \in {x \in deps : x.dep = from}}

(* What the event of an adoption changes.                                  *)
AdoptionRecorded(d) ==
  /\ stage' = [stage EXCEPT ![d] = "VALIDATING"] /\ awaiting' = awaiting \ {d}
  /\ origin' = [origin EXCEPT ![d] = terms[d].from]
  /\ deps' = deps \cup DependenciesOf(d, terms[d].from)
  /\ holder' = d

AdoptVerifiedEffect(d, now) ==
  /\ terms[d] # Unregistered /\ Adoptable(d) /\ holder = None /\ NoFence
  /\ OriginFinal(d, terms[d].from)
  /\ EffectiveFor(d, None)
  /\ Consumes(d, Adopting, now) /\ AdoptionRecorded(d)
  /\ UNCHANGED <<sharedVars, depFences, disputed, mismatched>>

(* The adopted run's own validation and finalization, which is             *)
(* ValidationKernel's: it completes and frees the slot.                    *)
FinalizeAdopted(d) ==
  /\ stage[d] = "VALIDATING" /\ holder = d /\ NoFence
  /\ stage' = [stage EXCEPT ![d] = "COMPLETED"] /\ holder' = None
  /\ UNCHANGED <<sharedVars, sourceVars, awaiting, origin, deps, depFences, disputed, mismatched>>

--------------------------------------------------------------------------------
(* Disputes.                                                               *)

DependentsOf(s) == {e.dep : e \in {x \in deps : x.anc = s}}

Terminal(state) == state = "COMPLETED"

(* _fence_dependent_adoptions: whoever depends on run s is fenced and      *)
(* routed, a dispute of authority like a revoked grant and a contradiction *)
(* to reconciliation.                                                      *)
DependentRoute(why, state) ==
  IF why = "CONTRARY_RECEIPT" /\ ~Terminal(state) THEN "RECONCILIATION_REQUIRED"
  ELSE AuthorityFactRoute(state, Fact(None, "REVOKED", "BEFORE", None, None, 0))

DependentFences(why, s, n) == {[why |-> why, fact |-> n, dep |-> d] : d \in DependentsOf(s)}

RoutedDependents(st, why, s) ==
  [r \in DOMAIN st |-> IF r \in DependentsOf(s) THEN DependentRoute(why, st[r]) ELSE st[r]]

(* A late receipt of the root run that contradicts its effect.             *)
LateReceiptRecorded ==
  /\ ~disputed /\ disputed' = TRUE
  /\ depFences' = depFences \cup DependentFences("CONTRARY_RECEIPT", Root, 0)
  /\ stage' = RoutedDependents(stage, "CONTRARY_RECEIPT", Root)
  /\ UNCHANGED <<sharedVars, sourceVars, awaiting, origin, deps, holder, mismatched>>

(* record_binding_mismatch (T15): the source tree, item, plan or policy of *)
(* an accepted plan is not the one observed.  The fence is on the run's    *)
(* item and effect and nothing lifts it.                                   *)
BindingMismatchRoute(state, activeOrUncertain) ==
  IF activeOrUncertain \/ state \in {"VALIDATING", "RECONCILIATION_REQUIRED"}
    THEN "RECONCILIATION_REQUIRED" ELSE "BLOCKED"

RecordBindingMismatch(r) ==
  /\ ~Terminal(stage[r]) /\ Cardinality(mismatched) < MaxMismatches /\ r \notin mismatched
  /\ mismatched' = mismatched \cup {r}
  /\ stage' = [stage EXCEPT ![r] = BindingMismatchRoute(@, holder = r)]
  /\ awaiting' = awaiting \ {r}
  /\ UNCHANGED <<sharedVars, sourceVars, origin, deps, holder, depFences, disputed>>

(* A fact about grant g recorded with run r, in force from eff on and, if  *)
(* it governs a use, ordered as its effective time says.                   *)
SourceFact(g, r, k, order, key, eff, n) ==
  [grant |-> g, kind |-> k, order |-> order, governs |-> key, successor |-> None,
   corrects |-> n, gen |-> 0, run |-> r, eff |-> eff]

UseOf(f) == {u \in UsesOf(f.grant) : u.key = f.governs}

OrderedByTime(f) ==
  \A u \in UseOf(f) :
    CASE f.kind = "OWN_CONSUMED" -> f.eff = u.at
      [] f.order = "BEFORE" -> f.eff <= u.at
      [] f.order = "AFTER" -> f.eff > u.at
      [] OTHER -> TRUE

(* The run whose dependents a denial reaches: the run that adopted under   *)
(* the disputed use, or the run the fact was recorded with.                *)
SourceRun(f) == IF f.governs = Adopting THEN f.grant ELSE f.run

(* A denial that governs a use must govern an adoption.                    *)
DisputesAdoption(f) == Fenced(f) => f.governs \in {None, Adopting}

(* What is kept of a fact: the use it governs is not read again, and its   *)
(* run is the one whose dependents it reached.                             *)
SourceRecorded(f) ==
  [f EXCEPT !.gen = Generation(f), !.governs = None, !.run = IF Fenced(f) THEN SourceRun(f) ELSE None]

(* dependent_adoption_fences after the fact.                               *)
DependentFencesAfter(f, n) ==
  CASE Fenced(f) -> depFences \cup DependentFences("AUTHORITY", SourceRun(f), n)
    [] f.kind = "CORRECTION" -> {x \in depFences : x.why # "AUTHORITY" \/ x.fact # f.corrects}
    [] OTHER -> depFences

RecordSourceFact(f, now) ==
  /\ terms[f.grant] # Unregistered /\ StoreUtcNow(now)
  /\ WellFormed(f) /\ CorrectsItsGrant(f)
  /\ f.kind = "CORRECTION" => f.eff <= now
  /\ f.governs # None => UseOf(f) # {}
  /\ OrderedByTime(f) /\ DisputesAdoption(f)
  /\ facts' = Append(facts, SourceRecorded(f))
  /\ effective' = EffectiveAfter(facts', f) /\ fences' = FencesAfter(f)
  /\ depFences' = DependentFencesAfter(f, Len(facts'))
  /\ LET routed == [stage EXCEPT ![f.run] = AuthorityFactRoute(@, f)]
     IN  stage' = IF Fenced(f) THEN RoutedDependents(routed, "AUTHORITY", SourceRun(f)) ELSE routed
  /\ awaiting' = awaiting \ {f.run}
  /\ UNCHANGED <<terms, uses, origin, deps, holder, disputed, mismatched>>

(* The requests told apart: a fact of unknown order has any time, a fact   *)
(* that governs nothing denies for the run it is recorded with, and a fact *)
(* that does not deny is recorded with the root's.                         *)
SourceDenying ==
  LET Runs == Dependents \cup {Root}
      Keys == HostKeys \cup {Adopting}
  IN  {SourceFact(g, r, "REVOKED", "BEFORE", key, eff, 0) :
                  g \in Grants, r \in Runs, key \in {None, Adopting}, eff \in Times}
        \cup {SourceFact(g, r, "REVOKED", "UNKNOWN", None, 0, 0) : g \in Grants, r \in Runs}
        \cup {SourceFact(g, Root, k, order, key, eff, 0) :
                  g \in Grants, k \in {"REVOKED", "OWN_CONSUMED"}, order \in {"BEFORE", "AFTER"},
                  key \in Keys, eff \in Times}

SourceCorrecting ==
  {SourceFact(g, Root, "CORRECTION", order, None, eff, n) :
     g \in Grants, order \in {"BEFORE", "UNKNOWN"}, eff \in Times, n \in 1..(MaxSourceDenials + MaxCorrections)}

SourceRequests == Bounded(SourceDenying, MaxSourceDenials, SourceCorrecting)

--------------------------------------------------------------------------------
(* The reader (_verify_source_history and _verify_projections).            *)

(* The log's clock never went back, and the last event set it.             *)
ClockRead ==
  \A u, v \in uses : u.at <= floor /\ (u.after < v.after => u.at <= v.at)

(* A use is judged again at its own time over the facts before it.         *)
UseRead(u) ==
  /\ terms[u.grant] # Unregistered /\ InWindow(u.at)
  /\ Cardinality(UsesOf(u.grant)) <= terms[u.grant].limit
  /\ ~LifecycleDenies(1..u.after, u.grant, u.at)

FactRead(i) ==
  /\ terms[facts[i].grant] # Unregistered
  /\ facts[i].kind = "CORRECTION" => facts[i].corrects \in 1..(i - 1)

(* Upward(d, o)[n]: the run n steps up from run d along the origins o.     *)
Upward(d, o) ==
  LET up[n \in 0..Cardinality(Dependents)] ==
        IF n = 0 THEN {d} ELSE {o[x] : x \in up[n - 1] \cap Dependents} \ {None}
  IN  up

(* StandsOn(d): the runs whose effect run d's adoption rests on, followed  *)
(* through the origins one by one, each with its distance.                 *)
StandsOn(d) ==
  UNION {{[anc |-> a, dep |-> d, depth |-> n] : a \in Upward(d, origin)[n]} :
           n \in 1..Cardinality(Dependents)}

ExpectedDependencies == UNION {StandsOn(d) : d \in Dependents}

(* An adoption is read with the origin its grant bound and with its use,   *)
BindingRead(d) == origin[d] = terms[d].from /\ \E u \in UsesOf(d) : u.key = Adopting

(* no fence stood when it was made,                                        *)
ActivityRead(d) ==
  \A u \in UsesOf(d) : u.key = Adopting => ExpectedAuthorityFences(SubSeq(facts, 1, u.after)) = {}

(* and it goes back to the root's own observation and finalization.        *)
OriginRead(d) == Root \in {e.anc : e \in StandsOn(d)}

(* The slot is held by the one adoption whose run has not released it.     *)
SlotRead == \A d \in Dependents : (origin[d] # None /\ stage[d] # "COMPLETED") <=> (holder = d)

(* A run with a mismatch on record went no further, and waits in           *)
(* reconciliation if it was at work.                                       *)
MismatchRead(r) ==
  stage[r] = IF origin[r] # None THEN "RECONCILIATION_REQUIRED" ELSE "BLOCKED"

(* The fences a run stands under are those of the facts in force about a   *)
(* run it rests on.                                                        *)
ExpectedDependentFences(d) ==
  {i \in ExpectedAuthorityFences(facts) : facts[i].run \in {e.anc : e \in StandsOn(d)}}

--------------------------------------------------------------------------------
AdoptionStep(now) ==
  \/ \E g \in Grants :
       \/ \E from \in Dependents \cup {Root}, limit \in UseLimits : RegisterSourceGrant(g, from, limit, now)
       \/ \E key \in HostKeys : ConsumeSourceForTest(g, key, now)
       \/ AdoptVerifiedEffect(g, now)
  \/ \E f \in SourceRequests : RecordSourceFact(f, now)

AdoptionNext ==
  \/ kind # "SOURCE" /\ Next /\ UNCHANGED adoptionVars
  \/ /\ kind = "SOURCE" /\ UNCHANGED privateVars
     /\ \/ \E now \in floor..MaxTime : AdoptionStep(now)
        \/ \E d \in Dependents : FinalizeAdopted(d)
        \/ LateReceiptRecorded
        \/ \E r \in Dependents : RecordBindingMismatch(r)

AdoptionSpec ==
  /\ AdoptionInit /\ [][AdoptionNext]_<<vars, adoptionVars>>
  /\ \A p \in Processes : Retries(p)

--------------------------------------------------------------------------------
(* The store can always be read back: every use was inside the terms of    *)
(* its grant and denied by no fact of its past, when judged again from the *)
(* log alone, every adoption has its use, the dependencies and the slot    *)
(* are the ones the adoptions replay to, and a run with a binding mismatch *)
(* went no further (storage.py:34840, :40081, :36840).                     *)
SourceHistoryReplays ==
  kind = "SOURCE" =>
    /\ ClockRead /\ \A u \in uses : UseRead(u)
    /\ \A i \in DOMAIN facts : FactRead(i)
    /\ \A d \in Dependents : origin[d] # None => BindingRead(d) /\ ActivityRead(d) /\ OriginRead(d)
    /\ deps = ExpectedDependencies /\ SlotRead
    /\ \A r \in mismatched : MismatchRead(r)

(* A dispute reaches every run that rests on the disputed one, however far *)
(* up the chain of adoptions, and stays until that very fact is corrected; *)
(* a contradicted effect stays disputed for good, and none of the runs     *)
(* resting on it is left validating (storage.py:7214, :33628).             *)
DisputeReachesDependents ==
  kind = "SOURCE" =>
    /\ \A d \in Dependents :
         {i \in DOMAIN facts : [why |-> "AUTHORITY", fact |-> i, dep |-> d] \in depFences}
           = ExpectedDependentFences(d)
    /\ disputed => \A d \in Dependents :
         origin[d] # None =>
           /\ [why |-> "CONTRARY_RECEIPT", fact |-> 0, dep |-> d] \in depFences
           /\ stage[d] \in {"RECONCILIATION_REQUIRED", "BLOCKED", "COMPLETED"}

================================================================================
