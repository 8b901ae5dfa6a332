# Project Aegis: TLA+ models

This directory holds TLA+ specifications of the parts of Project Aegis that
keep durable state and must survive crashes, concurrent callers and answers
that come late. TLC checks them on small instances, TLAPS proves the central
properties for every value of the constants.

    tlc -workers 2 -config KernelOneRun.cfg MCOperationKernel     # any run below
    tlapm OperationKernelSafety.tla                               # any module of section 4

## 1. The system

Project Aegis is a library of agent skills with Python tools for its
maintainers, about 100,000 lines without tests. Most of it lints, formats and
reports; the delivery control plane and the evaluation budget keep state that
matters.

| Component (src/tools/...) | State it keeps | Operations | What is hard |
|---|---|---|---|
| Durable store, `aegis_delivery_control/storage.py` | SQLite: runs with lifecycle state and cursor, intents, launch and contact claims, receipts, reservations and settlements, fences, retry authorizations, the repository's one side-effect slot, a hash-chained event log | accept a plan, evaluate readiness, commit, claim, contact, record receipts, settle, prove non-execution, pause, resume, recover, reconcile, stop | operations of several runs and operators in any order between the steps of one dispatch |
| Reader of the store, `_verify_projections` in `storage.py` | nothing of its own | replays the whole log before every operation and compares every table | is written apart from the writer; what it refuses is already committed |
| Tables and contracts, `engine.py`, `contracts.py` | none | which lifecycle transition is authorized, validation of requests | two tables (writer and replay) that must agree |
| Dispatch coordinator, `dispatch.py` | one process | commit, claim, contact, call the target; take in the result | dies between any two of these; replays |
| Synthetic target, `adapters.py` | executions, results, cessations, seals | execute once, seal, report | acts outside the store's transactions |
| Validation and finalization, `storage.py`, `dispatch.py` | launch gates, validator intents, observations, cessations, applications, terminal settlements | the same protocol again for every check, then finalization or terminal settlement | shares fences, slot and budget with operations; results, proofs, receipts, pauses and stops in any order |
| Authority, `authority.py` and the authority tables of `storage.py` | a claim store, claims in process memory, redemptions, lifecycle facts, supersessions | register, claim, recover, redeem, mark, record and correct facts | two stores that commit one after the other; facts that arrive after use |
| Source grants and adoption, `storage.py` | a log with a clock, uses, adoptions, transitive dependencies | register, consume, adopt a final effect, dispute | a dispute must reach every run that rests on what is disputed |
| Evaluation budget, `behavioral_eval_runner/budget.py` | totals, reservations, kill switch; a line file and a checkpoint file | open, load, reserve, reconcile, engage | three writes per event, any of which may be the last |
| Fast save, scheduler, process control, live pipeline, cost meter, calibration ledgers | files, queues | write, run, append | one process each |
| Evidence, grading, reports, usage, setup, record tools, scripts | files read once | check, convert, report | sequential |

Every store operation takes the repository's writer lock and runs in one SQLite
transaction, so it is atomic; what interleaves are the operations. A dispatch
takes four of them (intent, launch claim, contact claim, receipt) with a call
of the target between the third and the fourth, and holds nothing in between;
the launch of a validator takes three. The claim store is a second database,
written after the first has committed.

Properties that make the parts correct: a logical effect is executed at most
once; an outcome nobody knows is never hidden; a retry never races what it
replaces; charges beyond what was reserved stop further work; a fence stops
everyone; terminal is final; a run completes only on what its validators really
said; a slot is released only when everything under it is accounted for; a
grant is used once, in force, and the two stores agree on the use in the end; a
dispute reaches whatever rests on the disputed effect; what the writer appends
the reader accepts; the receipt of an executed effect can always be taken while
the store is readable; and, for the evaluation budget, no restart ever finds more headroom than was left.

## 2. Modules

| Module | Models | Used by |
|---|---|---|
| `Accounting` | settlement transitions, charges, breach (storage.py 159-190, 533-597) | Lifecycle and all kernels |
| `Lifecycle` | states, the writer's table (engine.py), the replay table and the derivation of resume, observation and non-execution routes (storage.py 193-740) | OperationStore, ValidationStore |
| `OperationStore` | what writer and reader of operations share: runs, attempts, fences, queries over fences | OperationKernel, OperationReplay |
| `OperationKernel` | the writer: store, coordinator process and target of the operation side | KernelReplay, the proofs |
| `OperationReplay` | the reader: one action per event kind, with what the event's body and its prefix must say | KernelReplay |
| `KernelReplay` | `OperationKernel` implements `OperationReplay` (INSTANCE ... WITH) | MCOperationKernel, ReadableStore |
| `ReadableStore` | the kernel over a store whose every operation first runs `_verify_projections` and fails where that raises | MCReadableStore |
| `ValidationStore`, `ValidationKernel`, `ValidationReplay`, `ValidationKernelReplay` | the same four for validation, finalization and terminal settlement | MCValidationKernel |
| `Authority` | claim store, two controllers and the control store; lifecycle facts | Adoption |
| `Adoption` | source grants, adoption, dependencies and disputes, on Authority's facts | MCAuthority |
| `BudgetLedger` | budget.py with its store and checkpoint | MCBudgetLedger, BudgetLedgerProofs |
| `Induction`, `LifecycleProofs`, `OperationKernelSafety`, `OperationKernelFences`, `ValidationKernelProofs`, `AuthorityProofs`, `AdoptionProofs`, `BudgetLedgerProofs` | proofs (section 4) | |
| `MC...` | instances for TLC | the cfg files |

`PROJECT.json` maps each definition to its source lines. Operators introduced
as a variant are copies of the definition that follows with a plausible mistake;
nothing uses them but the mutation runs listed there.

Digests, identifiers, MACs and evidence are left out throughout: the store
compares them with rows it wrote itself, and what is left of a comparison is
whether the row is the current one.

### OperationKernel

An attempt is `<<run, generation>>`. The variables are columns of the store
(`life`, `cursor`, `fences`, `slot`, `disp`, `charged`, `auth`, ...), the
step each dispatching process has reached (`proc`) and what the target did
(`target`). One action is one whole operation, including the event it appends,
the fences it raises or clears, the authorizations it disables and the cursor
it stores.

- `AcceptPlan`, `EvaluateReadiness`, `CommitIntent`/`CommitRetry`,
  `ClaimLaunch`, `Contact`, `Execute`, `DispatchEnds` (the process returns or
  dies), `IntakeReceipt`: the path of a dispatch. Readiness is a head of the
  catalog: any event of any run makes it stale.
- `SealNonexecution` and `ProveNondispatch`: the target promises not to execute
  an attempt, the store releases it on that promise.
- `SettleBudget`: an operator's settlement. `PauseBeforeDispatch`,
  `PauseLocal`, `PauseExternal`, `PauseReconciliation`, `Resume`,
  `SettleActivityPause`, `ResumeActivitySettlement`,
  `ResumeOperationNonexecution`, `RecoverProven`, `ReconcileVerifiedReceipt`,
  `ProofFreeDisposition`, `Stop`, `EscalateStop`: the control operations.

The fragment is the one in which no check is launched: no run is finalized and
no slot is released for a terminal run, which is what `ExecutedIsOwned` is
about. Not reachable in it, and so left out: an observation adopting an
existing settlement event, the settlement by an IMMEDIATE stop of a contacted
reservation that is still RESERVED, the RUNNING branch of the external pause
after a launch claim.

### ValidationKernel

One run with one effect, from the moment its receipt was accepted, or from a
stop with the receipt still to come. The other runs of the repository are the
fences they raise (`FenceOther`), of three scopes: on this run's item, on the
repository, and on another item. The last kind does not stop contact,
application or finalization, and does refuse `commit_validator_intent`. An
observation may name any recorded settlement that cites its result, as
`_record_validator_observation` accepts. `val` is the row of each validator launch, numbered in the order
of the intents: intent, contact, observation (`seen`), cessation (`ceased`),
proof of non-execution, reconciliation, application. `target` is what the
validator target holds: a result, whether its usage is billed, how it was
halted, whether it is sealed. Reservation 0 is the operation's own, the others
are the launches'. Actions: the gate facts and launch evaluations, commit,
contact, the target's run and cessation, observation, cessation intake, proof,
settlement, reconciliation, application and its denial, the four kinds of
pause with settlement and resumption, the recoveries, finalization, stop, the
late receipt, terminal settlement with slot release.

### The readers

`OperationReplay` and `ValidationReplay` are abstract specifications: a state
is what a prefix of the log implies, a step is an event the reader accepts.
They share no derivation with the writer, only vocabulary, and know no process
and no target. `KernelReplay!HistoryReplays` and
`ValidationKernelReplay!ValidationHistoryReplays` say that the kernels
implement them under the mapping table to projection, so that a store can
always be read back. They do not hold without exceptions; the exceptions are
named formulas, each the description of a real disagreement (section 5). In the
code a store that has met one of them can do nothing more; the kernels go on,
so the runs also compare whatever would follow. The kernels' behaviours are
therefore a superset of the code's, which is sound for what never happens and
not for what can still happen. `ReadableStore` is for the latter: it adds to the
operation kernel whether the reader still accepts the log, and lets no operation
of the store happen once it does not. `ReceiptIsAdmissible` is stated there: as
long as the store can be read, the receipt of an executed attempt has a
settlement and a route, and the event it appends is one the reader accepts
(unless it ends a lingering liability, section 5).

### Authority and Adoption

`kind` chooses what a behaviour is about: grants for effects, for validators,
for operators, or source grants.

For the first three, `source` is the claim store (`state`, whether granted, the
intent marked), `mem` what each of the two controllers keeps in memory (grants,
claims, marked claims), `redeemed` and `contacted` the control store. A use is
a commit in the control store (`CommitIntent`, `CommitValidatorIntent`,
`OperatorAction`), then a marker in the claim store; `Crash` may come in
between, and `ReplayIntent`, `ReplayValidatorIntent` are the repeated command
that repairs it. Operator claims exist in memory only. `RecordFact` is
`record_authority_fact`: consumption, revocation, supersession, doubt and
correction, each with its order relative to the event it governs; the tables it
maintains are compared with what the reader rebuilds from all facts.

For source grants, `terms`, `uses` and `floor` are the source log: its grants,
uses and clock. `AdoptVerifiedEffect` consumes a use and makes its run depend
on the run it adopts from and on all that one depends on; a run that has adopted
and completed can be adopted from again. `RecordSourceFact` and
`LateReceiptRecorded` dispute a link or the root; `RecordBindingMismatch` is the
observation that a plan no longer binds what it was accepted for (T15). Every
run is of the one
effect, so every fence applies to all of them.

### BudgetLedger

A call holds the ledger's lock, changes memory (`mem`), writes the line
(`AppendLine`), then the checkpoint (`Checkpoint`), for each of its one or two
events. `store` is what `load` would compute from the lines, `intact` whether
they still form one numbered hash chain, `anchored` whether the checkpoint pins
their bytes. `WriteFails` is an exception from a write: the call ends and the
process goes on with memory ahead of the store, as the code does. `Crash` ends
the process at any point, perhaps within a line. A crash between line and
checkpoint leaves a store that `load` refuses: fail-closed, and unrecoverable by
the code. One process at a time uses a store; the code has no lock on the file.
`granted`, `settled` and `killed` record what callers were told. A reservation
is reconciled only by a caller that was given it.

## 3. Runs

| Run | Instance | Distinct states | Shows |
|---|---|---|---|
| `one_run` | 1 run, 2 attempts, 2 pauses, 2 settlements, usage 0 or 2, reserve 1, cap 2 | 692,920 | at-most-once, retries after seals, ownership, accounting, pauses, replay table, terminal states |
| `two_runs` | 2 runs of their own items, 1 attempt, 1 pause, 1 settlement, symmetric | 895,967 | one outstanding effect, fences of one run stop the other, every event replays |
| `receipts` | over `ReadableStore`: 1 run, 2 attempts, 1 pause, 2 settlements, usage 1 or 2 | 204,118 | the receipt of a first attempt or of a retry can be taken in whatever state its run is; retries, recoveries and their accounting replay |
| `worst_case`, `resume_route`, `readmit`, `stranded` | small | | findings 1 to 4 |
| `validation_checks` | 2 checks in order, 2 launches, 3 settlements, 1 gate fact or foreign fence | 373,679 | verdicts, cessation before application, slot release, replay |
| `validation_pauses` | 1 check, 2 launches, 1 pause, 2 settlements | 470,685 | one validator at a time, quiet pauses, replay |
| `authority_uses` | 2 controllers, 2 grants, 2 commands, 2 denials and 1 correction, 1 crash, 3 events together; source grants with window [0, 2) and limit 1, one denial, one correction, one binding mismatch | 791,206 | one use per grant, agreement of the stores, contact under authority in force, tables of facts, source log and adoptions replay, disputes reach dependents |
| `ledger_durable` | a capped and an uncapped dimension, ceiling 3, 2 in flight, 6 events | 273,689 | ceilings, conservation, durability of grants and kill switches |
| `ledger_drift` | the same, 4 events | | finding 5 |

Bounds. Two attempts are a retry and what it replaces; a third generation
repeats the relation between neighbours. Two pauses let a second pause meet the
resume of the first. Usage 0 and 2 around a reservation of 1 gives release,
exact and overrun; two settlements give a settlement that corrects one. Two
launches are a validator and its relaunch, or one for each of two checks; three
settlements let the operation's and both launches' accounts be settled after a
stop. Two grants are the least that can form a cycle of supersessions and the
least that two commands can compete for; two denials and a correction tell the
fact corrected from another one about the same grant. Two dependents make a
chain of adoptions of depth two; the clock takes three values, before, within
and at the end of the window. Every bound is a constant in the guards of the
actions it bounds. At most two retry authorizations are kept per attempt
(`DUPLICATE` stands for more than one, which is all readiness asks). Six ledger
events are an opening, a grant, a drift with its kill switch and two more calls,
over any number of restarts. No theorem depends on these bounds.

`VIEW Essential` in the validation runs leaves out of a state only what no
enabled action and no property can read any more: of a run that has ended, its
cursor, gates and the freshness flags of its launches, and the step of a
process that the target or the store will refuse.

Deadlock checking is off in every run: operators may stop calling, a run may
end, and the bounded counters run out.

Fairness. Nothing in the code polls for receipts: `intake_effect_receipt` is
called by whoever holds the coordinator, so no fairness is assumed for it and
`ReceiptIsAdmissible` says that the intake is possible (ENABLED), not that it
happens. Only `AdoptionSpec` states fairness. It assumes of each controller that a call under way ends, and that one that lost the answer to
its command registers again and repeats the command, as `dispatch` and its
callers do; no crash is prevented by it. No operator action, no dispatching
process and no target is assumed to make progress.

## 4. Proofs

No theorem bounds the runs, attempts, pauses, settlements, dimensions, events,
processes, grants, facts, checks or launches; the assumptions are the named
`ASSUME`s of the modules (bounds natural, reservation at most worst case at most
cap, amounts natural, `Grants` finite, `CheckOrder` a sequence of the checks, a
proper window, positive use limits, the root none of the dependents, no host
using the key of adoptions),
which the code's request validation establishes or which say that a database
holds finitely many rows, and TLC evaluates them in each run.

- `LifecycleProofs`: which rows the replay table has for the events of a kind,
  and what authorizes a pair of states. The kernels' proofs rest on these.
- `Induction`: induction over data. The library's induction theorems take an
  operator, which the provers cannot instantiate; here the predicate is a set
  and the rule says that a set with 0 and with each successor holds all
  naturals. It follows from the library's well-foundedness of `<`.
- `OperationKernelSafety`: `TypeCorrect`, inductive as it stands, with lemmas on
  recorded events and settled charges; then `AtMostOnce`, `RetriesFollowSeals`,
  `ExecutedStaysOwned`, `AtMostOneOutstanding`, `UnknownStaysOpen`. None of these
  is inductive alone: the store acts on its own rows, and nothing in the
  properties says that these rows are true of the target. `EffectInvariant`
  does, in seven parts: two runs never both have generations of one effect;
  a generation is untouched before its intent; only sealed attempts carry
  authorizations or proofs; a process reaches the target only past its claims;
  an outstanding contact owns slot and charge; replaced generations are
  sealed; an unresolved contact keeps its run open. At-most-once follows from
  seals and generations alone, not from the slot.
- `OperationKernelFences`: `TerminalStaysFinal`, `FencedStaysQuiet`,
  `EveryEventIsReplayable` (action properties), `PausedRunsAreFenced`,
  `ValidatingRunsAreAccounted` and, under the hypothesis `Reserved = Worst`,
  `OverrunsAreFenced` (without it finding 1 is a counterexample).
  `ValidatingIsAccounted` is not inductive: the fence that stands for unknown
  usage has to be the one of the run's current attempt, and
  `ValidatingAccounted` names it. `EveryEventIsReplayable` goes through the
  routes kind by kind.
- `ValidationKernelProofs`: `TypesHold`, `OneValidatorAtATime`,
  `AppliedResultsAreCeased`, `PausedRunsAreQuiet`, `CompletedRunsAreValidated`
  and the action property `SlotReleasesAreClosed`. `LaunchInvariant` says of
  each launch that its rows are true of the target, that a result without a
  cessation is fenced, that launches follow one another, and that one the target
  could still run is the active, last one; from this one validator at a time and
  cessation before application follow. `RunInvariant` says what the run's own
  state excludes: nothing settled before its end, a settled launch applied or
  without result, every check passed on completion, and no active pause without
  its fence. The next check of a plan is the least index that is not passed, so
  a completed plan has none, whatever its length.
- `AuthorityProofs`, about `AdoptionSpec` and so for all four kinds of grants:
  `GrantsAreUsedOnce`, `MarkersNameTheirUse`, `TablesReplay`,
  `SupersessionsAreAcyclic`, `TypesHold` and the action property
  `EveryContactIsAuthorized`. `UseInvariant` adds to the first two that a
  dispatch under way is of a durable use of the grant it holds: the commit and
  the marker are two steps, and between them only the process knows.
  `FactInvariant` adds to the tables that the generations of a grant count its
  denials; a correction then restores the row of the latest fact left, which
  needs the greatest element of a set of positions. For the supersessions it is
  shown by induction that the walk of `Reached`, of `Cardinality(Grants)` steps,
  ends in the least set closed under the edges; a new edge that leads to no
  grant before it then closes no cycle, and a correction only takes edges away.
- `AdoptionProofs`, for source grants: `SourceHistoriesReplay` and
  `DisputesReachDependents`. `SourceInvariant` has five parts: the types; the
  uses, each judged over the facts before it, so that later facts cannot change
  the verdict; the stages and the slot; the dependencies, which are the chains
  of origins; and the fences, one for each standing fact and each run that rests
  on the run the fact is about. An adoption is made by a run nobody has adopted
  from, so its chain is its origin's chain one step up and no other chain
  changes. That needs a bound on depths, or the new chain would not fit: no
  chain is longer than there are adoptions. The chains are followed by
  induction, whatever their length.
- `BudgetLedgerProofs`: `LedgerTypes`, `BudgetSafe`, `GrantsDurable`,
  `KillDurable`, `MemoryStored`, `GrantsFresh`, `BudgetBalances`.
  `LedgerInvariant` says how far memory may be ahead of the store: equal between
  fault-free calls, ahead by exactly the applied event while its line is being
  written, and once a write was lost, ahead in number for good, so that no later
  line is accepted. Ids in use are never above the sequence number, which makes
  a fresh id fresh in memory and store alike. `BudgetBalances` needs it too: a
  reservation under an id in use would lose what that id held. The sum over all
  reservations is a recursive function; that it exists, and that changing one
  reservation changes it by the difference, is proved by induction.

An attempt to prove `OverCommitIsFenced` from `Reserved = Worst` showed that it
does not hold then either: an attempt settled as having used nothing, with proof,
makes room for a retry, and the settlement of the first can still be adjusted
upwards. It is stated only in the run of finding 1.

Only model-checked: `CommittedIsMarked` (liveness) and `ReceiptIsAdmissible`
(ENABLED), both out of the prover's reach, and the two refinements of the
readers, `HistoryReplays` and `ValidationHistoryReplays`, which compare
writer and reader event kind by event kind and whose proof is not yet written.

## 5. Findings

1. `worst_case`: the cap is checked with reserved units, unknown outcomes are
   charged the worst case; with reserved below worst case the cap is passed and
   nothing is fenced (storage.py:25029).
2. `resume_route`: a run blocked on an operation recovery can be paused, and
   `resume` then has no route for its cursor; its fence stays
   (storage.py:21495).
3. `readmit`: a run that was resumed to BLOCKED is never readmitted by
   readiness (storage.py:14080).
4. `stranded`: a receipt with known usage recorded under another run's pause
   leaves its run in reconciliation with no operation to take it out
   (storage.py:20017).
5. `ledger_drift`: a drift and the kill switch it engages are two durable
   events; a crash between them loads with the switch off (budget.py:359).

Where the reader refuses what the writer appends. Each is a named exception of
`HistoryReplays` or `ValidationHistoryReplays`, found as a counterexample to the
property without it.

| Exception | Reader | Writer |
|---|---|---|
| `ForeignFence`: a recovery or retry while a fence names another item and effect | 12106: any fence | 23059-23068, 24905-24936: fences of its own scope |
| `ReplacedProof`: a proof of non-dispatch of an attempt a retry has replaced | 44201-44206: "T25 route diverges" | leaves the run where it is |
| `ActivityConnected` fails: a slot released at a generation above 1 | 14008-14014 | 27845-27856 |
| `AfterOrdinarySettlement`: a terminal settlement right after BUDGET_SETTLED | 13289-13297 wants a terminal state in the event before | 27391-27412 writes none |
| `CompleteButUnknown`: a complete claim of validator non-execution, unknown account | 41744-41767 | 27546-27561 |
| `DeniedThoughKnown`: a denial for want of reconciliation, account known | 40418-40429 | 31434-31487 |
| `LingeringLiability`, of both properties: the end of a liability behind a second unknown settlement, whose fence stays; the operation side meets it from three settlements on, beyond the bounds of its runs, `validation_checks` within them | 43563-43573 | 27332-27355 |
| `FencedAfterRecovery`: compares sequence numbers of two runs | 11617-11628 | |
| `PausedAgain`: a PAUSE_SETTLED of a validation pause has no `fence_id` | 13777-13784 (KeyError) | |

Observed while reading, without a run.

Operations: a paused run with an operation-validation cursor has no resume
operation; a seal taken at the intent is unusable once the launch is claimed; a
second retry authorization for one attempt keeps readiness from ever finding
exactly one.

Validation: `_settle_budget` never looks at the slot, so a stopped run whose
last open account it settles keeps the slot (docs/design/
resumable-control-plane-v1.md:583-585 expects the last settlement to close it);
the result of a terminal run with unknown usage is denied by the T24 guard of
the coordinator (dispatch.py:1061-1072); validator non-execution outside a
pause leaves BLOCKED with no recovery; a cessation without a result outside a
pause leaves its intent ACTIVE; a pause requested after the cessation and before
the observation goes to reconciliation with nothing uncertain in it; a launch
blocker loses the recovery cursor.

Authority: a revocation ordered AFTER the intent, recorded before the contact,
is masked by a later OWN_CONSUMED fact of that intent (33396-33407), and
`ContactIsAuthorized` accordingly speaks of the latest standing fact;
superseding an unused grant fences the effect, so that the successor cannot be
used before a correction; after a restart the store cannot be read until
operator grants are registered and claimed again; `grant_kind = 'OPERATION'`
(34141, 33706) matches no fact, so a dispute of the root's own grant fences its
dependents only through the effect; a correction of unknown order clears the
fence and does not count in the check of a use (4341-4409).

## 6. Not modelled

- Of the modelled components: safe same-effect retries (22355-22863), effect
  relationships and their grants, changes of
  dependencies between items, legacy descriptor bindings, the cap of the
  validator budget (30315), the terminal policy obligation (30754-30818, which
  the synthetic target cannot reach: it gives no result after a cessation
  without one). The composition of the operation and validation kernels over two
  runs is replaced by `FenceOther` and by the two starts of `ValidationKernel`.
- Hash chains, MACs and digests: taken to verify. Schema migrations
  (2312-6877): one-off changes under an exclusive lock.
- Fast save, the evaluation runner's scheduler, process control, live pipeline,
  cost meter and calibration files: one process over its own files.
- Evidence, path ownership, CI durations, command lines, reports, graders,
  usage, setup and repository scripts: sequential code without shared state.

## 7. Plan

Modelled and checked so far, in this order: the operation kernel, the ledger,
validation, the readers and their refinements, authority, adoption; proved, all
invariants and action properties of the passing runs but the two refinements.
Their proofs are what is left, event kind by event kind.
