# Verification of v-loop

TLA+ models of the control core of v-loop (`src/src/vloop`), TLC configurations that check
them on small instances, and TLAPS proofs of what they guarantee for every instance.
Paths below are relative to `src/src/vloop/` unless they say otherwise.

## 1. The system

v-loop drives an agent through *propose, authorise, execute, evaluate, accept*. A model proposes
actions; everything else is there so that nothing depends on the model being right. A run
belongs to a *task contract* (allowed actions, guards, verifiers, budgets). Its iterations follow
a *control graph* compiled from the contract; each node of the graph is owned by one producer
role, and only what its owner signs lets the next node start.

### Components

| Component | State it keeps | Operations | Interacts with | What makes it correct |
|---|---|---|---|---|
| Transition monitor (`graph_monitor.py`, `graph_schema.py`) | none (pure) | `enabled`, `advance`, `reserve`, `complete`, joins, edge conditions | asked by the scheduler | a node starts only on facts its predecessors left, and those stay true |
| Graph scheduler (`graph_runtime.py`, `graph_events.py`) | one SQLite row per (run, iteration): completed, facts, reservations, attempts; the hash-chained causal events | `advance`, `reserve`, `complete` | controller, producers | one attempt per node, facts final, the log accounts for the state |
| Node completions (`attestations.py`) | none; keys and expiry | `issue`, `validate` | producers sign, the scheduler validates | an owner's facts are the owner's |
| Graph compiler (`graph.py`) | none (pure) | compile, `validate`, evidence projection, dynamic subgraphs | feeds monitor and certificate | no effect without authority, no acceptance without every guard |
| Controller (`controller.py`) | in memory: checkpoint, counters, history, evidence | `run`, `reconcile_effect`, `cancel_run` | everything | one effect per iteration, budgets, a decision that is earned and final |
| Run checkpoints (`run_state.py`) | one row per run with a revision | `load`, `save` (compare-and-swap) | controller | a stale writer loses |
| Policy gate (`policy.py`, `authorization.py`) | used budgets, approvals, capabilities | `authorize` | controller, executor | deny by default; an approval is consumed once |
| Executors (`executor.py`) | idempotency leases, consumed nonces | `execute` | controller, supervisor | an operation has one effect |
| Evidence ledger (`ledger.py`) | hash chain and its head, anchor outbox with leases | `append`, `verify_chain`, claim, complete, release | all components | an unbroken chain, every head anchored |
| Verified memory (`memory.py`) | records, projection outbox and deliveries | `insert`, `retrieve`, claim, complete, release | controller, evidence ledger (another database), external indexes | a record rests on evidence; a recall is current; a projection is never lost |
| Completion (`completion.py`, with `evaluation.py`, `receipts.py`, `verifiers.py`) | evidence of a run, one entry per action | evaluate, validate, report, `append`, final verdict | controller, remote evaluators | accepted work was passed by its evaluators, as it is now |
| Harness evolution (`harness_evolution.py`, `harness_experiments.py`) | current version of each component, changes with their stages | `register`, `propose`, `record_signed_shadow`, `promote`, `rollback` | operators, evaluators, reviewers | a promoted change was evaluated and reviewed; nobody's version is overwritten unseen |
| Execution certificate (`execution_certificate.py`) | none (pure) | replay of a trace | auditors | replay accepts exactly the monitor's traces |
| Delegation and learning (`delegation.py`, `learning.py`) | none kept between calls | delegate, build traces, decide on a candidate | controller | a call stays in its budget |
| Services, Firecracker, probes, neural verifier, snapshots, artifacts, context, contract compiler, models, runtime assembly, model clients, native backend, evaluation harness, formal export, Rust crates | none or external | pure checks, remote calls, I/O | controller | content and signature checks |

### Hard behaviours

* **Interleaving.** Any number of controller processes may serve one run. They share the
  checkpoint row, the graph rows, the approval store and the executor, and each of their writes is
  a separate transaction. Producers finish in any order, late, twice or never.
* **Crash and restart.** A controller may stop between any two writes. What it did not write is
  gone; what it wrote, it will meet again. Some of the nodes it reserved stay reserved.
* **The uncertain effect.** Between the checkpoint "effect pending" and the observed result nobody can
  tell whether the effect happened; only the supervisor's signed answer may resolve it.
* **Stale decisions.** A node is checked when it is reserved and completed later. A checkpoint is
  loaded once and saved many steps afterwards. A controller object keeps counters and evidence
  between calls.
* **Two databases.** A memory's promotion is appended to the evidence ledger and the record is then
  inserted elsewhere; a process may die, or another may take the id, between the two.
* **Leases.** The workers of both outboxes publish outside of any transaction, and their lease may
  end first; a publication that raises may have taken place.
* **Read, then write.** `propose` and `record_signed_shadow` check a row in one statement and write it
  in another, while promotion and rollback are transactions; `retrieve` asks an index after it has read
  the records.
* **Old answers.** Receipts are replayed between actions, instances and runs, arrive late, or outlive
  their key; a run returns to a workspace it was in before.
* **Budgets and boundaries.** Iteration and call budgets at their limits, on normal and on recovery
  paths; joins at their thresholds.

## 2. The modules

```
TransitionMonitor <-- CausalOrder <-- (INSTANCE) ControlAuthority --> ControlGraph
       ^    ^              ^                                               ^
       |    |              | refines                                       |
       |    +------- GraphScheduler                                        |
       +---- (INSTANCE) VerifiedLoop --------------------------------------+
                           | refines
                           v
                      RunLifecycle

PolicyGate <-- EffectExecutor -- refines --> OnceOnly

GraphScheduler <-- ExecutionCertificate          ControlGraph <-- ManifestValidation

VerifiedMemory --> EvidenceLedger -- (INSTANCE) --> LeasedOutbox -- refines --> AtLeastOnce
        +------------------- (INSTANCE) -----------------^

HarnessRegistry          Acceptance
```

| Module | Models | State | Actions |
|---|---|---|---|
| `TransitionMonitor` | `graph_monitor.py`, predicates and joins of `graph_schema.py` | none | operators `Enabled`, `Supported`, `SatisfiedBy`, `ConditionMatches` |
| `GraphScheduler` | `graph_runtime.py`, `graph_events.py`, `attestations.py` | `completed`, `events`, `reserved`, `attempts` (the row), `trace` (the event log), `issued`, `lapsed` (signatures outside) | `Advance`, `Reserve`, `CompleteDirect`, `Issue`, `Lapse` |
| `CausalOrder` | abstract: what the scheduler promises | `left` | `Occur` |
| `ControlGraph` | `_compile_control_graph` of `graph.py` | none | the nodes, edges, joins of a contract |
| `ControlAuthority` | the control graph under `CausalOrder` | `left` | `Occur` of the graph's nodes |
| `VerifiedLoop` | `controller.py` over `run_state.py`, the graph and the executor | `checkpoint`, `current` (who holds its revision), `done`, `begun`, `facts` (the graph), `me` (each process), `job`, `dispatches`, `fresh`, `spent` (executor and approvals), `answers` | one per durable write: graph calls, saves, gate decision, dispatch; `Crash`, `Approve`, `ReconcileEffect`, `CancelRun`, `JobEnds` |
| `RunLifecycle` | abstract: the phases of a durable run | `phase`, `round`, `calls`, `pending`, `decision` | one per legal phase change |
| `PolicyGate` | `PolicyGate.authorize` of `policy.py`, its budget and approval stores | `uses`, `consumed` (the stores), `granted`, `basis` (capabilities issued), `gate` (each server's call) | `Ask`, `TryApproval`, `DenyUnapproved`, `ChargeAndIssue`, `DenyExhausted`, `ServerDies` |
| `EffectExecutor` | `execute()` of `executor.py`, capability verifier and nonces of `authorization.py`, behind `PolicyGate` | `rows`, `leased`, `nonces`, `lapsed` (the stores and the clock), `call` (each caller), `effects`, `answers` (the world) | `Present`, `ReserveKey`, `ConsumeNonce`, `RefuseKey`, `RunRaw`, `SettleRaised`, `SettleReturned`, `ReceiptLost`, `Die`, `LeaseEnds`, `CapabilityLapses` |
| `OnceOnly` | abstract: an operation that happens at most once per key and is settled at most once | `fate`, `happened` | `Claim`, `Happen`, `Effected`, `Refused`, `Doubted` |
| `ExecutionCertificate` | `ExecutionCertificateValidator.validate` fed with the scheduler's log | `replay` (the validator's monitor) | `Certify`, together with each step of the scheduler |
| `ManifestValidation` | `ControlGraphManifest.validate` of `graph.py` over edited manifests | none | operators `Validate` and its parts, `Spread` (its walks), `MayOccur` (the monitor run to its end) |
| `EvidenceLedger` | `ledger.py` | `log`, `head`, and an outbox of heads | `AppendEvent`, the anchor workers |
| `LeasedOutbox` | the outbox that `ledger.py` and `memory.py` both keep, and its workers | `count`, `row` (the tables), `drain` (each worker), `taken` (the service), `faults` | `Request`, `Claim`, `Publish`, `PublishRaises`, `Acknowledge`, `LeaseLost`, `Release`, `Die`, `Lapse` |
| `AtLeastOnce` | abstract: what an outbox promises | `wanted`, `taken`, `settled` | `Want`, `Take`, `Settle` |
| `VerifiedMemory` | the memory ledger and retrieval of `memory.py`, over both databases | `store`, `expired`, `insert`, `recall` (each call), an outbox of records | `Insert`, `RecordPromotion`, `Store`, `Abandon`, `Expire`, `Call`, `Read`, `Search`, the workers |
| `HarnessRegistry` | `harness_evolution.py`, the verifiers of `harness_experiments.py` | `current`, `change` (the tables), `draft`, `bundle` (each call) | `Register`, `CheckBase`, `Propose`, `CheckShadow`, `RecordShadow`, `Promote`, `Rollback` |
| `Acceptance` | evaluation, receipts, verification and completion of one run | `now`, `revoked`, `signed` (the world), `at`, `action`, `todo`, `answers`, `evidence`, `decision` | `Execute`, `Evaluate`, `Unavailable`, `Verify`, `Tick`, `Revoke` |
| `GraphSchedulerProofs`, `ControlAuthorityProofs`, `VerifiedLoopProofs`, `EffectExecutorProofs` (the gate's too), `HarnessRegistryProofs`, `VerifiedMemoryProofs`, `LeasedOutboxProofs`, `AcceptanceProofs` | proofs | | |
| `MCGraphScheduler`, `MCControlGraph`, `MCVerifiedLoop`, `MCEffectExecutor`, `MCVerifiedMemory`, `MCHarnessRegistry`, `MCAcceptance` | small instances for TLC | | |

How the modules correspond to the code:

* A payload maps the fields that edges look at to what Python prints for the value, because that
  is what `GraphPredicate.evaluate` compares: `True` is `"True"`, an absent field `"None"`, and the
  signed text `"true"` stays different until `_complete_direct` decodes it.
* Every scheduler operation is one `BEGIN IMMEDIATE ... COMMIT`, hence one action. A call that is
  rejected rolls back and is no action.
* A controller process is a program counter (`at`), the checkpoint it loaded (`view`), the graph
  calls it still has to make (`todo`) and what it keeps until `run()` returns. `_graph_complete` is
  two steps, reserve and finish, because a crash may fall between them. A raised exception ends
  `run()`: it is the same as a crash after the last write, except that an exception in the
  evaluation block is swallowed (`GiveUp`).
* `current` is the set of processes whose revision is the row's: `save()` succeeds exactly for
  those, and afterwards only the saver is in it. The revision itself never needs to be counted.
* An object that returned keeps its counter and evidence (`Idle`), which is what `reconcile_effect` saves
  later; a new object starts from zero (`Fresh`).
* What the planner proposes, what the gate denies, what verifiers find and what the repair
  controller directs is a free choice.

* In the gate and the executor every store transaction is one step of a server or a caller, and the
  effect of the raw executor is a step of its own, which may happen before it raises. Time shows only
  as the end of a lease (`LeaseEnds`) or of a capability (`CapabilityLapses`). A server that dies between
  the charge and the issue is a capability that nobody presents; a contract that expires is a server that
  asks no more. Whether a receipt's signature, trust and age pass is a free choice of `TryApproval`.
  One contract and one executor, since the stores' keys hold both; SQLite stores, since the
  in-memory ones serve a single process; no unsigned approvals (a development switch).
* `VerifiedLoop` sees the gate as a choice and the executor as one job per operation, which is what
  `EffectExecutor` shows them to be.

* A place in the evidence ledger stands for its event's hash, and a digest for its contents: no two
  contents share one. The two outboxes differ in names only, so one module is instantiated twice; what a
  worker claims, publishes, acknowledges or releases is one step each, and time shows only as `Lapse`.
  A lease that ends while its holder is busy, a death and a publication that raises are counted (`faults`).
* `Insert` in `VerifiedMemory` is `insert()` up to its checks, `RecordPromotion` its event in the ledger,
  `Store` its transaction in the memory's database; `Abandon` is a death, or the primary key's refusal. `retrieve()` is its call,
  the reading of the records and the question to the indexes (`Call`, `Read`, `Search`); the external index
  answers with any ids at all.
* In `HarnessRegistry` every read that a later write depends on is a step of its own, except inside
  `promote` and `rollback`, which hold the write lock. Statistics are reduced to what the checks
  compare: a mean, the lower end of its interval, two minima, a safety regression.
* In `Acceptance` evaluators are honest, but whatever they ever signed, for this run or another, may come
  back as any answer. Clocks may be apart; a key may be revoked. Two workspaces may hold the same artifacts, which is when a
  receipt for one passes for the other unless its graph instance is looked at.

Assumptions of the loop model: the controller is durable (a state store and an evaluation
orchestrator are configured); the planner does not propose the same intent twice; the gate's and
the controller's opinion whether an intent needs approval agree; some guards (`LocalGuards`) are proved by checks
that need no evaluator's receipt, so that an action whose evaluation failed may still prove them; in passing runs
`reconcile_effect` is called on an object that has just run (`AnyObjectReconciles = FALSE`) and
`cancel_run` in the phases its docstring names.

## 3. What TLC checks

| Run | Question | Bounds |
|---|---|---|
| `scheduler` | The scheduler under concurrent producers, with completions late, twice, lapsed or signed by the wrong role: nodes rest on facts (`CausallyJustified`), owners' facts are signed (`FactsAreAttested`), it implements `CausalOrder`, and the certificate validator's replay of the log ends in the scheduler's state | six nodes, an `all` and a `threshold` join, two caller payloads, seven completions, one instance |
| `control_graph` | Authority, approval, acceptance and exclusion in every order in which the control graph lets its nodes occur; and `ValidManifestsAreSafe` | two rules, two guards, a plan named like its guard and one named differently; 3054 manifests, each one edit away from the compiled one |
| `effect_executor` | Servers racing for budgets and approvals, callers racing for keys: approvals pay once, one effect per key, each effect paid for, true answers, and the executor implements `OnceOnly` | two servers, two callers, three capabilities, three intents on two keys, three overlapping rules (two with two uses), one approval; symmetric in servers, callers and capabilities |
| `loop_one` | One controller: budgets cover effects, acceptance is earned, results are real, evidence is kept | three iterations, two calls, three intents (one needs approval), two guards, one crash |
| `loop_two` | Two controllers race: one effect per iteration, the effect is checkpointed first and approved, everybody gets the same answer, and the checkpoint implements `RunLifecycle` | two iterations, two calls, two intents, one guard |
| `loop_live` | A run comes to rest, unless it was cut short in a way that nothing undoes (`RestsUnlessCutShort`) | one controller, two iterations, three calls, three intents, two guards (one local), one crash, fairness |
| `memory` | Records are attested by the ledger, superseded for good, and recalls are current | two inserting processes (symmetric), one reader who may see one of the two memories, evidence of two runs, three events, expiry and supersession; an index worker without faults |
| `outboxes` | Both outboxes implement `AtLeastOnce`, and deliver everything in the end | two anchor workers that claim two heads, two faults; one projection worker, one fault; fairness |
| `registry` | Stages are earned, nothing is overwritten unseen | one component in three versions, two changes with four proposals, seven kinds of evaluation for each, four persons, two recorders (symmetric), one proposing process |
| `acceptance` | Accepted work is attested, evidence is filed under the workspace it is about, a failure stands | two actions of one intent, two checks (one bound to the condition, one required), two workspaces with the same artifacts, clocks one apart, receipts that last one tick, a foreign receipt |

**Why the bounds are enough.** The joins fire early, late and never; an iteration may deny, fail,
succeed unevaluated, be reconciled, repair and accept; the call budget runs out before and after the
iteration budget; a crash falls at each step. One instance of the scheduler is enough because no
operation reads another instance's row (the proofs cover any number). Two controllers are the fewest
that conflict; their conflict already ends one of them, which is a crash, so `loop_two` needs none.
In `effect_executor` two intents share a key (the conflict) and one key may be asked for with two
capabilities (the retry); the third capability exceeds both budgets, and the second caller meets
every row the first can leave, live, dead or settled.
In `loop_live` the call budget exceeds the iteration budget, so that a run which reconciles and retries in one
iteration is not ended by its calls. Dropping any one of the five ways of being cut short that `CutShort` lists makes the
property fail: a prologue that stopped half-way (`HalfOpened`), a reservation nobody releases (`Orphaned`), an evaluation
that ended between an evaluator and its receipt (`HalfEvaluated`), an action event of another rule (`OtherIntent`), and an
effect that was checkpointed but never dispatched (`NeverBegan`), of which no supervisor can sign an outcome.
In `memory` three events are an attesting one and two promotions, so that a second process can insert
the id, or supersede the record, that the first is about to store; memories of two runs side by side would need a fourth
and are left to the theorem. So are rules that share one use counter in `effect_executor`. In `outboxes` two heads under two
workers give every race of an ended lease with a late acknowledgement: the first worker is overtaken on the second
head while it publishes the first. In `registry` the second change may start from the same base as the
first or build on it, so that a promotion meets a base that has moved. In `acceptance` the
second action may return to the workspace of the first, or leave another one with the same artifacts, and every
receipt of the first may answer for it; three plans or three actions exceed what can be
enumerated, so that coming back to a workspace after leaving it for another is covered by the theorem only.

`ValidManifestsAreSafe` takes the compiled manifest of a contract and drops, retypes, redirects and adds edges,
drops and marks nodes, gives them effects and weakens joins. `Validate` accepts 632 of them. The
property runs the monitor on each: no effect without a capability, no marked node without an
approval, no acceptance without every guard, no authority that waits for an untrusted node. Fifty of
the 3054 would break one of these, and `Validate` refuses all fifty.

**Fairness.** Of the loop (`FairSpec` of `VerifiedLoop`): weak fairness of every controller's steps (a deployment restarts
`run()` until it returns a decision), of every job's end (the supervisor bounds its jobs) and of
`ReconcileEffect` (an operator asks the supervisor while reconciliation is due); and, within an evaluation, strong
fairness of reserving a node and of passing a completed one. A service may fail an evaluation at any point, and
the code swallows it and goes on; but a service that is asked again and again answers at last, without which a restarted run could
fail its evaluation for ever. Nothing obliges a
reviewer to approve or anybody to cancel, so waiting for approval counts as rest.
Of the outboxes (`FairSpec` of `VerifiedMemory`): weak fairness of each worker's `Onward` (`drain()` is called
again and again and goes on once it is called) and of each lease's end, because leases carry a time.
A publication that raises and a death are no part of it; they are bounded by `faults`, since an outbox
whose service never answers delivers nothing.

Deadlock is not checked: a decided run, one out of proposals, or a ledger at its bound may stop for good.

### Disagreements found

Two runs each show a disagreement between the code and what it says of itself:

| Run | What TLC shows |
|---|---|
| `restart_wedge` | a crash inside the opening of an iteration, or between a reservation and its completion, leaves a run that raises on every restart |
| `registry_race` | two recorders read a change while it is proposed; the first one's evidence makes it `shadow_passed`, then the second one writes over it although it is no longer proposed. A review and a promotion in between (which the model and the code allow, and the shortest trace does not need) are overwritten the same way: a promoted change can no longer be rolled back, a rolled-back one can be promoted again |

Seen while modelling, without a run:

* *Acceptance on evidence carried over.* One action completes the evidence; the evaluation of the next one fails and is swallowed
  (`controller.py:442`); the final verifier passes on the evidence carried over, as the comment at
  `controller.py:909` intends, but the criteria of this iteration have no receipt in its graph (`controller.py:951`), and acceptance is
  refused. Restarts try again: if the failed evaluation left `snapshot.materialized` reserved they are refused for ever,
  without any crash (`Orphaned` in `CutShort`). It takes a final verifier that passes on earlier evidence, or checks that need no
  receipt: `RequiredChecksFinalVerifier` with signed checks only looks at the workspace of the last action.
* `cancel_run` replaces the decision of a run that has ended (`controller.py:1229`);
  `reconcile_effect` on an object that did not just run saves that object's empty evidence and zero counter over
  the checkpoint's (`controller.py:1206`); an effect that used the last call and was reconciled is
  discarded unjudged (`controller.py:179`). The constants `CancelFrom` and `AnyObjectReconciles` keep the loop's runs to
  the documented use of the first two.
* `advance()` of an externally owned node merges the caller's payload over the signed facts
  (`graph_runtime.py:318`); no caller in the repository passes one with a completion (`Override` is empty in the run). The certificate
  validator accepts an `advanced` row of an externally owned node, since the monitor knows no roles.
* A plan whose check is named differently from its receipt's guard waits for an evaluator that nobody
  runs (`graph.py:570`); a contract whose guards overlap its required verifiers compiles to two
  evaluator nodes of one identity, which `validate()` refuses.
* `validate()` accepts manifests with several entries (139 of the 632), of which the monitor can start
  only one; it does not look at the conditions of the edges into the guards, and takes the first of
  several joins declared for a node where the monitor keeps the last.
* After a crash before the intent's checkpoint the graph's `action.intent` names one intent and the
  run executes another. An approved run goes from `awaiting-approval` straight to `pending-effect`, where the
  state diagram of the repository's README goes back through `pending-authorization`.
* Two racing controllers may leave a graph that rejects both, like `restart_wedge` without a crash: why `loop_live` has
  one controller. A failed evaluation is the other way into such a state without a crash.
* Rules of equal tool, effect and target prefix share one use counter, which is then charged twice per
  use. A capability that lapses between the reservation and the nonce check leaves a refusal stored
  under the key for good.
* Two live workers under one `worker_id` can release each other's claims for ever, which delays delivery but
  never loses or falsely settles an item (safety is proved for any assignment of ids; the run gives each worker its own).
* Superseding an id that is not stored is silently ignored; an id that is taken leaves the promotion
  event in the ledger without a record.
* Evidence once accepted is not validated again: a key revoked, or a receipt expired, between two actions still counts at the
  end. An evaluation that fails part-way drops the receipts it had. The receipt's workspace digest is taken as
  signed and not compared with the materialised snapshot.

## 4. What is proved

All proofs hold for every value of the constants that satisfies the named assumptions, which
TLC evaluates in every run. Every invariant and action property of the runs is a theorem here, and so is every
implementation of an abstract specification; only liveness is left to TLC. Where a proof needs induction over numbers
or over finite sets, it takes a least element of a set of counterexamples under a well-founded order, because the
library's induction rules take an operator as a parameter.

* **Monitor** (in `GraphSchedulerProofs`). *SupportedMonotone*: once a node's incoming edges are
  met by facts of completed nodes they stay met, under every join policy and for every payload. It
  rests on *SatisfiedByMonotone*, a cardinality argument, and on *NoFactsIsNoPayload*. From
  `ManifestAssumption`: edges and joins are tied to nodes, thresholds are bounded.
* **Scheduler** (`GraphSchedulerProofs`). *TypeCorrect*, then *Coherence* (completed nodes are those
  with facts, open and completed nodes are apart, one attempt each). *Justification* proves the
  stronger `Justified`, for every payload rather than for callers' only, because a completion
  brings a payload the reservation was not checked with. *TraceAccounts* needs `Reserving`: an open
  reservation has its row in the log, under the same attempt. *Finality* is an action property from the
  first two. *Attestation* assumes that no payload comes with a completion. *Implementation*: reserving and signing are stutters of
  `CausalOrder`, and a completion is an occurrence because `Justified` still supports it then.
* **Certificate** (`GraphSchedulerProofs`). *Certification*: the replay of the log agrees with the scheduler's
  state after every call. A reservation is enabled in the replay because it was in the row; a
  completion is admitted because its node is open there, and for no other reason: its prerequisites are not asked for again.
* **Control graph** (`ControlAuthorityProofs`). The inductive invariant is `Rooted`: every node that
  occurred has its basis, the edges into it met by the facts as they are now (one edge for the two
  any-joins). *Authority*, *Approval*, *Acceptance* and *Exclusion* then walk the compiled edges
  backwards. They hold for any number of rules, guards, verifiers and plans under
  `ContractAssumption`.
* **Manifest validation** (in `ControlAuthorityProofs`). *ManifestSafety*, for every contract and every finite manifest
  (`ManifestsAreFinite`), has two halves. Both rest on one fact about recursion: the walks of `validate()` and the
  monitor's run to its end compute the least set of nodes that is closed under a monotone step
  (*SpreadIsLeast*, *MayOccurIsLeast*). The least closed set solves the recursive equation, and no other function does: a largest
  set of nodes where two solutions differ would lead to a larger one. So a set that no edge leaves bounds a
  walk, and a set that enables nothing beyond itself bounds the runs. *ValidIsSafe*: authority edges never end in a join, hence
  whatever an occurring node leads back to over them has occurred, the capability or approval that `validate()` found among it; the
  single barrier of acceptance is an `all` join, and joins wait for exactly their predecessors; and the
  nodes an untrusted node does not reach occur without it. *CompiledIsValid*: the compiled edges join 24 pairs of templates
  (`Links`), the second always of a higher rank, so there is no cycle, every node is reached from the task contract, and past
  the criteria nothing leads to acceptance.
* **Policy gate** (in `EffectExecutorProofs`). *GatePays* is `BudgetHolds` and `ApprovalPaysOnce` for any rules,
  servers and approvals. The strengthening counts: `Covered` says that the capabilities under a
  rule are no more than its counter and no more than its limit (the counter itself may pass the limit, when
  two rules share it); `Held` says that a consumed approval is in one
  call or behind one capability. It is stated for the gate's variables alone, so the executor reuses it.
* **Executor** (`EffectExecutorProofs`). *StoresTyped*, *OneEffect*, *EffectsPaid*, *TrueAnswers*, *Settled* and
  *Implementation*, for any callers, keys and intents. The invariant behind them: at most one
  caller at a time is past a key's reservation, and while it has not yet run the raw executor nothing
  has happened under the key (`Custody`); a row tells what is known of its effect (`Records`), an answer what
  its row says (`Told`), and a caller's capability is issued for its intent (`Binding`). The budget part of *EffectsPaid* maps
  the effects under a rule one to one into the capabilities issued under it.
* **Outbox** (`LeasedOutboxProofs`). *Delivery*: every step maps to one of `AtLeastOnce` or to a stutter, for any items,
  workers, limits and ids. The invariant: a row is settled only if the service has its item, and a worker that is
  about to acknowledge an item has published it, so that it may settle the row even
  if it holds the lease by a shared id only.
* **Memory** (`VerifiedMemoryProofs`). *Typing*; *Attestation*: the chain verifies and stored records have their
  promotion and its proof before it; *Recalls*: recalls are current. The strengthening carries the facts through the gap
  between the databases: an insertion under way already names a proof in the ledger, and, once recorded, its
  event; the ledger only grows (*Grows*, *ChainGrows*). What was dead when a reader
  called stays dead (*DeadStay*: no stored record comes back, nothing unexpires), so that it is not among the records it reads later. *Supersession* is the action property.
  *Outboxes*: the ledger's and the memory's outbox each implement `AtLeastOnce` while the whole system runs. `LeasedOutboxProofs` is
  instantiated once for each, and *OutboxSteps* shows that every step of the system is a step of either outbox or leaves it
  alone: an appended event requests its anchor, a stored record its projection. *Typing* needs `Counted`, that each event
  has one row in the outbox.
* **Registry** (`HarnessRegistryProofs`). *TypeCorrect*; *Earned* needs that the bundle a recorder holds fits the
  proposal still in the row when it writes, which holds because a stored proposal never changes; *Careful* that what
  a promoted change replaced is its base. Neither needs the stage to be what the recorder read, which is the part that `registry_race` refutes.
* **Verified loop** (`VerifiedLoopProofs`), for any controllers, crashes, intents, rules, guards, plans and budgets.
  *EffectsHappenOnce*, *EffectsAreCheckpointed*, *EffectsAreApproved*, *ResultsAreReal* and *AcceptsAreEarned* hold however the
  loop is called; *EffectsArePaid*, *AnswersNeverDiffer*, *EvidenceNeverShrinks* and *RefinesRunLifecycle* when it is called
  as documented (`Documented`: `reconcile_effect` only on an object that has just run, and no cancellation of a run that
  ended; section 3 says what the code does otherwise). The invariant: a process
  whose revision is the row's knows the row (`Synced`); who is about to dispatch is alone, and nothing was
  dispatched in its iteration (`Executing`); what was dispatched in the checkpoint's iteration is what the checkpoint names
  (`Ahead`); what a process believes of the world is so (`Backed`). `Ahead` alone is not inductive: the save that binds an intent
  keeps it only because the phase before it leaves nobody executing. Accepting needs the compiled graph to be followed as far as its decision
  (`Earned`). The refinement classifies every step: it moves the checkpoint, ends the run, or leaves the checkpoint alone, and
  each class is an action of `RunLifecycle` or a stutter.

* **Acceptance** (`AcceptanceProofs`). *TypeCorrect*, *FiledRight*, *Attested* and *FailuresStand*, for any checks, plans, receipts, clocks
  and numbers of actions. The invariant: a receipt signed in this run names an action that has begun, and the
  workspace that action left (`Signed`); an answer at hand was signed (`Answered`); what a past report holds was valid when it was read,
  for the action it was read about (`Read`); actions are in the order of their times (`Ordered`); and a run that ended did so on a passing goal (`Ended`). *FiledRight* is
  part of it, since an accepted receipt agrees with the action under way on its instance and so on its workspace. The last word
  about a workspace exists because receipts are totally ordered by time of issue, then by action (*LastExists*), and it is the one that
  `_fresh_check_statuses` takes. Assumed are at least one plan (`evaluation.py:59`) and that no workspace digest
  reads `unknown`.

Only model-checked is liveness (`RestsUnlessCutShort` and the delivery of outboxes, `NothingIsForgotten`): it and the ENABLED of its
fairness are out of the prover's reach.

## 5. Plan

1. *(done)* Monitor, scheduler, causal order and certificate, with proofs.
2. *(done)* Control graph and what it guarantees, with proofs; what `validate()` accepts.
3. *(done)* The loop, its lifecycle, crashes, racing controllers, approval, reconciliation, cancellation, with proofs
   of its safety properties and of its implementation of the lifecycle.
4. *(done)* The policy gate and the executor behind it, with proofs.
5. *(done)* Evidence ledger, memory and their outboxes, with proofs.
6. *(done)* Harness registry, with proofs; evaluation, receipts and completion, with proofs.
7. Left: the gate's opinion on whether approval is required against the controller's, which needs
   `PolicyGate` under `VerifiedLoop`; dynamic subgraphs; the memory's write gates.
8. *(done)* Proofs about manifest validation and about both outboxes within the memory.

## 6. Not modelled

* Signatures, digests and canonical encoding, and the content checks of single verifiers, probes, the
  neural verifier and the write gates of memory: pure functions whose verdicts are free choices of the models.
* In `Acceptance`: probes; the executor's own metadata, which is assumed to hold no receipts; action safety checks, which
  the run leaves empty, so that the weaker branch of `_safe_for_criterion_progress` is the one exercised.
* In `VerifiedMemory`: the in-process working state, the router and the ranking of results, the index clients, the committer
  that builds candidates from a finished run.
* In `ManifestValidation`: the memory-authority and port checks of `validate()`; the evidence projection, `DynamicSubgraphPolicy` and the
  read-only executor of dynamic subgraphs.
* Within the controller: probes, shadow diagnostics, memory commits and ledger records, which change
  nothing the loop reads back.
* Remote clients (`services.py`, `model_client.py`), the Firecracker launcher, file-system snapshots, packaging of
  contexts and artifacts, runtime assembly, the contract compiler, delegation and learning, the formal export, the native backend and the Rust
  crates: I/O, or functions of one call without shared state. `learning.py` keeps no state, and
  `delegation.py` spends a budget within one call.
* Statistics of `harness_experiments.py` beyond the comparisons a bundle must pass.
