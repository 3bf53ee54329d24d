# Verification of the Volcanoes paper-execution core

TLA+ modules, TLC configurations and TLAPS proofs about the trading system in
`src/`. The system scans markets, turns signals into trade requests, supervises
their submission to a (paper) broker, and is being extended with a durable
execution subsystem in which every dispatch decision is a transaction of an
SQLite database. The correctness questions all have one shape: *an order must
reach the broker at most once, only under authority that was really granted,
and what the system remembers of it must be true*, whatever is concurrent,
late, lost, repeated or interrupted.

## 1. Inventory

Line counts are of Python code under `src/`; `A` stands for
`volcanoes/application`, `E` for `A/execution`, `Q` for
`volcanoes/infrastructure/execution_persistence/sqlite`.

| Component | Where | State it keeps | Operations | Status |
|---|---|---|---|---|
| Controlled paper submission | `E/submission` (1.3k) | none between calls: the winner grant lives in one call's memory | `apply_once`, `_acquire`, `_normalize`, `_record_resolution`, `_replay` | modelled |
| Dispatch claim, authorization and control | `Q/repositories.py`, `Q/unit_of_work.py`, `E/persistence/contracts.py` | control row with generation, append-only claims, authorizations, resolutions, broker references | `acquire`, `_authorize_private`, `save`, `register`, `record_dispatch_outcome` | partly: all of these; not the outbox and the lease fields |
| Transactional intake | `E/intake` (0.6k) | command, reservation, approval, aggregate and five journal rows, one transaction | `intake` with its replays, conflicts and refusals | modelled |
| Execution supervisor | `A/supervisor` (0.9k) | active symbols, in-flight keys and fingerprints, completed results, last success per symbol, one lock | `execute`, `_admit`, `_execute_services`, `_finish`, the policies | modelled |
| Submission and preview services | `A/services` (1.0k) | requests submitted or being submitted, one lock | `submit_trade`, `preview_trade`, `_reserve_submission`, `_release_submission` | modelled as the supervisor calls them |
| Lifecycle engine | `E/lifecycle` (1.7k) | none (pure functions over an aggregate snapshot and its accepted events) | `transition`, `apply_transition` over a table of 30 transitions | modelled |
| Other repositories and restart discovery | `Q/repositories.py` | aggregates, journal, commands, idempotency, approvals, reconciliation history, outbox | compare-and-swap saves, append, register, reserve, discovery pages | partly: not the outbox, not paging |
| In-memory persistence | `E/persistence/in_memory` (2.6k) | dictionaries, copied by each unit, validated and replaced at commit | same ports as SQLite | partly: what intake, dispatch and control use |
| Migrations, connections, integrity | `Q/migration.py`, `Q/connection.py`, `Q/integrity.py`, `Q/reconcile_integrity.py`, `Q/validation.py` | schema version, migration records | open, inspect, migrate, validate, check durable bindings | partly: not checksums and file handling |
| Reconciliation | `E/reconciliation` (0.4k) | history of comparisons | fact comparison, operator recovery, its command | modelled |
| Eligibility and dry run | `E/eligibility`, `E/dry_run` (2k) | none: the caller keeps the result | criteria and decision, a rehearsal of the path to dispatch | modelled |
| Certification | `E/certification` (1k) | none | an offline harness over the above | not modelled |
| Qualification campaign | `A/qualification` (4.5k) | run, command records, evidence | `execute`, the table of 35 transitions, the scenario harness | modelled |
| Qualification shadow integration | `A/qualification/integration` (4.9k) | recorded results | evaluate beside the legacy path, compare, record, assess readiness | modelled |
| Operations and events | `A/operations`, `volcanoes/events` (1k) | subscribers, delivery metrics | publish, deliver, fan out | events: environment of the supervisor model; operations: not modelled |
| Trade pipeline | `volcanoes/{execution,risk,portfolio,sizing,forge}` | paper ledger, portfolio | plan, approve, build an order | environment (a plan is approved or rejected) |
| Broker adapters | `broker`, `adapters` | the broker's own | submit, positions | external |
| Scanners, strategies, indicators, backtest, analytics | `scanner_engine`, `global_rotation`, `volcanoes/{scanner,strategy,indicators,backtest,analytics,market}` | dataframes | numeric pure functions | not modelled |
| Dashboards and scripts | `app.py`, `scripts`, `prototype`, `spikes` | none | presentation, certification scripts | not modelled |

How they interact. `engine/supervised_brain.py` sends scanner signals through
`ExecutionSupervisor.execute`, which calls the preview and submit services in
the calling thread; these publish events through one publisher, whose exceptions
propagate into their callers, and call the broker. The durable subsystem is
separate and meets the rest only through the database: intake writes a pending
aggregate, any number of processes call `apply_once` on it, an operator moves
the dispatch control, start-up migrates, runs integrity checks and discovers
what was left over, and an operator recovers an execution whose outcome is
unknown. Before any of it, the dry run rehearses a command against the same
eligibility policy and lifecycle table. Qualification is a third machine: its
service executes commands against one run, called by a scenario harness, by
operators and, through facade and boundary, by the shadow, whose results a
recorder accumulates until a policy judges them.

What is hard, per component:

* *Controlled submission.* Callers in different processes race on a command, on
  a submission identity and on an idempotency key; the stop races with the
  authorization and the recording; the boundary may raise while the order is on
  its way; the process may die between any two transactions; two orders may
  receive the same broker reference; the recording may fail silently.
* *Supervisor and services.* Threads race on a symbol, a fingerprint and a key;
  the clock is read before the lock it is compared under; a publisher that
  raises turns a submitted order into a failed result that may be retried.
* *Intake and in-memory persistence.* Two callers present one key or one
  payload; units copy the shared dictionaries without the lock while others
  publish field by field; the stop is saved between the units of a dispatch.
* *Recovery and start.* Two operators hold different recoveries of one
  comparison; a process dies between preparing and executing; processes
  migrate at once; one row that fails the start check keeps everybody out.
* *Qualification.* Run, command record and evidence are written by separate
  port calls, any of which may fail or lose a race; the restart row takes the
  run wherever its caller says; evaluations of the shadow move the run they
  observe.
* *Dry run.* What was promised before is known only if the caller kept it.
* *Lifecycle, reconciliation.* Guards over many fields; replay and conflict
  of an event already accepted; terminal states that are not absorbing.
* *Persistence.* Compare-and-swap revisions, a journal whose uniqueness limits
  which paths can ever be walked twice, pages whose cursor moves while rows
  are inserted.

Correctness, per component, is listed with the properties in sections 4 to 7;
the hazards, at their lines, are in `PROJECT.json`.

## 2. Plan

Done, in this order:

1. `PaperSubmission` with its abstraction `OneShotDispatch`: invariants and
   refinement proved.
2. `SupervisedExecution`: the supervisor and the services under it; invariants
   proved.
3. `LifecycleTransitions` (the table as data) and `ExecutionLifecycle` (the
   engine, under callers that lose, repeat and delay inputs); invariants proved.
4. `QualificationTransitions`, `QualificationScenarios`, `QualificationCampaign`:
   table, scenarios and service; invariants proved. `ShadowObservation`: the
   shadow beside the runtime; invariants proved.
5. `TransactionalIntake`: intake, dispatch and control over both adapters;
   invariants proved.
6. `OperatorRecovery`: start, migration, discovery and recovery by processes
   that race and die; invariants proved.
7. `Eligibility` and `PaperDryRun`; invariants proved.

To do:

8. An abstract specification of what a unit of work promises (all or nothing,
   one claim per key), and that `TransactionalIntake` over SQLite implements it.
9. Outbox and paged discovery, once the code has a consumer of either.
10. Subscribers that call back into the service that published.

## 3. Modules

| Module | Models | Composition |
|---|---|---|
| `PaperSubmission` | durable one-shot dispatch | instantiates `OneShotDispatch` under a refinement mapping |
| `OneShotDispatch` | what it promises | abstract |
| `PaperSubmissionProofs` | theorems about it, the refinement included | extends `PaperSubmission` |
| `SupervisedExecution` | supervisor, preview and submission services, publisher, broker | |
| `SupervisedExecutionProofs` | theorems about it | extends it |
| `LifecycleTransitions` | states, inputs and the 30 rows of the lifecycle | |
| `ExecutionLifecycle` | `transition`, `apply_transition`, `compare_reconciliation_facts` | extends `LifecycleTransitions` |
| `ExecutionLifecycleProofs` | theorems about it | extends it |
| `TransactionalIntake` | intake, claim, authorization, outcome and control over two adapters | |
| `TransactionalIntakeProofs` | theorems about it | extends it |
| `OperatorRecovery` | start, migration, recovery over one database | extends `LifecycleTransitions` |
| `OperatorRecoveryProofs` | theorems about it | extends it |
| `Eligibility` | the eligibility criteria and decision | |
| `PaperDryRun` | the rehearsal of a command | extends `Eligibility` and `LifecycleTransitions` |
| `PaperDryRunProofs` | theorems about it | extends it |
| `QualificationTransitions` | states, the 35 rows, `Decide` | |
| `QualificationScenarios` | approved scenarios, their validation, a step's assertions | extends `QualificationTransitions` |
| `QualificationCampaign` | the service, its ports, harness and operators | extends `QualificationScenarios` |
| `QualificationCampaignProofs` | theorems about it | extends it |
| `ShadowObservation` | facade, boundary, shadow, recorder, readiness | extends `QualificationTransitions` |
| `ShadowObservationProofs` | theorems about it | extends it |
| `MC*` | finite instances | extend the module they are named after |

`None` is SQL `NULL` or Python `None`. Operators whose comment begins with
"Mutant:" are alternatives that a plausible mistake would have produced; nothing
uses them but the mutation of the definition that follows, which every property
must notice.

### PaperSubmission

An action is **one SQLite transaction** (`BEGIN IMMEDIATE` to `COMMIT`) or one
step outside any. `Workers` are concurrent callers of
`ControlledPaperSubmissionService.apply_once`, in threads or processes with a
connection each: transactions serialize, everything between them interleaves.

| Variables | Code |
|---|---|
| `control`, `aggregates`, `journal`, `claims`, `authorizations`, `resolutions`, `brokerReferences` | the tables of the same purpose (V001 and V004 migrations) |
| `pc`, `request`, `now`, `outcome`, `answer` | the locals of `apply_once` in one worker; lost by `Interrupt` |
| `broker`, `effects`, `clock` | environment: each command's order, how often the broker took it, wall clock |
| `permitted` | history: generations whose control row permitted dispatch |

| Actions | Code |
|---|---|
| `Start` | a call of `apply_once` |
| `AcquireExisting`, `AcquireBlocked`, `AcquireMismatch`, `AcquireClaim` | the claim transaction of `_acquire` and its early returns |
| `Authorize`, `AuthorizeRefused` | the second transaction: the final guard and its refusals |
| `RejectOrder` | `_normalize` fails on the claimed payload |
| `Dispatch`, `ReturnObservation`, `ReturnUnknown`, `ReturnPreDispatch` | the boundary is called, returns, raises, or refuses before any effect |
| `BrokerReceives` | the broker takes or refuses an order on its way, perhaps after the boundary has raised |
| `Record`, `RecordRefused`, `RecordFails`, `FindConflict`, `RecordConflict` | `_record_resolution`: outcome, edges, aggregate and reference in one transaction; refusals; exceptions swallowed; the reference conflict recorded by a further transaction |
| `Replay` | `_replay` reads the resolution |
| `Intake`, `SaveControl`, `Tick`, `Interrupt` | accepting intake, the operator's compare-and-swap on the control, time, a crash or an exception out of the call |

A submit command owns one aggregate, one idempotency key and one approval, so
the four share a name. A crash loses a worker's memory at any point between two
actions; the tables stay. The journal is kept row by row because the integrity
queries run at start-up are about it.

### SupervisedExecution

An action is what one thread does between two points at which another thread,
the broker or the clock may act: a section under `_lock` or `_submission_lock`, a
broker call, a clock read, a publication. Publications run in the caller's
thread, so they may raise into the code that published.

| Variables | Code |
|---|---|
| `activeSymbols`, `inFlightKeys`, `inFlightFingerprints`, `successfulFingerprints`, `completedByKey`, `lastSuccess` | the sets and maps of `ExecutionSupervisor` |
| `submittedRequests`, `inFlightRequests` | those of `SubmitTradeService` |
| `pc`, `request`, `snapshot`, `now`, `result` | locals of one call in one thread |
| `working`, `held`, `placed`, `lastOrder`, `clock` | the broker's open orders, positions and the orders it took; the clock |
| `announced`, `calls` | history: terminal events published for the call; calls made |

`ReadPositions` and `ReadOpenOrders` capture the snapshot, two broker calls
before admission; `ReadClock` and `Admit` or `Skip` are `_admit`; `Preview`,
`Reserve`, `ReserveDuplicate`, `Take`, `CallBroker`, `Announce`, `Release` are the
two services; `Complete`, `Reject` and `Abort` publish the terminal events;
`Interrupt` is a `BaseException`; `ClockOut` and `Finish` are `_finish`.

The planner is a pure function of a frozen snapshot and of a trade. Within one
supervised call the submission service plans on the very snapshot the preview
used, so its drift check compares equal plans; neither has an action. A plan is
reduced to its `size` because the service's duplicate guard compares whole
requests, expected plan included, while the supervisor compares fingerprints
without it.

### ExecutionLifecycle

An action of the engine **delivers one input**: load, `transition`,
`apply_transition`, save. `messages` are inputs under way, each with the
revision its caller read when it issued it, so that the moments of reading and
of delivery interleave with everything else; delivering leaves the message under
way (it may come again), `Forget` loses it, `Reissue` is a caller that was told
it is stale. `RefuseStale`, `RefuseConflict`, `Replay`, `Refuse` and `Accept` are
the outcomes in the order in which `transition` looks for them.

| Variables | Code |
|---|---|
| `lifecycle` | the `PaperExecutionLifecycle` fields that guards or effects read |
| `accepted` | the identities among its accepted inputs |
| `messages` | `PaperExecutionLifecycleInput` with `PaperExecutionTransitionContext` |
| `order`, `reports` | environment: the broker's order and what it has reported |
| `answer` | the decision on an input that was accepted before |

The table is data: `TransitionSpecs` has the 30 rows with their identifiers,
sources, input and destination. `at` stands for command and observation
identifiers: the revision at which a command was first issued, the cumulative
fill of an observation. Callers are *truthful* (they report what the broker
reported and reconcile from facts they read) but not prompt, and not exactly
once. `FillsReported` says whether acknowledgements, cancellations and
reconciliation results always carry the cumulative fill. Refusals for a foreign
aggregate or outside Paper mode change nothing and are left out.

### TransactionalIntake

A caller runs one job: an intake, a dispatch (claim, authorization, outcome) or
a change of the control, each a **unit of work** over one of two adapters. Over
`"snapshot"`, the process-local one, a unit copies the shared fields one at a
time without the lock (`CopyField`), stages its writes on the copy (`Stage`),
validates them under the lock on a further copy of the latest state
(`Validate`), and publishes that copy field by field (`Publish`), which units that
are still copying can see half done. Over `"immediate"`, SQLite, the unit holds the
write lock from its first statement: `BeginImmediate`, `Busy` when the lock does
not come free, `CommitImmediate`, `Crash`. `store` are the collections, `view` the
unit's copy, `writes` what it staged, `answer` what its caller was told. `Clash`
operators are the checks at commit, `Refusal` operators those on the copy.

### OperatorRecovery

A process starts a runtime (`Start`, then the migrations, `ValidateSchema` and
`CheckRecords`), discovers the execution and works through the protocol of the
acceptance tests, **one transaction per step**: require reconciliation, record the
comparison, prepare the recovery command with its reservation and approval,
execute it with journal entry and aggregate. `BeginUnit`, `Commit` and `RollBack`
are the transaction; `Stop` is a clean stop or a death, before, inside or
between transactions. `db` has the tables; a write's status is an operator
(`RegisterStatus`, `ReserveStatus`, ...) and the first conflict blocks the unit,
as `mark_conflict` does. The callers are those of the tests: they commit if all
writes were new or all were replays.

### Eligibility and PaperDryRun

`Eligibility` has one operator per criterion and the decision over them. `Execute`
is the executor: replay or conflict against the prior result, reconciliation
required, then the eligibility decision, and `Walk` takes the lifecycle along the
path to `READY_FOR_DISPATCH` row by row until a guard fails. The caller
(`Tick`, `Reload`, `Rehearse`, `Adopt`, `Lose`) is external: nothing in the code
keeps a result.

### QualificationCampaign and ShadowObservation

`QualificationTransitions` has the 35 rows and `Decide`, `transition` with its
order of checks. In `QualificationCampaign` a call of
`PaperQualificationService.execute` is a sequence of **port calls**: `Load` the run,
`ReadPrior` the command record and decide, `RecordEvidence`, `SaveRun`,
`RecordCommand`; before any of them `PortFails`. Calls interleave at each. The
harness (`Start`, `Look`, `Judged`) sends the steps of a scenario and holds the
answers against them; operators send commands the table has a row for, repeat
them, or send them under another key. `stored`, `records` and `evidence` are the
ports' contents, `trail` and `proposals` history.

In `ShadowObservation` an observer puts an evaluation through boundary, facade and
service (`Ask` to `RecordCommand`), and hands the comparison with the legacy
decision to the recorder once or more (`Record`); deliveries of the runtime move
the same runs. `Mismatches` and `StatusFor` compare, `Classified` compares a result
with those of the same identity, `Decision` is the assessment.

## 4. Runs

| Run | Properties | What it shows |
|---|---|---|
| `race` | `TypeOK`, `AtMostOneEffect`, `EffectUnderPermit`, `VerdictIsTruthful`, `StartupChecksPass`, `AnswersAreDurable`, `LossHasCause`, `ImplementsOneShot` | two workers and two commands that may both be dispatched, a reused submission, a foreign key, the open control and one that refuses for each reason, an expiring approval, crashes, storage faults, late answers and broker references that clash, so that a conflict is found and recorded: the protocol implements `OneShotDispatch` |
| `calm` | `AuthorizedIsResolved` | three commands, the order of one of which cannot be normalized; with fairness, without interruptions, storage faults or a moving control, authorized commands are resolved |
| `faults` | `TypeOK`, `NoOverlap`, `BooksBalance`, `SubmittedIsPlaced`, `CompletedIsFinal`, `SymbolIsFreed` | every exception of publisher and broker, lost responses and `BaseException`s; with fairness, symbols are freed through every failure |
| `reliable` | `OneOrderPerTrade`, `CooldownKept` | with reliable publications and responses, one order for one trade; the cooldown holds at the broker |
| `lifecycle_ways` | `TypeOK`, `FlagsAgree` | every input and every row from creation on, fills unstated included |
| `lifecycle_races` | `LocalFollowsBroker`, `FillsOnlyGrow`, `AdvancesOnce` | two inputs under way while the broker fills: lost, repeated and overtaken observations |
| `intake` | `TypeOK`, `AcceptedIsWhole`, `AnswersHold`, `ClaimsFollowReservations`, `AuthorizedUnderControl` | three callers over either adapter: an accepted command is whole, answers agree with the records, the stop holds between the units of a dispatch |
| `intake_key` (violation) | `OneCommandPerKey` | over the process-local adapter two commands are accepted for one key |
| `recovery` | `TypeOK`, `StartsPass`, `RecoveryIsOwned`, `AnswersHold` | two operators start, migrate, recover and die: no start is refused, every advance is by a durable command, answers stay true |
| `campaign` | `TrailIsEvidenced`, `ReplayedWasMade`, `SentOnce`, `PassedWasPerformed` | a harness and an operator command one run, and one port call fails |
| `observation` | `ReadyAccountsForRuns`, `AgreedActionsAreMoves`, `NotReadyIsFinal` | two observers and the runtime move two runs; one submission is asked for under two keys, and facades describe no order, the one asked for or another: readiness accounts for what the evaluations moved, and what is agreed on was done, once |
| `dry_run` | `DispatchIsEarned`, `DispatchedOnce` | a caller rehearses while time, facts, policy and execution move: dispatch is promised exactly when every gate holds at once |

Bounds. *Two workers, two commands* are every pair that can collide: a claim,
a reference and a submission are each contested by two. *Three control
generations* give open, stopped, open again, and one generation a stop between
any two transactions. `race` has valid orders only, as every clash of references
takes two dispatches; orders that fail are dispatched beside two valid ones in `calm`,
and the proofs cover both at once. One clock tick separates the reads of an expiring
approval. *Two threads and two or three calls* let one workflow wait out another
and a third meet what the first left behind; the cooldown run needs clock values 0
to 3 for reads on either side of the window of 1. In the lifecycle *three units*
allow two partial fills before the last, *two inputs under way* let one overtake
another (three would order the same pairs), and revisions up to 12, or 10 where
the intake has left 5, let every row of the table but one be taken in
`lifecycle_ways`, and all those after the intake but aborting and giving up in
`lifecycle_races`. The one is PX-TRN-026, the consistent reconciliation: the
aggregate is compared in `RECONCILIATION_REQUIRED` or, before it,
`OUTCOME_UNKNOWN`, which no order at a broker amounts to, so that
`compare_reconciliation_facts` finds no truthful facts consistent.

*Intake: three callers*, so that a third unit may publish while one copies and
another validates; four requests that share command, key, aggregate or approval
pairwise; a request may be durable beforehand, so that dispatches need not wait for an
intake among the three. *Recovery: two processes* contest every transaction;
six requests, one per way two recoveries can disagree; databases found at
versions 0, 3, 4 and 5; two deaths, so that a resumed process may die again.
*Campaign: one operator beside the harness*, two commands of his that may leave
evidence and one failed port call; three scenarios, one of which repeats the send,
one of which ends rejected and one of which is not executable; restarts recover the same state
or reconciliation. The commands of an operator are those the table has a row for,
any other being rejected without effect. *Observation:* two observers, two runs, three
results, one failure: a policy strict in everything but asks for three results of two
identities, where `strict_validation_policy` asks for four; three suffice for a repetition beside
a second identity and for two results that contest one move.
*Dry run:* an approval valid for one of three instants, each fact missing once,
four commands and four policies. The proofs lift the bounds for what they cover.

The runs of `SupervisedExecution`, `ExecutionLifecycle`, `TransactionalIntake`,
`OperatorRecovery`, `QualificationCampaign`, `ShadowObservation` and `PaperDryRun`
switch the deadlock check off: their bounds (calls, clock, revisions, messages,
jobs, deaths, results) end behaviours, and an idle system may stop by itself.

Symmetry is used over workers, references, threads, callers, observers and
keys, in safety runs only.

## 5. Fairness

`PaperSubmission!FairSpec` assumes weak fairness of `ApplyOnce(w)`, the steps of
a call that has begun: straight-line code whose transactions wait for a bounded
time, and a one-shot boundary that returns or raises (a time-out is
`ReturnUnknown`, always possible). Nothing is assumed of the broker, the
operator or of new calls. `SupervisedExecution!FairSpec` assumes weak
fairness of `Execute(t)`: both locks are held over straight-line code, and the
broker, the publisher and the clock return or raise. The other modules assume
none: a caller of the engine, an operator or an observer need not go on, and
their properties are safety.

## 6. Proofs

TLAPS checks, for every value of the constants that satisfies the modules'
named assumptions (the bounds may be any number and the sets infinite):

| Theorem | States |
|---|---|
| `PaperSubmissionProofs!TypeCorrect`, `OneEffect`, `PermittedEffect`, `TruthfulVerdict` | `TypeOK`, `AtMostOneEffect`, `EffectUnderPermit`, `VerdictIsTruthful` |
| `PaperSubmissionProofs!StartupChecks`, `DurableAnswers` | `StartupChecksPass`, `AnswersAreDurable` |
| `PaperSubmissionProofs!LossIsExplained` | `LossHasCause` |
| `PaperSubmissionProofs!Refinement` | `Spec => ImplementsOneShot` |
| `SupervisedExecutionProofs!TypeCorrect`, `Exclusion`, `Balance`, `TruthfulRecords`, `CompletedStays` | `TypeOK`, `NoOverlap`, `BooksBalance`, `SubmittedIsPlaced`, `CompletedIsFinal` |
| `SupervisedExecutionProofs!OneOrder`, `Cooldown` | `OneOrderPerTrade`, `CooldownKept`, assuming `Dependable` |
| `ExecutionLifecycleProofs!TypeCorrect`, `FlagsTheorem`, `AdvancesOnceTheorem`, `FillsOnlyGrowTheorem` | `TypeOK`, `FlagsAgree`, `AdvancesOnce`, `FillsOnlyGrow` |
| `ExecutionLifecycleProofs!LocalFollowsBrokerTheorem` | `LocalFollowsBroker`, assuming `FillsReported` |
| `QualificationCampaignProofs!TypeCorrect`, `EvidencedTrail`, `ReplaysAreTrue`, `PassIsEarned`, `RunAdvancesByRows` | `TypeOK`, `TrailIsEvidenced`, `ReplayedWasMade`, `PassedWasPerformed`, `AdvancesByRows` |
| `QualificationCampaignProofs!SendIsProposedOnce` | `SentOnce`, assuming `RecoversForward` |
| `OperatorRecoveryProofs!Typing`, `StartsAlwaysPass`, `RecoveryOwned`, `AnswersStayTrue` | `TypeOK`, `StartsPass`, `RecoveryIsOwned`, `AnswersHold` |
| `TransactionalIntakeProofs!Typing`, `IntakeIsWhole`, `AnswersStayTrue`, `ClaimsAreExclusive`, `ControlInForce` | `TypeOK`, `AcceptedIsWhole`, `AnswersHold`, `ClaimsFollowReservations`, `AuthorizedUnderControl` |
| `PaperDryRunProofs!EarnedDispatch`, `OneDispatch` | `DispatchIsEarned`, `DispatchedOnce` |
| `ShadowObservationProofs!AgreementIsEarned`, `ExclusionIsFinal` | `AgreedActionsAreMoves`, `NotReadyIsFinal` |
| `ShadowObservationProofs!ReadinessAccounts` | `ReadyAccountsForRuns`, assuming `Strict` |

The hypotheses of the five conditional theorems are formulas of the constants that
the run of the property satisfies, and each marks the limit of what the code
promises (section 7 has what happens outside it). `FillsReported`: callers state the
fill of what they report. `Dependable`: no publication raises, no answer
is lost, no workflow is interrupted. `RecoversForward`: no restart names a state from
before the send (`recovered_state` is checked by nobody,
`A/qualification/state_machine.py:284`). `Strict`: the policy asks for a match ratio of one,
as `strict_validation_policy` does.

*PaperSubmission.* `IInv` is `TypeOK`, `Elected`, `OwnerPhase`, `Ledger` and
`VerdictIsTruthful`. One effect per command does not follow from itself: that a
worker about to dispatch finds the order unsent (`OwnerPhase`) needs that no
other worker is past authorization of the same command (`Elected`), which needs
that an owner's command is claimed and unresolved; and the count of effects must
be tied to the fate of the order (`Ledger`). `OwnerPhase` also says that what a
worker is about to record is already true and stays true whatever the broker
does, for an `OUTCOME_UNKNOWN` order may still arrive. The refinement maps the
gate to the control row's permission, grants to authorizations, fates to the
broker's state and verdicts to resolutions; each transaction is one abstract
step or a stutter.

`StartupChecksPass` needs more (`BindingsInv`): of each claim, that its command is
registered with the approval and generation it names (`Registered`), and of each
resolution, that its attempt is the claim's (`Attempted`). A definite answer is
durable because it is read in the transaction that gives it and no row of a resolved
command is written again. `LossHasCause` says when outcome evidence may be lost at all.
It rests on `Steady`: a generation whose row permits dispatch permits it for as long as
it is in force, and the owner that a conflict names stays the owner, so that the second
recording transaction cannot be refused for the reference. What is left of the guards
of a recording are its three causes, and each of them, once there, stays.

*SupervisedExecution.* `IInv` is `TypeOK`, `NoOverlap`, `BooksBalance`,
`Progress` and `SubmittedIsPlaced`. The sets and the running workflows must be
equal, not merely contained: admission looks into the sets, so that nothing
missing from them gives `NoOverlap`, and `NoOverlap` gives that `_finish`
of one workflow removes nothing of another. `Progress` records what a workflow
has come to, above all that the key of an admitted workflow has no result yet,
from which `CompletedIsFinal` follows.

`OneOrderPerTrade` and `CooldownKept` come from `Orders`: a trade that the broker
took is remembered by fingerprint until the supervisor has it, and the order a
workflow is about to place is younger, by the clock it read, than the last success of
its symbol. Both instants compared are read outside the lock; the order between them
survives because the symbol is held from admission to finish.

*ExecutionLifecycle.* `IInv` is `TypeOK`, `OrderHolds`, that every report and
every message under way holds (`ReportHolds`, `MessageHolds`), and
`AggregateHolds`. A fill carried by a late reconciliation result could fall
behind the aggregate; it does not because the result expects a revision, and on
that revision nothing has been recorded since it was read (`ResultHolds`).
Unguarded acknowledgements can only take the fill from zero, as their rows start
in states that no fill has reached (`Unanswered`), which is a fact about the
table proved row by row.

*QualificationCampaign.* What a call loaded may be behind the run by the time it
saves. `IInv` says of each call what it loaded (`LoadedIsOfTheRun`: the run as it is,
or a smaller revision), decided (`DecidedByARow`) and wrote (`WrittenIsThere`). A
revision is never taken twice, so a call whose revision is still the run's loaded
the run as it is, and only such a call can save (`OnlyTheCurrentSaves`): hence every
save is one row from the state stored, and its evidence was written before. That
the harness passes only what was made needs that its call is its current step's
(`HarnessFollows`) and that a rejected step is the last (`WellFormedSteps`), which
is an assumption: the approved scenarios satisfy it, no validation enforces it.

`SentOnce` needs of the call in flight that the run is past the states of `Unsent`
once one call sends (`SendsOnce`), and that no row leads back into them.

*TransactionalIntake.* The theorems hold over both adapters at once. A commit of the
process-local one replaces the records field by field, and units copy them meanwhile,
so the records never need be whole while another unit reads. `IInv` therefore has three
layers. `Coherent` holds of the shared records at any moment: a command is as it was
requested, a claim is of the command that owns its key and excludes the rest.
`Settled` (with `Whole`: aggregate, command, approval and journal agree) holds when
nobody publishes, and of the copy that is about to be published: `Ready` says that
what is half out is settled as a whole, extends what was there, and makes good what its
caller will be told. Between them, `Copied` says of a field that a unit copied
only what survives: the shared one has grown since (`IsCopy`, `Grows`), or is the same
under the write lock of SQLite. `Waiting` says what a unit staged (`IsStaged`), whatever
the store has become; that it fits (`Fits`) is what validation at commit finds out in
the process-local adapter, and what nothing could disturb since the refusals were
evaluated in SQLite. One lemma about `Applied` then serves both commits. That the
half-published records are coherent is due to the order of the fields (`FieldOrder`):
aggregates go out before journals, commands and reservations before claims, claims
before authorizations and these before resolutions. The run `intake` checks the layers'
consequences; `IInv` itself was checked by TLC on that instance before it was proved.

Assumed of the constants (`IntakeAssumption`, `NoneAssumption`): the values for
absence are different from the rest; attempts are of requests; the callers
are finitely many, as the generation counts those that were told their change is
saved; and **two requests with one command identity and one payload are one
request**. The last is a duty of the callers (an identity is of one immutable
envelope, `E/identities/command_id.py:13`) which the intake does not check: it compares payloads,
and in its tests a payload is the order and names no aggregate. Without it the
process-local commit would keep the first command and take a second aggregate for it,
much as in the finding `intake_key`.

*OperatorRecovery.* `IInv` is a conjunction of what each part of the database says of
the others and of what each process holds. `MigrationsInOrder`: versions are
recorded one after another, so that nobody migrates over a later schema.
`JournalInv`, `HistoryInv` and `AuthorityInv`: the journal is a chain of recoveries
without gap, ending where the aggregate is; every history, command, reservation and
approval was written by one unit from a command that could be built, whole; and
an approval names the revision its command expects. `WorkInv`: a process inside its
transaction works on the database as it is, for no one else writes; outside, what it
discovered may be behind, and the revision that every write compares decides.
`StartInv` carries a start through its phases. `AnswerInv` keeps what was told: a
statement about rows which are never rewritten, so that it stays true. The model
assumes of its constants (`RecoveryAssumption`, `NoneAssumption`) that
requests of the same evidence have the same outcome, as the fingerprint of the
evidence covers the decision, that a recovery's command is not the command that
created the execution, and that the values for absence are different from the rest.

*PaperDryRun.* Whether a rehearsal promises dispatch is a function of its input and of
the result presented; the proof follows the four inputs of the path through the
lifecycle's table, row by row. The invariant adds that a caller which has lost its
result has nothing kept that was dispatched.

*ShadowObservation.* The harness holds a bag of results, and what is counted is pairs of
a result and an occurrence (`Copies`), so that monotonicity and "all are matches" become
facts about finite sets, without induction over a sum. Recording only adds, hence each
count only grows and `NotReadyIsFinal` (`ExcludedForGood`). For `ReadyAccountsForRuns`
the invariant `MovesAreKept` follows a move from the save that made it through the call
(`Underway`), which may fail after it, to the harness (`OnRecord`): an evaluation ends
only in a result that is recorded, and what is recorded of it is a match with that very
move or no match, which a `Strict` policy excludes. `AgreedActionsAreMoves` needs beside it
that what is agreed was earned (`Earned`): the result of a refused or failed call reports no
action or is an error, and a match that names an action was accepted and saved. That two
keys never agree on one move is the compare-and-swap of `Save`: a revision of a run is
reached once, so that no two moves lead to one (`RunsOK`).

Model-checked only: liveness (`AuthorizedIsResolved`, `SymbolIsFreed`), which with
`ENABLED` is outside the prover; and the violation run. No recursive operator occurs in
the project, and no induction over data is needed.

## 7. Findings and limits

With a run of its own:

* `intake_key`: the commit of the process-local adapter takes a reservation of
  the same key and payload for a replay and goes on to write the command it came
  with (`E/persistence/in_memory/unit_of_work.py:442`), so two commands are
  durable as accepted under one key, against
  `docs/reviews/SENTINEL_ADR_007_IDEMPOTENCY_AUDIT.md:23`. The second can never be
  claimed. Over SQLite `AcceptedIsWhole` includes `OneCommandPerKey`, and holds.

Seen in the models, where the code and what its documents say of it part:

* The recording transaction checks the control again (`Q/unit_of_work.py`
  at 347 and 386), so any control update after the final guard makes the outcome
  of a sent order unrecordable for ever; ADR-009:36 says the third transaction
  records the resolution. `calm` therefore leaves the control alone; that the
  evidence is lost for this and two other reasons only is `LossHasCause`.
* An exception of the publisher after the broker took the order (`submit_trade.py:390`)
  makes the supervisor forget the fingerprint, and the trade may be ordered
  again, against ADR-0005:58. `reliable` therefore has reliable publications.
* The snapshot is captured before admission (`supervised_brain.py:88`), against
  ADR-0006:67, a fresh snapshot for each admitted candidate: two orders of one
  symbol can be open together.
* The lifecycle compares the revision before it looks up the prior input
  (`state_machine.py:93`), so a repeated command is stale and never a replay,
  against ADR-006:114.
* The restart row of qualification takes the run to any active state its caller
  names (`A/qualification/state_machine.py:284`), `SUBMISSION_PENDING` after the
  send included; the transition document speaks of the verified durable state
  (`V41_PQ_001_TRANSITION_TABLE.md:72`, `:135`). `SentOnce` is checked for restarts
  that recover the same state or reconciliation.

Without such a document, but worth knowing: the final guard compares the
approval with an instant read before the claim transaction; a delivered
`ExecutionCompleted` whose publication raises is followed by
`ExecutionAborted`; `FAIL_TERMINALLY` leaves terminal lifecycle states,
`ABORT_BEFORE_DISPATCH` is accepted while the order may have been sent, and both
rows around the dispatch carry the intent `WOULD_DISPATCH`. A unit whose caller
ignores statuses and mixes new rows with replays of another recovery commits what
the start check refuses, and no process starts again; a recovery that was
prepared and then superseded stays pending. In the dry run eligibility expires at
`expires_at` while the claim still accepts that instant; the request's fingerprint
leaves the prior result out; a lifecycle adopted part of the way never promises
dispatch again; the command's own expected revision is not compared with the
lifecycle's, so a cancellation of a fresh lifecycle rehearses as dispatch. In
qualification an operator's rejection can be followed by `QUALIFIED` through row
032, a late fill has no row while a cancellation is requested, and the facade fails
a repeated accepted request. In the shadow, the shipped facade
describes actions without an order, so that with it a legacy decision to proceed never
matches and a strict policy is never satisfied by evidence that has one; a facade that
describes orders can match (`A/qualification/integration/shadow.py:562`), and then
`PROCEED` agrees also with `NO_RUNTIME_ACTION_REQUIRED`, which is what a refused command
calls for.

Not modelled, by choice: decimal arithmetic, indicators, strategies, backtests
and analytics (numeric functions without lasting state), presentation and
scripts, checksums and file handling, metrics, the certification harness, and the
fan-out of `A/operations` (sinks called in order in one thread, failures
collected). Limits of what is modelled: the lease fields and the outbox of the
persistence layer; paged discovery; reconciliation rows of the process-local
adapter; subscribers that call back into the service that published; a clock that
raises; callers that preview long before they submit; the manual order path, with
one service per call; the replacing order after a replacement, whose intake the
code does not have; a broker whose reports contradict each other; scenarios whose
policy continues after an expected rejection.

Simplified in what is modelled:

* *Lifecycle.* A context may state the order's quantity, which goes before the
  aggregate's; only observations state it, and they state the order's true quantity.
* *Recovery.* Of the checks at start, those of dispatch claims and outcomes, of the
  control singleton and of broker reference ownership are left to
  `PaperSubmission!StartupChecksPass`; records are never altered, so fingerprints are
  not compared; an approval has no kind, no times and no revocation. A migration that
  finds the database busy or fails leaves its process down and is no refused start.
* *Campaign.* A run that is stored before its start refuses the start
  (`RUN_ALREADY_EXISTS`), but no instance of the campaign stores one; that of
  the shadow does.
* *Shadow.* Of the ratios of a policy there is whether all results must match: both
  shipped policies ask for a match ratio of one or none, and their mismatch ratio says
  no more than their mismatch count. The counts of broken continuity, of violated
  authority and of executed actions are one limit with the invalid results, as every
  one of them makes its result invalid.
  An order is its quantity, 0 where none is named.

What the properties leave out of the hazards they are named for, and why: a
control that moves before the recording loses evidence of an order that was sent, which
`LossHasCause` tells of and nothing forbids; a trade the broker took and the service
forgot needs a raising publisher or a lost response, which `reliable` excludes; an intent
issued anew under a new identity is another input to the lifecycle; a unit of work that
mixes new rows and replays is stopped by its callers only (mutant `AnyStatuses`);
restarts that name a state from before the send are outside `Recoverable`, scenarios that
go on after a rejected step outside `WellFormedSteps`; a caller of the dry run that lost
its result starts over (`Lose` resets the count).
