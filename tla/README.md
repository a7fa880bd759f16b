# TLA+ models of the Drenyra Command Center

This directory models the parts of the repository where several processes act on
shared state and a fault or another request between two statements matters:

- the **job subsystem** (`packages/persistence/src/repositories/*job*`);
- the **mission subsystem** (`apps/api/src/features/missions`,
  `packages/application/src/use-cases/monthly-close`), with its event log and SSE stream;
- the **general journal** and the transactional apply of a monthly close
  (`packages/application/src/use-cases/journal`, `.../monthly-close/posting`);
- **idempotent execution** of commands and messages (`services/idempotency`,
  `services/inbox`);
- the **LLM gateway** with its rate limiter and circuit breakers (`packages/ai/src/gateway`).

TLC checks small instances of each module; TLAPS proves every safety property that the
passing runs check, and that the job pipeline implements its abstract lifecycle, for every
value of the constants.

```
tlc -workers 2 -config JobRegistry.cfg MCJobRegistry     # one run
tlapm JobRegistry_proofs.tla                             # the proofs of one module
```

`PROJECT.json` lists, in machine-readable form, the runs, the source lines behind every
definition, the hazards with the properties that cover them, the findings, the theorems,
and for every checked property one plausible wrong version of the code (a *mutant*, an
operator defined next to the one it replaces) that makes the property fail.

## 1. Inventory

Drenyra is a Bun/TypeScript monorepo: an Elysia API (`apps/api`), a web client, a data
engine, and packages for domain rules, use cases, persistence (Drizzle on PostgreSQL), AI
agents and workspaces. Background work goes through BullMQ on Redis.

| Component | State | Operations | Hard because | Correct when |
|---|---|---|---|---|
| Job execution registry (`postgres-job-execution.repository.ts`) | `job_executions`, `job_outbox` | createOrResolve, replace, markEnqueued, acquireLease, renewLease, complete, fail, markUnknown, resolveUnknown, cancel | transactions at READ COMMITTED with unlocked reads; partial unique indexes decide races | one active execution per identity; an identity that may run once runs again only when its execution was replaced; outcomes are final |
| Outbox relay (`job-outbox-relay.ts`) | claims on outbox events, BullMQ jobs | runCycle: claim, check, queue.add, two UPDATEs | several relays, expiring claims, a crash between any two writes | no accepted execution loses its event |
| Job runner (`job-runner.ts`) | a lease token per invocation | run: acquire, handler, heartbeat, record | BullMQ redelivers, replies are lost, the lease expires under a live handler | the handler of an execution runs at most once; nothing is completed that was not done |
| Recovery sweep (`job-recovery.ts`) | none | SELECT expired, mark each | the row changes between SELECT and UPDATE | crashed executions are settled |
| Reconciliation sweep (`job-reconciliation.ts`) | none | four checks | works beside relays and runners | repairs a divergence and makes none |
| Mission service (`missions.service.ts`, `concurrency.middleware.ts`) | `accounting_missions` (status, version, proposal), `mission_receipts` | create, execute, approve, reject, reconcile | check on one read, compare-and-set on the version the *client* sent | a decision is taken once, on what was reviewed, and is logged |
| Leases and recovery (`mission-lease.service.ts`, `mission-recovery.hook.ts`) | `mission_leases` | acquire, renew, release, assertFencing; runMissionRecovery | every instance recovers at start | a RUNNING mission survives restarts; one owner |
| Monthly close pipeline (`monthly-close-orchestrator.ts`, intent handler, store) | the mission row; one shared step counter | ten steps, then markBlocked / markFailed / markAwaitingApproval | fire-and-forget; two runs of one mission can overlap | a late result changes nothing |
| Journal entries (`use-cases/journal/`, `postgres-journal-entry.repository.ts`) | `journal_entries`, `journal_entry_lines` | create, edit, delete, reject, approve, mayorizar, declarar | every command decides on an entry it read before its transaction; update and delete lock in opposite order | an entry has the lines of one write; what is deleted stays deleted, what is posted stays posted |
| Transactional apply (`posting/`) | journal entries, `accounting_periods`, gates, mission, receipts | execute | one transaction under a period lock | a period is closed by one whole proposal |
| Mission events and SSE (`sse/`) | `mission_events` | appendEvent, getEventsSince, stream | concurrent appends, lost connections, events between catch-up and poll | a client receives every event once, in order |
| Idempotency records (`postgres-idempotency.repository.ts`, `idempotency.service.ts`) | `idempotency_records` | acquire, markCompleted, markFailed, execute | takeover of a stale record while its first owner still works; lost replies | a command takes effect once per key and has one answer |
| Consumer inbox (`consume-once.ts`) | inbox rows | consume | acquire, effect and completion in one transaction | a message is consumed once |
| LLM gateway (`service.ts` and its twin `gateway.service.ts`, `failover.service.ts`, `rate-limiter.ts`) | a circuit and a rate count per provider, in memory | chat, streamChat, reset | checks before an await, results after it | circuits open and close in time; the limit is nearly kept |
| Workspace control, AI swarm, SIRE, invoicing | in memory or per feature | see `PROJECT.json` | asynchronous calls to outside services | |

How they interact. A caller enqueues work with `createOrResolve`, which inserts an
execution and its outbox event in one transaction. A relay claims the event, adds a BullMQ
job and marks the execution ENQUEUED. A BullMQ worker calls the runner, which takes the
lease, runs the handler and records the outcome. The sweeps repair what crashes leave. No
component shares memory: all meet in the two tables and the queue. A mission is created and
executed over HTTP; execute starts a pipeline run nobody awaits, which stores its result in
the mission row; a person approves or rejects the proposal; an instance that starts
re-dispatches every RUNNING mission it can lease. Pipeline runs append events that streams
replay. An approved proposal is meant to be applied to the journal; people and agents write
the journal directly as well. Commands and consumers may run under an idempotency record.

Every part of the repository, modelled or not, is in `PROJECT.json` under `components` with
the reason.

## 2. Modules

| Module | Models |
|---|---|
| `JobTable` | The two job tables: columns, CHECK constraints, unique indexes, one operator per SQL statement. No behaviour of its own. |
| `JobRegistry` | `PostgresJobExecutionRepository` under concurrent callers: createOrResolve and replace as transactions of two steps, every other method as one statement. |
| `JobPipeline` | Relays, BullMQ, runners, sweeps and reconciliation on the same tables, one action per awaited statement, with faults. |
| `JobLifecycle` | What the job subsystem promises, without tables or queues: accepted, started at most once, settled. `JobPipeline` implements it. |
| `Missions` | A mission row, the decision log and the lease under requests, pipeline runs, recovery and crashes. |
| `MissionEvents` | The event log of a mission, its emitters and its SSE streams. |
| `Journal` | Journal entries and their lines under overlapping commands and the transactional apply. |
| `Idempotency` | One idempotency record under repeated requests, in a transaction or on the pool. |
| `LLMGateway` | One gateway process: rate limiter, failover and circuit breakers. |
| `JobRegistry_proofs`, `JobPipeline_proofs`, `Missions_proofs`, `MissionEvents_proofs`, `Journal_proofs`, `Idempotency_proofs`, `LLMGateway_proofs` | Theorems and proofs about the module of the same name. |
| `MC*` | The instances for TLC: symmetry sets, uniqueness policies, proposals, chains. |

### Jobs: state and actions

`exec[e]` is a row of `job_executions` (`st` status, `key` identity, `gen` generation, `tok`
lease token, `lease` live/expired, `class` failure class, `unk` whether the outcome was
ever in doubt, `by` the superseding row), `outbox[e]` the status of its event, and `runs[e]`
a history counter of acquisitions. Time is not counted: a lease or a claim is live until
`LeaseExpires` / `ClaimExpires` happens, at any moment, which covers every timeout value.

In `JobRegistry` a caller's transaction reads (`CreateCheck`, `ReplaceSelect`) and writes
(`CreateInsert`, `ReplaceCommit`) in separate steps; any statement of anyone may fall
between. `Rollback` is the path of a caught unique violation. `replace` supersedes an
execution of any policy and inserts whatever identity its caller names, as in the code, which
checks only the status and the lease token (`0022_job_executions.sql:212` has it that
replacement frees a PERMANENT identity). `Statement` performs any
single-statement method with any arguments, so its workers are *more* liberal than the
runner.

In `JobPipeline` the local state of each relay, runner and sweep has a program counter; a
step is what happens between two awaits. The fault kinds are a crash of a process, a stalled
BullMQ job (the queue redelivers it while the worker lives), a rejected `queue.add`, a
rejected statement of the runner, and the loss of Redis. BullMQ and Redis are external: a job
id is added once while it exists, jobs are delivered at least once, finished jobs are purged.

### Missions: state and actions

`mission` is the row, with version 0 and status NONE before `createMission`. A request has
two or three steps: reading and checking (`executeMission`, `approveMission`,
`rejectMission`), then its updates (`SetQueued`, `SetRunning`, `Decide`), each comparing the
version the client sent. A request that fails a check changes nothing and is no step. A
client sends a version it has been served (`ServedVersions`), not a guess of a future one:
the server never compares the sent version with the one it read, so this is an assumption
about clients, and the web client satisfies it (`useMissionDecision.ts`, `useMissionExecution.ts` send the version the API returned). A pipeline run is `working`, then has a
result to `store`, or an error that was `caught` by the intent handler. A proposal stands
for its evidence hash; the proposal version is the constant 1 in the code. The module is
about the configuration in which `MONTHLY_CLOSE_PIPELINE_ENABLED` is true; otherwise execute
answers 503 and nothing happens. An instance's `phase` is its recovery: `scan` (the SELECT),
`claim` (the lease, and the dispatch without another look at the row), then `serving`; the
five-second timeout only stops the waiting, not the scan. Requests are served in any phase.

### Mission events: state and actions

`log` is the table, `append` the statements of each `appendEvent` transaction (`TakeLock`,
`SelectMax`, `Insert`, `Commit`), and `stream`, `wire`, `received` one SSE connection per
client: the generator, the bytes on the way and what the client has. A client that comes back
sends the id of the last event it has (`LastEventId`). `Insert` knows the unique index, so
that dropping the lock shows as a failed append and not as a duplicate the database would
refuse.

### Journal: state and actions

`entries` and `lines` are the committed tables. A command reads the row (`ReadRow`), reads the
lines in a second query (`ReadLines`), decides (`UpdateEntry`, `UpdateStatus`,
`DeleteEntry`) and then runs the statements of its transaction, each an action: `UpdateRow`,
`DeleteLines` (the snapshot of the DELETE), `LockLines` (its wait), `CommitUpdate`, or
`SelectOwned`, `DeleteLines`, `LockLines`, `DeleteRow`, `Cascade`, `CommitDelete`. A lock is
derived from the state of the transaction that holds it; `DeadlockAbort` is PostgreSQL's
detector. The INSERT writes an entry's lines at once, so a *tag* stands for the lines of one
write. The apply reads its mission, locks the period, posts the proposed entries one by one
(an unbalanced one throws) and commits everything in `Finish`. `mayorizar` always fails: it
looks up its period by the number of the organization in a uuid column. A close gate starts
OPEN, and a mission as APPROVED: `execute` never asks for the mission's status.

### Idempotency: state and actions

`row` is the committed record, `work` the record as the transaction that holds the row lock
sees it. The mode is fixed per behaviour: `tx` (one transaction, as `consume` has it) or
`pool` (every statement commits at once; the INSERT that `acquire` does not await may come
after its SELECT). A request inserts, selects, routes (`Replay`, `Refuse`, `RouteToUpdate`,
`AcquireWithoutRow`), updates under the WHERE clause of its branch (`StillAsSeen`), runs the
handler and settles the record. A request may crash anywhere, and the reply to COMMIT may be
lost.

### LLM gateway: state and actions

`LLMGatewayService` exists twice. The package exports the one of `service.ts`, to which the
model is mapped; `sdk.ts` uses the one of `gateway.service.ts`, whose checks, failover and
counting are the same. JavaScript is single-threaded, so an action is what runs between two awaits: `Begin` (rate
check), `TryNext` (circuit check and call), `CallSucceeds` / `CallFails` (what is recorded),
`WakeUp` after the retry delay. Time appears as two facts: a rate window has expired when a
request arrives, or not; the timeout of an open circuit has passed (`CircuitTimeout`).

## 3. Runs

| Run | Configuration | Shows |
|---|---|---|
| `registry` | a REPLACEABLE, a PERMANENT, a WINDOWED and an ACTIVE_ONLY identity, 3 executions, 2 callers, 2 tokens, 3 transactions | CHECK constraints hold, one active execution per identity, a WINDOWED identity runs once and a PERMANENT one again only if its execution was replaced, "already-final" stays true, generations form a chain, outcomes are final |
| `pipeline_faults` | 1 execution, 2 relays, 2 invocations, 1 sweep, any 2 faults of all kinds | no event is lost, one worker, nothing falsely completed, implements `JobLifecycle` |
| `pipeline_replace` | 2 generations, 1 relay, 1 invocation, 1 sweep, 1 crash | the same while an execution is replaced under way |
| `pipeline_live` | 1 execution, 2 invocations, 2 crashes or stalls | every accepted execution of the first generation ends; a queued one has its BullMQ job |
| `mission_race` | 2 instances, 2 requests, 2 proposals, 2 crashes, 1 rejected statement | an update acts on the row that was checked, the log matches the row, late results are dropped |
| `mission_live` | 2 instances, 1 request, 2 crashes, 1 rejected statement | RUNNING ends |
| `mission_events` | 3 appends, 2 clients, 2 lost connections | no gap or duplicate in the log; clients receive a prefix of it; a connected client receives every event |
| `journal` | 1 draft, any 4 commands, up to 3 at once, 3 missions for one period, 1 lost connection | an entry has the lines of one write, a period is closed by one whole proposal, closing entries stay, deleted entries stay deleted |
| `idempotency` | 2 concurrent requests, 3 sends in all, 2 payloads, both modes | one effect and one answer per key, settled records stay, every request is answered |
| `llm_gateway` | 2 requests at a time without end, 2 providers, thresholds of 2, limit 2 | a closed circuit is healthy, a recovered provider is used again, and *without failover* (which is on by default) the limit is exceeded by less than the requests under way |
| `pipeline_queue_fault` (violation) | one rejected `queue.add` | the execution stays PENDING |
| `journal_posted` (violation) | an edit and an approval, no fault | a posted entry becomes a draft with other lines |

Four more configurations are kept for use by hand; each refutes one property, and section 5
tells what: `JobPipeline_generation2.cfg`, `JobPipeline_stale_sweep.cfg` (with
`MCJobPipeline`), `Missions_owners.cfg`, `Missions_queued.cfg` (with `MCMissions`).

### Bounds, and why they are enough

- *Executions and identities.* Statements touch one row, or an old and a new row of one
  identity. Two executions of an identity show every race on it; the third execution in
  `registry` belongs to another identity or is a third generation.
- *Callers, relays, invocations, instances.* Each interaction is between a holder and one
  rival, so two of a kind. The proofs remove this bound for the safety properties.
- *Batch sizes* of relay and sweep (LIMIT) are at least the number of executions.
- *MaxTx* counts transactions begun in `registry`: two that race and one that comes before or
  after them with an answer, or a row, of the past. *MaxFaults*, *MaxCrashes*, *MaxRejected* bound faults: two let the recovery from a
  fault meet another one.
- *MaxStale* = 1: a request with an older version conflicts just like one that is one late.
- *Journal.* Three commands at once are the smallest number with a deadlock between two
  deletions after an edit; a draft exists at the start so that all three may meet on it. A fourth
  one begins when another has ended. Of
  the missions one has a proposal of two entries, one has a second entry that does not
  balance, one has no proposal; the same mission may be applied twice. Steps that generate an
  id or a tag are guarded by `fresh \in Fresh`; `FreshAssumption` makes `MaxFresh` large
  enough that the guard never holds a step up.
- *Mission events.* Three appends: one that holds the lock, one that waits, one committed.
  Two lost connections let a client lose its second stream too.
- *Idempotency.* An owner and a request that takes over; the third send repeats either of them
  or comes with another payload.
- *LLM gateway.* Rate counts stop at `MaxCount` and failure counts at the threshold; only
  comparisons with the limit and the threshold are made. One rate window is enough: the
  minute and the day are counted alike and both must pass.
- `CHECK_DEADLOCK FALSE` stands where the system may really stop: transactions, commands,
  sends or appends are used up, or nobody decides on a proposal.

### Fairness

`pipeline_live` and the pipeline violations use `FairSpec`: relay, runner, sweep and
reconciliation cycles run on timers and go on unless their process dies; handlers return;
leases and claims expire; BullMQ delivers waiting jobs in order (strong fairness, since the
worker may be busy whenever one looks). Nothing is assumed of callers or operators, nor of
heartbeats. For missions: a request, run or recovery that has begun goes on while its
process lives (every pipeline step has bounded retries), and a stopped instance is started
again, as a deployment does. Nothing is assumed of clients, nor that a lease expires.
For idempotency records, and the journal in `journal_posted`: the next statement of a request is sent when the
previous one answers, a released lock wakes its waiters, and the deadlock detector runs.
For events: statements return, a generator is resumed while its consumer reads, bytes on the
way arrive; nobody has to connect or reconnect. For the gateway: providers answer or fail,
timers fire. `Recovery` is conditional: only if from some time on no call to the provider
fails, and requests keep trying it.

## 4. Proofs

`JobRegistry_proofs` (589 obligations) proves for any sets of executions, identities,
policies, tokens and callers, without the bound on transactions playing a role: `TypeCorrect`,
`ChecksHold`, `SingleRun`, `MutualExclusion`, `OnceUnlessReplaced`, `ChainOfGenerations`,
`OutcomesStand` and `FinalAnswersStand`. The inductive invariant `IndInv` adds to the checked
invariants what they rest on: an unused row never ran, only a RUNNING row has a lease, what
the first step of a transaction read and is still true when its second step commits
(`CallersRemember`), and that two rows of a once-only identity are there only after a
replacement (`OnceOnlyRows`): the unique index of PERMANENT and PERMANENT_BY_INPUT blocks until
the row is SUPERSEDED, which is for ever, and the one of WINDOWED blocks always, so that
`replace` with the same identity fails there. The lemma `StatementEffect` reduces the twelve single-row methods to one description of what such
a statement may do, so that the invariant is proved against that description instead of
twelve times. `FinalAnswersStand` assumes that no identity is PERMANENT_BY_INPUT: for
these the code answers "already-final" about a PENDING row with another input hash.

`Missions_proofs` (392 obligations) proves `MissionTypes`, `UpdatesActOnCheckedRow`,
`LogHoldsTheDecision` and `DecisionsStand` for any number of instances, requests, proposals,
crashes and rejected statements. `CheckedRowIsCurrent` is not inductive; `IndInv` adds the
order each request keeps (`ReadsAreOrdered`: sent version <= read version <= current version,
and equal versions mean equal rows). It holds because every write of the row counts the
version up (`OrderKept`), and it is the reason why comparing the client's version is as good
as comparing the one that was read. `DecisionMatchesLog` then needs only what the checks
established (`ReadsAreChecked`).

`JobPipeline_proofs` (1345 obligations) is about any number of executions, relays,
invocations, sweeps and faults. The properties speak of the tables, but what a relay or a
runner is about to write depends on what it read some steps ago; `IndInv` says which of those
reads cannot become false (`RelaysRemember`: a row that left PENDING does not come back;
`RunnersRemember`: an invocation past acquireLease works on a started execution, and what it
will record as completed was done). Every statement is shown to move a row *forward*
(`TableForward`), and one frame lemma (`Preserved`) then carries the invariant. It gives
`NoLostEnqueue`, `OneWorker` and `CompletionsAreReal`. `PipelineImplementsLifecycle` is the
refinement: `StepRefines` maps each action to a step of `JobLifecycle` or to a stutter.
`QueuedExecutionsHaveJobs` (`EnqueuedHasJob`) is about executions of the first generation,
the one the runner asks for, and holds under the hypothesis `QueueHolds`: no loss of Redis, no
rejected statement of the runner. All three are needed. Each breaks the agreement of queue
and table in the code: nothing adds a job again after Redis lost it; a run() whose acquireLease
rejects uses its job up; and the runner refuses a second generation. Crashes, stalls, rejected
`queue.add` calls and replacements are allowed. Its
invariant `QueueInv` says that a job finishes only when its row was started or settled, and
that a relay about to mark a row ENQUEUED has added its job.

`MissionEvents_proofs` (630 obligations) proves `LogHasNoGap` and `ClientsReceiveAPrefix` for
any number of appends, clients and lost connections. The log rests on the advisory lock: the
maximum that was read is still the maximum at the INSERT (`LockHeld`, `NextIsFree`). For a
client, what it received, followed by the wire, is the log up to `lastSeq`, and the batch of
its generator continues from there (`Feed`); a reconnect starts from what was received.

`Journal_proofs` (1737 obligations) proves `EntriesHaveOneBody`, `ClosingIsAllOrNothing`,
`ClosedEntriesAreFinal` and `DeletedEntriesStayDeleted` for any number of users, missions, drafts, commands and lost
connections, and proposals of any length. `IndInv` says, of a transaction that has written
an entry's row, that no other has, and that the lines it deleted are the lines that are there
(`Holding`, `Apart`); of an apply past its SELECT ... FOR UPDATE, that it is alone, that the
period is open, and that nobody refers to what it has posted (`Posting`, `Apart`); and of a
command on a closing entry, that it has read it as posted and with the lines it was posted
with, so that it can only declare it (`OnClosing`). The lemma `CommitKeeps` reduces the four
commits to the entries they write. A deleted entry comes back from no update because
`update` throws when its UPDATE finds no row, and a transaction that has written
the row holds it against the deletion until it commits.

`Idempotency_proofs` (687 obligations) proves `AtMostOneEffect`, `ClientsAgree` and
`SettledRecordsAreFinal` for any sets of requests and payloads. In mode `tx` they rest on the
row lock (`Locking`, `HoldsLock`), in mode `pool` on what a request may rely on in a row that
others write (`Remembers`): a row never changes its payload hash, and no UPDATE asks for a
settled one.

`LLMGateway_proofs` (522 obligations) proves `ClosedCircuitsAreHealthy` and
`OvershootIsBounded` for any providers, chains, limits and thresholds and any finite set of
requests. A count grows when a call returns, so the bound is on the count *and* the calls
still out (`RateAndCalls`).

Assumptions: the named `ASSUME`s of the modules (a null value outside the sets, bounds that
are naturals, disjoint names, finitely many concurrent requests in `LLMGateway`, enough ids in
`Journal`), evaluated by TLC in every run; `QueueHolds` above, and no PERMANENT_BY_INPUT
identity in `FinalAnswersStand`, are hypotheses of a single theorem, and the constants of the
run that checks its property satisfy them.

Only model-checked: liveness, which is outside the prover's reach (`EventuallySettled`,
`RunningEnds`, `EventuallyAnswered`, `EventuallyReceived`, `Recovery`), and the two
violations. Every invariant and every action property of a passing run is proved.

## 5. Findings

Two places where the code does not do what a comment or a document says are shown by a listed
run (`findings` in `PROJECT.json` quotes the lines):

1. A rejected `queue.add` is never retried: the event becomes FAILED and no query selects
   FAILED events; `next_attempt_at` is never read (`pipeline_queue_fault`).
2. `update` and `delete` of a journal entry act by id on what was read before their
   transaction. An edit that read a draft and commits after an approval turns the posted entry
   back into a draft with other lines; a delete removes it; an approval overwrites the lines of
   an edit that came between (`journal_posted`). "Solo se pueden editar asientos en borrador".
   What holds all the same: lines are never mixed (`OneBody`), and entries that a close posted
   are safe, because nobody can have read them as drafts (`ClosingEntriesAreFinal`).

Four more are shown by the configurations kept for use by hand:

3. The runner asks for generation 1 always (`job-runner.ts:339`), so a replacement (generation
   2) is delivered and refused, although `W2-06A-job-uniqueness-inventory.md:184` has it run:
   `ReplacementRuns`, `JobPipeline_generation2.cfg`.
4. The recovery sweep rechecks the status but not the lease (`job-recovery.ts:186`), so a
   heartbeat between SELECT and UPDATE does not save a live execution:
   `SweepTargetsAreExpired`, `JobPipeline_stale_sweep.cfg`.
5. All instances recover missions under one lease owner and `acquire` accepts a live lease
   of the same owner, so two instances that start together both run the pipeline, although
   `mission-recovery.hook.ts:20` promises exactly one owner: `ExactlyOneOwner`,
   `Missions_owners.cfg`. `mission_race` shows that the row and the log survive this.
6. executeMission commits QUEUED before RUNNING; a crash between leaves a mission that
   nothing resumes: `QueuedIsResumed`, `Missions_queued.cfg`.

Observed while modelling, without a run: after a loss of Redis nothing enqueues again,
although `job-reconciliation.ts:136` says so; FAILED RETRYABLE executions are not retried;
`replace` compares neither the policy nor the identity of its new input with the execution it
supersedes;
`acquire` of the mission lease counts the fencing token up for the same owner although its
comment says "unchanged", `release` deletes the row so that fencing restarts at 1, and no
write checks the token; approved monthly closes stay APPROVED because `applyEntries` is a
stub; the orchestrator's step counter is shared by concurrent missions.

In the journal: entry numbers are not unique (no index, read before the insert, ordered as
text, and the numbers AS-nnn of a close make `getNextEntryNumber` start at 1 again);
`approve` posts into closed periods, although `update-journal-entry-status.use-case.ts:6` says
that cannot be; `mayorizar` always fails on the uuid comparison; `openPeriod` can insert a
period twice. In idempotency: a loser of the race for a RETRYABLE record is told
"terminal-failure" (`CONCURRENCY_LOST`); `markFailed` inside a transaction is undone by the
error that is thrown right after it, so a failure is recorded only on the pool. In the gateway:
a half-open circuit never opens again; a provider without a default chain (deepseek) makes
`chat` throw a TypeError; a fallback provider is counted but never checked against its limit;
`PersistentCircuitBreaker.recordFailure` always stores CLOSED with one failure. The mission
controller builds the SSE stream, but the routes answer with the mission only.

## 6. Not modelled

- `reconcileMission` and the UNKNOWN branch of recovery: no code writes UNKNOWN to the row.
- `CorrectionIntentHandler`: registered by no code. (`TransactionalApplyUseCase` is modelled,
  though today nothing calls it.)
- Numbers, dates and amounts of journal entries; budgets and metrics of the gateway; the
  inbox repository, of which there is only an interface.
- Signing, hashing, logging, metrics, result payloads, the memory recorder.
- Tenant scoping: every statement carries the company id; one tenant is modelled.
- Isolation below READ COMMITTED details: a statement is atomic, and a transaction's own
  statements see what others committed before them.
- The components `PROJECT.json` marks `not_modelled`, with the reason for each.

## 7. Plan

Done: `JobTable`, `JobRegistry`, `JobPipeline`, `JobLifecycle`, `Missions`, `MissionEvents`,
`Journal`, `Idempotency`, `LLMGateway`, and the proofs of all safety properties of the passing
runs. Next, in this order:

1. That the registry implements `JobLifecycle` too, with replaced executions as settled ones:
   the refinement exists only for the pipeline.
2. What of a posted entry is safe: `PostedIsFinal` is refuted by overlapping commands; a
   theorem that it holds when commands on one entry do not overlap would say exactly which
   guard is missing.
3. SIRE submission: submit, record and retry of a filing. The survey found that two
   concurrent submissions both reach the tax authority, and that a retry after a timeout sends
   the filing again.
4. Accounting job runs: approvals against a lost update in `updateRunStatus`.
