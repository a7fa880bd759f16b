---------------------------- MODULE JobPipeline ----------------------------
(***************************************************************************)
(* From the outbox to the recorded outcome: OutboxRelay cycles, the BullMQ *)
(* queue, JobRunner.run() invocations, RecoverySweep and                   *)
(* ReconciliationSweep, all working on the two tables of JobTable.         *)
(*                                                                         *)
(* None of these components opens a transaction around its cycle, so every *)
(* await on the database or on Redis is a separate step and what was read  *)
(* before it may be stale after it.  A relay cycle, a run() or a sweep can *)
(* also stop at any step (the process dies); nothing it keeps in memory    *)
(* survives, everything it wrote does.                                     *)
(*                                                                         *)
(* Faults names the failures that may happen, MaxFaults how many in all.   *)
(***************************************************************************)
EXTENDS JobTable, FiniteSets

CONSTANTS
    Relays,     \* concurrent OutboxRelay.runCycle() calls
    Sweeps,     \* concurrent RecoverySweep.runCycle() calls
    Faults,     \* a subset of FaultKinds
    MaxFaults   \* bound: faults in a behaviour

FaultKinds == {"crash",     \* a relay, runner or sweep process dies
               "stall",     \* BullMQ thinks a live worker is dead
               "queue",     \* queue.add rejects
               "db",        \* a statement of the runner rejects
               "redis"}     \* Redis loses its data

ASSUME FaultAssumption == Faults \subseteq FaultKinds /\ MaxFaults \in Nat
ASSUME ProcessAssumption == None \notin Relays \cup Sweeps

\* expectedGeneration that JobRunner passes to acquireLease for every job.
RunnerGen == 1

VARIABLES
    claim,      \* relay_token and claim_expires_at of each outbox event
    bull,       \* the BullMQ job "job-execution:<id>"
    relay,      \* local state of each relay cycle
    runner,     \* local state of each run(); the token names the invocation
    sweep,      \* local state of each recovery cycle
    recon,      \* next check of the reconciliation cycle
    effect,     \* history: executions whose handler reported "completed"
    faults      \* faults so far

vars == <<exec, outbox, runs, claim, bull, relay, runner, sweep, recon,
          effect, faults>>

Unclaimed == [by |-> None, exp |-> "none"]
RelayIdle == [pc |-> "idle", batch |-> {}, ev |-> None]
RunnerIdle == [pc |-> "idle", ex |-> None, res |-> "none"]
SweepIdle == [pc |-> "idle", rows |-> {}]

Results == {"completed", "failed-retryable", "failed-terminal"}

TypeOK ==
    /\ TableTypeOK
    /\ claim \in [Execs -> [by : Relays \cup {None},
                            exp : {"none", "live", "expired"}]]
    /\ bull \in [Execs -> {"absent", "waiting", "active", "finished"}]
    /\ relay \in [Relays -> [pc : {"idle", "next", "add", "enqueue", "publish",
                                   "discard", "fail"},
                             batch : SUBSET Execs, ev : Execs \cup {None}]]
    /\ runner \in [Tokens -> [pc : {"idle", "acquire", "handler", "record",
                                    "catch"},
                              ex : Execs \cup {None},
                              res : Results \cup {"none"}]]
    /\ sweep \in [Sweeps -> [pc : {"idle", "first", "second"},
                             rows : SUBSET Execs]]
    /\ recon \in {"orphans", "published", "claims"}
    /\ effect \in SUBSET Execs
    /\ faults \in Nat

Init ==
    /\ TableInit
    /\ claim = [e \in Execs |-> Unclaimed]
    /\ bull = [e \in Execs |-> "absent"]
    /\ relay = [l \in Relays |-> RelayIdle]
    /\ runner = [r \in Tokens |-> RunnerIdle]
    /\ sweep = [s \in Sweeps |-> SweepIdle]
    /\ recon = "orphans"
    /\ effect = {}
    /\ faults = 0

Fault(kind) ==
    /\ kind \in Faults
    /\ faults < MaxFaults
    /\ faults' = faults + 1

relayVars == <<claim, relay>>
workVars == <<runner, effect>>
sweepVars == <<sweep, recon>>

(***************************************************************************)
(* Callers of the registry.                                                *)
(***************************************************************************)

Create(e, k, h) ==
    /\ insertExecution(e, k, h, 0)
    /\ UNCHANGED <<relayVars, bull, workVars, sweepVars, faults>>

Cancel(e) ==
    /\ cancel(e)
    /\ UNCHANGED <<outbox, relayVars, bull, workVars, sweepVars, faults>>

\* replace(), of an execution of any policy; JobRegistry has its two steps.
Replace(e, n, k, h) ==
    /\ exec[e].st # "NONE"
    /\ supersede(e, n, exec[e].gen, k, h, 0)
    /\ UNCHANGED <<relayVars, bull, workVars, sweepVars, faults>>

ResolveUnknown(e, c) ==
    /\ resolveUnknown(e, exec[e].gen, c)
    /\ UNCHANGED <<outbox, relayVars, bull, workVars, sweepVars, faults>>

(***************************************************************************)
(* OutboxRelay                                                             *)
(***************************************************************************)

Claimable ==
    {e \in Execs : \/ outbox[e] = "PENDING"
                   \/ outbox[e] = "CLAIMED" /\ claim[e].exp = "expired"}

claimEvents(l) ==
    /\ relay[l].pc = "idle"
    /\ Claimable # {}
    /\ outbox' = [e \in Execs |-> IF e \in Claimable THEN "CLAIMED"
                                                     ELSE outbox[e]]
    /\ claim' = [e \in Execs |-> IF e \in Claimable
                                 THEN [by |-> l, exp |-> "live"]
                                 ELSE claim[e]]
    /\ relay' = [relay EXCEPT ![l] = [pc |-> "next", batch |-> Claimable,
                                      ev |-> None]]
    /\ UNCHANGED <<exec, runs, bull, workVars, sweepVars, faults>>

\* findById of the next event's execution: publish a PENDING one, discard
\* the event of any other.
CheckEvent(l) ==
    /\ relay[l].pc = "next"
    /\ \E e \in relay[l].batch :
         relay' = [relay EXCEPT
                      ![l] = [pc |-> IF exec[e].st = "PENDING" THEN "add"
                                                               ELSE "discard",
                              batch |-> relay[l].batch \ {e}, ev |-> e]]
    /\ UNCHANGED <<tableVars, claim, bull, workVars, sweepVars, faults>>

\* The cycle goes on with the rest of the batch, or returns.
NextEvent(l) ==
    relay' = [relay EXCEPT ![l] = IF relay[l].batch = {} THEN RelayIdle
                                  ELSE [@ EXCEPT !.pc = "next", !.ev = None]]

\* The last UPDATE of job_outbox for an event, by id only.
SetOutbox(l, pc, st) ==
    /\ relay[l].pc = pc
    /\ outbox' = [outbox EXCEPT ![relay[l].ev] = st]
    /\ claim' = [claim EXCEPT ![relay[l].ev] = Unclaimed]
    /\ NextEvent(l)
    /\ UNCHANGED <<exec, runs, bull, workVars, sweepVars, faults>>

\* Mutant: a status that job_outbox does not know.
recordRelayFailureUnknownStatus(l) == SetOutbox(l, "fail", "ERROR")

discardEvent(l) == SetOutbox(l, "discard", "DISCARDED")
recordRelayFailure(l) == SetOutbox(l, "fail", "FAILED")
confirmOutbox(l) == SetOutbox(l, "publish", "PUBLISHED")

\* queue.add with the deterministic jobId: a job BullMQ still knows, in any
\* state, is not added again.
BullAdd(e) == [bull EXCEPT ![e] = IF @ = "absent" THEN "waiting" ELSE @]

\* Mutant: the event is marked published before the execution is queued.
queueAddPublishesFirst(l) ==
    /\ relay[l].pc = "add"
    /\ bull' = BullAdd(relay[l].ev)
    /\ relay' = [relay EXCEPT ![l].pc = "publish"]
    /\ UNCHANGED <<tableVars, claim, workVars, sweepVars, faults>>

queueAdd(l) ==
    /\ relay[l].pc = "add"
    /\ bull' = BullAdd(relay[l].ev)
    /\ relay' = [relay EXCEPT ![l].pc = "enqueue"]
    /\ UNCHANGED <<tableVars, claim, workVars, sweepVars, faults>>

\* queue.add rejects: Redis refused the job, or the reply was lost.
queueAddFails(l) ==
    /\ relay[l].pc = "add"
    /\ Fault("queue")
    /\ bull' \in {bull, BullAdd(relay[l].ev)}
    /\ relay' = [relay EXCEPT ![l].pc = "fail"]
    /\ UNCHANGED <<tableVars, claim, workVars, sweepVars>>

\* First UPDATE of confirmPublish; it matches no row unless PENDING.
confirmEnqueued(l) ==
    /\ relay[l].pc = "enqueue"
    /\ \/ markEnqueued(relay[l].ev)
       \/ exec[relay[l].ev].st # "PENDING" /\ UNCHANGED <<exec, runs>>
    /\ relay' = [relay EXCEPT ![l].pc = "publish"]
    /\ UNCHANGED <<outbox, claim, bull, workVars, sweepVars, faults>>

RelayCrash(l) ==
    /\ relay[l].pc # "idle"
    /\ Fault("crash")
    /\ relay' = [relay EXCEPT ![l] = RelayIdle]
    /\ UNCHANGED <<tableVars, claim, bull, workVars, sweepVars>>

ClaimExpires(e) ==
    /\ claim[e].exp = "live"
    /\ claim' = [claim EXCEPT ![e].exp = "expired"]
    /\ UNCHANGED <<tableVars, relay, bull, workVars, sweepVars, faults>>

(***************************************************************************)
(* BullMQ: at-least-once delivery to the worker that calls run().          *)
(***************************************************************************)

Working(e) == {r \in Tokens : runner[r].ex = e}

\* A fresh UUID per run(): no row and no other invocation holds it.
Fresh(r) == runner[r].pc = "idle" /\ \A e \in Execs : exec[e].tok # r

Deliver(r, e) ==
    /\ Fresh(r)
    /\ bull[e] = "waiting"
    /\ bull' = [bull EXCEPT ![e] = "active"]
    /\ runner' = [runner EXCEPT ![r] = [pc |-> "acquire", ex |-> e,
                                        res |-> "none"]]
    /\ UNCHANGED <<tableVars, relayVars, effect, sweepVars, faults>>

\* The worker of an active job died: BullMQ hands the job out again.
Redeliver(e) ==
    /\ bull[e] = "active" /\ Working(e) = {}
    /\ bull' = [bull EXCEPT ![e] = "waiting"]
    /\ UNCHANGED <<tableVars, relayVars, workVars, sweepVars, faults>>

\* The same while the worker is alive but missed its BullMQ lock renewal.
Stall(e) ==
    /\ bull[e] = "active" /\ Working(e) # {}
    /\ Fault("stall")
    /\ bull' = [bull EXCEPT ![e] = "waiting"]
    /\ UNCHANGED <<tableVars, relayVars, workVars, sweepVars>>

\* removeOnComplete and removeOnFail.
Purge(e) ==
    /\ bull[e] = "finished"
    /\ bull' = [bull EXCEPT ![e] = "absent"]
    /\ UNCHANGED <<tableVars, relayVars, workVars, sweepVars, faults>>

RedisReset ==
    /\ Fault("redis")
    /\ bull' = [e \in Execs |-> "absent"]
    /\ UNCHANGED <<tableVars, relayVars, workVars, sweepVars>>

(***************************************************************************)
(* JobRunner.run                                                           *)
(***************************************************************************)

\* run() returns or throws: the queue has no retries configured, so BullMQ
\* is done with the job, unless it has given it to another worker meanwhile.
RunEnds(r) ==
    LET e == runner[r].ex
    IN /\ runner' = [runner EXCEPT ![r] = RunnerIdle]
       /\ bull' = IF bull[e] = "active" /\ Working(e) = {r}
                  THEN [bull EXCEPT ![e] = "finished"] ELSE bull

\* Anything but "acquired" is a no-op.
Acquire(r) ==
    LET e == runner[r].ex
    IN /\ runner[r].pc = "acquire"
       /\ \/ /\ acquireLease(e, r, RunnerGen)
             /\ runner' = [runner EXCEPT ![r].pc = "handler"]
             /\ UNCHANGED bull
          \/ /\ ~CanAcquire(e, RunnerGen)
             /\ RunEnds(r)
             /\ UNCHANGED <<exec, runs>>
       /\ UNCHANGED <<outbox, relayVars, effect, sweepVars, faults>>

\* acquireLease rejects, before or after the UPDATE took effect; run() throws
\* before its try block.
AcquireFails(r) ==
    /\ runner[r].pc = "acquire"
    /\ Fault("db")
    /\ acquireLease(runner[r].ex, r, RunnerGen) \/ UNCHANGED <<exec, runs>>
    /\ RunEnds(r)
    /\ UNCHANGED <<outbox, relayVars, effect, sweepVars>>

Heartbeat(r) ==
    /\ runner[r].pc \in {"handler", "record", "catch"}
    /\ renewLease(runner[r].ex, r, RunnerGen)
    /\ UNCHANGED <<outbox, relayVars, bull, workVars, sweepVars, faults>>

\* The handler cannot tell whether its external call took effect.
MarkUnknown(r) ==
    /\ runner[r].pc = "handler"
    /\ markUnknown(runner[r].ex, r, RunnerGen)
    /\ UNCHANGED <<outbox, relayVars, bull, workVars, sweepVars, faults>>

HandlerReturns(r) ==
    /\ runner[r].pc = "handler"
    /\ \E res \in Results :
         /\ runner' = [runner EXCEPT ![r].pc = "record", ![r].res = res]
         /\ effect' = IF res = "completed" THEN effect \cup {runner[r].ex}
                                           ELSE effect
    /\ UNCHANGED <<tableVars, relayVars, bull, sweepVars, faults>>

HandlerThrows(r) ==
    /\ runner[r].pc = "handler"
    /\ runner' = [runner EXCEPT ![r].pc = "catch"]
    /\ UNCHANGED <<tableVars, relayVars, bull, effect, sweepVars, faults>>

\* Mutant: every result falls through to complete().
RecordResultAsCompleted(r) == complete(runner[r].ex, r, RunnerGen)

\* repo.complete or repo.fail, according to the handler's result.
RecordResult(r) ==
    LET e == runner[r].ex
    IN CASE runner[r].res = "completed" -> complete(e, r, RunnerGen)
         [] runner[r].res = "failed-retryable" ->
                fail(e, r, RunnerGen, "RETRYABLE")
         [] OTHER -> fail(e, r, RunnerGen, "TERMINAL")

Rejected(r) ==
    ~Owns(runner[r].ex, r, RunnerGen) /\ UNCHANGED <<exec, runs>>

Record(r) ==
    /\ runner[r].pc = "record"
    /\ RecordResult(r) \/ Rejected(r)
    /\ RunEnds(r)
    /\ UNCHANGED <<outbox, relayVars, effect, sweepVars, faults>>

\* The call rejects, before or after the UPDATE took effect: the catch block.
RecordFails(r) ==
    /\ runner[r].pc = "record"
    /\ Fault("db")
    /\ RecordResult(r) \/ UNCHANGED <<exec, runs>>
    /\ runner' = [runner EXCEPT ![r].pc = "catch"]
    /\ UNCHANGED <<outbox, relayVars, bull, effect, sweepVars>>

Catch(r) ==
    /\ runner[r].pc = "catch"
    /\ fail(runner[r].ex, r, RunnerGen, "RETRYABLE") \/ Rejected(r)
    /\ RunEnds(r)
    /\ UNCHANGED <<outbox, relayVars, effect, sweepVars, faults>>

CatchFails(r) ==
    /\ runner[r].pc = "catch"
    /\ Fault("db")
    /\ RunEnds(r)
    /\ UNCHANGED <<tableVars, relayVars, effect, sweepVars>>

RunnerCrash(r) ==
    /\ runner[r].pc # "idle"
    /\ Fault("crash")
    /\ runner' = [runner EXCEPT ![r] = RunnerIdle]
    /\ UNCHANGED <<tableVars, relayVars, bull, effect, sweepVars>>

ExecLeaseExpires(e) ==
    /\ LeaseExpires(e)
    /\ UNCHANGED <<outbox, relayVars, bull, workVars, sweepVars, faults>>

(***************************************************************************)
(* RecoverySweep                                                           *)
(***************************************************************************)

\* Mutant: IS NULL instead of < NOW().
ExpiredIfNull == {e \in Execs : exec[e].st = "RUNNING" /\ exec[e].lease = "none"}

Expired == {e \in Execs : exec[e].st = "RUNNING" /\ exec[e].lease = "expired"}

\* generation = MAX(generation) of the identity, over rows that are neither
\* SUPERSEDED nor CANCELLED.
IsCurrent(e) ==
    \A f \in RowsOf(exec[e].key) :
        exec[f].st \notin {"SUPERSEDED", "CANCELLED"} =>
            exec[f].gen <= exec[e].gen

\* The two SELECT ... FOR UPDATE SKIP LOCKED; outside a transaction their row
\* locks are gone when the statement returns.
SelectExpired(s) ==
    /\ sweep[s].pc = "idle"
    /\ sweep' = [sweep EXCEPT
                    ![s] = [pc |-> "first",
                            rows |-> {e \in Expired :
                                       Policy[exec[e].key] # "REPLACEABLE"}]]
    /\ UNCHANGED <<tableVars, relayVars, bull, workVars, recon, faults>>

SelectReplaceable(s) ==
    /\ sweep[s].pc = "first" /\ sweep[s].rows = {}
    /\ sweep' = [sweep EXCEPT
                    ![s] = [pc |-> "second",
                            rows |-> {e \in Expired :
                                       /\ Policy[exec[e].key] = "REPLACEABLE"
                                       /\ IsCurrent(e)}]]
    /\ UNCHANGED <<tableVars, relayVars, bull, workVars, recon, faults>>

MarkExpired(s) ==
    /\ \E e \in sweep[s].rows :
         /\ \/ markExpired(e)
            \/ exec[e].st # "RUNNING" /\ UNCHANGED <<exec, runs>>
         /\ sweep' = [sweep EXCEPT ![s].rows = @ \ {e}]
    /\ UNCHANGED <<outbox, relayVars, bull, workVars, recon, faults>>

SweepEnds(s) ==
    /\ sweep[s].pc = "second" /\ sweep[s].rows = {}
    /\ sweep' = [sweep EXCEPT ![s] = SweepIdle]
    /\ UNCHANGED <<tableVars, relayVars, bull, workVars, recon, faults>>

SweepCrash(s) ==
    /\ sweep[s].rows # {}
    /\ Fault("crash")
    /\ sweep' = [sweep EXCEPT ![s] = SweepIdle]
    /\ UNCHANGED <<tableVars, relayVars, bull, workVars, recon>>

RecoverExecution(e) ==
    /\ recoverExecution(e)
    /\ UNCHANGED <<outbox, relayVars, bull, workVars, sweepVars, faults>>

(***************************************************************************)
(* ReconciliationSweep.  Check 2 only counts.  In the code the repairs of  *)
(* checks 1 and 3 follow their SELECT; PendingHasEvent shows that neither  *)
(* SELECT ever finds a row, so they are one step here.                     *)
(***************************************************************************)

ReconOrphans ==
    /\ recon = "orphans" /\ recon' = "published"
    /\ outbox' = [e \in Execs |->
                    IF exec[e].st = "PENDING" /\ outbox[e] = "NONE"
                    THEN "PENDING" ELSE outbox[e]]
    /\ UNCHANGED <<exec, runs, relayVars, bull, workVars, sweep, faults>>

ReconPublished ==
    /\ recon = "published" /\ recon' = "claims"
    /\ outbox' = [e \in Execs |->
                    IF exec[e].st = "PENDING" /\ outbox[e] = "PUBLISHED"
                    THEN "PENDING" ELSE outbox[e]]
    /\ UNCHANGED <<exec, runs, relayVars, bull, workVars, sweep, faults>>

StaleClaims == {e \in Execs : outbox[e] = "CLAIMED" /\ claim[e].exp = "expired"}

ReconClaims ==
    /\ recon = "claims" /\ recon' = "orphans"
    /\ outbox' = [e \in Execs |-> IF e \in StaleClaims THEN "PENDING"
                                                       ELSE outbox[e]]
    /\ claim' = [e \in Execs |-> IF e \in StaleClaims THEN Unclaimed
                                                      ELSE claim[e]]
    /\ UNCHANGED <<exec, runs, relay, bull, workVars, sweep, faults>>

(***************************************************************************)

RelayStep(l) ==
    \/ CheckEvent(l) \/ discardEvent(l) \/ queueAdd(l)
    \/ confirmEnqueued(l) \/ confirmOutbox(l) \/ recordRelayFailure(l)

RunnerStep(r) ==
    Acquire(r) \/ HandlerReturns(r) \/ HandlerThrows(r) \/ Record(r) \/ Catch(r)

RunnerFault(r) ==
    AcquireFails(r) \/ RecordFails(r) \/ CatchFails(r) \/ RunnerCrash(r)

SweepStep(s) ==
    SelectExpired(s) \/ SelectReplaceable(s) \/ MarkExpired(s) \/ SweepEnds(s)

Recon == ReconOrphans \/ ReconPublished \/ ReconClaims

Next ==
    \/ \E e \in Execs :
         \/ \E k \in Keys, h \in Hashes :
              Create(e, k, h) \/ \E n \in Execs : Replace(e, n, k, h)
         \/ \E c \in {"none", "RETRYABLE", "TERMINAL"} : ResolveUnknown(e, c)
         \/ Cancel(e)
         \/ ClaimExpires(e) \/ ExecLeaseExpires(e) \/ RecoverExecution(e)
         \/ Redeliver(e) \/ Stall(e) \/ Purge(e)
    \/ RedisReset
    \/ \E l \in Relays :
         claimEvents(l) \/ RelayStep(l) \/ queueAddFails(l) \/ RelayCrash(l)
    \/ \E r \in Tokens :
         \/ \E e \in Execs : Deliver(r, e)
         \/ RunnerStep(r) \/ RunnerFault(r) \/ Heartbeat(r) \/ MarkUnknown(r)
    \/ \E s \in Sweeps : SweepStep(s) \/ SweepCrash(s)
    \/ Recon

Spec == Init /\ [][Next]_vars

\* Timers fire, processes are scheduled, handlers return and time passes.
\* BullMQ hands jobs out in order, so a waiting job is not passed over for
\* ever (strong fairness: the workers may be busy in between).
Fairness ==
    /\ \A l \in Relays : WF_vars(claimEvents(l)) /\ WF_vars(RelayStep(l))
    /\ \A r \in Tokens : WF_vars(RunnerStep(r))
    /\ \A s \in Sweeps : WF_vars(SweepStep(s))
    /\ WF_vars(Recon)
    /\ \A e \in Execs :
         /\ WF_vars(ClaimExpires(e))
         /\ WF_vars(ExecLeaseExpires(e))
         /\ WF_vars(Redeliver(e))
         /\ SF_vars(\E r \in Tokens : Deliver(r, e))

FairSpec == Spec /\ Fairness

(***************************************************************************)
(* Properties                                                              *)
(***************************************************************************)

\* No enqueue is lost between the stores: while an execution is PENDING its
\* outbox event exists and has been neither published nor discarded, whatever
\* two relays with an expired claim, a crash between the two UPDATEs of
\* confirmPublish and the reconciliation do.  (So the divergences repaired by
\* checks 1 and 3 of the reconciliation never arise from this code.)
PendingHasEvent ==
    \A e \in Execs :
        exec[e].st = "PENDING" => outbox[e] \in {"PENDING", "CLAIMED", "FAILED"}

\* However often BullMQ redelivers a job, one invocation at most is past
\* acquireLease for an execution, and no other ever will be.
InHandler(r) == runner[r].pc \in {"handler", "record", "catch"}
SoleWorker ==
    /\ \A e \in Execs : runs[e] <= 1
    /\ \A r, q \in Tokens :
         InHandler(r) /\ InHandler(q) /\ runner[r].ex = runner[q].ex => r = q

\* COMPLETED is never recorded for work that was not done: the handler of
\* that execution returned "completed", or an operator resolved its outcome;
\* a rejected, replayed or late complete() cannot produce it.
NoFalseCompletion ==
    \A e \in Execs :
        exec[e].st = "COMPLETED" /\ exec[e].unk = "never" => e \in effect

\* The two stores agree: a queued execution has a BullMQ job that is still to
\* be delivered or being worked on.  (While Redis keeps its data and the
\* runner's statements succeed, and of the generation run() asks for: it
\* gives up on a replacement, see ReplacementRuns.)
EnqueuedHasJob ==
    \A e \in Execs :
        exec[e].st = "ENQUEUED" /\ exec[e].gen = RunnerGen =>
            bull[e] \in {"waiting", "active"}

\* Every accepted execution of the first generation ends: crashes, lost
\* claims and redeliveries may delay it, but it does not stay PENDING,
\* ENQUEUED or RUNNING for ever.
EventuallySettled ==
    \A e \in Execs :
        exec[e].st = "PENDING" /\ exec[e].gen = RunnerGen ~>
            exec[e].st \notin Active

\* What the rest of the system may rely on: see JobLifecycle.
Phase(st) ==
    CASE st = "NONE"                    -> "absent"
      [] st \in {"PENDING", "ENQUEUED"} -> "accepted"
      [] st = "RUNNING"                 -> "running"
      [] st = "UNKNOWN"                 -> "ambiguous"
      [] OTHER                          -> "settled"

Lifecycle == INSTANCE JobLifecycle
                 WITH phase <- [e \in Execs |-> Phase(exec[e].st)],
                      starts <- runs

\* Every step of the pipeline is a step of the abstract lifecycle or changes
\* nothing there: an execution is started at most once, an ambiguous one is
\* only resolved, a settled one stays settled.
LifecycleSpec == Lifecycle!Spec

(***************************************************************************)
(* What the repository says and the code does not do.                      *)
(***************************************************************************)

\* job-recovery.ts: "recovers stale RUNNING executions with expired leases":
\* the rows a sweep is about to mark, if still RUNNING, have an expired lease.
SweepTargetsAreExpired ==
    \A s \in Sweeps : \A e \in sweep[s].rows :
        exec[e].st = "RUNNING" => exec[e].lease = "expired"

\* job-outbox-relay.ts: "queue.add failed - will be retried when claim
\* expires": a PENDING execution does not stay PENDING for ever.
PendingIsPublished ==
    \A e \in Execs : exec[e].st = "PENDING" ~> exec[e].st # "PENDING"

\* W2-06A, REPLACEABLE: "Worker B (gen 2) -> terminacion valida": an execution
\* that replaced another one does not stay queued for ever.
ReplacementRuns ==
    \A e \in Execs :
        exec[e].st = "ENQUEUED" /\ exec[e].gen > 1 ~> exec[e].st # "ENQUEUED"
=============================================================================
