---------------------------- MODULE JobRegistry ----------------------------
(***************************************************************************)
(* The registry as its callers see it: PostgresJobExecutionRepository used *)
(* by any number of concurrent transactions.                               *)
(*                                                                         *)
(* createOrResolve() and replace() read before they write and take no lock *)
(* in between (READ COMMITTED), so each is a transaction of two steps: the *)
(* SELECT, whose answer the caller keeps, and the writes up to COMMIT.     *)
(* Between the two, other transactions and workers may do anything.  An    *)
(* INSERT that meets an uncommitted row of the same identity waits for it, *)
(* so the writes and the COMMIT are one step here.                         *)
(*                                                                         *)
(* The single-statement methods are called by anyone, with any token and   *)
(* generation: the registry has to be right whatever the runner, the relay *)
(* and the sweeps do.  JobPipeline models those clients.                   *)
(***************************************************************************)
EXTENDS JobTable, FiniteSets

CONSTANTS
    Callers,    \* transactions that may be open at the same time
    MaxTx       \* bound: create/replace transactions begun in a behaviour

ASSUME MaxTxAssumption == MaxTx \in Nat

VARIABLES
    caller,     \* what each open transaction has read
    answer,     \* what the last call of each caller returned
    clock       \* transactions begun so far; NOW() is the transaction start

vars == <<exec, outbox, runs, caller, answer, clock>>

Idle == [op |-> "idle", key |-> None, hash |-> None, prev |-> None, gen |-> 0,
         start |-> 0]

CallerState ==
    [op : {"idle", "create", "replace"}, key : Keys \cup {None},
     hash : Hashes \cup {None}, prev : Execs \cup {None}, gen : Nat,
     start : Nat]

Kinds == {"none", "created", "already-active", "already-final", "replaced",
          "fencing-rejected", "unique-violation", "check-violation"}

TypeOK ==
    /\ TableTypeOK
    /\ caller \in [Callers -> CallerState]
    /\ answer \in [Callers -> [kind : Kinds, exec : Execs \cup {None}]]
    /\ clock \in Nat

Init ==
    /\ TableInit
    /\ caller = [c \in Callers |-> Idle]
    /\ answer = [c \in Callers |-> [kind |-> "none", exec |-> None]]
    /\ clock = 0

Return(c, kind, e) ==
    /\ answer' = [answer EXCEPT ![c] = [kind |-> kind, exec |-> e]]
    /\ caller' = [caller EXCEPT ![c] = Idle]

(***************************************************************************)
(* createOrResolve                                                         *)
(***************************************************************************)

\* findByLogicalKey: ORDER BY created_at DESC LIMIT 1.
Latest(k) ==
    {e \in RowsOf(k) : \A f \in RowsOf(k) : exec[f].born <= exec[e].born}

\* Mutant: whatever is not active is final.
resolvePermanentNotActive(r, h) ==
    IF r.st \in Active THEN "already-active" ELSE "already-final"

resolvePermanent(r, h) ==
    IF \/ r.st = "SUPERSEDED"
       \/ Policy[r.key] = "PERMANENT_BY_INPUT" /\ r.hash # h
       \/ r.st = "COMPLETED"
       \/ r.st = "FAILED" /\ r.class = "TERMINAL"
    THEN "already-final" ELSE "already-active"

resolveActiveOnly(r) ==
    IF r.st \in {"COMPLETED", "FAILED", "CANCELLED"}
    THEN "already-final" ELSE "already-active"

resolveWindowed(r) ==
    IF r.st = "COMPLETED" \/ (r.st = "FAILED" /\ r.class = "TERMINAL")
    THEN "already-final" ELSE "already-active"

resolveReplaceable(r) ==
    IF r.st \in {"SUPERSEDED", "CANCELLED"}
    THEN "already-final" ELSE "already-active"

routeByPolicy(r, h) ==
    CASE Policy[r.key] = "ACTIVE_ONLY" -> resolveActiveOnly(r)
      [] Policy[r.key] = "WINDOWED"    -> resolveWindowed(r)
      [] Policy[r.key] = "REPLACEABLE" -> resolveReplaceable(r)
      [] OTHER                         -> resolvePermanent(r, h)

\* Step 1 of createOrResolve: the pre-check.  No policy answers
\* "retry-insert", so an execution that is found ends the call.
CreateCheck(c, k, h) ==
    /\ caller[c].op = "idle"
    /\ clock < MaxTx
    /\ clock' = clock + 1
    /\ \/ \E e \in Latest(k) : Return(c, routeByPolicy(exec[e], h), e)
       \/ /\ RowsOf(k) = {}
          /\ caller' = [caller EXCEPT ![c] =
                           [op |-> "create", key |-> k, hash |-> h,
                            prev |-> None, gen |-> 0, start |-> clock + 1]]
          /\ UNCHANGED answer
    /\ UNCHANGED tableVars

\* Step 2: INSERT execution and event; on a unique violation roll back to the
\* savepoint, look again and resolve.
CreateInsert(c) ==
    /\ caller[c].op = "create"
    /\ LET k == caller[c].key  h == caller[c].hash
       IN \/ \E e \in Execs : /\ insertExecution(e, k, h, caller[c].start)
                              /\ Return(c, "created", e)
          \/ /\ UniqueViolation(exec, k)
             /\ \E e \in Latest(k) : Return(c, routeByPolicy(exec[e], h), e)
             /\ UNCHANGED tableVars
    /\ UNCHANGED clock

(***************************************************************************)
(* replace: supersedes an execution of any identity, whatever its policy,  *)
(* for a caller that gives the token it believes the worker holds, and     *)
(* inserts an execution of the identity k the caller names.                *)
(***************************************************************************)

ReplaceSelect(c, e, t, k, h) ==
    /\ caller[c].op = "idle"
    /\ clock < MaxTx
    /\ clock' = clock + 1
    /\ exec[e].st # "NONE"
    /\ \/ /\ exec[e].st = "RUNNING" /\ exec[e].tok # t
          /\ Return(c, "fencing-rejected", e)
       \/ /\ exec[e].st = "RUNNING" => exec[e].tok = t
          /\ caller' = [caller EXCEPT ![c] =
                           [op |-> "replace", key |-> k, hash |-> h,
                            prev |-> e, gen |-> exec[e].gen,
                            start |-> clock + 1]]
          /\ UNCHANGED answer
    /\ UNCHANGED tableVars

ReplaceCommit(c) ==
    /\ caller[c].op = "replace"
    /\ LET e == caller[c].prev
       IN \E n \in Execs :
            /\ exec[n].st = "NONE"
            /\ \/ /\ supersede(e, n, caller[c].gen, caller[c].key,
                               caller[c].hash, caller[c].start)
                  /\ Return(c, "replaced", n)
               \/ /\ ~RowChecks(Superseded(e, n))
                  /\ Return(c, "check-violation", e)
                  /\ UNCHANGED tableVars
               \/ /\ RowChecks(Superseded(e, n))
                  /\ UniqueViolation([exec EXCEPT ![e] = Superseded(e, n)],
                                     caller[c].key)
                  /\ Return(c, "unique-violation", e)
                  /\ UNCHANGED tableVars
    /\ UNCHANGED clock

\* The caller's transaction rolls back, or its process dies.
Rollback(c) ==
    /\ caller[c].op # "idle"
    /\ caller' = [caller EXCEPT ![c] = Idle]
    /\ UNCHANGED <<exec, outbox, runs, answer, clock>>

(***************************************************************************)
(* Everything else that writes a row.                                      *)
(***************************************************************************)

\* A token is a fresh UUID: no row holds it when a worker acquires with it.
Fresh(t) == \A e \in Execs : exec[e].tok # t

Statement ==
    /\ \E e \in Execs :
         \/ markEnqueued(e)
         \/ cancel(e)
         \/ recoverExecution(e)
         \/ markExpired(e)
         \/ LeaseExpires(e)
         \/ \E g \in 1..Cardinality(Execs) :
              \/ \E c \in {"none", "RETRYABLE", "TERMINAL"} :
                   resolveUnknown(e, g, c)
              \/ \E t \in Tokens :
                   \/ Fresh(t) /\ acquireLease(e, t, g)
                   \/ renewLease(e, t, g)
                   \/ complete(e, t, g)
                   \/ markUnknown(e, t, g)
                   \/ \E c \in {"RETRYABLE", "TERMINAL"} : fail(e, t, g, c)
    /\ UNCHANGED <<outbox, caller, answer, clock>>

Next ==
    \/ \E c \in Callers :
         \/ \E k \in Keys, h \in Hashes : CreateCheck(c, k, h)
         \/ CreateInsert(c)
         \/ \E e \in Execs, t \in Tokens \cup {None},
                k \in Keys, h \in Hashes : ReplaceSelect(c, e, t, k, h)
         \/ ReplaceCommit(c)
         \/ Rollback(c)
    \/ Statement

Spec == Init /\ [][Next]_vars

(***************************************************************************)
(* Properties                                                              *)
(***************************************************************************)

\* No statement of the repository trips a CHECK constraint of the table, the
\* UPDATE of replace() apart (its transaction is refused): every committed row
\* satisfies them although only replace() is guarded by them here.
RowsAreConsistent == \A e \in Execs : RowChecks(exec[e])

\* An execution is acquired at most once in its life: whatever is cancelled,
\* recovered, resolved or replaced, no row goes back to a state acquireLease
\* accepts.  (So a handler never runs twice for one row, however often the
\* transport redelivers it.)
AtMostOneRun == \A e \in Execs : runs[e] <= 1

\* Two transactions that both found no execution of an identity cannot both
\* get a running worker: an identity has at most one active execution.
OneActivePerKey ==
    \A e, f \in Execs :
        /\ exec[e].st \in Active /\ exec[f].st \in Active
        /\ exec[e].key = exec[f].key
        => e = f

\* What "once" means for the three policies that promise it.  A WINDOWED
\* identity runs once in all: its index is freed by no status.  A PERMANENT or
\* PERMANENT_BY_INPUT identity runs again only because its execution was
\* replaced: of two executions of it that ran, one is SUPERSEDED, so no race
\* of creators, replacers, workers and sweeps gets it run twice by itself.
OnceOnly == {"PERMANENT", "PERMANENT_BY_INPUT", "WINDOWED"}
RerunOnlyByReplace ==
    \A e, f \in Execs :
        /\ e # f
        /\ runs[e] > 0 /\ runs[f] > 0
        /\ exec[e].key = exec[f].key
        /\ Policy[exec[e].key] \in OnceOnly
        => /\ Policy[exec[e].key] # "WINDOWED"
           /\ "SUPERSEDED" \in {exec[e].st, exec[f].st}

\* "already-final" is a promise: the execution a caller was told is final is
\* not pending, queued, running or ambiguous, then or ever after.  (It does
\* not hold of PERMANENT_BY_INPUT, where another input hash is enough to be
\* told that a PENDING execution is final.)
FinalAnswersAreFinal ==
    \A c \in Callers :
        answer[c].kind = "already-final" =>
            exec[answer[c].exec].st \notin Active \cup {"UNKNOWN"}

\* superseded_by_id leads to an execution of the next generation, even when
\* two replacers raced, the row changed between the SELECT and the UPDATE of
\* one of them and the second overwrote the link.
SupersededChain ==
    \A e \in Execs :
        exec[e].st = "SUPERSEDED" =>
            /\ exec[e].by \in Execs
            /\ exec[exec[e].by].st # "NONE"
            /\ exec[exec[e].by].gen = exec[e].gen + 1

\* A recorded outcome is never rewritten: FAILED and SUPERSEDED are for ever,
\* COMPLETED and CANCELLED can only be superseded; an ambiguous execution is
\* only resolved, never run again.
OutcomeIsFinal ==
    [][\A e \in Execs :
         /\ exec[e].st \in {"FAILED", "SUPERSEDED"} =>
              exec'[e].st = exec[e].st /\ exec'[e].class = exec[e].class
         /\ exec[e].st \in {"COMPLETED", "CANCELLED"} =>
              exec'[e].st \in {exec[e].st, "SUPERSEDED"}
         /\ exec[e].st = "UNKNOWN" =>
              exec'[e].st \in {"UNKNOWN", "COMPLETED", "FAILED"}]_vars

(***************************************************************************)
(* The inductive invariant behind these properties (JobRegistry_proofs).   *)
(***************************************************************************)

\* A row in a state acquireLease accepts has never been acquired.
FreshRowsNeverRan ==
    \A e \in Execs :
        exec[e].st \in {"NONE", "PENDING", "ENQUEUED"} => runs[e] = 0

\* Every statement that leaves RUNNING clears the lease.
LeaseOnlyWhileRunning ==
    \A e \in Execs : exec[e].lease # "none" => exec[e].st = "RUNNING"

RowsHaveKeys == \A e \in Execs : exec[e].st # "NONE" => exec[e].key \in Keys

\* What an open transaction remembers is still true of the row it read,
\* except for the status.
CallersRemember ==
    \A c \in Callers :
        /\ caller[c].op # "idle" => caller[c].key \in Keys
        /\ caller[c].op = "replace" =>
             /\ caller[c].prev \in Execs
             /\ exec[caller[c].prev].st # "NONE"
             /\ exec[caller[c].prev].gen = caller[c].gen

\* The same of the rows, whether they ran or not: the unique index keeps
\* blocking until replace() supersedes the row, and SUPERSEDED is for ever.
OnceOnlyRows ==
    \A e, f \in Execs :
        /\ e # f
        /\ exec[e].st # "NONE" /\ exec[f].st # "NONE"
        /\ exec[e].key = exec[f].key
        /\ Policy[exec[e].key] \in OnceOnly
        => /\ Policy[exec[e].key] # "WINDOWED"
           /\ "SUPERSEDED" \in {exec[e].st, exec[f].st}

IndInv ==
    /\ TypeOK
    /\ RowsAreConsistent
    /\ FreshRowsNeverRan
    /\ AtMostOneRun
    /\ LeaseOnlyWhileRunning
    /\ RowsHaveKeys
    /\ CallersRemember
    /\ OneActivePerKey
    /\ OnceOnlyRows
    /\ SupersededChain
=============================================================================
