------------------------------ MODULE JobTable ------------------------------
(***************************************************************************)
(* The two PostgreSQL tables of the job uniqueness registry,               *)
(* job_executions and job_outbox, and the SQL statements that              *)
(* PostgresJobExecutionRepository, JobRunner and RecoverySweep issue       *)
(* against one job_executions row.  Every operator below is one UPDATE (or *)
(* INSERT) statement: its WHERE clause is the guard, its SET list the      *)
(* update.  PostgreSQL runs each statement atomically, so it is one step.  *)
(*                                                                         *)
(* A row is identified by its id (the set Execs holds the ids that can     *)
(* ever be used; an unused id has status "NONE").  Wall-clock leases are   *)
(* abstracted to the two facts the code tells apart: "live" (NOW() before  *)
(* lease_expires_at) and "expired".                                        *)
(***************************************************************************)
EXTENDS Naturals

CONSTANTS
    Execs,      \* ids of job_executions rows
    Keys,       \* logical identities: queue, type, logical_key, tenant, window
    Policy,     \* uniqueness policy of each identity
    Hashes,     \* input_hash values
    Tokens,     \* execution tokens (random UUIDs)
    None        \* SQL NULL

Policies == {"PERMANENT", "PERMANENT_BY_INPUT", "ACTIVE_ONLY", "WINDOWED",
             "REPLACEABLE"}

ASSUME PolicyAssumption == Policy \in [Keys -> Policies]
ASSUME NoneAssumption == None \notin Execs \cup Keys \cup Tokens \cup Hashes

VARIABLES
    exec,       \* job_executions: id -> row
    outbox,     \* job_outbox: status of the ENQUEUE event of each execution
    runs        \* history: successful acquireLease calls per execution

tableVars == <<exec, outbox, runs>>

Active == {"PENDING", "ENQUEUED", "RUNNING"}
Statuses == Active \cup {"NONE", "COMPLETED", "FAILED", "CANCELLED",
                         "SUPERSEDED", "UNKNOWN"}

Row == [st : Statuses, key : Keys \cup {None}, hash : Hashes \cup {None},
        gen : Nat, tok : Tokens \cup {None},
        lease : {"none", "live", "expired"},
        class : {"none", "RETRYABLE", "TERMINAL"},
        attempts : Nat,                          \* attempt_count
        unk : {"never", "open", "resolved"},     \* unknown_since, resolved_at
        by : Execs \cup {None},                  \* superseded_by_id
        born : Nat]                              \* created_at

OutboxStatuses == {"NONE", "PENDING", "CLAIMED", "PUBLISHED", "DISCARDED",
                   "FAILED"}

FreeRow == [st |-> "NONE", key |-> None, hash |-> None, gen |-> 0,
            tok |-> None, lease |-> "none", class |-> "none", attempts |-> 0,
            unk |-> "never", by |-> None, born |-> 0]

TableInit ==
    /\ exec = [e \in Execs |-> FreeRow]
    /\ outbox = [e \in Execs |-> "NONE"]
    /\ runs = [e \in Execs |-> 0]

TableTypeOK ==
    /\ exec \in [Execs -> Row]
    /\ outbox \in [Execs -> OutboxStatuses]
    /\ runs \in [Execs -> Nat]

RowsOf(k) == {e \in Execs : exec[e].st # "NONE" /\ exec[e].key = k}

(***************************************************************************)
(* Table constraints.                                                      *)
(***************************************************************************)

\* The CHECK constraints that relate the columns of one row.
RowChecks(r) ==
    /\ r.st = "RUNNING" => r.tok # None /\ r.lease # "none"
    /\ r.st \notin Active => r.tok = None
    /\ (r.st = "FAILED") <=> (r.class # "none")
    /\ r.st = "SUPERSEDED" => r.by # None
    /\ (r.st = "UNKNOWN") <=> (r.unk = "open")
    /\ r.st = "UNKNOWN" => r.lease = "none"
    /\ r.unk = "resolved" => r.st \in {"COMPLETED", "FAILED"}

\* Mutants: an index that frees the identity of a finished execution, and one
\* that forgets the queued states.
BlocksFreedOnCompletion(r) == r.st \in Active
BlocksOnlyRunning(r) == r.st = "RUNNING"

\* The WHERE clause of the partial unique index of the policy: a row that
\* satisfies it blocks the insertion of another row with its identity.
Blocks(r) ==
    CASE Policy[r.key] = "ACTIVE_ONLY" -> r.st \in Active
      [] Policy[r.key] = "REPLACEABLE" -> r.st \notin {"SUPERSEDED", "CANCELLED"}
      [] Policy[r.key] = "WINDOWED"    -> TRUE
      [] OTHER                         -> r.st # "SUPERSEDED"

UniqueViolation(table, k) ==
    \E e \in Execs : /\ table[e].st # "NONE"
                     /\ table[e].key = k
                     /\ Blocks(table[e])

\* The row buildInsertSql and replace() insert.
NewRow(k, h, g, t) ==
    [st |-> "PENDING", key |-> k, hash |-> h, gen |-> g, tok |-> None,
     lease |-> "none", class |-> "none", attempts |-> 0, unk |-> "never",
     by |-> None, born |-> t]

(***************************************************************************)
(* Statements on one row.                                                  *)
(***************************************************************************)

\* Mutant: the WHERE clause on the status is missing.
markEnqueuedUnguarded(e) ==
    /\ exec[e].st # "NONE"
    /\ exec' = [exec EXCEPT ![e].st = "ENQUEUED"]
    /\ UNCHANGED runs

markEnqueued(e) ==
    /\ exec[e].st = "PENDING"
    /\ exec' = [exec EXCEPT ![e].st = "ENQUEUED"]
    /\ UNCHANGED runs

\* Mutants: a running execution can be acquired again; only one not yet
\* confirmed by the relay can be acquired.
CanAcquireRunning(e, g) == exec[e].st \in Active /\ exec[e].gen = g
CanAcquirePending(e, g) == exec[e].st = "PENDING" /\ exec[e].gen = g

CanAcquire(e, g) == exec[e].st \in {"PENDING", "ENQUEUED"} /\ exec[e].gen = g

acquireLease(e, t, g) ==
    /\ CanAcquire(e, g)
    /\ exec' = [exec EXCEPT ![e].st = "RUNNING", ![e].tok = t,
                            ![e].lease = "live"]
    /\ runs' = [runs EXCEPT ![e] = @ + 1]

\* The fencing condition of complete, fail, markUnknown and renewLease.
Owns(e, t, g) ==
    exec[e].st = "RUNNING" /\ exec[e].tok = t /\ exec[e].gen = g

renewLease(e, t, g) ==
    /\ Owns(e, t, g)
    /\ exec' = [exec EXCEPT ![e].lease = "live"]
    /\ UNCHANGED runs

complete(e, t, g) ==
    /\ Owns(e, t, g)
    /\ exec' = [exec EXCEPT ![e].st = "COMPLETED", ![e].tok = None,
                            ![e].lease = "none"]
    /\ UNCHANGED runs

\* The SET list shared by fail(), recoverExecution() and markExpiredSql().
SetFailed(e, c) ==
    /\ exec' = [exec EXCEPT ![e].st = "FAILED", ![e].class = c,
                            ![e].attempts = @ + 1,
                            ![e].tok = None, ![e].lease = "none"]
    /\ UNCHANGED runs

fail(e, t, g, c) == Owns(e, t, g) /\ SetFailed(e, c)

markUnknown(e, t, g) ==
    /\ Owns(e, t, g)
    /\ exec' = [exec EXCEPT ![e].st = "UNKNOWN", ![e].unk = "open",
                            ![e].tok = None, ![e].lease = "none"]
    /\ UNCHANGED runs

\* resolveUnknownAsCompleted (c = "none"), ...AsRetryable and ...AsTerminal.
resolveUnknown(e, g, c) ==
    /\ exec[e].st = "UNKNOWN"
    /\ exec[e].gen = g
    /\ exec' = [exec EXCEPT ![e].st = IF c = "none" THEN "COMPLETED"
                                                    ELSE "FAILED",
                            ![e].class = c, ![e].unk = "resolved"]
    /\ UNCHANGED runs

\* Mutants: the token is not cleared; the WHERE clause on the status is
\* missing; a misspelt status.
cancelKeepsToken(e) ==
    /\ exec[e].st \in Active
    /\ exec' = [exec EXCEPT ![e].st = "CANCELLED"]
    /\ UNCHANGED runs
cancelUnguarded(e) ==
    /\ exec[e].st # "NONE"
    /\ exec' = [exec EXCEPT ![e].st = "CANCELLED", ![e].tok = None,
                            ![e].lease = "none"]
    /\ UNCHANGED runs
cancelMisspelt(e) ==
    /\ exec[e].st \in Active
    /\ exec' = [exec EXCEPT ![e].st = "CANCELED", ![e].tok = None,
                            ![e].lease = "none"]
    /\ UNCHANGED runs

cancel(e) ==
    /\ exec[e].st \in Active
    /\ exec' = [exec EXCEPT ![e].st = "CANCELLED", ![e].tok = None,
                            ![e].lease = "none"]
    /\ UNCHANGED runs

\* recoverExecution() rechecks the lease in its WHERE clause ...
recoverExecution(e) ==
    /\ exec[e].st = "RUNNING"
    /\ exec[e].lease = "expired"
    /\ SetFailed(e, "RETRYABLE")

\* Mutant: the sweep puts the execution back in the queue.
markExpiredRequeues(e) ==
    /\ exec[e].st = "RUNNING"
    /\ exec' = [exec EXCEPT ![e].st = "ENQUEUED", ![e].tok = None,
                            ![e].lease = "none"]
    /\ UNCHANGED runs

\* ... the sweep's markExpiredSql does not.
markExpired(e) == exec[e].st = "RUNNING" /\ SetFailed(e, "RETRYABLE")

\* NOW() passes lease_expires_at.
LeaseExpires(e) ==
    /\ exec[e].lease = "live"
    /\ exec' = [exec EXCEPT ![e].lease = "expired"]
    /\ UNCHANGED runs

(***************************************************************************)
(* Transactions that create a row.  The execution and its outbox event are *)
(* inserted together.                                                      *)
(***************************************************************************)

insertExecution(e, k, h, t) ==
    /\ exec[e].st = "NONE"
    /\ ~UniqueViolation(exec, k)
    /\ exec' = [exec EXCEPT ![e] = NewRow(k, h, 1, t)]
    /\ outbox' = [outbox EXCEPT ![e] = "PENDING"]
    /\ UNCHANGED runs

\* Row e after replace() marked it SUPERSEDED by n: no condition on status.
Superseded(e, n) ==
    LET r == exec[e]
    IN [st |-> "SUPERSEDED", by |-> n, tok |-> None, lease |-> "none",
        key |-> r.key, hash |-> r.hash, gen |-> r.gen, class |-> r.class,
        attempts |-> r.attempts, unk |-> r.unk, born |-> r.born]

\* Mutant: the new row gets the generation of the old one.
supersedeSameGeneration(e, n, g, k, h, t) ==
    LET table == [exec EXCEPT ![e] = Superseded(e, n)]
    IN /\ exec[n].st = "NONE"
       /\ RowChecks(Superseded(e, n))
       /\ ~UniqueViolation(table, k)
       /\ exec' = [table EXCEPT ![n] = NewRow(k, h, g, t)]
       /\ outbox' = [outbox EXCEPT ![n] = "PENDING"]
       /\ UNCHANGED runs

\* UPDATE the old row, INSERT the new one and its event, in one transaction.
\* The new row's identity k and input h are the caller's (newInput): nothing
\* compares them with the old row's.
supersede(e, n, g, k, h, t) ==
    LET table == [exec EXCEPT ![e] = Superseded(e, n)]
    IN /\ exec[n].st = "NONE"
       /\ RowChecks(Superseded(e, n))
       /\ ~UniqueViolation(table, k)
       /\ exec' = [table EXCEPT ![n] = NewRow(k, h, g + 1, t)]
       /\ outbox' = [outbox EXCEPT ![n] = "PENDING"]
       /\ UNCHANGED runs
=============================================================================
