------------------------- MODULE JobRegistry_proofs -------------------------
(***************************************************************************)
(* Proofs about JobRegistry, for any number of executions, identities,     *)
(* tokens and callers.  The inductive invariant is IndInv.                 *)
(***************************************************************************)
EXTENDS JobRegistry, TLAPS

\* The outcome recorded in row e is not rewritten by this step.
KeepsOutcome(e) ==
    /\ exec[e].st \in {"FAILED", "SUPERSEDED"} =>
         exec'[e].st = exec[e].st /\ exec'[e].class = exec[e].class
    /\ exec[e].st \in {"COMPLETED", "CANCELLED"} =>
         exec'[e].st \in {exec[e].st, "SUPERSEDED"}
    /\ exec[e].st = "UNKNOWN" =>
         exec'[e].st \in {"UNKNOWN", "COMPLETED", "FAILED"}

\* What one single-statement method may do to the table, whichever it is: it
\* changes one existing row, keeps its identity and generation, keeps the
\* CHECK constraints, never makes an inactive row active, and it counts a run
\* exactly when it makes an accepted row RUNNING.
OneRowChanged(e) ==
    /\ exec' \in [Execs -> Row]
    /\ \A f \in Execs \ {e} : exec'[f] = exec[f] /\ runs'[f] = runs[f]
    /\ runs' \in [Execs -> Nat]
    /\ exec[e].st # "NONE" /\ exec'[e].st # "NONE"
    /\ exec'[e].key = exec[e].key
    /\ exec'[e].gen = exec[e].gen
    /\ exec'[e].by = exec[e].by
    /\ KeepsOutcome(e)
    /\ RowChecks(exec'[e])
    /\ exec'[e].lease # "none" => exec'[e].st = "RUNNING"
    /\ exec'[e].st \in Active => exec[e].st \in Active
    /\ exec'[e].st = "SUPERSEDED" => exec[e].st = "SUPERSEDED"
    /\ exec'[e].st \in {"PENDING", "ENQUEUED"} =>
         exec[e].st \in {"PENDING", "ENQUEUED"}
    /\ \/ runs'[e] = runs[e]
       \/ /\ exec[e].st \in {"PENDING", "ENQUEUED"}
          /\ exec'[e].st = "RUNNING"
          /\ runs'[e] = runs[e] + 1

\* Two versions of a row are of the same execution.
SameIdentity(r, old) == r.key = old.key /\ r.gen = old.gen /\ r.by = old.by

\* It is enough to look at the new row, and every statement starts from a row
\* that is active or UNKNOWN.
LEMMA OneRowSuffices ==
    ASSUME TableTypeOK, NEW e \in Execs, NEW row \in Row, exec' = [exec EXCEPT ![e] = row],
           exec[e].st \in Active \cup {"UNKNOWN"},
           row.st \notin {"NONE", "SUPERSEDED"}, RowChecks(row),
           SameIdentity(row, exec[e]),
           row.lease # "none" => row.st = "RUNNING",
           row.st \in Active => exec[e].st \in Active,
           row.st \in {"PENDING", "ENQUEUED"} => exec[e].st \in {"PENDING", "ENQUEUED"},
           exec[e].st = "UNKNOWN" => row.st \in {"UNKNOWN", "COMPLETED", "FAILED"},
           \/ runs' = runs
           \/ /\ exec[e].st \in {"PENDING", "ENQUEUED"} /\ row.st = "RUNNING"
              /\ runs' = [runs EXCEPT ![e] = @ + 1]
    PROVE  OneRowChanged(e)
<1>1. /\ exec' \in [Execs -> Row] /\ exec'[e] = row
      /\ \A f \in Execs \ {e} : exec'[f] = exec[f]
  BY DEF TableTypeOK
<1>2. runs' \in [Execs -> Nat] /\ \A f \in Execs \ {e} : runs'[f] = runs[f]
  BY DEF TableTypeOK
<1>3. \/ runs'[e] = runs[e]
      \/ /\ exec[e].st \in {"PENDING", "ENQUEUED"} /\ row.st = "RUNNING"
         /\ runs'[e] = runs[e] + 1
  BY DEF TableTypeOK
<1>4. KeepsOutcome(e)
  BY <1>1 DEF KeepsOutcome, Active
<1>5. exec[e].st # "NONE" BY DEF Active
<1> QED BY <1>1, <1>2, <1>3, <1>4, <1>5 DEF OneRowChanged, SameIdentity

\* Each statement of the repository has only the effect OneRowChanged allows.
LEMMA StatementEffect ==
    ASSUME TableTypeOK, RowsAreConsistent, LeaseOnlyWhileRunning, Statement
    PROVE  \E e \in Execs : OneRowChanged(e)
<1> USE NoneAssumption
<1>1. PICK e \in Execs :
         \/ markEnqueued(e)
         \/ cancel(e)
         \/ recoverExecution(e)
         \/ markExpired(e)
         \/ LeaseExpires(e)
         \/ \E g \in 1..Cardinality(Execs) :
              \/ \E c \in {"none", "RETRYABLE", "TERMINAL"} :
                   resolveUnknown(e, g, c)
              \/ \E t \in Tokens :
                   \/ Fresh(t) /\ acquireLease(e, t, g)
                   \/ renewLease(e, t, g)
                   \/ complete(e, t, g)
                   \/ markUnknown(e, t, g)
                   \/ \E c \in {"RETRYABLE", "TERMINAL"} : fail(e, t, g, c)
  BY DEF Statement
<1>2. /\ exec[e] \in Row /\ runs[e] \in Nat /\ RowChecks(exec[e])
      /\ exec[e].lease # "none" => exec[e].st = "RUNNING"
  BY DEF TableTypeOK, RowsAreConsistent, LeaseOnlyWhileRunning
<1> SUFFICES OneRowChanged(e)
  OBVIOUS
<1>3. CASE markEnqueued(e)
  <2> DEFINE row == [exec[e] EXCEPT !.st = "ENQUEUED"]
  <2>1. exec' = [exec EXCEPT ![e] = row] BY <1>3 DEF markEnqueued
  <2>2. row \in Row BY <1>2 DEF Row, Statuses, Active
  <2>3. /\ row.st = "ENQUEUED" /\ row.tok = exec[e].tok /\ row.lease = exec[e].lease
        /\ row.class = exec[e].class /\ row.unk = exec[e].unk /\ SameIdentity(row, exec[e])
    BY <1>2 DEF Row, SameIdentity
  <2> HIDE DEF row
  <2> QED
    BY <1>2, <1>3, <2>1, <2>2, <2>3, OneRowSuffices
    DEF markEnqueued, RowChecks, Active
<1>4. CASE cancel(e)
  <2> DEFINE row == [exec[e] EXCEPT !.st = "CANCELLED", !.tok = None, !.lease = "none"]
  <2>1. exec' = [exec EXCEPT ![e] = row] BY <1>4 DEF cancel
  <2>2. row \in Row BY <1>2 DEF Row, Statuses, Active
  <2>3. /\ row.st = "CANCELLED" /\ row.tok = None /\ row.lease = "none"
        /\ row.class = exec[e].class /\ row.unk = exec[e].unk /\ SameIdentity(row, exec[e])
    BY <1>2 DEF Row, SameIdentity
  <2> HIDE DEF row
  <2> QED
    BY <1>2, <1>4, <2>1, <2>2, <2>3, OneRowSuffices
    DEF cancel, RowChecks, Active
<1>5. ASSUME NEW c \in {"RETRYABLE", "TERMINAL"}, exec[e].st = "RUNNING", SetFailed(e, c)
      PROVE  OneRowChanged(e)
  <2> DEFINE row == [exec[e] EXCEPT !.st = "FAILED", !.class = c, !.attempts = @ + 1,
                                    !.tok = None, !.lease = "none"]
  <2>1. exec' = [exec EXCEPT ![e] = row] BY <1>5 DEF SetFailed
  <2>2. row \in Row
    <3>1. exec[e].attempts + 1 \in Nat BY <1>2 DEF Row
    <3> QED BY <1>2, <1>5, <3>1 DEF Row, Statuses
  <2>3. /\ row.st = "FAILED" /\ row.tok = None /\ row.lease = "none"
        /\ row.class = c /\ row.unk = exec[e].unk /\ SameIdentity(row, exec[e])
    BY <1>2 DEF Row, SameIdentity
  <2> HIDE DEF row
  <2> QED
    BY <1>2, <1>5, <2>1, <2>2, <2>3, OneRowSuffices
    DEF SetFailed, RowChecks, Active
<1>6. CASE LeaseExpires(e)
  <2> DEFINE row == [exec[e] EXCEPT !.lease = "expired"]
  <2>1. exec' = [exec EXCEPT ![e] = row] BY <1>6 DEF LeaseExpires
  <2>2. row \in Row BY <1>2 DEF Row, Statuses, Active
  <2>3. /\ row.st = exec[e].st /\ row.tok = exec[e].tok /\ row.lease = "expired"
        /\ row.class = exec[e].class /\ row.unk = exec[e].unk /\ SameIdentity(row, exec[e])
    BY <1>2 DEF Row, SameIdentity
  <2> HIDE DEF row
  <2> QED
    BY <1>2, <1>6, <2>1, <2>2, <2>3, OneRowSuffices
    DEF LeaseExpires, RowChecks, Active
<1>7. ASSUME NEW g \in 1..Cardinality(Execs),
             NEW c \in {"none", "RETRYABLE", "TERMINAL"},
             resolveUnknown(e, g, c)
      PROVE  OneRowChanged(e)
  <2>0. PICK st \in {"COMPLETED", "FAILED"} : st = IF c = "none" THEN "COMPLETED" ELSE "FAILED"
    OBVIOUS
  <2> DEFINE row == [exec[e] EXCEPT !.st = st, !.class = c, !.unk = "resolved"]
  <2>1. exec' = [exec EXCEPT ![e] = row] BY <2>0, <1>7 DEF resolveUnknown
  <2>2. row \in Row
    <3>1. st \in Statuses /\ c \in {"none", "RETRYABLE", "TERMINAL"}
      BY <1>7, <2>0 DEF Statuses
    <3> QED BY <1>2, <3>1 DEF Row
  <2>3. /\ row.st = st /\ row.tok = exec[e].tok /\ row.lease = exec[e].lease
        /\ row.class = c /\ row.unk = "resolved" /\ SameIdentity(row, exec[e])
    BY <1>2 DEF Row, SameIdentity
  <2> HIDE DEF row
  <2> QED
    BY <1>2, <2>0, <1>7, <2>1, <2>2, <2>3, OneRowSuffices
    DEF resolveUnknown, RowChecks, Active
<1>8. ASSUME NEW g \in 1..Cardinality(Execs), NEW t \in Tokens,
             acquireLease(e, t, g)
      PROVE  OneRowChanged(e)
  <2> DEFINE row == [exec[e] EXCEPT !.st = "RUNNING", !.tok = t, !.lease = "live"]
  <2>1. exec' = [exec EXCEPT ![e] = row] BY <1>8 DEF acquireLease
  <2>2. row \in Row BY <1>2, <1>8 DEF Row, Statuses, Active
  <2>3. /\ row.st = "RUNNING" /\ row.tok = t /\ row.lease = "live"
        /\ row.class = exec[e].class /\ row.unk = exec[e].unk /\ SameIdentity(row, exec[e])
    BY <1>2 DEF Row, SameIdentity
  <2> HIDE DEF row
  <2> QED
    BY <1>2, <1>8, <2>1, <2>2, <2>3, OneRowSuffices
    DEF acquireLease, CanAcquire, RowChecks, Active
<1>9. ASSUME NEW g \in 1..Cardinality(Execs), NEW t \in Tokens,
             renewLease(e, t, g)
      PROVE  OneRowChanged(e)
  <2> DEFINE row == [exec[e] EXCEPT !.lease = "live"]
  <2>1. exec' = [exec EXCEPT ![e] = row] BY <1>9 DEF renewLease
  <2>2. row \in Row BY <1>2, <1>9 DEF Row, Statuses, Active
  <2>3. /\ row.st = exec[e].st /\ row.tok = exec[e].tok /\ row.lease = "live"
        /\ row.class = exec[e].class /\ row.unk = exec[e].unk /\ SameIdentity(row, exec[e])
    BY <1>2 DEF Row, SameIdentity
  <2> HIDE DEF row
  <2> QED
    BY <1>2, <1>9, <2>1, <2>2, <2>3, OneRowSuffices
    DEF renewLease, Owns, RowChecks, Active
<1>10. ASSUME NEW g \in 1..Cardinality(Execs), NEW t \in Tokens,
              complete(e, t, g)
       PROVE  OneRowChanged(e)
  <2> DEFINE row == [exec[e] EXCEPT !.st = "COMPLETED", !.tok = None, !.lease = "none"]
  <2>1. exec' = [exec EXCEPT ![e] = row] BY <1>10 DEF complete
  <2>2. row \in Row BY <1>2, <1>10 DEF Row, Statuses, Active
  <2>3. /\ row.st = "COMPLETED" /\ row.tok = None /\ row.lease = "none"
        /\ row.class = exec[e].class /\ row.unk = exec[e].unk /\ SameIdentity(row, exec[e])
    BY <1>2 DEF Row, SameIdentity
  <2> HIDE DEF row
  <2> QED
    BY <1>2, <1>10, <2>1, <2>2, <2>3, OneRowSuffices
    DEF complete, Owns, RowChecks, Active
<1>11. ASSUME NEW g \in 1..Cardinality(Execs), NEW t \in Tokens,
              markUnknown(e, t, g)
       PROVE  OneRowChanged(e)
  <2> DEFINE row == [exec[e] EXCEPT !.st = "UNKNOWN", !.unk = "open", !.tok = None,
                                    !.lease = "none"]
  <2>1. exec' = [exec EXCEPT ![e] = row] BY <1>11 DEF markUnknown
  <2>2. row \in Row BY <1>2, <1>11 DEF Row, Statuses, Active
  <2>3. /\ row.st = "UNKNOWN" /\ row.tok = None /\ row.lease = "none"
        /\ row.class = exec[e].class /\ row.unk = "open" /\ SameIdentity(row, exec[e])
    BY <1>2 DEF Row, SameIdentity
  <2> HIDE DEF row
  <2> QED
    BY <1>2, <1>11, <2>1, <2>2, <2>3, OneRowSuffices
    DEF markUnknown, Owns, RowChecks, Active
<1> QED
  BY <1>1, <1>3, <1>4, <1>5, <1>6, <1>7, <1>8, <1>9, <1>10, <1>11
  DEF markExpired, recoverExecution, fail, Owns

\* Whatever an execution's state, resolving it gives one of the documented
\* answers, so a caller always gets an answer of the right type.
LEMMA RouteKind ==
    ASSUME NEW r, NEW h
    PROVE  routeByPolicy(r, h) \in {"already-active", "already-final"}
BY DEF routeByPolicy, resolvePermanent, resolveActiveOnly, resolveWindowed,
       resolveReplaceable

\* Returning an answer keeps the types of the callers' state.
LEMMA ReturnType ==
    ASSUME TypeOK, NEW c \in Callers, NEW kind \in Kinds,
           NEW e \in Execs, Return(c, kind, e)
    PROVE  /\ caller' \in [Callers -> CallerState]
           /\ answer' \in [Callers -> [kind : Kinds, exec : Execs \cup {None}]]
           /\ caller'[c].op = "idle"
           /\ \A d \in Callers \ {c} : caller'[d] = caller[d]
BY DEF Return, TypeOK, CallerState, Idle

\* The empty tables satisfy the invariant.
LEMMA InitIndInv == Init => IndInv
BY NoneAssumption
   DEF Init, TableInit, FreeRow, IndInv, TypeOK, TableTypeOK, Row, Statuses,
       Active, OutboxStatuses, CallerState, Idle, Kinds, RowsAreConsistent,
       RowChecks, FreshRowsNeverRan, AtMostOneRun, LeaseOnlyWhileRunning,
       RowsHaveKeys, CallersRemember, OneActivePerKey, OnceOnlyRows,
       SupersededChain

\* A single-statement method keeps the invariant: it changes one row, and only
\* towards an outcome.
LEMMA StatementKeepsIndInv ==
    ASSUME IndInv, Statement PROVE IndInv'
<1> USE DEF IndInv
<1>1. PICK e \in Execs : OneRowChanged(e)
  BY StatementEffect DEF TypeOK
<1>2. UNCHANGED <<outbox, caller, answer, clock>>
  BY DEF Statement
<1> HIDE DEF IndInv
<1>3. TypeOK'
  BY <1>1, <1>2 DEF IndInv, TypeOK, TableTypeOK, OneRowChanged
<1>4. RowsAreConsistent' /\ LeaseOnlyWhileRunning'
  BY <1>1 DEF IndInv, RowsAreConsistent, LeaseOnlyWhileRunning, OneRowChanged
<1>5. FreshRowsNeverRan' /\ AtMostOneRun'
  BY <1>1 DEF IndInv, FreshRowsNeverRan, AtMostOneRun, OneRowChanged
<1>6. RowsHaveKeys'
  BY <1>1 DEF IndInv, RowsHaveKeys, OneRowChanged
<1>7. CallersRemember'
  BY <1>1, <1>2 DEF IndInv, CallersRemember, OneRowChanged
<1>8. OneActivePerKey'
  BY <1>1 DEF IndInv, OneActivePerKey, OneRowChanged
<1>9. OnceOnlyRows'
  <2>1. \A f \in Execs :
          /\ exec'[f].st # "NONE" => exec[f].st # "NONE"
          /\ exec'[f].key = exec[f].key
          /\ exec[f].st = "SUPERSEDED" => exec'[f].st = "SUPERSEDED"
    BY <1>1 DEF OneRowChanged, KeepsOutcome
  <2> QED
    BY <2>1 DEF IndInv, OnceOnlyRows
<1>10. SupersededChain'
  BY <1>1 DEF IndInv, SupersededChain, OneRowChanged
<1> QED
  BY <1>3, <1>4, <1>5, <1>6, <1>7, <1>8, <1>9, <1>10 DEF IndInv

\* While the tables do not change, the invariant needs only the callers'
\* types and what they remember.
LEMMA TableUnchanged ==
    ASSUME IndInv, UNCHANGED tableVars, clock' \in Nat,
           caller' \in [Callers -> CallerState],
           answer' \in [Callers -> [kind : Kinds, exec : Execs \cup {None}]],
           CallersRemember'
    PROVE  IndInv'
BY DEF IndInv, tableVars, TypeOK, TableTypeOK, RowsAreConsistent,
       FreshRowsNeverRan, AtMostOneRun, LeaseOnlyWhileRunning, RowsHaveKeys,
       OneActivePerKey, OnceOnlyRows, SupersededChain

\* The pre-check of createOrResolve keeps the invariant.
LEMMA CreateCheckKeepsIndInv ==
    ASSUME IndInv, NEW c \in Callers, NEW k \in Keys, NEW h \in Hashes,
           CreateCheck(c, k, h)
    PROVE  IndInv'
<1>1. clock' \in Nat /\ UNCHANGED tableVars
  BY DEF CreateCheck, IndInv, TypeOK
<1>2. CASE \E e \in Latest(k) : Return(c, routeByPolicy(exec[e], h), e)
  <2>1. PICK e \in Execs : Return(c, routeByPolicy(exec[e], h), e)
    BY <1>2 DEF Latest, RowsOf
  <2>2. routeByPolicy(exec[e], h) \in Kinds
    BY RouteKind DEF Kinds
  <2>3. /\ caller' \in [Callers -> CallerState]
        /\ answer' \in [Callers -> [kind : Kinds, exec : Execs \cup {None}]]
        /\ caller'[c].op = "idle"
        /\ \A d \in Callers \ {c} : caller'[d] = caller[d]
    BY <2>1, <2>2, ReturnType DEF IndInv
  <2>4. CallersRemember'
    BY <1>1, <2>3 DEF IndInv, CallersRemember, tableVars
  <2> QED
    BY <1>1, <2>3, <2>4, TableUnchanged
<1>3. CASE /\ caller' = [caller EXCEPT ![c] =
                           [op |-> "create", key |-> k, hash |-> h,
                            prev |-> None, gen |-> 0, start |-> clock + 1]]
           /\ UNCHANGED answer
  <2>1. /\ caller' \in [Callers -> CallerState]
        /\ answer' \in [Callers -> [kind : Kinds, exec : Execs \cup {None}]]
        /\ caller'[c].op = "create" /\ caller'[c].key = k
        /\ \A d \in Callers \ {c} : caller'[d] = caller[d]
    BY <1>3 DEF IndInv, TypeOK, CallerState
  <2>2. CallersRemember'
    BY <1>1, <2>1 DEF IndInv, CallersRemember, tableVars
  <2> QED
    BY <1>1, <2>1, <2>2, TableUnchanged
<1> QED
  BY <1>2, <1>3 DEF CreateCheck

\* An inserted row keeps the invariant when the unique index of its identity
\* found nothing to object to: no other row of the identity is active, and
\* the rows of a once-only identity are all superseded.
LEMMA InsertKeepsIndInv ==
    ASSUME IndInv, NEW n \in Execs, NEW k \in Keys, NEW h \in Hashes \cup {None},
           NEW g \in Nat, NEW t \in Nat, NEW c \in Callers,
           NEW kind \in Kinds, Return(c, kind, n),
           exec[n].st = "NONE",
           NEW table \in [Execs -> Row],
           \A e \in Execs : exec[e] = table[e] \/
               (/\ exec[e].st # "NONE" /\ table[e].st = "SUPERSEDED"
                /\ table[e].key = exec[e].key /\ table[e].gen = exec[e].gen
                /\ table[e].lease = "none" /\ RowChecks(table[e])
                /\ table[e].by = n /\ g = exec[e].gen + 1),
           ~UniqueViolation(table, k),
           exec' = [table EXCEPT ![n] = NewRow(k, h, g, t)],
           outbox' = [outbox EXCEPT ![n] = "PENDING"],
           UNCHANGED <<runs, clock>>
    PROVE  IndInv'
<1>1. NewRow(k, h, g, t) =
        [st |-> "PENDING", key |-> k, hash |-> h, gen |-> g,
         tok |-> None, lease |-> "none", class |-> "none", attempts |-> 0,
         unk |-> "never", by |-> None, born |-> t]
  BY DEF NewRow
<1>2. NewRow(k, h, g, t) \in Row
  BY <1>1 DEF Row, Statuses, Active
<1>3. /\ caller' \in [Callers -> CallerState]
      /\ answer' \in [Callers -> [kind : Kinds, exec : Execs \cup {None}]]
      /\ caller'[c].op = "idle"
      /\ \A d \in Callers \ {c} : caller'[d] = caller[d]
  BY ReturnType DEF IndInv
<1>4. TypeOK'
  BY <1>2, <1>3 DEF IndInv, TypeOK, TableTypeOK, OutboxStatuses
<1>5. /\ exec'[n] = NewRow(k, h, g, t)
      /\ \A e \in Execs \ {n} : exec'[e] = table[e]
      /\ table[n] = exec[n]
  BY DEF IndInv, TypeOK, TableTypeOK
<1>6. RowsAreConsistent' /\ LeaseOnlyWhileRunning'
  BY <1>1, <1>5 DEF IndInv, RowsAreConsistent, LeaseOnlyWhileRunning, RowChecks,
                    Active
<1>7. FreshRowsNeverRan' /\ AtMostOneRun'
  BY <1>1, <1>5 DEF IndInv, FreshRowsNeverRan, AtMostOneRun
<1>8. RowsHaveKeys'
  BY <1>1, <1>5 DEF IndInv, RowsHaveKeys
<1>9. CallersRemember'
  <2>1. \A e \in Execs : exec[e].st # "NONE" =>
          /\ exec'[e].st # "NONE" /\ exec'[e].gen = exec[e].gen
          /\ exec'[e].key = exec[e].key
    BY <1>5
  <2> QED BY <1>3, <2>1 DEF IndInv, CallersRemember
<1>10. \A e \in Execs \ {n} : table[e].st # "NONE" /\ table[e].key = k
                              => ~Blocks(table[e])
  BY DEF UniqueViolation
<1>11. Policy[k] \in Policies
  BY PolicyAssumption
<1>12. OneActivePerKey'
  <2>1. \A e \in Execs \ {n} : exec'[e].st \in Active => exec'[e].key # k
    BY <1>5, <1>10, <1>11 DEF Blocks, Active, Policies
  <2> QED
    BY <1>1, <1>5, <2>1 DEF IndInv, OneActivePerKey, Active
<1>13. OnceOnlyRows'
  <2>1. ASSUME NEW e \in Execs \ {n}, exec'[e].st # "NONE", exec'[e].key = k,
               Policy[k] \in OnceOnly
        PROVE  Policy[k] # "WINDOWED" /\ exec'[e].st = "SUPERSEDED"
    BY <1>5, <1>10, <2>1 DEF Blocks, OnceOnly
  <2>2. \A e \in Execs \ {n} :
          /\ exec'[e].st # "NONE" => exec[e].st # "NONE"
          /\ exec'[e].key = exec[e].key
          /\ exec[e].st = "SUPERSEDED" => exec'[e].st = "SUPERSEDED"
    BY <1>5
  <2>3. exec'[n].key = k
    BY <1>1, <1>5
  <2> SUFFICES ASSUME NEW e \in Execs, NEW f \in Execs, e # f,
                      exec'[e].st # "NONE", exec'[f].st # "NONE",
                      exec'[e].key = exec'[f].key,
                      Policy[exec'[e].key] \in OnceOnly
               PROVE  /\ Policy[exec'[e].key] # "WINDOWED"
                      /\ exec'[e].st = "SUPERSEDED" \/ exec'[f].st = "SUPERSEDED"
    BY DEF OnceOnlyRows
  <2>4. CASE n \in {e, f}
    BY <2>1, <2>3, <2>4
  <2>5. CASE n \notin {e, f}
    BY <2>2, <2>5 DEF IndInv, OnceOnlyRows
  <2> QED
    BY <2>4, <2>5
<1>14. SupersededChain'
  BY <1>1, <1>5 DEF IndInv, SupersededChain
<1> QED
  BY <1>4, <1>6, <1>7, <1>8, <1>9, <1>12, <1>13, <1>14 DEF IndInv

\* The writes of createOrResolve keep the invariant: either the unique index
\* accepts the row, or nothing is written.
LEMMA CreateInsertKeepsIndInv ==
    ASSUME IndInv, NEW c \in Callers, CreateInsert(c)
    PROVE  IndInv'
<1>1. /\ caller[c].key \in Keys /\ caller[c].hash \in Hashes \cup {None}
      /\ caller[c].start \in Nat /\ UNCHANGED clock /\ clock \in Nat
  BY DEF CreateInsert, IndInv, CallersRemember, TypeOK, CallerState
<1>2. ASSUME NEW e \in Execs,
             insertExecution(e, caller[c].key, caller[c].hash, caller[c].start),
             Return(c, "created", e)
      PROVE  IndInv'
  <2>1. /\ exec \in [Execs -> Row] /\ exec[e].st = "NONE"
        /\ ~UniqueViolation(exec, caller[c].key)
        /\ exec' = [exec EXCEPT ![e] = NewRow(caller[c].key, caller[c].hash,
                                              1, caller[c].start)]
        /\ outbox' = [outbox EXCEPT ![e] = "PENDING"]
        /\ UNCHANGED <<runs, clock>>
    BY <1>1, <1>2 DEF insertExecution, IndInv, TypeOK, TableTypeOK
  <2>2. "created" \in Kinds
    BY DEF Kinds
  <2> QED
    BY <1>1, <1>2, <2>1, <2>2, InsertKeepsIndInv
<1>3. ASSUME NEW e \in Latest(caller[c].key),
             Return(c, routeByPolicy(exec[e], caller[c].hash), e),
             UNCHANGED tableVars
      PROVE  IndInv'
  <2>1. e \in Execs
    BY DEF Latest, RowsOf
  <2>2. routeByPolicy(exec[e], caller[c].hash) \in Kinds
    BY RouteKind DEF Kinds
  <2>3. /\ caller' \in [Callers -> CallerState]
        /\ answer' \in [Callers -> [kind : Kinds, exec : Execs \cup {None}]]
        /\ caller'[c].op = "idle"
        /\ \A d \in Callers \ {c} : caller'[d] = caller[d]
    BY <1>3, <2>1, <2>2, ReturnType DEF IndInv
  <2>4. CallersRemember'
    BY <1>3, <2>3 DEF IndInv, CallersRemember, tableVars
  <2> QED
    BY <1>1, <1>3, <2>3, <2>4, TableUnchanged
<1> QED
  BY <1>2, <1>3 DEF CreateInsert

\* The SELECT of replace() keeps the invariant.
LEMMA ReplaceSelectKeepsIndInv ==
    ASSUME IndInv, NEW c \in Callers, NEW e \in Execs,
           NEW t \in Tokens \cup {None}, NEW k \in Keys, NEW h \in Hashes,
           ReplaceSelect(c, e, t, k, h)
    PROVE  IndInv'
<1>1. /\ clock \in Nat /\ clock' \in Nat /\ UNCHANGED tableVars
      /\ exec[e].st # "NONE" /\ exec[e] \in Row
  BY DEF ReplaceSelect, IndInv, TypeOK, TableTypeOK
<1>2. CASE Return(c, "fencing-rejected", e)
  <2>1. /\ caller' \in [Callers -> CallerState]
        /\ answer' \in [Callers -> [kind : Kinds, exec : Execs \cup {None}]]
        /\ caller'[c].op = "idle"
        /\ \A d \in Callers \ {c} : caller'[d] = caller[d]
    BY <1>2, ReturnType DEF IndInv, Kinds
  <2>2. CallersRemember'
    BY <1>1, <2>1 DEF IndInv, CallersRemember, tableVars
  <2> QED
    BY <1>1, <2>1, <2>2, TableUnchanged
<1>3. CASE /\ caller' = [caller EXCEPT ![c] =
                           [op |-> "replace", key |-> k, hash |-> h,
                            prev |-> e, gen |-> exec[e].gen,
                            start |-> clock + 1]]
           /\ UNCHANGED answer
  <2>1. exec[e].gen \in Nat
    BY <1>1 DEF Row
  <2>2. /\ caller' \in [Callers -> CallerState]
        /\ answer' \in [Callers -> [kind : Kinds, exec : Execs \cup {None}]]
        /\ caller'[c].op = "replace" /\ caller'[c].prev = e
        /\ caller'[c].key = k /\ caller'[c].gen = exec[e].gen
        /\ \A d \in Callers \ {c} : caller'[d] = caller[d]
    BY <1>1, <1>3, <2>1 DEF IndInv, TypeOK, CallerState
  <2>3. CallersRemember'
    BY <1>1, <2>2 DEF IndInv, CallersRemember, tableVars
  <2> QED
    BY <1>1, <2>2, <2>3, TableUnchanged
<1> QED
  BY <1>2, <1>3 DEF ReplaceSelect

\* The writes of replace() keep the invariant although the row it read may
\* have changed since: the old row keeps its identity and generation, and the
\* CHECK constraints and the unique index refuse what would break the rest.
LEMMA ReplaceCommitKeepsIndInv ==
    ASSUME IndInv, NEW c \in Callers, ReplaceCommit(c)
    PROVE  IndInv'
<1> DEFINE e == caller[c].prev
<1>1. /\ e \in Execs /\ exec[e].st # "NONE" /\ exec[e] \in Row
      /\ exec[e].gen = caller[c].gen /\ caller[c].key \in Keys
      /\ caller[c].hash \in Hashes \cup {None}
      /\ caller[c].start \in Nat /\ caller[c].gen + 1 \in Nat
      /\ UNCHANGED clock /\ clock \in Nat
  BY DEF ReplaceCommit, IndInv, CallersRemember, TypeOK, TableTypeOK,
         CallerState, RowsHaveKeys
<1>2. ASSUME NEW n \in Execs,
             supersede(e, n, caller[c].gen, caller[c].key, caller[c].hash,
                       caller[c].start),
             Return(c, "replaced", n)
      PROVE  IndInv'
  <2> DEFINE table == [exec EXCEPT ![e] = Superseded(e, n)]
  <2>1. /\ exec[n].st = "NONE" /\ RowChecks(Superseded(e, n))
        /\ ~UniqueViolation(table, caller[c].key)
        /\ exec' = [table EXCEPT ![n] = NewRow(caller[c].key, caller[c].hash,
                                       caller[c].gen + 1, caller[c].start)]
        /\ outbox' = [outbox EXCEPT ![n] = "PENDING"]
        /\ UNCHANGED <<runs, clock>>
    BY <1>1, <1>2 DEF supersede
  <2>2. /\ Superseded(e, n) \in Row
        /\ Superseded(e, n).st = "SUPERSEDED"
        /\ Superseded(e, n).lease = "none" /\ Superseded(e, n).by = n
        /\ Superseded(e, n).key = exec[e].key
        /\ Superseded(e, n).gen = exec[e].gen
    BY <1>1 DEF Superseded, Row, Statuses
  <2>3. /\ table \in [Execs -> Row]
        /\ table[e] = Superseded(e, n)
        /\ \A f \in Execs \ {e} : table[f] = exec[f]
    BY <1>1, <2>2 DEF IndInv, TypeOK, TableTypeOK
  <2>4. \A f \in Execs : exec[f] = table[f] \/
               (/\ exec[f].st # "NONE" /\ table[f].st = "SUPERSEDED"
                /\ table[f].key = exec[f].key /\ table[f].gen = exec[f].gen
                /\ table[f].lease = "none" /\ RowChecks(table[f])
                /\ table[f].by = n /\ caller[c].gen + 1 = exec[f].gen + 1)
    BY <1>1, <2>1, <2>2, <2>3
  <2>5. "replaced" \in Kinds
    BY DEF Kinds
  <2> HIDE DEF table, e
  <2> QED
    BY <1>1, <1>2, <2>1, <2>3, <2>4, <2>5, InsertKeepsIndInv
<1>3. ASSUME NEW kind \in {"check-violation", "unique-violation"},
             Return(c, kind, e), UNCHANGED tableVars
      PROVE  IndInv'
  <2>1. /\ caller' \in [Callers -> CallerState]
        /\ answer' \in [Callers -> [kind : Kinds, exec : Execs \cup {None}]]
        /\ caller'[c].op = "idle"
        /\ \A d \in Callers \ {c} : caller'[d] = caller[d]
    <3>1. kind \in Kinds
      BY DEF Kinds
    <3> QED
      BY <1>1, <1>3, <3>1, ReturnType DEF IndInv
  <2>2. CallersRemember'
    BY <1>3, <2>1 DEF IndInv, CallersRemember, tableVars
  <2> QED
    BY <1>1, <1>3, <2>1, <2>2, TableUnchanged
<1> QED
  BY <1>2, <1>3 DEF ReplaceCommit

\* A transaction that rolls back keeps the invariant.
LEMMA RollbackKeepsIndInv ==
    ASSUME IndInv, NEW c \in Callers, Rollback(c)
    PROVE  IndInv'
<1>1. /\ UNCHANGED tableVars /\ clock' \in Nat
      /\ caller' \in [Callers -> CallerState]
      /\ answer' \in [Callers -> [kind : Kinds, exec : Execs \cup {None}]]
      /\ caller'[c].op = "idle"
      /\ \A d \in Callers \ {c} : caller'[d] = caller[d]
  BY DEF Rollback, tableVars, IndInv, TypeOK, CallerState, Idle
<1>2. CallersRemember'
  BY <1>1 DEF IndInv, CallersRemember, tableVars
<1> QED
  BY <1>1, <1>2, TableUnchanged

\* No step of any caller, worker or sweep breaks the invariant.
LEMMA NextKeepsIndInv == IndInv /\ [Next]_vars => IndInv'
<1> SUFFICES ASSUME IndInv, [Next]_vars PROVE IndInv'
  OBVIOUS
<1>1. CASE Statement
  BY <1>1, StatementKeepsIndInv
<1>2. ASSUME NEW c \in Callers, NEW k \in Keys, NEW h \in Hashes,
             CreateCheck(c, k, h)
      PROVE  IndInv'
  BY <1>2, CreateCheckKeepsIndInv
<1>3. ASSUME NEW c \in Callers, CreateInsert(c) PROVE IndInv'
  BY <1>3, CreateInsertKeepsIndInv
<1>4. ASSUME NEW c \in Callers, NEW e \in Execs, NEW t \in Tokens \cup {None},
             NEW k \in Keys, NEW h \in Hashes, ReplaceSelect(c, e, t, k, h)
      PROVE  IndInv'
  BY <1>4, ReplaceSelectKeepsIndInv
<1>5. ASSUME NEW c \in Callers, ReplaceCommit(c) PROVE IndInv'
  BY <1>5, ReplaceCommitKeepsIndInv
<1>6. ASSUME NEW c \in Callers, Rollback(c) PROVE IndInv'
  BY <1>6, RollbackKeepsIndInv
<1>7. CASE UNCHANGED vars
  <2>1. UNCHANGED tableVars /\ UNCHANGED <<caller, answer, clock>>
    BY <1>7 DEF vars, tableVars
  <2>2. CallersRemember'
    BY <2>1 DEF IndInv, CallersRemember, tableVars
  <2> QED
    BY <2>1, <2>2, TableUnchanged DEF IndInv, TypeOK
<1> QED
  BY <1>1, <1>2, <1>3, <1>4, <1>5, <1>6, <1>7 DEF Next

\* The invariant holds in every reachable state of the registry.
THEOREM Invariance == Spec => []IndInv
  BY InitIndInv, NextKeepsIndInv, PTL DEF Spec

\* Every column keeps its type, and every answer is a documented one.
THEOREM TypeCorrect == Spec => []TypeOK
<1>1. IndInv => TypeOK
  BY DEF IndInv
<1> QED
  BY Invariance, <1>1, PTL

\* No committed row violates a CHECK constraint of job_executions, although
\* none of the single-row statements is guarded by them.
THEOREM ChecksHold == Spec => []RowsAreConsistent
<1>1. IndInv => RowsAreConsistent
  BY DEF IndInv
<1> QED
  BY Invariance, <1>1, PTL

\* No execution is ever acquired twice.
THEOREM SingleRun == Spec => []AtMostOneRun
<1>1. IndInv => AtMostOneRun
  BY DEF IndInv
<1> QED
  BY Invariance, <1>1, PTL

\* No race of createOrResolve, replace and the workers leaves an identity with
\* two active executions.
THEOREM MutualExclusion == Spec => []OneActivePerKey
<1>1. IndInv => OneActivePerKey
  BY DEF IndInv
<1> QED
  BY Invariance, <1>1, PTL

\* superseded_by_id always leads to an execution of the next generation, also
\* when two replace() transactions read the same row.
THEOREM ChainOfGenerations == Spec => []SupersededChain
<1>1. IndInv => SupersededChain
  BY DEF IndInv
<1> QED
  BY Invariance, <1>1, PTL

\* A WINDOWED identity is worked on once, and a PERMANENT or
\* PERMANENT_BY_INPUT one once until replace() supersedes its execution,
\* although createOrResolve and replace() read without a lock.
THEOREM OnceUnlessReplaced == Spec => []RerunOnlyByReplace
<1>1. IndInv => RerunOnlyByReplace
  <2>1. ASSUME IndInv, NEW e \in Execs, runs[e] > 0
        PROVE  exec[e].st # "NONE"
    BY <2>1 DEF IndInv, FreshRowsNeverRan
  <2> QED
    BY <2>1 DEF IndInv, OnceOnlyRows, RerunOnlyByReplace
<1> QED
  BY Invariance, <1>1, PTL

\* No step rewrites a recorded outcome.  The one write without a condition on
\* the status is the UPDATE of replace(): a FAILED or UNKNOWN row is protected
\* only by the CHECK constraints that make its transaction fail.
LEMMA StepKeepsOutcome ==
    ASSUME IndInv, [Next]_vars
    PROVE  \A e \in Execs : KeepsOutcome(e)
<1>1. CASE UNCHANGED exec
  BY <1>1 DEF KeepsOutcome
<1>2. CASE Statement
  <2>1. PICK e \in Execs : OneRowChanged(e)
    BY <1>2, StatementEffect DEF IndInv, TypeOK
  <2> QED
    BY <2>1 DEF OneRowChanged, KeepsOutcome
<1>3. ASSUME NEW c \in Callers, NEW n \in Execs,
             insertExecution(n, caller[c].key, caller[c].hash, caller[c].start)
      PROVE  \A e \in Execs : KeepsOutcome(e)
  BY <1>3 DEF insertExecution, KeepsOutcome, IndInv, TypeOK, TableTypeOK
<1>4. ASSUME NEW c \in Callers, NEW n \in Execs, caller[c].op = "replace",
             supersede(caller[c].prev, n, caller[c].gen, caller[c].key,
                       caller[c].hash, caller[c].start)
      PROVE  \A e \in Execs : KeepsOutcome(e)
  <2> DEFINE p == caller[c].prev
  <2>1. p \in Execs /\ exec[p].st # "NONE" /\ RowChecks(exec[p])
    BY <1>4 DEF IndInv, CallersRemember, RowsAreConsistent
  <2>2. exec[n].st = "NONE" /\ RowChecks(Superseded(p, n))
    BY <1>4 DEF supersede
  <2>3. exec'[p] = Superseded(p, n)
    BY <1>4, <2>1, <2>2 DEF supersede, IndInv, TypeOK, TableTypeOK
  <2>4. \A e \in Execs \ {p, n} : exec'[e] = exec[e]
    BY <1>4, <2>1 DEF supersede, IndInv, TypeOK, TableTypeOK
  <2>5. KeepsOutcome(p)
    BY <2>1, <2>2, <2>3 DEF KeepsOutcome, Superseded, RowChecks
  <2> QED
    BY <2>2, <2>4, <2>5 DEF KeepsOutcome
<1> QED
  BY <1>1, <1>2, <1>3, <1>4
     DEF Next, CreateCheck, CreateInsert, ReplaceSelect, ReplaceCommit,
         Rollback, vars, tableVars

\* A recorded outcome is final, for every number of racing callers.
THEOREM OutcomesStand == Spec => OutcomeIsFinal
<1>1. IndInv /\ [Next]_vars => [\A e \in Execs : KeepsOutcome(e)]_vars
  BY StepKeepsOutcome
<1>2. [\A e \in Execs : KeepsOutcome(e)]_vars <=>
      [\A e \in Execs :
         /\ exec[e].st \in {"FAILED", "SUPERSEDED"} =>
              exec'[e].st = exec[e].st /\ exec'[e].class = exec[e].class
         /\ exec[e].st \in {"COMPLETED", "CANCELLED"} =>
              exec'[e].st \in {exec[e].st, "SUPERSEDED"}
         /\ exec[e].st = "UNKNOWN" =>
              exec'[e].st \in {"UNKNOWN", "COMPLETED", "FAILED"}]_vars
  BY DEF KeepsOutcome
<1> QED
  BY Invariance, <1>1, <1>2, PTL DEF Spec, OutcomeIsFinal

\* The outcomes no later step makes active again.
Settled == {"COMPLETED", "FAILED", "CANCELLED", "SUPERSEDED"}

\* What a caller that was told "already-final" can rely on, as an invariant.
FinalAnswersSettled ==
    \A c \in Callers :
        answer[c].kind = "already-final" =>
            /\ answer[c].exec \in Execs
            /\ exec[answer[c].exec].st \in Settled

\* Except for PERMANENT_BY_INPUT, routeByPolicy calls an execution final only
\* when it has a settled outcome.
LEMMA RouteFinal ==
    ASSUME NEW r, NEW h, Policy[r.key] # "PERMANENT_BY_INPUT",
           routeByPolicy(r, h) = "already-final"
    PROVE  r.st \in Settled
BY DEF routeByPolicy, resolvePermanent, resolveActiveOnly, resolveWindowed,
       resolveReplaceable, Settled

\* An answer of createOrResolve is right when it is given, and no later step
\* makes it wrong.
LEMMA StepKeepsFinalAnswers ==
    ASSUME \A k \in Keys : Policy[k] # "PERMANENT_BY_INPUT",
           IndInv, FinalAnswersSettled, [Next]_vars
    PROVE  FinalAnswersSettled'
<1>1. \A e \in Execs : exec[e].st \in Settled => exec'[e].st \in Settled
  BY StepKeepsOutcome DEF KeepsOutcome, Settled
<1>2. answer \in [Callers -> [kind : Kinds, exec : Execs \cup {None}]]
  BY DEF IndInv, TypeOK
<1>3. CASE UNCHANGED answer
  BY <1>1, <1>3 DEF FinalAnswersSettled
<1>4. ASSUME NEW c \in Callers, NEW kind \in Kinds, NEW e \in Execs,
             kind = "already-final" => exec[e].st \in Settled,
             Return(c, kind, e)
      PROVE  FinalAnswersSettled'
  <2>1. /\ answer'[c] = [kind |-> kind, exec |-> e]
        /\ \A d \in Callers \ {c} : answer'[d] = answer[d]
    BY <1>2, <1>4 DEF Return
  <2>2. answer'[c].kind = kind /\ answer'[c].exec = e
    BY <2>1
  <2> QED
    BY <1>1, <1>4, <2>1, <2>2 DEF FinalAnswersSettled
<1>5. ASSUME NEW c \in Callers, NEW k \in Keys, NEW h, NEW e \in Latest(k),
             Return(c, routeByPolicy(exec[e], h), e)
      PROVE  FinalAnswersSettled'
  <2>1. e \in Execs /\ exec[e].key = k
    BY DEF Latest, RowsOf
  <2>2. routeByPolicy(exec[e], h) \in Kinds
    BY RouteKind DEF Kinds
  <2>3. routeByPolicy(exec[e], h) = "already-final" => exec[e].st \in Settled
    BY <2>1, RouteFinal
  <2> QED
    BY <1>4, <1>5, <2>1, <2>2, <2>3
<1>6. ASSUME NEW c \in Callers, CreateInsert(c)
      PROVE  FinalAnswersSettled'
  <2>1. caller[c].key \in Keys
    BY <1>6 DEF CreateInsert, IndInv, CallersRemember
  <2>2. "created" \in Kinds
    BY DEF Kinds
  <2> QED
    BY <1>4, <1>5, <1>6, <2>1, <2>2 DEF CreateInsert
<1>7. ASSUME NEW c \in Callers, ReplaceCommit(c)
      PROVE  FinalAnswersSettled'
  <2>1. caller[c].prev \in Execs
    BY <1>7 DEF ReplaceCommit, IndInv, CallersRemember
  <2>2. {"replaced", "check-violation", "unique-violation"} \subseteq Kinds
    BY DEF Kinds
  <2> QED
    BY <1>4, <1>7, <2>1, <2>2 DEF ReplaceCommit
<1>8. ASSUME NEW c \in Callers, NEW e \in Execs, NEW t \in Tokens \cup {None},
             NEW k \in Keys, NEW h \in Hashes, ReplaceSelect(c, e, t, k, h)
      PROVE  FinalAnswersSettled'
  <2>1. "fencing-rejected" \in Kinds
    BY DEF Kinds
  <2> QED
    BY <1>3, <1>4, <1>8, <2>1 DEF ReplaceSelect
<1>9. ASSUME NEW c \in Callers, NEW k \in Keys, NEW h \in Hashes,
             CreateCheck(c, k, h)
      PROVE  FinalAnswersSettled'
  BY <1>3, <1>5, <1>9 DEF CreateCheck
<1>10. CASE Statement \/ UNCHANGED vars \/ \E c \in Callers : Rollback(c)
  BY <1>3, <1>10 DEF Statement, vars, Rollback
<1> QED
  BY <1>6, <1>7, <1>8, <1>9, <1>10 DEF Next

\* With no PERMANENT_BY_INPUT identity (for which it is false), "already-final"
\* is only ever said of an execution that is not active or ambiguous, and
\* stays true of it.
THEOREM FinalAnswersStand ==
    (\A k \in Keys : Policy[k] # "PERMANENT_BY_INPUT")
    => (Spec => []FinalAnswersAreFinal)
<1> SUFFICES ASSUME \A k \in Keys : Policy[k] # "PERMANENT_BY_INPUT"
             PROVE  Spec => []FinalAnswersAreFinal
  OBVIOUS
<1>1. Init => FinalAnswersSettled
  BY DEF Init, FinalAnswersSettled
<1>2. IndInv /\ FinalAnswersSettled /\ [Next]_vars => FinalAnswersSettled'
  BY StepKeepsFinalAnswers
<1>3. FinalAnswersSettled => FinalAnswersAreFinal
  BY DEF FinalAnswersSettled, FinalAnswersAreFinal, Settled, Active
<1> QED
  BY Invariance, <1>1, <1>2, <1>3, PTL DEF Spec
=============================================================================
