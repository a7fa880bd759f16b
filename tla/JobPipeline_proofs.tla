------------------------- MODULE JobPipeline_proofs -------------------------
(***************************************************************************)
(* Proofs about JobPipeline, for any number of executions, relays, runner  *)
(* invocations, sweeps and faults.                                         *)
(*                                                                         *)
(* None of the safety properties is inductive by itself: they speak of the *)
(* tables, while what a relay or a runner is about to write depends on     *)
(* what it read some steps ago.  The strengthening, IndInv, says which of  *)
(* those reads cannot become false (RelaysRemember, RunnersRemember).      *)
(***************************************************************************)
EXTENDS JobPipeline, TLAPS

\* The execution has not been started, and has no row yet if NONE.
NotStarted(st) == st \in {"NONE", "PENDING", "ENQUEUED"}

\* What a relay has read of the execution of an event stays true: the row
\* exists, and once it has left PENDING it does not come back.
RelayRemembers(l) ==
    /\ \A e \in relay[l].batch : exec[e].st # "NONE"
    /\ relay[l].pc \notin {"idle", "next"} =>
         relay[l].ev \in Execs /\ exec[relay[l].ev].st # "NONE"
    /\ relay[l].pc \in {"publish", "discard"} =>
         exec[relay[l].ev].st # "PENDING"

\* An invocation past acquireLease works on an execution that was started,
\* and what it is about to record as completed its handler has done.
RunnerRemembers(r) ==
    /\ runner[r].pc # "idle" => runner[r].ex \in Execs
    /\ InHandler(r) => ~NotStarted(exec[runner[r].ex].st)
    /\ runner[r].pc = "record" /\ runner[r].res = "completed" =>
         runner[r].ex \in effect

RelaysRemember == \A l \in Relays : RelayRemembers(l)
RunnersRemember == \A r \in Tokens : RunnerRemembers(r)

EventsHaveRows == \A e \in Execs : outbox[e] # "NONE" => exec[e].st # "NONE"
NotStartedNeverRan == \A e \in Execs : NotStarted(exec[e].st) => runs[e] = 0
DoubtIsOpen == \A e \in Execs : exec[e].st = "UNKNOWN" => exec[e].unk = "open"

IndInv ==
    /\ TypeOK
    /\ RelaysRemember
    /\ RunnersRemember
    /\ EventsHaveRows
    /\ NotStartedNeverRan
    /\ DoubtIsOpen
    /\ PendingHasEvent
    /\ SoleWorker
    /\ NoFalseCompletion

(***************************************************************************)
(* What a step may do to a row of job_executions.                          *)
(***************************************************************************)

\* Row e only moves forward: it stays in the table, does not return to
\* PENDING or to the queue, and is counted as run exactly when it is started.
Forward(e) ==
    /\ exec[e].st # "NONE" => exec'[e].st # "NONE"
    /\ exec'[e].st = "PENDING" => exec[e].st \in {"NONE", "PENDING"}
    /\ NotStarted(exec'[e].st) => NotStarted(exec[e].st) /\ runs'[e] = runs[e]
    /\ runs'[e] # runs[e] =>
         NotStarted(exec[e].st) /\ runs'[e] = runs[e] + 1
    /\ exec'[e].st = "UNKNOWN" => exec'[e].unk = "open"
    /\ exec'[e].st = "COMPLETED" /\ exec'[e].unk = "never" =>
         \/ exec[e].st = "COMPLETED" /\ exec[e].unk = "never"
         \/ e \in effect

TableForward == TableTypeOK' /\ \A e \in Execs : Forward(e)

\* A step that leaves the tables alone is forward.
LEMMA TableUnchanged ==
    ASSUME IndInv, UNCHANGED <<exec, runs>>, outbox' \in [Execs -> OutboxStatuses]
    PROVE  TableForward
BY DEF IndInv, TypeOK, TableTypeOK, TableForward, Forward, DoubtIsOpen

\* A statement that replaces one row by a row that is forward of it.
LEMMA OneRowForward ==
    ASSUME IndInv, NEW e \in Execs, NEW row \in Row,
           exec' = [exec EXCEPT ![e] = row], runs' = runs,
           outbox' \in [Execs -> OutboxStatuses],
           exec[e].st # "NONE" => row.st # "NONE",
           row.st = "PENDING" => exec[e].st \in {"NONE", "PENDING"},
           NotStarted(row.st) => NotStarted(exec[e].st),
           row.st = "UNKNOWN" => row.unk = "open",
           row.st = "COMPLETED" /\ row.unk = "never" =>
              \/ exec[e].st = "COMPLETED" /\ exec[e].unk = "never"
              \/ e \in effect
    PROVE  TableForward
BY DEF IndInv, TypeOK, TableTypeOK, TableForward, Forward, DoubtIsOpen

\* The updates of a row that these statements make keep its type.
LEMMA RowUpdates ==
    ASSUME NEW row \in Row, NEW st \in Statuses, NEW tok \in Tokens \cup {None},
           NEW lease \in {"none", "live", "expired"},
           NEW class \in {"none", "RETRYABLE", "TERMINAL"},
           NEW unk \in {"never", "open", "resolved"}
    PROVE  /\ [row EXCEPT !.st = st, !.tok = tok, !.lease = lease] \in Row
           /\ [row EXCEPT !.st = st, !.class = class, !.attempts = @ + 1, !.tok = tok,
                          !.lease = lease] \in Row
           /\ [row EXCEPT !.st = st, !.unk = unk, !.tok = tok, !.lease = lease] \in Row
           /\ [row EXCEPT !.st = st, !.class = class, !.unk = unk] \in Row
<1>1. [row EXCEPT !.st = st, !.tok = tok, !.lease = lease] \in Row
  BY DEF Row
<1>2. [row EXCEPT !.st = st, !.class = class, !.attempts = @ + 1, !.tok = tok,
                  !.lease = lease] \in Row
  <2>1. row.attempts + 1 \in Nat BY DEF Row
  <2> QED BY <2>1 DEF Row
<1>3. [row EXCEPT !.st = st, !.unk = unk, !.tok = tok, !.lease = lease] \in Row
  BY DEF Row
<1>4. [row EXCEPT !.st = st, !.class = class, !.unk = unk] \in Row
  BY DEF Row
<1> QED BY <1>1, <1>2, <1>3, <1>4

\* A failed execution is not PENDING.
LEMMA FailedRow ==
    ASSUME NEW e \in Execs, exec[e] \in Row, NEW t \in Tokens,
           NEW c \in {"RETRYABLE", "TERMINAL"}, fail(e, t, RunnerGen, c)
    PROVE  \E row : exec' = [exec EXCEPT ![e] = row] /\ row.st # "PENDING"
<1> DEFINE row == [exec[e] EXCEPT !.st = "FAILED", !.class = c, !.attempts = @ + 1,
                                  !.tok = None, !.lease = "none"]
<1>1. row.st = "FAILED" BY DEF Row
<1>2. exec' = [exec EXCEPT ![e] = row] BY DEF fail, SetFailed
<1> HIDE DEF row
<1> QED BY <1>1, <1>2

\* The statements that settle a row, or leave its status alone.
LEMMA SettleForward ==
    ASSUME IndInv, NEW e \in Execs, outbox' = outbox,
           \/ cancel(e) \/ recoverExecution(e) \/ markExpired(e) \/ LeaseExpires(e)
           \/ markEnqueued(e)
           \/ \E c \in {"none", "RETRYABLE", "TERMINAL"} : resolveUnknown(e, exec[e].gen, c)
           \/ \E t \in Tokens : \/ renewLease(e, t, RunnerGen)
                                \/ markUnknown(e, t, RunnerGen)
                                \/ complete(e, t, RunnerGen) /\ e \in effect
                                \/ \E c \in {"RETRYABLE", "TERMINAL"} : fail(e, t, RunnerGen, c)
    PROVE  TableForward
<1>0. exec[e] \in Row /\ runs' = runs /\ outbox' \in [Execs -> OutboxStatuses]
      /\ (exec[e].st = "UNKNOWN" => exec[e].unk = "open")
  BY DEF IndInv, TypeOK, TableTypeOK, DoubtIsOpen, cancel, recoverExecution, markExpired,
         LeaseExpires, markEnqueued, resolveUnknown, renewLease, markUnknown, complete, fail,
         SetFailed
<1>1. CASE cancel(e)
  <2> DEFINE row == [exec[e] EXCEPT !.st = "CANCELLED", !.tok = None, !.lease = "none"]
  <2>1. exec' = [exec EXCEPT ![e] = row] /\ row \in Row
    <3>1. row \in Row BY <1>0, RowUpdates DEF Statuses, Active
    <3>2. exec' = [exec EXCEPT ![e] = row] BY <1>1 DEF cancel
    <3> QED BY <3>1, <3>2
  <2> QED BY <1>0, <2>1, OneRowForward DEF Row, NotStarted
<1>2. CASE recoverExecution(e) \/ markExpired(e)
           \/ \E t \in Tokens, c \in {"RETRYABLE", "TERMINAL"} : fail(e, t, RunnerGen, c)
  <2>1. PICK c \in {"RETRYABLE", "TERMINAL"} : SetFailed(e, c)
    BY <1>2 DEF recoverExecution, markExpired, fail
  <2> DEFINE row == [exec[e] EXCEPT !.st = "FAILED", !.class = c, !.attempts = @ + 1,
                                    !.tok = None, !.lease = "none"]
  <2>2. exec' = [exec EXCEPT ![e] = row] /\ row \in Row
    <3>1. row \in Row BY <1>0, RowUpdates DEF Statuses, Active
    <3>2. exec' = [exec EXCEPT ![e] = row] BY <2>1 DEF SetFailed
    <3> QED BY <3>1, <3>2
  <2> QED BY <1>0, <2>2, OneRowForward DEF Row, NotStarted
<1>3. CASE LeaseExpires(e) \/ \E t \in Tokens : renewLease(e, t, RunnerGen)
  <2>1. PICK lease \in {"live", "expired"} : exec' = [exec EXCEPT ![e].lease = lease]
    BY <1>3 DEF LeaseExpires, renewLease
  <2> DEFINE row == [exec[e] EXCEPT !.lease = lease]
  <2>2. exec' = [exec EXCEPT ![e] = row] /\ row \in Row
    BY <1>0, <2>1 DEF Row, IndInv, TypeOK, TableTypeOK
  <2> QED BY <1>0, <2>2, OneRowForward DEF Row, NotStarted
<1>4. CASE markEnqueued(e)
  <2> DEFINE row == [exec[e] EXCEPT !.st = "ENQUEUED"]
  <2>1. exec' = [exec EXCEPT ![e] = row] /\ row \in Row
    <3>1. row \in Row BY <1>0 DEF Row, Statuses, Active
    <3>2. exec' = [exec EXCEPT ![e] = row] BY <1>4 DEF markEnqueued
    <3> QED BY <3>1, <3>2
  <2> QED BY <1>0, <1>4, <2>1, OneRowForward DEF Row, NotStarted, markEnqueued
<1>5. ASSUME NEW c \in {"none", "RETRYABLE", "TERMINAL"}, resolveUnknown(e, exec[e].gen, c)
      PROVE  TableForward
  <2> DEFINE row == [exec[e] EXCEPT !.st = IF c = "none" THEN "COMPLETED" ELSE "FAILED",
                                    !.class = c, !.unk = "resolved"]
  <2>1. exec' = [exec EXCEPT ![e] = row] /\ row \in Row
    <3>1. row \in Row BY <1>0, RowUpdates DEF Statuses, Active
    <3>2. exec' = [exec EXCEPT ![e] = row] BY <1>5 DEF resolveUnknown
    <3> QED BY <3>1, <3>2
  <2> QED BY <1>0, <2>1, OneRowForward DEF Row, NotStarted
<1>6. CASE \E t \in Tokens : markUnknown(e, t, RunnerGen)
  <2> DEFINE row == [exec[e] EXCEPT !.st = "UNKNOWN", !.unk = "open", !.tok = None,
                                    !.lease = "none"]
  <2>1. exec' = [exec EXCEPT ![e] = row] /\ row \in Row
    <3>1. row \in Row BY <1>0, RowUpdates DEF Statuses, Active
    <3>2. exec' = [exec EXCEPT ![e] = row] BY <1>6 DEF markUnknown
    <3> QED BY <3>1, <3>2
  <2> QED BY <1>0, <2>1, OneRowForward DEF Row, NotStarted
<1>7. CASE \E t \in Tokens : complete(e, t, RunnerGen) /\ e \in effect
  <2> DEFINE row == [exec[e] EXCEPT !.st = "COMPLETED", !.tok = None, !.lease = "none"]
  <2>1. exec' = [exec EXCEPT ![e] = row] /\ row \in Row /\ e \in effect
    <3>1. row \in Row BY <1>0, RowUpdates DEF Statuses, Active
    <3>2. exec' = [exec EXCEPT ![e] = row] /\ e \in effect BY <1>7 DEF complete
    <3> QED BY <3>1, <3>2
  <2> QED BY <1>0, <2>1, OneRowForward DEF Row, NotStarted
<1> QED BY <1>1, <1>2, <1>3, <1>4, <1>5, <1>6, <1>7

\* acquireLease starts a row that was waiting.
LEMMA AcquireForward ==
    ASSUME IndInv, NEW e \in Execs, NEW t \in Tokens, acquireLease(e, t, RunnerGen),
           outbox' = outbox
    PROVE  /\ TableForward
           /\ NotStarted(exec[e].st) /\ ~NotStarted(exec'[e].st)
<1>1. exec[e] \in Row /\ exec[e].st \in {"PENDING", "ENQUEUED"}
  BY DEF acquireLease, CanAcquire, IndInv, TypeOK, TableTypeOK
<1>2. /\ exec' = [exec EXCEPT ![e] = [exec[e] EXCEPT !.st = "RUNNING", !.tok = t,
                                                     !.lease = "live"]]
      /\ [exec[e] EXCEPT !.st = "RUNNING", !.tok = t, !.lease = "live"] \in Row
  <2>1. [exec[e] EXCEPT !.st = "RUNNING", !.tok = t, !.lease = "live"] \in Row
    BY <1>1, RowUpdates DEF Statuses, Active
  <2>2. exec' = [exec EXCEPT ![e] = [exec[e] EXCEPT !.st = "RUNNING", !.tok = t,
                                                    !.lease = "live"]]
    BY DEF acquireLease
  <2> QED BY <2>1, <2>2
<1>3. runs \in [Execs -> Nat] /\ runs' = [runs EXCEPT ![e] = runs[e] + 1]
  BY DEF acquireLease, IndInv, TypeOK, TableTypeOK
<1>4. exec'[e].st = "RUNNING" /\ \A f \in Execs \ {e} : exec'[f] = exec[f]
  BY <1>1, <1>2 DEF Row, IndInv, TypeOK, TableTypeOK
<1>5. TableTypeOK'
  BY <1>2, <1>3 DEF IndInv, TypeOK, TableTypeOK
<1> QED
  BY <1>1, <1>3, <1>4, <1>5 DEF TableForward, Forward, NotStarted, DoubtIsOpen, IndInv

\* New rows are PENDING and take the place of no other row; replace() also
\* supersedes one, which RowChecks keeps it from doing to an UNKNOWN one.
LEMMA InsertForward ==
    ASSUME IndInv, NEW e \in Execs, NEW k \in Keys, NEW h \in Hashes, NEW t \in Nat,
           insertExecution(e, k, h, t)
    PROVE  TableForward
<1>1. NewRow(k, h, 1, t) \in Row /\ NewRow(k, h, 1, t).st = "PENDING"
  BY DEF NewRow, Row, Statuses, Active
<1>2. outbox' \in [Execs -> OutboxStatuses]
  BY DEF insertExecution, IndInv, TypeOK, TableTypeOK, OutboxStatuses
<1> QED BY <1>1, <1>2, OneRowForward DEF insertExecution, NotStarted

LEMMA SupersedeForward ==
    ASSUME IndInv, NEW e \in Execs, NEW n \in Execs, NEW k \in Keys, NEW h \in Hashes,
           exec[e].st # "NONE", supersede(e, n, exec[e].gen, k, h, 0)
    PROVE  TableForward
<1>1. exec[e] \in Row /\ exec[n].st = "NONE" /\ e # n
  BY DEF supersede, IndInv, TypeOK, TableTypeOK
<1>2. /\ Superseded(e, n) \in Row /\ Superseded(e, n).st = "SUPERSEDED"
      /\ NewRow(k, h, exec[e].gen + 1, 0) \in Row
      /\ NewRow(k, h, exec[e].gen + 1, 0).st = "PENDING"
  BY <1>1, NoneAssumption DEF Superseded, NewRow, Row, Statuses, Active
<1>3. /\ exec' = [exec EXCEPT ![e] = Superseded(e, n),
                             ![n] = NewRow(k, h, exec[e].gen + 1, 0)]
      /\ runs' = runs
  BY DEF supersede
<1>4. TableTypeOK'
  BY <1>2, <1>3 DEF supersede, IndInv, TypeOK, TableTypeOK, OutboxStatuses
<1>5. /\ exec'[e].st = "SUPERSEDED" /\ exec'[n].st = "PENDING"
      /\ \A f \in Execs \ {e, n} : exec'[f] = exec[f]
  BY <1>1, <1>2, <1>3 DEF IndInv, TypeOK, TableTypeOK
<1>6. ASSUME NEW f \in Execs PROVE Forward(f)
  <2>1. CASE f = e
    BY <1>3, <1>5, <2>1 DEF Forward, NotStarted
  <2>2. CASE f = n
    BY <1>1, <1>3, <1>5, <2>2 DEF Forward, NotStarted
  <2>3. CASE f \notin {e, n}
    BY <1>3, <1>5, <2>3 DEF Forward, IndInv, DoubtIsOpen
  <2> QED BY <2>1, <2>2, <2>3
<1> QED BY <1>4, <1>6 DEF TableForward

(***************************************************************************)
(* What a step that moves the table forward leaves to be shown.            *)
(***************************************************************************)

EventOK(e) ==
    /\ outbox[e] # "NONE" => exec[e].st # "NONE"
    /\ exec[e].st = "PENDING" => outbox[e] \in {"PENDING", "CLAIMED", "FAILED"}

\* The invocation was past acquireLease before, for the same execution.
StillIn(r) == InHandler(r) /\ runner'[r].ex = runner[r].ex

\* What was read before a forward step still holds after it.
LEMMA RelayCarried ==
    ASSUME IndInv, TableForward, NEW l \in Relays, relay'[l] = relay[l]
    PROVE  RelayRemembers(l)'
<1>1. RelayRemembers(l) /\ relay[l].batch \subseteq Execs
  BY DEF IndInv, RelaysRemember, TypeOK
<1>2. \A e \in Execs : Forward(e)
  BY DEF TableForward
<1> QED BY <1>1, <1>2 DEF RelayRemembers, Forward

LEMMA RunnerCarried ==
    ASSUME IndInv, TableForward, NEW r \in Tokens, runner'[r] = runner[r],
           effect \subseteq effect'
    PROVE  RunnerRemembers(r)'
<1>1. RunnerRemembers(r)
  BY DEF IndInv, RunnersRemember
<1>2. \A e \in Execs : Forward(e)
  BY DEF TableForward
<1> QED BY <1>1, <1>2 DEF RunnerRemembers, InHandler, Forward

\* The frame of every preservation proof below: what remains to be shown of
\* the relays, runners and events that the step has changed.
LEMMA Preserved ==
    ASSUME IndInv, TypeOK', TableForward, effect \subseteq effect',
           \A l \in Relays : relay'[l] = relay[l] \/ RelayRemembers(l)',
           \A r \in Tokens : runner'[r] = runner[r] \/ RunnerRemembers(r)',
           \A e \in Execs :
              \/ outbox'[e] = outbox[e] /\ (exec'[e].st = "PENDING" => exec[e].st = "PENDING")
              \/ EventOK(e)',
           \A r, q \in Tokens :
              InHandler(r)' /\ InHandler(q)' /\ runner'[r].ex = runner'[q].ex =>
                  r = q \/ (StillIn(r) /\ StillIn(q))
    PROVE  IndInv'
<1>0. \A e \in Execs : Forward(e)
  BY DEF TableForward
<1>1. RelaysRemember'
  BY RelayCarried DEF RelaysRemember
<1>2. RunnersRemember'
  BY RunnerCarried DEF RunnersRemember
<1>3. ASSUME NEW e \in Execs PROVE EventOK(e)'
  <2>1. EventOK(e) /\ Forward(e)
    BY <1>0 DEF IndInv, EventsHaveRows, PendingHasEvent, EventOK
  <2> QED BY <2>1 DEF EventOK, Forward
<1>4. EventsHaveRows' /\ PendingHasEvent'
  BY <1>3 DEF EventOK, EventsHaveRows, PendingHasEvent
<1>5. ASSUME NEW e \in Execs
      PROVE  /\ NotStarted(exec'[e].st) => runs'[e] = 0
             /\ runs'[e] <= 1
             /\ exec'[e].st = "UNKNOWN" => exec'[e].unk = "open"
             /\ exec'[e].st = "COMPLETED" /\ exec'[e].unk = "never" => e \in effect'
  <2>1. /\ NotStarted(exec[e].st) => runs[e] = 0
        /\ runs[e] \in Nat /\ runs[e] <= 1
        /\ exec[e].st = "COMPLETED" /\ exec[e].unk = "never" => e \in effect
    BY DEF IndInv, TypeOK, TableTypeOK, NotStartedNeverRan, SoleWorker, NoFalseCompletion
  <2> QED BY <1>0, <2>1 DEF Forward
<1>6. NotStartedNeverRan' /\ DoubtIsOpen' /\ NoFalseCompletion'
  BY <1>5 DEF NotStartedNeverRan, DoubtIsOpen, NoFalseCompletion
<1>7. SoleWorker'
  <2>1. ASSUME NEW r \in Tokens, NEW q \in Tokens,
               InHandler(r)', InHandler(q)', runner'[r].ex = runner'[q].ex
        PROVE  r = q
    BY <2>1 DEF IndInv, SoleWorker, StillIn
  <2> QED BY <1>5, <2>1 DEF SoleWorker
<1> QED BY <1>1, <1>2, <1>4, <1>6, <1>7 DEF IndInv

\* The same for a step that leaves relays, runners and events alone.
LEMMA PreservedByTableStep ==
    ASSUME IndInv, TableForward, UNCHANGED <<outbox, claim, relay, runner, effect, recon>>,
           \A e \in Execs : exec'[e].st = "PENDING" => exec[e].st = "PENDING",
           bull' \in [Execs -> {"absent", "waiting", "active", "finished"}],
           sweep' \in [Sweeps -> [pc : {"idle", "first", "second"}, rows : SUBSET Execs]],
           faults' \in Nat
    PROVE  IndInv'
<1>1. TypeOK'
  BY DEF IndInv, TypeOK, TableForward
<1> QED BY <1>1, Preserved DEF InHandler, StillIn


(***************************************************************************)
(* One lemma per group of actions.                                         *)
(***************************************************************************)

\* The empty tables, the empty queue and the idle processes.
LEMMA InitIndInv == Init => IndInv
<1> SUFFICES ASSUME Init PROVE IndInv
  OBVIOUS
<1> USE NoneAssumption
<1>1. TypeOK
  BY DEF Init, TypeOK, TableInit, TableTypeOK, FreeRow, Row, Statuses, Active, OutboxStatuses,
         Unclaimed, RelayIdle, RunnerIdle, SweepIdle, Results
<1>2. RelaysRemember /\ RunnersRemember
  BY DEF Init, TableInit, FreeRow, RelaysRemember, RelayRemembers, RelayIdle, RunnersRemember,
         RunnerRemembers, RunnerIdle, InHandler
<1>3. EventsHaveRows /\ NotStartedNeverRan /\ DoubtIsOpen
  BY DEF Init, TableInit, FreeRow, EventsHaveRows, NotStartedNeverRan, DoubtIsOpen
<1>4. PendingHasEvent /\ SoleWorker /\ NoFalseCompletion
  BY DEF Init, TableInit, FreeRow, PendingHasEvent, SoleWorker, InHandler, RunnerIdle,
         NoFalseCompletion
<1> QED BY <1>1, <1>2, <1>3, <1>4 DEF IndInv

\* createOrResolve and replace(): a PENDING row and its event appear together.
LEMMA CreationKeeps ==
    ASSUME IndInv, NEW e \in Execs, NEW k \in Keys, NEW h \in Hashes,
           Create(e, k, h) \/ \E n \in Execs : Replace(e, n, k, h)
    PROVE  IndInv'
<1>1. UNCHANGED <<claim, relay, bull, runner, effect, sweep, recon, faults>>
  BY DEF Create, Replace, relayVars, workVars, sweepVars
<1>2. TableForward
  BY InsertForward, SupersedeForward DEF Create, Replace
<1>3. PICK n \in Execs :
         /\ outbox' = [outbox EXCEPT ![n] = "PENDING"]
         /\ exec'[n].st = "PENDING"
         /\ \A f \in Execs \ {n} : exec'[f] = exec[f] \/ exec'[f].st = "SUPERSEDED"
  <2>1. exec \in [Execs -> Row]
    BY DEF IndInv, TypeOK, TableTypeOK
  <2>2. ASSUME Create(e, k, h)
        PROVE  /\ outbox' = [outbox EXCEPT ![e] = "PENDING"]
               /\ exec'[e].st = "PENDING"
               /\ \A f \in Execs \ {e} : exec'[f] = exec[f]
    BY <2>1, <2>2 DEF Create, insertExecution, NewRow
  <2>3. ASSUME NEW n \in Execs, Replace(e, n, k, h)
        PROVE  /\ outbox' = [outbox EXCEPT ![n] = "PENDING"]
               /\ exec'[n].st = "PENDING"
               /\ \A f \in Execs \ {n} : exec'[f] = exec[f] \/ exec'[f].st = "SUPERSEDED"
    BY <2>1, <2>3 DEF Replace, supersede, NewRow, Superseded
  <2> QED BY <2>2, <2>3
<1>4. TypeOK'
  BY <1>1, <1>2 DEF IndInv, TypeOK, TableForward
<1>5. ASSUME NEW f \in Execs
      PROVE  \/ outbox'[f] = outbox[f] /\ (exec'[f].st = "PENDING" => exec[f].st = "PENDING")
             \/ EventOK(f)'
  BY <1>3 DEF EventOK, IndInv, TypeOK, TableTypeOK
<1> QED BY <1>1, <1>2, <1>4, <1>5, Preserved DEF InHandler, StillIn

\* Statements on one row that leave the rest of the system alone, whoever
\* issues them: operators, the heartbeat, the handler, the sweeps and time.
LEMMA StatementKeeps ==
    ASSUME IndInv,
           \/ \E e \in Execs : \/ \E c \in {"none", "RETRYABLE", "TERMINAL"} : ResolveUnknown(e, c)
                               \/ Cancel(e) \/ ExecLeaseExpires(e) \/ RecoverExecution(e)
           \/ \E r \in Tokens : Heartbeat(r) \/ MarkUnknown(r)
    PROVE  IndInv'
<1>1. UNCHANGED <<outbox, claim, relay, bull, runner, effect, sweep, recon, faults>>
  BY DEF ResolveUnknown, Cancel, ExecLeaseExpires, RecoverExecution, Heartbeat, MarkUnknown,
         relayVars, workVars, sweepVars
<1>2. PICK e \in Execs :
         \/ cancel(e) \/ recoverExecution(e) \/ LeaseExpires(e)
         \/ \E c \in {"none", "RETRYABLE", "TERMINAL"} : resolveUnknown(e, exec[e].gen, c)
         \/ \E t \in Tokens : renewLease(e, t, RunnerGen) \/ markUnknown(e, t, RunnerGen)
  BY DEF ResolveUnknown, Cancel, ExecLeaseExpires, RecoverExecution, Heartbeat, MarkUnknown,
         IndInv, RunnersRemember, RunnerRemembers
<1>3. TableForward
  BY <1>1, <1>2, SettleForward
<1>4. \A f \in Execs : exec'[f].st = "PENDING" => exec[f].st = "PENDING"
  <2>0. exec \in [Execs -> Row]
    BY DEF IndInv, TypeOK, TableTypeOK
  <2>1. CASE \E c \in {"none", "RETRYABLE", "TERMINAL"} : resolveUnknown(e, exec[e].gen, c)
    BY <2>0, <2>1 DEF resolveUnknown, Row
  <2>2. CASE cancel(e) \/ recoverExecution(e)
    BY <2>0, <2>2 DEF cancel, recoverExecution, SetFailed, Row
  <2>3. CASE LeaseExpires(e) \/ \E t \in Tokens : \/ renewLease(e, t, RunnerGen)
                                                  \/ markUnknown(e, t, RunnerGen)
    BY <2>0, <2>3 DEF LeaseExpires, renewLease, markUnknown, Row
  <2> QED BY <1>2, <2>1, <2>2, <2>3
<1> QED BY <1>1, <1>3, <1>4, PreservedByTableStep DEF IndInv, TypeOK

\* The recovery sweep: it writes a row only in MarkExpired.
LEMMA SweepKeeps ==
    ASSUME IndInv, NEW s \in Sweeps, SweepStep(s) \/ SweepCrash(s)
    PROVE  IndInv'
<1>1. UNCHANGED <<outbox, claim, relay, bull, runner, effect, recon>> /\ faults' \in Nat
  BY DEF SweepStep, SelectExpired, SelectReplaceable, MarkExpired, SweepEnds, SweepCrash, Fault,
         relayVars, workVars, tableVars, IndInv, TypeOK
<1>2. sweep' \in [Sweeps -> [pc : {"idle", "first", "second"}, rows : SUBSET Execs]]
  BY DEF SweepStep, SelectExpired, SelectReplaceable, MarkExpired, SweepEnds, SweepCrash,
         SweepIdle, Expired, IndInv, TypeOK
<1>3. CASE UNCHANGED <<exec, runs>>
  BY <1>1, <1>2, <1>3, TableUnchanged, PreservedByTableStep DEF IndInv, TypeOK, TableTypeOK
<1>4. CASE ~ UNCHANGED <<exec, runs>>
  <2>1. PICK e \in Execs : markExpired(e)
    BY <1>4 DEF SweepStep, SelectExpired, SelectReplaceable, MarkExpired, SweepEnds, SweepCrash,
                tableVars, IndInv, TypeOK
  <2>2. TableForward
    BY <1>1, <2>1, SettleForward
  <2>3. \A f \in Execs : exec'[f].st = "PENDING" => exec[f].st = "PENDING"
    BY <2>1 DEF markExpired, SetFailed, IndInv, TypeOK, TableTypeOK, Row
  <2> QED BY <1>1, <1>2, <2>2, <2>3, PreservedByTableStep DEF IndInv, TypeOK
<1> QED BY <1>3, <1>4

\* BullMQ and Redis.
LEMMA QueueKeeps ==
    ASSUME IndInv, RedisReset \/ \E e \in Execs : Redeliver(e) \/ Stall(e) \/ Purge(e)
    PROVE  IndInv'
<1>1. UNCHANGED <<exec, outbox, runs, claim, relay, runner, effect, sweep, recon>>
      /\ faults' \in Nat
  BY DEF RedisReset, Redeliver, Stall, Purge, Fault, tableVars, relayVars, workVars, sweepVars,
         IndInv, TypeOK
<1>2. bull' \in [Execs -> {"absent", "waiting", "active", "finished"}]
  <2>1. CASE RedisReset
    BY <2>1 DEF RedisReset
  <2>2. CASE \E e \in Execs : Redeliver(e) \/ Stall(e) \/ Purge(e)
    BY <2>2 DEF Redeliver, Stall, Purge, IndInv, TypeOK
  <2> QED BY <2>1, <2>2
<1> QED BY <1>1, <1>2, TableUnchanged, PreservedByTableStep DEF IndInv, TypeOK, TableTypeOK

\* The reconciliation puts an event back to PENDING or leaves it alone.
LEMMA ReconKeeps ==
    ASSUME IndInv, Recon
    PROVE  IndInv'
<1>1. UNCHANGED <<exec, runs, relay, bull, runner, effect, sweep, faults>>
  BY DEF Recon, ReconOrphans, ReconPublished, ReconClaims, relayVars, workVars
<1>2. /\ outbox' \in [Execs -> OutboxStatuses]
      /\ \A e \in Execs : \/ outbox'[e] = outbox[e]
                          \/ outbox'[e] = "PENDING" /\ (outbox[e] # "NONE" \/ exec[e].st = "PENDING")
  BY DEF Recon, ReconOrphans, ReconPublished, ReconClaims, StaleClaims, IndInv, TypeOK,
         TableTypeOK, OutboxStatuses
<1>3. TypeOK'
  <2>1. claim' \in [Execs -> [by : Relays \cup {None}, exp : {"none", "live", "expired"}]]
    BY DEF Recon, ReconOrphans, ReconPublished, ReconClaims, relayVars, Unclaimed, IndInv, TypeOK
  <2>2. recon' \in {"orphans", "published", "claims"}
    BY DEF Recon, ReconOrphans, ReconPublished, ReconClaims
  <2> QED BY <1>1, <1>2, <2>1, <2>2 DEF IndInv, TypeOK, TableTypeOK
<1>4. TableForward
  BY <1>1, <1>2, TableUnchanged
<1>5. ASSUME NEW e \in Execs
      PROVE  outbox'[e] = outbox[e] \/ EventOK(e)'
  BY <1>1, <1>2 DEF EventOK, IndInv, EventsHaveRows
<1> QED BY <1>1, <1>3, <1>4, <1>5, Preserved DEF InHandler, StillIn

(***************************************************************************)
(* The outbox relay.                                                       *)
(***************************************************************************)

\* Frame of the relay steps: l is the only relay that moves.
LEMMA RelayFrame ==
    ASSUME IndInv, NEW l \in Relays, TableForward,
           UNCHANGED <<runner, effect, sweep, recon>>,
           \A e \in Execs : exec'[e].st = "PENDING" => exec[e].st = "PENDING",
           \A k \in Relays \ {l} : relay'[k] = relay[k],
           relay' \in [Relays -> [pc : {"idle", "next", "add", "enqueue", "publish",
                                        "discard", "fail"},
                                  batch : SUBSET Execs, ev : Execs \cup {None}]],
           RelayRemembers(l)',
           claim' \in [Execs -> [by : Relays \cup {None}, exp : {"none", "live", "expired"}]],
           bull' \in [Execs -> {"absent", "waiting", "active", "finished"}],
           faults' \in Nat,
           \A e \in Execs : outbox'[e] = outbox[e] \/ EventOK(e)'
    PROVE  IndInv'
<1>1. TypeOK'
  BY DEF IndInv, TypeOK, TableForward
<1> QED BY <1>1, Preserved DEF InHandler, StillIn

\* A claimed event has a row.
LEMMA ClaimKeeps ==
    ASSUME IndInv, NEW l \in Relays, claimEvents(l)
    PROVE  IndInv'
<1> USE NoneAssumption
<1>1. UNCHANGED <<exec, runs, bull, runner, effect, sweep, recon, faults>>
  BY DEF claimEvents, workVars, sweepVars
<1>2. outbox' \in [Execs -> OutboxStatuses]
  BY DEF claimEvents, IndInv, TypeOK, TableTypeOK, OutboxStatuses
<1>3. TableForward
  BY <1>1, <1>2, TableUnchanged
<1>4. Claimable \subseteq Execs /\ \A e \in Claimable : outbox[e] # "NONE" /\ exec[e].st # "NONE"
  BY DEF Claimable, IndInv, EventsHaveRows
<1>5. \A e \in Execs : outbox'[e] = outbox[e] \/ EventOK(e)'
  BY <1>1, <1>4 DEF claimEvents, EventOK
<1>6. claim' \in [Execs -> [by : Relays \cup {None}, exp : {"none", "live", "expired"}]]
  BY DEF claimEvents, IndInv, TypeOK
<1>7. relay' = [relay EXCEPT ![l] = [pc |-> "next", batch |-> Claimable, ev |-> None]]
  BY DEF claimEvents
<1>8. RelayRemembers(l)'
  BY <1>1, <1>4, <1>7 DEF RelayRemembers, IndInv, TypeOK
<1> QED BY <1>1, <1>3, <1>4, <1>5, <1>6, <1>7, <1>8, RelayFrame DEF IndInv, TypeOK

\* The relay goes on to the next event, or ends its cycle.
LEMMA NextEventRemembers ==
    ASSUME IndInv, NEW l \in Relays, NextEvent(l), UNCHANGED exec
    PROVE  /\ RelayRemembers(l)'
           /\ \A k \in Relays \ {l} : relay'[k] = relay[k]
           /\ relay' \in [Relays -> [pc : {"idle", "next", "add", "enqueue", "publish",
                                           "discard", "fail"},
                                     batch : SUBSET Execs, ev : Execs \cup {None}]]
<1> DEFINE new == IF relay[l].batch = {} THEN RelayIdle
                  ELSE [relay[l] EXCEPT !.pc = "next", !.ev = None]
<1>1. /\ relay \in [Relays -> [pc : {"idle", "next", "add", "enqueue", "publish",
                                     "discard", "fail"},
                               batch : SUBSET Execs, ev : Execs \cup {None}]]
      /\ \A e \in relay[l].batch : exec[e].st # "NONE"
  BY DEF IndInv, TypeOK, RelaysRemember, RelayRemembers
<1>2. relay' = [relay EXCEPT ![l] = new]
  BY DEF NextEvent
<1>3. /\ new \in [pc : {"idle", "next"}, batch : SUBSET Execs, ev : {None}]
      /\ new.pc \in {"idle", "next"} /\ \A e \in new.batch : exec[e].st # "NONE"
  BY <1>1 DEF RelayIdle
<1> QED BY <1>1, <1>2, <1>3 DEF RelayRemembers

\* The last UPDATE of an event: publishing and discarding act on what
\* CheckEvent or confirmEnqueued saw, which still holds.
LEMMA SetOutboxKeeps ==
    ASSUME IndInv, NEW l \in Relays, discardEvent(l) \/ confirmOutbox(l) \/ recordRelayFailure(l)
    PROVE  IndInv'
<1> USE NoneAssumption
<1>1. PICK pc \in {"discard", "publish", "fail"}, st \in {"DISCARDED", "PUBLISHED", "FAILED"} :
         SetOutbox(l, pc, st) /\ (st = "FAILED" <=> pc = "fail")
  BY DEF discardEvent, confirmOutbox, recordRelayFailure
<1>2. /\ relay[l].pc = pc /\ relay[l].ev \in Execs
      /\ exec[relay[l].ev].st # "NONE"
      /\ pc # "fail" => exec[relay[l].ev].st # "PENDING"
  BY <1>1 DEF SetOutbox, IndInv, RelaysRemember, RelayRemembers
<1>3. UNCHANGED <<exec, runs, bull, runner, effect, sweep, recon, faults>>
      /\ outbox' = [outbox EXCEPT ![relay[l].ev] = st]
      /\ claim' = [claim EXCEPT ![relay[l].ev] = Unclaimed]
      /\ NextEvent(l)
  BY <1>1 DEF SetOutbox, workVars, sweepVars
<1>4. outbox' \in [Execs -> OutboxStatuses]
  BY <1>3 DEF IndInv, TypeOK, TableTypeOK, OutboxStatuses
<1>5. TableForward
  BY <1>3, <1>4, TableUnchanged
<1>6. \A e \in Execs : outbox'[e] = outbox[e] \/ EventOK(e)'
  BY <1>1, <1>2, <1>3 DEF EventOK, IndInv, TypeOK, TableTypeOK
<1>7. claim' \in [Execs -> [by : Relays \cup {None}, exp : {"none", "live", "expired"}]]
  BY <1>2, <1>3 DEF Unclaimed, IndInv, TypeOK
<1> QED BY <1>3, <1>5, <1>6, <1>7, NextEventRemembers, RelayFrame DEF IndInv, TypeOK

\* The steps of a relay between the claim and the last UPDATE.
LEMMA RelayKeeps ==
    ASSUME IndInv, NEW l \in Relays,
           CheckEvent(l) \/ queueAdd(l) \/ queueAddFails(l) \/ confirmEnqueued(l) \/ RelayCrash(l)
    PROVE  IndInv'
<1> USE NoneAssumption
<1> DEFINE RelayType == [pc : {"idle", "next", "add", "enqueue", "publish", "discard", "fail"},
                         batch : SUBSET Execs, ev : Execs \cup {None}]
<1>0. /\ relay \in [Relays -> RelayType] /\ RelayRemembers(l)
      /\ bull \in [Execs -> {"absent", "waiting", "active", "finished"}]
      /\ faults \in Nat
      /\ outbox \in [Execs -> OutboxStatuses]
  BY DEF IndInv, TypeOK, TableTypeOK, RelaysRemember
<1>1. UNCHANGED <<outbox, claim, runner, effect, sweep, recon>> /\ faults' \in Nat
  BY <1>0 DEF CheckEvent, queueAdd, queueAddFails, confirmEnqueued, RelayCrash, Fault,
              tableVars, workVars, sweepVars
<1>2. bull' \in [Execs -> {"absent", "waiting", "active", "finished"}]
  BY <1>0 DEF CheckEvent, queueAdd, queueAddFails, confirmEnqueued, RelayCrash, BullAdd
<1>3. PICK new \in RelayType : relay' = [relay EXCEPT ![l] = new]
  <2>1. CASE CheckEvent(l)
    <3>1. PICK e \in relay[l].batch :
             relay' = [relay EXCEPT ![l] = [pc |-> IF exec[e].st = "PENDING" THEN "add"
                                                   ELSE "discard",
                                            batch |-> relay[l].batch \ {e}, ev |-> e]]
      BY <2>1 DEF CheckEvent
    <3> QED BY <1>0, <3>1
  <2>2. CASE RelayCrash(l)
    BY <1>0, <2>2 DEF RelayCrash, RelayIdle
  <2>3. CASE queueAdd(l) \/ queueAddFails(l) \/ confirmEnqueued(l)
    <3>1. PICK pc \in {"enqueue", "fail", "publish"} : relay' = [relay EXCEPT ![l].pc = pc]
      BY <2>3 DEF queueAdd, queueAddFails, confirmEnqueued
    <3>2. [relay[l] EXCEPT !.pc = pc] \in RelayType
      BY <1>0
    <3> QED BY <1>0, <3>1, <3>2
  <2> QED BY <2>1, <2>2, <2>3
<1>4. TableForward /\ \A e \in Execs : exec'[e].st = "PENDING" => exec[e].st = "PENDING"
  <2>1. CASE UNCHANGED <<exec, runs>>
    BY <1>0, <1>1, <2>1, TableUnchanged
  <2>2. CASE markEnqueued(relay[l].ev) /\ relay[l].ev \in Execs
    <3>1. TableForward
      BY <1>1, <2>2, SettleForward
    <3>2. \A e \in Execs : exec'[e].st = "PENDING" => exec[e].st = "PENDING"
      BY <2>2 DEF markEnqueued, IndInv, TypeOK, TableTypeOK, Row
    <3> QED BY <3>1, <3>2
  <2> QED BY <1>0, <2>1, <2>2 DEF CheckEvent, queueAdd, queueAddFails, confirmEnqueued,
                                 RelayCrash, RelayRemembers, tableVars
<1>5. RelayRemembers(l)'
  <2>0. \A e \in Execs : Forward(e)
    BY <1>4 DEF TableForward
  <2>1. CASE CheckEvent(l)
    <3>1. PICK e \in relay[l].batch :
             relay' = [relay EXCEPT ![l] = [pc |-> IF exec[e].st = "PENDING" THEN "add"
                                                   ELSE "discard",
                                            batch |-> relay[l].batch \ {e}, ev |-> e]]
      BY <2>1 DEF CheckEvent
    <3>2. exec' = exec
      BY <2>1 DEF CheckEvent, tableVars
    <3> QED BY <1>0, <3>1, <3>2 DEF RelayRemembers
  <2>2. CASE RelayCrash(l)
    BY <1>0, <2>2 DEF RelayCrash, RelayIdle, RelayRemembers
  <2>3. CASE queueAdd(l) \/ queueAddFails(l)
    BY <1>0, <2>3 DEF queueAdd, queueAddFails, RelayRemembers, tableVars
  <2>4. CASE confirmEnqueued(l)
    <3>1. /\ relay' = [relay EXCEPT ![l].pc = "publish"] /\ relay[l].ev \in Execs
          /\ exec[relay[l].ev].st # "NONE"
      BY <1>0, <2>4 DEF confirmEnqueued, RelayRemembers
    <3>2. exec'[relay[l].ev].st # "PENDING"
      BY <2>4, <3>1 DEF confirmEnqueued, markEnqueued, IndInv, TypeOK, TableTypeOK, Row
    <3> QED BY <1>0, <2>0, <3>1, <3>2 DEF RelayRemembers, Forward
  <2> QED BY <2>1, <2>2, <2>3, <2>4
<1> QED BY <1>0, <1>1, <1>2, <1>3, <1>4, <1>5, RelayFrame DEF IndInv, TypeOK

\* A claim expires: nothing but the claim changes.
LEMMA ClaimExpiresKeeps ==
    ASSUME IndInv, NEW e \in Execs, ClaimExpires(e)
    PROVE  IndInv'
<1>1. UNCHANGED <<exec, outbox, runs, relay, bull, runner, effect, sweep, recon, faults>>
  BY DEF ClaimExpires, tableVars, workVars, sweepVars
<1>2. claim' \in [Execs -> [by : Relays \cup {None}, exp : {"none", "live", "expired"}]]
  BY DEF ClaimExpires, IndInv, TypeOK
<1>3. TypeOK' /\ TableForward
  BY <1>1, <1>2, TableUnchanged DEF IndInv, TypeOK, TableTypeOK
<1> QED BY <1>1, <1>3, Preserved DEF InHandler, StillIn

(***************************************************************************)
(* The job runner.                                                         *)
(***************************************************************************)

\* Frame of the runner steps: r is the only invocation that moves, and if it
\* is past acquireLease afterwards, no other one was there for its execution.
LEMMA RunnerFrame ==
    ASSUME IndInv, NEW r \in Tokens, TableForward,
           UNCHANGED <<outbox, claim, relay, sweep, recon>>,
           \A e \in Execs : exec'[e].st = "PENDING" => exec[e].st = "PENDING",
           effect' \in SUBSET Execs, effect \subseteq effect', faults' \in Nat,
           bull' \in [Execs -> {"absent", "waiting", "active", "finished"}],
           NEW new \in [pc : {"idle", "acquire", "handler", "record", "catch"},
                        ex : Execs \cup {None}, res : Results \cup {"none"}],
           runner' = [runner EXCEPT ![r] = new],
           RunnerRemembers(r)',
           InHandler(r)' => StillIn(r) \/ NotStarted(exec[runner'[r].ex].st)
    PROVE  IndInv'
<1>1. TypeOK'
  BY DEF IndInv, TypeOK, TableForward
<1>2. \A q \in Tokens \ {r} : runner'[q] = runner[q]
  BY DEF IndInv, TypeOK
<1>3. ASSUME NEW q \in Tokens \ {r}, InHandler(r)', InHandler(q)', runner'[r].ex = runner'[q].ex
      PROVE  StillIn(r) /\ StillIn(q)
  <2>1. InHandler(q) /\ runner'[q].ex = runner[q].ex
    BY <1>2, <1>3 DEF InHandler
  <2>2. ~NotStarted(exec[runner[q].ex].st)
    BY <2>1 DEF IndInv, RunnersRemember, RunnerRemembers
  <2> QED BY <1>3, <2>1, <2>2 DEF StillIn
<1>4. \A p, q \in Tokens :
         InHandler(p)' /\ InHandler(q)' /\ runner'[p].ex = runner'[q].ex =>
             p = q \/ (StillIn(p) /\ StillIn(q))
  BY <1>2, <1>3 DEF StillIn, InHandler
<1> QED BY <1>1, <1>2, <1>4, Preserved

\* An invocation that ends leaves the table as a statement before it left it.
LEMMA RunEndsKeeps ==
    ASSUME IndInv, NEW r \in Tokens, RunEnds(r), TableForward,
           UNCHANGED <<outbox, claim, relay, effect, sweep, recon>>, faults' \in Nat,
           \A e \in Execs : exec'[e].st = "PENDING" => exec[e].st = "PENDING"
    PROVE  IndInv'
<1>1. runner' = [runner EXCEPT ![r] = RunnerIdle]
      /\ RunnerIdle \in [pc : {"idle", "acquire", "handler", "record", "catch"},
                         ex : Execs \cup {None}, res : Results \cup {"none"}]
  BY DEF RunEnds, RunnerIdle
<1>2. bull' \in [Execs -> {"absent", "waiting", "active", "finished"}]
  BY DEF RunEnds, IndInv, TypeOK
<1>3. RunnerRemembers(r)' /\ ~InHandler(r)'
  BY <1>1 DEF RunnerRemembers, InHandler, RunnerIdle, IndInv, TypeOK
<1> QED BY <1>1, <1>2, <1>3, RunnerFrame DEF IndInv, TypeOK

\* What the last statements of run() do to the row, if they do anything.
LEMMA RecordForward ==
    ASSUME IndInv, NEW r \in Tokens, outbox' = outbox,
           \/ runner[r].pc = "record" /\ RecordResult(r)
           \/ runner[r].pc = "catch" /\ fail(runner[r].ex, r, RunnerGen, "RETRYABLE")
           \/ UNCHANGED <<exec, runs>>
    PROVE  /\ TableForward
           /\ \A e \in Execs : exec'[e].st = "PENDING" => exec[e].st = "PENDING"
<1> DEFINE e == runner[r].ex
<1>1. CASE UNCHANGED <<exec, runs>>
  BY <1>1, TableUnchanged DEF IndInv, TypeOK, TableTypeOK
<1>2. CASE runner[r].pc = "record" /\ RecordResult(r)
  <2>1. e \in Execs /\ (runner[r].res = "completed" => e \in effect)
    BY <1>2 DEF IndInv, RunnersRemember, RunnerRemembers
  <2>2. \/ complete(e, r, RunnerGen) /\ e \in effect
        \/ \E c \in {"RETRYABLE", "TERMINAL"} : fail(e, r, RunnerGen, c)
    BY <1>2, <2>1 DEF RecordResult
  <2>3. TableForward
    BY <2>1, <2>2, SettleForward
  <2>4. \A f \in Execs : exec'[f].st = "PENDING" => exec[f].st = "PENDING"
    <3>1. exec \in [Execs -> Row] BY DEF IndInv, TypeOK, TableTypeOK
    <3>2. \E row : exec' = [exec EXCEPT ![e] = row] /\ row.st # "PENDING"
      <4>1. exec[e] \in Row BY <2>1, <3>1
      <4>2. CASE complete(e, r, RunnerGen)
        <5> DEFINE row == [exec[e] EXCEPT !.st = "COMPLETED", !.tok = None, !.lease = "none"]
        <5>1. row.st = "COMPLETED" BY <4>1 DEF Row
        <5>2. exec' = [exec EXCEPT ![e] = row] BY <4>2 DEF complete
        <5> HIDE DEF row
        <5> QED BY <5>1, <5>2
      <4>3. CASE \E c \in {"RETRYABLE", "TERMINAL"} : fail(e, r, RunnerGen, c)
        BY <2>1, <4>1, <4>3, FailedRow
      <4> QED BY <2>2, <4>2, <4>3
    <3> QED BY <2>1, <3>1, <3>2
  <2> QED BY <2>3, <2>4
<1>3. CASE runner[r].pc = "catch" /\ fail(e, r, RunnerGen, "RETRYABLE")
  <2>1. e \in Execs
    BY <1>3 DEF IndInv, RunnersRemember, RunnerRemembers
  <2>2. TableForward
    BY <1>3, <2>1, SettleForward
  <2>3. \A f \in Execs : exec'[f].st = "PENDING" => exec[f].st = "PENDING"
    <3>1. exec \in [Execs -> Row] BY DEF IndInv, TypeOK, TableTypeOK
    <3>2. exec[e] \in Row BY <2>1, <3>1
    <3>3. \E row : exec' = [exec EXCEPT ![e] = row] /\ row.st # "PENDING"
      BY <1>3, <2>1, <3>2, FailedRow
    <3> QED BY <2>1, <3>1, <3>3
  <2> QED BY <2>2, <2>3
<1> QED BY <1>1, <1>2, <1>3

\* acquireLease: the row was waiting, so nobody is in its handler.
LEMMA AcquireKeeps ==
    ASSUME IndInv, NEW r \in Tokens, Acquire(r) \/ AcquireFails(r)
    PROVE  IndInv'
<1> DEFINE e == runner[r].ex
<1>0. /\ UNCHANGED <<outbox, claim, relay, effect, sweep, recon>> /\ faults' \in Nat
      /\ runner[r].pc = "acquire" /\ e \in Execs
  BY DEF Acquire, AcquireFails, Fault, relayVars, sweepVars, IndInv, TypeOK, RunnersRemember,
         RunnerRemembers
<1>1. CASE acquireLease(e, r, RunnerGen)
  <2>1. /\ TableForward
        /\ NotStarted(exec[e].st) /\ ~NotStarted(exec'[e].st)
    BY <1>0, <1>1, AcquireForward
  <2>2. \A f \in Execs : exec'[f].st = "PENDING" => exec[f].st = "PENDING"
    BY <1>0, <1>1 DEF acquireLease, IndInv, TypeOK, TableTypeOK, Row
  <2>3. CASE RunEnds(r)
    BY <1>0, <2>1, <2>2, <2>3, RunEndsKeeps
  <2>4. CASE runner' = [runner EXCEPT ![r].pc = "handler"] /\ UNCHANGED bull
    <3> DEFINE new == [runner[r] EXCEPT !.pc = "handler"]
    <3>1. /\ runner' = [runner EXCEPT ![r] = new]
          /\ new \in [pc : {"idle", "acquire", "handler", "record", "catch"},
                      ex : Execs \cup {None}, res : Results \cup {"none"}]
          /\ runner'[r].ex = e /\ runner'[r].pc = "handler"
      <4>1. /\ DOMAIN runner = Tokens
            /\ runner[r] \in [pc : {"idle", "acquire", "handler", "record", "catch"},
                              ex : Execs \cup {None}, res : Results \cup {"none"}]
        BY DEF IndInv, TypeOK
      <4>2. runner' = [runner EXCEPT ![r] = new] BY <2>4
      <4>3. runner'[r] = new BY <4>1, <4>2
      <4> QED BY <4>1, <4>2, <4>3
    <3>2. RunnerRemembers(r)'
      BY <1>0, <2>1, <3>1 DEF RunnerRemembers
    <3> QED BY <1>0, <2>1, <2>2, <2>4, <3>1, <3>2, RunnerFrame DEF IndInv, TypeOK
  <2> QED BY <1>0, <1>1, <2>1, <2>3, <2>4 DEF Acquire, AcquireFails, acquireLease
<1>2. CASE UNCHANGED <<exec, runs>>
  <2>1. TableForward
    BY <1>0, <1>2, TableUnchanged DEF IndInv, TypeOK, TableTypeOK
  <2>2. RunEnds(r)
    BY <1>0, <1>2 DEF Acquire, AcquireFails, acquireLease, CanAcquire, IndInv, TypeOK, TableTypeOK
  <2> QED BY <1>0, <1>2, <2>1, <2>2, RunEndsKeeps
<1> QED BY <1>0, <1>1, <1>2 DEF Acquire, AcquireFails

\* The invocation ends after its last statement, or dies.
LEMMA RunOverKeeps ==
    ASSUME IndInv, NEW r \in Tokens, Record(r) \/ Catch(r) \/ CatchFails(r)
    PROVE  IndInv'
<1>1. UNCHANGED <<outbox, claim, relay, effect, sweep, recon>> /\ faults' \in Nat /\ RunEnds(r)
  BY DEF Record, Catch, CatchFails, Fault, relayVars, sweepVars, tableVars, IndInv, TypeOK
<1>2. \/ runner[r].pc = "record" /\ RecordResult(r)
      \/ runner[r].pc = "catch" /\ fail(runner[r].ex, r, RunnerGen, "RETRYABLE")
      \/ UNCHANGED <<exec, runs>>
  BY DEF Record, Catch, CatchFails, Rejected, tableVars
<1> QED BY <1>1, <1>2, RecordForward, RunEndsKeeps

LEMMA RunnerCrashKeeps ==
    ASSUME IndInv, NEW r \in Tokens, RunnerCrash(r)
    PROVE  IndInv'
<1>1. UNCHANGED <<exec, runs, outbox, claim, relay, bull, effect, sweep, recon>>
      /\ faults' \in Nat /\ runner' = [runner EXCEPT ![r] = RunnerIdle]
  BY DEF RunnerCrash, Fault, tableVars, relayVars, sweepVars, IndInv, TypeOK
<1>2. TableForward
  BY <1>1, TableUnchanged DEF IndInv, TypeOK, TableTypeOK
<1>3. RunnerRemembers(r)' /\ ~InHandler(r)'
  BY <1>1 DEF RunnerRemembers, InHandler, RunnerIdle, IndInv, TypeOK
<1>4. RunnerIdle \in [pc : {"idle", "acquire", "handler", "record", "catch"},
                      ex : Execs \cup {None}, res : Results \cup {"none"}]
  BY DEF RunnerIdle
<1> QED BY <1>1, <1>2, <1>3, <1>4, RunnerFrame DEF IndInv, TypeOK

\* Delivery, and the steps of run() from the handler to the catch block.
LEMMA RunGoesOnKeeps ==
    ASSUME IndInv, NEW r \in Tokens,
           \/ \E e \in Execs : Deliver(r, e)
           \/ HandlerReturns(r) \/ HandlerThrows(r) \/ RecordFails(r)
    PROVE  IndInv'
<1> DEFINE RunnerType == [pc : {"idle", "acquire", "handler", "record", "catch"},
                          ex : Execs \cup {None}, res : Results \cup {"none"}]
<1>0. /\ runner \in [Tokens -> RunnerType] /\ RunnerRemembers(r)
      /\ bull \in [Execs -> {"absent", "waiting", "active", "finished"}]
      /\ faults \in Nat /\ effect \in SUBSET Execs
  BY DEF IndInv, TypeOK, RunnersRemember
<1>1. /\ UNCHANGED <<outbox, claim, relay, sweep, recon>> /\ faults' \in Nat
      /\ bull' \in [Execs -> {"absent", "waiting", "active", "finished"}]
  BY <1>0 DEF Deliver, HandlerReturns, HandlerThrows, RecordFails, Fault, tableVars, relayVars,
              sweepVars
<1>2. TableForward /\ \A e \in Execs : exec'[e].st = "PENDING" => exec[e].st = "PENDING"
  <2>1. \/ runner[r].pc = "record" /\ RecordResult(r)
        \/ UNCHANGED <<exec, runs>>
    BY DEF Deliver, HandlerReturns, HandlerThrows, RecordFails, tableVars
  <2> QED BY <1>1, <2>1, RecordForward
<1>3. \A e \in Execs : Forward(e)
  BY <1>2 DEF TableForward
<1>4. CASE \E e \in Execs : Deliver(r, e)
  <2>1. PICK e \in Execs : runner' = [runner EXCEPT ![r] = [pc |-> "acquire", ex |-> e,
                                                           res |-> "none"]]
    BY <1>4 DEF Deliver
  <2>2. effect' = effect /\ ~InHandler(r)' /\ RunnerRemembers(r)'
    BY <1>0, <1>4, <2>1 DEF Deliver, RunnerRemembers, InHandler
  <2>3. [pc |-> "acquire", ex |-> e, res |-> "none"] \in RunnerType
    OBVIOUS
  <2> QED BY <1>0, <1>1, <1>2, <2>1, <2>2, <2>3, RunnerFrame
<1>5. CASE HandlerReturns(r)
  <2>1. PICK res \in Results :
           /\ runner' = [runner EXCEPT ![r].pc = "record", ![r].res = res]
           /\ effect' = IF res = "completed" THEN effect \cup {runner[r].ex} ELSE effect
    BY <1>5 DEF HandlerReturns
  <2>2. runner[r].pc = "handler" /\ runner[r].ex \in Execs /\ InHandler(r)
        /\ ~NotStarted(exec[runner[r].ex].st)
    BY <1>0, <1>5 DEF HandlerReturns, RunnerRemembers, InHandler
  <2> DEFINE new == [runner[r] EXCEPT !.pc = "record", !.res = res]
  <2>3. runner' = [runner EXCEPT ![r] = new] /\ new \in RunnerType
    BY <1>0, <2>1
  <2>4. runner'[r].ex = runner[r].ex /\ runner'[r].pc = "record" /\ runner'[r].res = res
    BY <1>0, <2>1
  <2>5. RunnerRemembers(r)'
    BY <1>3, <2>1, <2>2, <2>4 DEF RunnerRemembers, InHandler, Forward
  <2>6. StillIn(r) /\ effect' \in SUBSET Execs /\ effect \subseteq effect'
    BY <1>0, <2>1, <2>2, <2>4 DEF StillIn
  <2> QED BY <1>1, <1>2, <2>3, <2>5, <2>6, RunnerFrame
<1>6. CASE HandlerThrows(r) \/ RecordFails(r)
  <2> DEFINE new == [runner[r] EXCEPT !.pc = "catch"]
  <2>1. runner' = [runner EXCEPT ![r] = new] /\ new \in RunnerType /\ effect' = effect
    BY <1>0, <1>6 DEF HandlerThrows, RecordFails
  <2>2. InHandler(r) /\ runner'[r].ex = runner[r].ex /\ runner'[r].pc = "catch"
    BY <1>0, <1>6, <2>1 DEF HandlerThrows, RecordFails, InHandler
  <2>3. RunnerRemembers(r)'
    BY <1>0, <1>3, <2>2 DEF RunnerRemembers, InHandler, Forward
  <2> QED BY <1>0, <1>1, <1>2, <2>1, <2>2, <2>3, RunnerFrame DEF StillIn
<1> QED BY <1>4, <1>5, <1>6

(***************************************************************************)
(* The theorems.                                                           *)
(***************************************************************************)

\* Every step, of any process and with any fault, keeps the invariant.
LEMMA NextIndInv == IndInv /\ [Next]_vars => IndInv'
<1> SUFFICES ASSUME IndInv, [Next]_vars PROVE IndInv'
  OBVIOUS
<1>1. CASE UNCHANGED vars
  <2>1. TypeOK' /\ TableForward
    BY <1>1, TableUnchanged DEF vars, IndInv, TypeOK, TableTypeOK
  <2> QED BY <1>1, <2>1, Preserved DEF vars, InHandler, StillIn
<1>2. CASE \E e \in Execs :
             \E k \in Keys, h \in Hashes :
               Create(e, k, h) \/ \E n \in Execs : Replace(e, n, k, h)
  BY <1>2, CreationKeeps
<1>3. CASE \/ \E e \in Execs :
                \/ \E c \in {"none", "RETRYABLE", "TERMINAL"} : ResolveUnknown(e, c)
                \/ Cancel(e) \/ ExecLeaseExpires(e) \/ RecoverExecution(e)
           \/ \E r \in Tokens : Heartbeat(r) \/ MarkUnknown(r)
  BY <1>3, StatementKeeps
<1>4. CASE RedisReset \/ \E e \in Execs : Redeliver(e) \/ Stall(e) \/ Purge(e)
  BY <1>4, QueueKeeps
<1>5. CASE \E e \in Execs : ClaimExpires(e)
  BY <1>5, ClaimExpiresKeeps
<1>6. CASE \E l \in Relays : claimEvents(l) \/ RelayStep(l) \/ queueAddFails(l) \/ RelayCrash(l)
  BY <1>6, ClaimKeeps, SetOutboxKeeps, RelayKeeps DEF RelayStep
<1>7. CASE \E r \in Tokens : \/ \E e \in Execs : Deliver(r, e)
                             \/ RunnerStep(r) \/ RunnerFault(r)
  BY <1>7, AcquireKeeps, RunOverKeeps, RunnerCrashKeeps, RunGoesOnKeeps
     DEF RunnerStep, RunnerFault
<1>8. CASE \E s \in Sweeps : SweepStep(s) \/ SweepCrash(s)
  BY <1>8, SweepKeeps
<1>9. CASE Recon
  BY <1>9, ReconKeeps
<1> QED BY <1>1, <1>2, <1>3, <1>4, <1>5, <1>6, <1>7, <1>8, <1>9 DEF Next

\* The inductive invariant holds in every behaviour of the pipeline.
THEOREM PipelineInvariance == Spec => []IndInv
<1> QED BY InitIndInv, NextIndInv, PTL DEF Spec

\* The tables, the queue and the local state of every process stay within
\* their types (the CHECK and enum constraints of job_executions, job_outbox).
THEOREM PipelineTypes == Spec => []TypeOK
<1>1. IndInv => TypeOK BY DEF IndInv
<1> QED BY <1>1, PipelineInvariance, PTL

\* No enqueue is lost between PostgreSQL and BullMQ: while an execution is
\* PENDING its outbox event is neither published nor discarded, whatever
\* relays with expired claims, crashes between the UPDATEs of confirmPublish
\* and the reconciliation do.
THEOREM NoLostEnqueue == Spec => []PendingHasEvent
<1>1. IndInv => PendingHasEvent BY DEF IndInv
<1> QED BY <1>1, PipelineInvariance, PTL

\* However often BullMQ redelivers a job, JobRunner.run passes acquireLease at
\* most once for an execution.
THEOREM OneWorker == Spec => []SoleWorker
<1>1. IndInv => SoleWorker BY DEF IndInv
<1> QED BY <1>1, PipelineInvariance, PTL

\* COMPLETED without an operator's resolution means the handler has completed,
\* also when complete() rejects, is fenced off, or its reply is lost.
THEOREM CompletionsAreReal == Spec => []NoFalseCompletion
<1>1. IndInv => NoFalseCompletion BY DEF IndInv
<1> QED BY <1>1, PipelineInvariance, PTL

(***************************************************************************)
(* The pipeline implements JobLifecycle.                                   *)
(***************************************************************************)

Phases == [e \in Execs |-> Phase(exec[e].st)]

\* A step of the abstract specification, or one it does not see.
LifecycleStep == Lifecycle!Next \/ (Phases' = Phases /\ runs' = runs)

\* A statement that changes the status of one row, and the moves that the
\* lifecycle has for it.
LEMMA RowMoves ==
    ASSUME NEW e \in Execs, runs' = runs,
           \A f \in Execs \ {e} : exec'[f].st = exec[f].st,
           LET old == Phase(exec[e].st)
               new == Phase(exec'[e].st)
           IN  \/ new = old
               \/ old = "absent" /\ new = "accepted"
               \/ old = "running" /\ new = "ambiguous"
               \/ old \in {"accepted", "running", "ambiguous"} /\ new = "settled"
    PROVE  LifecycleStep
<1> DEFINE old == Phase(exec[e].st)
           new == Phase(exec'[e].st)
<1>a. \A f \in Execs : Phase(exec'[f].st) = IF f = e THEN new ELSE Phase(exec[f].st)
  OBVIOUS
<1> HIDE DEF new
<1>b. Phases' = [f \in Execs |-> IF f = e THEN new ELSE Phase(exec[f].st)]
  BY <1>a DEF Phases
<1>1. Phases' = [Phases EXCEPT ![e] = new]
  BY <1>b DEF Phases
<1> USE DEF new
<1>2. CASE new = old
  BY <1>1, <1>2 DEF Phases, LifecycleStep
<1>3. CASE old = "absent" /\ new = "accepted"
  <2>1. Lifecycle!Accept(e)
    BY <1>1, <1>3 DEF Phases, Lifecycle!Accept, Lifecycle!Move
  <2> QED BY <2>1 DEF Lifecycle!Next, LifecycleStep
<1>4. CASE old = "running" /\ new = "ambiguous"
  <2>1. Lifecycle!Doubt(e)
    BY <1>1, <1>4 DEF Phases, Lifecycle!Doubt, Lifecycle!Move
  <2> QED BY <2>1 DEF Lifecycle!Next, LifecycleStep
<1>5. CASE old \in {"accepted", "running", "ambiguous"} /\ new = "settled"
  <2>1. Lifecycle!Settle(e)
    BY <1>1, <1>5 DEF Phases, Lifecycle!Settle, Lifecycle!Move
  <2> QED BY <2>1 DEF Lifecycle!Next, LifecycleStep
<1> QED BY <1>2, <1>3, <1>4, <1>5

\* The phases of the statements that settle a row or keep its phase.
LEMMA StatementMoves ==
    ASSUME IndInv, NEW e \in Execs,
           \/ cancel(e) \/ recoverExecution(e) \/ markExpired(e) \/ LeaseExpires(e)
           \/ markEnqueued(e)
           \/ \E c \in {"none", "RETRYABLE", "TERMINAL"} : resolveUnknown(e, exec[e].gen, c)
           \/ \E t \in Tokens : \/ renewLease(e, t, RunnerGen)
                                \/ markUnknown(e, t, RunnerGen)
                                \/ complete(e, t, RunnerGen)
                                \/ \E c \in {"RETRYABLE", "TERMINAL"} : fail(e, t, RunnerGen, c)
    PROVE  LifecycleStep
<1>0. exec \in [Execs -> Row] /\ runs' = runs
  BY DEF IndInv, TypeOK, TableTypeOK, cancel, recoverExecution, markExpired, LeaseExpires,
         markEnqueued, resolveUnknown, renewLease, markUnknown, complete, fail, SetFailed
<1>1. /\ \A f \in Execs \ {e} : exec'[f] = exec[f]
      /\ \/ exec'[e].st = exec[e].st
         \/ exec[e].st = "PENDING" /\ exec'[e].st = "ENQUEUED"
         \/ exec[e].st = "RUNNING" /\ exec'[e].st = "UNKNOWN"
         \/ /\ exec[e].st \in {"PENDING", "ENQUEUED", "RUNNING", "UNKNOWN"}
            /\ exec'[e].st \in {"COMPLETED", "FAILED", "CANCELLED"}
  <2>1. CASE cancel(e) \/ LeaseExpires(e) \/ markEnqueued(e)
    BY <1>0, <2>1 DEF cancel, LeaseExpires, markEnqueued, Row, Active
  <2>2. CASE recoverExecution(e) \/ markExpired(e)
    BY <1>0, <2>2 DEF recoverExecution, markExpired, SetFailed, Row
  <2>3. CASE \E c \in {"none", "RETRYABLE", "TERMINAL"} : resolveUnknown(e, exec[e].gen, c)
    BY <1>0, <2>3 DEF resolveUnknown, Row
  <2>4. ASSUME NEW t \in Tokens, renewLease(e, t, RunnerGen) \/ markUnknown(e, t, RunnerGen)
                                 \/ complete(e, t, RunnerGen)
        PROVE  <1>1!1 /\ <1>1!2
    BY <1>0, <2>4 DEF renewLease, markUnknown, complete, Owns, Row
  <2>5. ASSUME NEW t \in Tokens, NEW c \in {"RETRYABLE", "TERMINAL"}, fail(e, t, RunnerGen, c)
        PROVE  <1>1!1 /\ <1>1!2
    BY <1>0, <2>5 DEF fail, SetFailed, Owns, Row
  <2> QED BY <2>1, <2>2, <2>3, <2>4, <2>5
<1>2. LET old == Phase(exec[e].st)
          new == Phase(exec'[e].st)
      IN  \/ new = old
          \/ old = "running" /\ new = "ambiguous"
          \/ old \in {"accepted", "running", "ambiguous"} /\ new = "settled"
  BY <1>1 DEF Phase
<1> QED BY <1>0, <1>1, <1>2, RowMoves

\* The other three statements.
LEMMA InsertMoves ==
    ASSUME IndInv, NEW e \in Execs, NEW k \in Keys, NEW h \in Hashes,
           insertExecution(e, k, h, 0)
    PROVE  LifecycleStep
<1>1. exec \in [Execs -> Row]
  BY DEF IndInv, TypeOK, TableTypeOK
<1>2. /\ exec[e].st = "NONE" /\ exec'[e].st = "PENDING" /\ runs' = runs
      /\ \A f \in Execs \ {e} : exec'[f] = exec[f]
  BY <1>1 DEF insertExecution, NewRow
<1>3. Phase(exec[e].st) = "absent" /\ Phase(exec'[e].st) = "accepted"
  BY <1>2 DEF Phase
<1> QED BY <1>2, <1>3, RowMoves

LEMMA AcquireMoves ==
    ASSUME IndInv, NEW e \in Execs, NEW t \in Tokens, acquireLease(e, t, RunnerGen)
    PROVE  LifecycleStep
<1>1. exec \in [Execs -> Row] /\ runs \in [Execs -> Nat]
  BY DEF IndInv, TypeOK, TableTypeOK
<1>2. /\ exec[e].st \in {"PENDING", "ENQUEUED"} /\ exec'[e].st = "RUNNING"
      /\ \A f \in Execs \ {e} : exec'[f] = exec[f]
      /\ runs' = [runs EXCEPT ![e] = runs[e] + 1]
  BY <1>1 DEF acquireLease, CanAcquire, Row
<1>3. Phase(exec[e].st) = "accepted" /\ Phase(exec'[e].st) = "running"
  BY <1>2 DEF Phase
<1>4. Phases' = [Phases EXCEPT ![e] = "running"]
  BY <1>2, <1>3 DEF Phases
<1>5. Lifecycle!Start(e)
  BY <1>2, <1>3, <1>4 DEF Phases, Lifecycle!Start, Lifecycle!Move
<1> QED BY <1>5 DEF Lifecycle!Next, LifecycleStep

\* replace() cannot take an UNKNOWN row, whose column unknown_since the CHECK
\* constraint ties to its status.
LEMMA SupersedeMoves ==
    ASSUME IndInv, NEW e \in Execs, NEW n \in Execs, NEW k \in Keys, NEW h \in Hashes,
           exec[e].st # "NONE", supersede(e, n, exec[e].gen, k, h, 0)
    PROVE  LifecycleStep
<1>1. exec \in [Execs -> Row] /\ exec[n].st = "NONE" /\ e # n
  BY DEF supersede, IndInv, TypeOK, TableTypeOK
<1>2. exec[e].st # "UNKNOWN"
  <2>1. exec[e].unk # "open"
    BY DEF supersede, RowChecks, Superseded
  <2> QED BY <2>1 DEF IndInv, DoubtIsOpen
<1>3. /\ exec'[e].st = "SUPERSEDED" /\ exec'[n].st = "PENDING" /\ runs' = runs
      /\ \A f \in Execs \ {e, n} : exec'[f] = exec[f]
  BY <1>1 DEF supersede, Superseded, NewRow
<1>4. /\ Phase(exec[e].st) \in {"accepted", "running", "settled"}
      /\ Phase(exec[n].st) = "absent"
      /\ Phase(exec'[e].st) = "settled" /\ Phase(exec'[n].st) = "accepted"
  BY <1>1, <1>2, <1>3 DEF Phase
<1>5. Phases' = [Phases EXCEPT ![e] = "settled", ![n] = "accepted"]
  BY <1>1, <1>3, <1>4 DEF Phases
<1>6. Lifecycle!Supersede(e, n)
  BY <1>3, <1>4, <1>5 DEF Phases, Lifecycle!Supersede
<1> QED BY <1>6 DEF Lifecycle!Next, LifecycleStep

\* Every step of the pipeline is a step of the lifecycle or changes nothing
\* there.
LEMMA StepRefines ==
    ASSUME IndInv, [Next]_vars
    PROVE  LifecycleStep
<1>0. ASSUME UNCHANGED <<exec, runs>> PROVE LifecycleStep
  BY <1>0 DEF Phases, LifecycleStep
<1>1. \A r \in Tokens : runner[r].pc # "idle" => runner[r].ex \in Execs
  BY DEF IndInv, RunnersRemember, RunnerRemembers
<1>2. ASSUME NEW e \in Execs, NEW k \in Keys, NEW h \in Hashes,
             Create(e, k, h) \/ \E n \in Execs : Replace(e, n, k, h)
      PROVE  LifecycleStep
  BY <1>2, InsertMoves, SupersedeMoves DEF Create, Replace
<1>3. ASSUME NEW e \in Execs,
             \/ \E c \in {"none", "RETRYABLE", "TERMINAL"} : ResolveUnknown(e, c)
             \/ Cancel(e) \/ ExecLeaseExpires(e) \/ RecoverExecution(e)
      PROVE  LifecycleStep
  BY <1>3, StatementMoves DEF ResolveUnknown, Cancel, ExecLeaseExpires, RecoverExecution
<1>4. ASSUME NEW e \in Execs, ClaimExpires(e) \/ Redeliver(e) \/ Stall(e) \/ Purge(e)
      PROVE  LifecycleStep
  BY <1>0, <1>4 DEF ClaimExpires, Redeliver, Stall, Purge, tableVars
<1>5. CASE RedisReset \/ Recon
  BY <1>0, <1>5 DEF RedisReset, Recon, ReconOrphans, ReconPublished, ReconClaims, tableVars
<1>6. ASSUME NEW l \in Relays,
             claimEvents(l) \/ RelayStep(l) \/ queueAddFails(l) \/ RelayCrash(l)
      PROVE  LifecycleStep
  <2>1. UNCHANGED <<exec, runs>> \/ (relay[l].pc = "enqueue" /\ markEnqueued(relay[l].ev))
    BY <1>6 DEF claimEvents, RelayStep, CheckEvent, discardEvent, queueAdd, confirmEnqueued,
                confirmOutbox, recordRelayFailure, SetOutbox, queueAddFails, RelayCrash, tableVars
  <2>2. relay[l].pc = "enqueue" => relay[l].ev \in Execs
    BY DEF IndInv, RelaysRemember, RelayRemembers
  <2> QED BY <1>0, <2>1, <2>2, StatementMoves
<1>7. ASSUME NEW r \in Tokens,
             \/ \E e \in Execs : Deliver(r, e)
             \/ RunnerStep(r) \/ RunnerFault(r) \/ Heartbeat(r) \/ MarkUnknown(r)
      PROVE  LifecycleStep
  <2> DEFINE e == runner[r].ex
  <2>1. \/ UNCHANGED <<exec, runs>>
        \/ /\ runner[r].pc # "idle"
           /\ \/ acquireLease(e, r, RunnerGen)
              \/ renewLease(e, r, RunnerGen) \/ markUnknown(e, r, RunnerGen)
              \/ complete(e, r, RunnerGen)
              \/ \E c \in {"RETRYABLE", "TERMINAL"} : fail(e, r, RunnerGen, c)
    BY <1>7 DEF Deliver, RunnerStep, RunnerFault, Acquire, HandlerReturns, HandlerThrows, Record,
                Catch, AcquireFails, RecordFails, CatchFails, RunnerCrash, Heartbeat, MarkUnknown,
                RecordResult, Rejected, tableVars
  <2> QED BY <1>0, <1>1, <2>1, StatementMoves, AcquireMoves
<1>8. ASSUME NEW s \in Sweeps, SweepStep(s) \/ SweepCrash(s)
      PROVE  LifecycleStep
  <2>1. UNCHANGED <<exec, runs>> \/ \E e \in Execs : markExpired(e)
    BY <1>8 DEF SweepStep, SelectExpired, SelectReplaceable, MarkExpired, SweepEnds, SweepCrash,
                tableVars, IndInv, TypeOK
  <2> QED BY <1>0, <2>1, StatementMoves
<1>9. CASE UNCHANGED vars
  BY <1>0, <1>9 DEF vars
<1> QED BY <1>2, <1>3, <1>4, <1>5, <1>6, <1>7, <1>8, <1>9 DEF Next

\* The pipeline implements the lifecycle the rest of the system relies on: an
\* execution is accepted, started at most once and settled, and an ambiguous
\* one is only ever resolved.
THEOREM PipelineImplementsLifecycle == Spec => LifecycleSpec
<1>1. Init => Lifecycle!Init
  BY DEF Init, TableInit, FreeRow, Phase, Lifecycle!Init
<1>2. IndInv /\ [Next]_vars =>
        [Lifecycle!Next]_<<[e \in Execs |-> Phase(exec[e].st)], runs>>
  BY StepRefines DEF LifecycleStep, Phases
<1> QED BY <1>1, <1>2, PipelineInvariance, PTL DEF Spec, LifecycleSpec, Lifecycle!Spec

(***************************************************************************)
(* The queue.  A queued execution has a live BullMQ job as long as Redis   *)
(* keeps its data and the runner's statements do not reject.  This is said *)
(* of the generation run() asks for: it gives up on a replacement, whose   *)
(* job is then finished and purged.                                        *)
(***************************************************************************)

QueueHolds == Faults \cap {"redis", "db"} = {}

\* A row that a worker could still start, were its job delivered.
Startable(r) == r.st \in {"PENDING", "ENQUEUED"} /\ r.gen = RunnerGen

\* A job exists for a row only, and finishes only when the row can no longer
\* be started.
JobQueued(e) ==
    /\ bull[e] # "absent" => exec[e].st # "NONE"
    /\ bull[e] = "finished" => ~Startable(exec[e])
    /\ exec[e].st = "ENQUEUED" /\ Startable(exec[e]) =>
         bull[e] \in {"waiting", "active"}

\* A relay about to mark the row ENQUEUED has added its job.
RelayQueued(l) ==
    relay[l].pc = "enqueue" /\ exec[relay[l].ev].st = "PENDING"
        /\ Startable(exec[relay[l].ev])
    => bull[relay[l].ev] # "absent"

RunnerQueued(r) == runner[r].pc # "idle" => exec[runner[r].ex].st # "NONE"

QueueInv ==
    /\ \A e \in Execs : JobQueued(e)
    /\ \A l \in Relays : RelayQueued(l)
    /\ \A r \in Tokens : RunnerQueued(r)

\* What a step may do to the row: it stays, it is not put back into the
\* queue, and if it is in the queue it keeps its generation.
Calm(e) ==
    /\ exec[e].st # "NONE" => exec'[e].st # "NONE"
    /\ exec'[e].st \in {"PENDING", "ENQUEUED"} =>
         exec[e].st = exec'[e].st /\ exec'[e].gen = exec[e].gen
    /\ exec[e].st = "NONE" => exec'[e].st = "NONE"

\* The statements on one row, except markEnqueued.
LEMMA StatementCalm ==
    ASSUME TypeOK, NEW e \in Execs,
           \/ cancel(e) \/ recoverExecution(e) \/ markExpired(e) \/ LeaseExpires(e)
           \/ \E c \in {"none", "RETRYABLE", "TERMINAL"} : resolveUnknown(e, exec[e].gen, c)
           \/ \E t \in Tokens : \/ renewLease(e, t, RunnerGen)
                                \/ markUnknown(e, t, RunnerGen)
                                \/ complete(e, t, RunnerGen)
                                \/ acquireLease(e, t, RunnerGen)
                                \/ \E c \in {"RETRYABLE", "TERMINAL"} : fail(e, t, RunnerGen, c)
    PROVE  \A f \in Execs : Calm(f)
<1>0. exec \in [Execs -> Row]
  BY DEF TypeOK, TableTypeOK
<1>1. CASE cancel(e) BY <1>0, <1>1 DEF cancel, Calm, Row, Active
<1>2. CASE exec[e].st = "RUNNING" /\ \E c \in {"RETRYABLE", "TERMINAL"} : SetFailed(e, c)
  BY <1>0, <1>2 DEF SetFailed, Calm, Row
<1>3. CASE LeaseExpires(e) \/ \E t \in Tokens : renewLease(e, t, RunnerGen)
  <2>1. PICK lease \in {"live", "expired"} : exec' = [exec EXCEPT ![e].lease = lease]
    BY <1>3 DEF LeaseExpires, renewLease
  <2>2. \A f \in Execs : exec'[f].st = exec[f].st /\ exec'[f].gen = exec[f].gen
    BY <1>0, <2>1 DEF Row
  <2> QED BY <2>2 DEF Calm
<1>4. CASE \E c \in {"none", "RETRYABLE", "TERMINAL"} : resolveUnknown(e, exec[e].gen, c)
  <2>1. PICK c \in {"none", "RETRYABLE", "TERMINAL"}, st \in {"COMPLETED", "FAILED"} :
          /\ exec[e].st = "UNKNOWN"
          /\ exec' = [exec EXCEPT ![e].st = st, ![e].class = c, ![e].unk = "resolved"]
    BY <1>4 DEF resolveUnknown
  <2> QED BY <1>0, <2>1 DEF Calm, Row
<1>5. CASE \E t \in Tokens : markUnknown(e, t, RunnerGen)
  BY <1>0, <1>5 DEF markUnknown, Owns, Calm, Row
<1>6. CASE \E t \in Tokens : complete(e, t, RunnerGen)
  BY <1>0, <1>6 DEF complete, Owns, Calm, Row
<1>7. CASE \E t \in Tokens : acquireLease(e, t, RunnerGen)
  <2>1. PICK t \in Tokens :
          /\ exec[e].st \in {"PENDING", "ENQUEUED"}
          /\ exec' = [exec EXCEPT ![e].st = "RUNNING", ![e].tok = t, ![e].lease = "live"]
    BY <1>7 DEF acquireLease, CanAcquire
  <2> QED BY <1>0, <2>1 DEF Calm, Row
<1> QED BY <1>1, <1>2, <1>3, <1>4, <1>5, <1>6, <1>7 DEF recoverExecution, markExpired, fail, Owns

\* The frame: what remains to be shown of the jobs, relays and runners that a
\* step has changed.
LEMMA QueueFrame ==
    ASSUME IndInv, QueueInv, \A e \in Execs : Calm(e),
           \A e \in Execs :
              \/ bull'[e] = bull[e]
              \/ bull[e] = "finished" /\ bull'[e] = "absent"
              \/ bull'[e] \in {"waiting", "active"} /\ exec[e].st # "NONE"
              \/ bull'[e] = "finished" /\ exec[e].st # "NONE" /\ ~Startable(exec'[e]),
           \A l \in Relays :
              \/ relay'[l].pc = relay[l].pc /\ relay'[l].ev = relay[l].ev
              \/ relay'[l].pc # "enqueue"
              \/ bull'[relay'[l].ev] # "absent",
           \A r \in Tokens :
              \/ runner'[r].pc = "idle"
              \/ runner[r].pc # "idle" /\ runner'[r].ex = runner[r].ex
              \/ runner'[r].ex \in Execs /\ exec[runner'[r].ex].st # "NONE"
    PROVE  QueueInv'
<1>1. ASSUME NEW e \in Execs PROVE JobQueued(e)'
  BY DEF QueueInv, JobQueued, Calm, Startable
<1>2. ASSUME NEW l \in Relays PROVE RelayQueued(l)'
  <2>1. RelayQueued(l) /\ RelayRemembers(l) BY DEF QueueInv, IndInv, RelaysRemember
  <2>2. CASE relay'[l].pc = relay[l].pc /\ relay'[l].ev = relay[l].ev /\ relay[l].pc = "enqueue"
    <3>1. relay[l].ev \in Execs BY <2>1, <2>2 DEF RelayRemembers
    <3> QED BY <2>1, <2>2, <3>1 DEF RelayQueued, QueueInv, JobQueued, Calm, Startable
  <2> QED BY <2>1, <2>2 DEF RelayQueued
<1>3. ASSUME NEW r \in Tokens PROVE RunnerQueued(r)'
  <2>1. RunnerQueued(r) /\ RunnerRemembers(r) BY DEF QueueInv, IndInv, RunnersRemember
  <2> QED BY <2>1 DEF RunnerQueued, RunnerRemembers, Calm
<1> QED BY <1>1, <1>2, <1>3 DEF QueueInv

\* An invocation ends only on an execution that cannot be started.
LEMMA RunEndsQueue ==
    ASSUME IndInv, QueueInv, NEW r \in Tokens, runner[r].pc # "idle", RunEnds(r),
           \A e \in Execs : Calm(e), UNCHANGED relay,
           ~Startable(exec'[runner[r].ex])
    PROVE  QueueInv'
<1>1. runner[r].ex \in Execs /\ exec[runner[r].ex].st # "NONE"
  BY DEF IndInv, RunnersRemember, RunnerRemembers, QueueInv, RunnerQueued
<1>2. runner' = [runner EXCEPT ![r] = RunnerIdle] /\ RunnerIdle.pc = "idle"
  BY DEF RunEnds, RunnerIdle
<1>3. \A q \in Tokens : runner'[q].pc = "idle" \/ runner'[q] = runner[q]
  BY <1>2 DEF IndInv, TypeOK
<1>4. \A e \in Execs : \/ bull'[e] = bull[e]
                       \/ bull'[e] = "finished" /\ exec[e].st # "NONE" /\ ~Startable(exec'[e])
  BY <1>1 DEF RunEnds, IndInv, TypeOK
<1> QED BY <1>3, <1>4, QueueFrame

\* A new row has no job yet, and nobody works on it; a row that replace()
\* superseded is out of the queue.
LEMMA CreateQueue ==
    ASSUME IndInv, QueueInv, NEW e \in Execs, NEW k \in Keys, NEW h \in Hashes,
           Create(e, k, h) \/ \E n \in Execs : Replace(e, n, k, h)
    PROVE  QueueInv'
<1>0. exec \in [Execs -> Row] BY DEF IndInv, TypeOK, TableTypeOK
<1>1. UNCHANGED <<relay, bull, runner>>
  BY DEF Create, Replace, relayVars, workVars
<1>2. PICK n \in Execs :
        /\ exec[n].st = "NONE" /\ exec'[n].st = "PENDING"
        /\ \A f \in Execs \ {n} :
             exec'[f] = exec[f] \/ (exec[f].st # "NONE" /\ exec'[f].st = "SUPERSEDED")
  <2>1. CASE Create(e, k, h)
    BY <1>0, <2>1 DEF Create, insertExecution, NewRow
  <2>2. ASSUME NEW n \in Execs, Replace(e, n, k, h)
        PROVE  /\ exec[n].st = "NONE" /\ exec'[n].st = "PENDING"
               /\ \A f \in Execs \ {n} :
                    exec'[f] = exec[f] \/ (exec[f].st # "NONE" /\ exec'[f].st = "SUPERSEDED")
    BY <1>0, <2>2 DEF Replace, supersede, NewRow, Superseded
  <2> QED BY <2>1, <2>2
<1>3. bull[n] = "absent" BY <1>2 DEF QueueInv, JobQueued, IndInv, TypeOK
<1>4. ASSUME NEW f \in Execs PROVE JobQueued(f)'
  <2>1. CASE f = n BY <1>1, <1>2, <1>3, <2>1 DEF JobQueued
  <2>2. CASE f # n BY <1>1, <1>2, <2>2 DEF QueueInv, JobQueued, Startable
  <2> QED BY <2>1, <2>2
<1>5. ASSUME NEW l \in Relays PROVE RelayQueued(l)'
  <2>1. RelayQueued(l) /\ RelayRemembers(l) BY DEF QueueInv, IndInv, RelaysRemember
  <2> QED BY <1>1, <1>2, <2>1 DEF RelayQueued, RelayRemembers
<1>6. ASSUME NEW r \in Tokens PROVE RunnerQueued(r)'
  <2>1. RunnerQueued(r) /\ RunnerRemembers(r) BY DEF QueueInv, IndInv, RunnersRemember
  <2> QED BY <1>1, <1>2, <2>1 DEF RunnerQueued, RunnerRemembers
<1> QED BY <1>4, <1>5, <1>6 DEF QueueInv

\* The first UPDATE of confirmPublish: the job is there and has not finished.
LEMMA EnqueueQueue ==
    ASSUME IndInv, QueueInv, NEW l \in Relays, confirmEnqueued(l), markEnqueued(relay[l].ev)
    PROVE  QueueInv'
<1> DEFINE e == relay[l].ev
<1>0. /\ UNCHANGED <<bull, runner>> /\ relay' = [relay EXCEPT ![l].pc = "publish"]
      /\ relay[l].pc = "enqueue" /\ e \in Execs /\ exec[e].st = "PENDING"
  BY DEF confirmEnqueued, markEnqueued, workVars, IndInv, RelaysRemember, RelayRemembers
<1>1. /\ exec'[e].st = "ENQUEUED" /\ exec'[e].gen = exec[e].gen
      /\ \A f \in Execs \ {e} : exec'[f] = exec[f]
  BY <1>0 DEF markEnqueued, IndInv, TypeOK, TableTypeOK, Row
<1>2. exec[e].gen = RunnerGen => bull[e] \in {"waiting", "active"}
  BY <1>0 DEF QueueInv, RelayQueued, JobQueued, Startable, IndInv, TypeOK
<1>3. ASSUME NEW f \in Execs PROVE JobQueued(f)'
  <2>1. CASE f = e BY <1>0, <1>1, <1>2, <2>1 DEF QueueInv, JobQueued, Startable
  <2>2. CASE f # e BY <1>0, <1>1, <2>2 DEF QueueInv, JobQueued, Startable
  <2> QED BY <2>1, <2>2
<1>4. ASSUME NEW k \in Relays PROVE RelayQueued(k)'
  <2>1. RelayQueued(k) /\ RelayRemembers(k) BY DEF QueueInv, IndInv, RelaysRemember
  <2>2. relay'[k].pc = "publish" \/ relay'[k] = relay[k] BY <1>0 DEF IndInv, TypeOK
  <2> QED BY <1>0, <1>1, <2>1, <2>2 DEF RelayQueued, RelayRemembers
<1>5. ASSUME NEW r \in Tokens PROVE RunnerQueued(r)'
  <2>1. RunnerQueued(r) /\ RunnerRemembers(r) BY DEF QueueInv, IndInv, RunnersRemember
  <2> QED BY <1>0, <1>1, <2>1 DEF RunnerQueued, RunnerRemembers
<1> QED BY <1>3, <1>4, <1>5 DEF QueueInv

\* The relay's steps that leave the executions alone.
LEMMA RelayQueue ==
    ASSUME IndInv, QueueInv, NEW l \in Relays, UNCHANGED exec,
           \/ claimEvents(l) \/ RelayStep(l) \/ queueAddFails(l) \/ RelayCrash(l)
    PROVE  QueueInv'
<1>0. /\ \A e \in Execs : Calm(e)
      /\ UNCHANGED runner
      /\ bull \in [Execs -> {"absent", "waiting", "active", "finished"}]
      /\ relay[l].pc = "add" => relay[l].ev \in Execs /\ exec[relay[l].ev].st # "NONE"
  BY DEF Calm, claimEvents, RelayStep, queueAddFails, RelayCrash, CheckEvent, queueAdd,
         discardEvent, confirmOutbox, recordRelayFailure, SetOutbox, confirmEnqueued, workVars,
         IndInv, TypeOK, RelaysRemember, RelayRemembers
<1>1. PICK new : relay' = [relay EXCEPT ![l] = new] /\ (new.pc = "enqueue" => queueAdd(l))
                 /\ (queueAdd(l) => new.ev = relay[l].ev)
  <2>0. relay \in [Relays -> [pc : {"idle", "next", "add", "enqueue", "publish", "discard", "fail"},
                              batch : SUBSET Execs, ev : Execs \cup {None}]]
    BY DEF IndInv, TypeOK
  <2>1. CASE claimEvents(l) /\ ~queueAdd(l)
    <3>1. relay' = [relay EXCEPT ![l] = [pc |-> "next", batch |-> Claimable, ev |-> None]]
      BY <2>1 DEF claimEvents
    <3> QED BY <2>1, <3>1
  <2>2. CASE CheckEvent(l) /\ ~queueAdd(l)
    <3>1. PICK e \in relay[l].batch, pc \in {"add", "discard"} :
             relay' = [relay EXCEPT ![l] = [pc |-> pc, batch |-> relay[l].batch \ {e}, ev |-> e]]
      BY <2>2 DEF CheckEvent
    <3> QED BY <2>2, <3>1
  <2>3. CASE NextEvent(l) /\ ~queueAdd(l)
    <3>1. PICK new : new = IF relay[l].batch = {} THEN RelayIdle
                           ELSE [relay[l] EXCEPT !.pc = "next", !.ev = None]
      OBVIOUS
    <3>2. new.pc # "enqueue" BY <2>0, <3>1 DEF RelayIdle
    <3> QED BY <2>3, <3>1, <3>2 DEF NextEvent
  <2>4. CASE (queueAddFails(l) \/ confirmEnqueued(l)) /\ ~queueAdd(l)
    <3>1. PICK pc \in {"fail", "publish"} : relay' = [relay EXCEPT ![l].pc = pc]
      BY <2>4 DEF queueAddFails, confirmEnqueued
    <3>2. PICK new : new = [relay[l] EXCEPT !.pc = pc] OBVIOUS
    <3>3. new.pc # "enqueue" BY <2>0, <3>2
    <3> QED BY <2>4, <3>1, <3>2, <3>3
  <2>5. CASE queueAdd(l)
    <3>1. PICK new : new = [relay[l] EXCEPT !.pc = "enqueue"] OBVIOUS
    <3>2. new.ev = relay[l].ev BY <2>0, <3>1
    <3> QED BY <2>5, <3>1, <3>2 DEF queueAdd
  <2>6. CASE RelayCrash(l) /\ ~queueAdd(l)
    BY <2>6 DEF RelayCrash, RelayIdle
  <2> QED BY <2>1, <2>2, <2>3, <2>4, <2>5, <2>6
          DEF RelayStep, discardEvent, confirmOutbox, recordRelayFailure, SetOutbox
<1>2. \/ bull' = bull /\ ~queueAdd(l)
      \/ relay[l].pc = "add" /\ bull' = BullAdd(relay[l].ev)
  BY DEF claimEvents, RelayStep, queueAddFails, RelayCrash, CheckEvent, queueAdd,
         discardEvent, confirmOutbox, recordRelayFailure, SetOutbox, confirmEnqueued
<1>3. \A e \in Execs : bull'[e] = bull[e] \/ (bull'[e] = "waiting" /\ exec[e].st # "NONE")
  BY <1>0, <1>2 DEF BullAdd
<1>4. queueAdd(l) => bull'[relay[l].ev] # "absent"
  BY <1>0, <1>2 DEF BullAdd
<1>5. ASSUME NEW k \in Relays
      PROVE  \/ relay'[k].pc = relay[k].pc /\ relay'[k].ev = relay[k].ev
             \/ relay'[k].pc # "enqueue"
             \/ bull'[relay'[k].ev] # "absent"
  BY <1>1, <1>4 DEF IndInv, TypeOK
<1> QED BY <1>0, <1>3, <1>5, QueueFrame

\* Delivery and the steps of run(), while its statements do not reject.
LEMMA RunnerQueue ==
    ASSUME QueueHolds, IndInv, QueueInv, NEW r \in Tokens,
           \/ \E e \in Execs : Deliver(r, e)
           \/ RunnerStep(r) \/ RunnerFault(r) \/ Heartbeat(r) \/ MarkUnknown(r)
    PROVE  QueueInv'
<1> DEFINE ex == runner[r].ex
<1>0. /\ ~Fault("db") /\ UNCHANGED relay
      /\ TypeOK /\ RunnerRemembers(r) /\ RunnerQueued(r)
      /\ bull \in [Execs -> {"absent", "waiting", "active", "finished"}]
  BY DEF QueueHolds, Fault, Deliver, RunnerStep, RunnerFault, Heartbeat, MarkUnknown, Acquire,
         AcquireFails, HandlerReturns, HandlerThrows, Record, RecordFails, Catch, CatchFails,
         RunnerCrash, relayVars, IndInv, TypeOK, QueueInv, RunnersRemember
<1>1. UNCHANGED exec => \A e \in Execs : Calm(e) BY DEF Calm
<1>2. ASSUME NEW e \in Execs, Deliver(r, e) PROVE QueueInv'
  <2>1. /\ bull[e] = "waiting" /\ bull' = [bull EXCEPT ![e] = "active"] /\ UNCHANGED exec
        /\ runner' = [runner EXCEPT ![r] = [pc |-> "acquire", ex |-> e, res |-> "none"]]
    BY <1>2 DEF Deliver, tableVars
  <2>2. exec[e].st # "NONE" BY <2>1 DEF QueueInv, JobQueued
  <2>3. \A q \in Tokens : runner'[q] = runner[q] \/ (runner'[q].ex = e)
    BY <2>1 DEF IndInv, TypeOK
  <2>4. \A f \in Execs : bull'[f] = bull[f] \/ (bull'[f] = "active" /\ exec[f].st # "NONE")
    BY <1>0, <2>1, <2>2
  <2> QED BY <1>0, <1>1, <2>1, <2>2, <2>3, <2>4, QueueFrame
<1>3. CASE Acquire(r)
  <2>1. runner[r].pc = "acquire" /\ ex \in Execs /\ exec[ex].st # "NONE"
    BY <1>0, <1>3 DEF Acquire, RunnerRemembers, RunnerQueued
  <2>2. CASE acquireLease(ex, r, RunnerGen) /\ runner' = [runner EXCEPT ![r].pc = "handler"]
             /\ UNCHANGED bull
    <3>1. \A e \in Execs : Calm(e) BY <1>0, <2>1, <2>2, StatementCalm
    <3>2. \A q \in Tokens : runner'[q] = runner[q] \/ (q = r /\ runner'[q].ex = ex)
      BY <2>2 DEF IndInv, TypeOK
    <3> QED BY <1>0, <2>1, <2>2, <3>1, <3>2, QueueFrame
  <2>3. CASE ~CanAcquire(ex, RunnerGen) /\ RunEnds(r) /\ UNCHANGED exec
    <3>1. ~Startable(exec'[ex])
      BY <2>3 DEF CanAcquire, Startable
    <3> QED BY <1>0, <1>1, <2>1, <2>3, <3>1, RunEndsQueue
  <2> QED BY <1>3, <2>2, <2>3 DEF Acquire
<1>4. CASE Record(r) \/ Catch(r)
  <2>1. InHandler(r) /\ ex \in Execs /\ ~NotStarted(exec[ex].st) /\ RunEnds(r)
        /\ runner[r].pc # "idle"
    BY <1>0, <1>4 DEF Record, Catch, InHandler, RunnerRemembers
  <2>2. \/ UNCHANGED exec
        \/ complete(ex, r, RunnerGen) \/ \E c \in {"RETRYABLE", "TERMINAL"} : fail(ex, r, RunnerGen, c)
    BY <1>4 DEF Record, Catch, RecordResult, Rejected
  <2>3. \A e \in Execs : Calm(e) BY <1>0, <1>1, <2>1, <2>2, StatementCalm
  <2>4. ~Startable(exec'[ex]) BY <2>1, <2>3 DEF Calm, NotStarted, Startable
  <2> QED BY <1>0, <2>1, <2>3, <2>4, RunEndsQueue
<1>5. CASE HandlerReturns(r) \/ HandlerThrows(r)
  <2>1. /\ UNCHANGED <<exec, bull>> /\ runner[r].pc # "idle"
        /\ \A q \in Tokens : runner'[q] = runner[q] \/ (q = r /\ runner'[q].ex = ex)
    BY <1>5 DEF HandlerReturns, HandlerThrows, tableVars, IndInv, TypeOK
  <2> QED BY <1>0, <1>1, <2>1, QueueFrame
<1>6. CASE RunnerCrash(r)
  <2>1. UNCHANGED <<exec, bull>> /\ runner' = [runner EXCEPT ![r] = RunnerIdle]
    BY <1>6 DEF RunnerCrash, tableVars
  <2>2. \A q \in Tokens : runner'[q] = runner[q] \/ runner'[q].pc = "idle"
    BY <2>1 DEF RunnerIdle, IndInv, TypeOK
  <2> QED BY <1>0, <1>1, <2>1, <2>2, QueueFrame
<1>7. CASE Heartbeat(r) \/ MarkUnknown(r)
  <2>1. /\ UNCHANGED <<bull, runner>> /\ ex \in Execs
        /\ renewLease(ex, r, RunnerGen) \/ markUnknown(ex, r, RunnerGen)
    BY <1>0, <1>7 DEF Heartbeat, MarkUnknown, workVars, RunnerRemembers
  <2>2. \A e \in Execs : Calm(e) BY <1>0, <2>1, StatementCalm
  <2> QED BY <1>0, <2>1, <2>2, QueueFrame
<1> QED BY <1>0, <1>2, <1>3, <1>4, <1>5, <1>6, <1>7
        DEF RunnerStep, RunnerFault, AcquireFails, RecordFails, CatchFails

LEMMA InitQueueInv == Init => QueueInv
  BY DEF Init, TableInit, FreeRow, QueueInv, JobQueued, RelayQueued, RunnerQueued,
         RelayIdle, RunnerIdle

LEMMA NextQueueInv ==
    ASSUME QueueHolds, IndInv, QueueInv, [Next]_vars
    PROVE  QueueInv'
<1>0. TypeOK BY DEF IndInv
<1>1. UNCHANGED exec => \A e \in Execs : Calm(e) BY DEF Calm
<1>2. CASE UNCHANGED vars BY <1>1, <1>2, QueueFrame DEF vars
<1>3. ASSUME NEW e \in Execs, NEW k \in Keys, NEW h \in Hashes,
             Create(e, k, h) \/ \E n \in Execs : Replace(e, n, k, h)
      PROVE  QueueInv'
  BY <1>3, CreateQueue
\* The operators, the sweeps, the reconciliation and the clock.
<1>5. ASSUME UNCHANGED <<relay, bull, runner>>,
             UNCHANGED exec \/ \E e \in Execs :
                \/ cancel(e) \/ recoverExecution(e) \/ markExpired(e) \/ LeaseExpires(e)
                \/ \E c \in {"none", "RETRYABLE", "TERMINAL"} : resolveUnknown(e, exec[e].gen, c)
      PROVE  QueueInv'
  <2>1. \A e \in Execs : Calm(e) BY <1>0, <1>1, <1>5, StatementCalm
  <2> QED BY <1>5, <2>1, QueueFrame
<1>6. ASSUME NEW e \in Execs,
             \/ \E c \in {"none", "RETRYABLE", "TERMINAL"} : ResolveUnknown(e, c)
             \/ Cancel(e) \/ ClaimExpires(e) \/ ExecLeaseExpires(e) \/ RecoverExecution(e)
      PROVE  QueueInv'
  BY <1>5, <1>6 DEF ResolveUnknown, Cancel, ClaimExpires, ExecLeaseExpires, RecoverExecution,
                    relayVars, workVars, tableVars
<1>7. ASSUME NEW s \in Sweeps, SweepStep(s) \/ SweepCrash(s)
      PROVE  QueueInv'
  <2>1. UNCHANGED <<relay, bull, runner>> /\ (UNCHANGED exec \/ \E e \in Execs : markExpired(e))
    BY <1>7 DEF SweepStep, SelectExpired, SelectReplaceable, MarkExpired, SweepEnds, SweepCrash,
                relayVars, workVars, tableVars, IndInv, TypeOK
  <2> QED BY <1>5, <2>1
<1>8. CASE Recon
  BY <1>5, <1>8 DEF Recon, ReconOrphans, ReconPublished, ReconClaims, relayVars, workVars
<1>9. ASSUME NEW e \in Execs, Redeliver(e) \/ Stall(e) \/ Purge(e)
      PROVE  QueueInv'
  <2>1. /\ UNCHANGED <<exec, relay, runner>> /\ bull[e] \in {"active", "finished"}
        /\ bull' = [bull EXCEPT ![e] = IF bull[e] = "active" THEN "waiting" ELSE "absent"]
    BY <1>9 DEF Redeliver, Stall, Purge, tableVars, relayVars, workVars
  <2>2. bull[e] # "absent" => exec[e].st # "NONE" BY DEF QueueInv, JobQueued
  <2>3. \A f \in Execs : \/ bull'[f] = bull[f]
                         \/ bull[f] = "finished" /\ bull'[f] = "absent"
                         \/ bull'[f] \in {"waiting", "active"} /\ exec[f].st # "NONE"
    BY <2>1, <2>2 DEF IndInv, TypeOK
  <2> QED BY <1>1, <2>1, <2>3, QueueFrame
<1>10. ~RedisReset BY DEF RedisReset, Fault, QueueHolds
<1>11. ASSUME NEW l \in Relays,
              claimEvents(l) \/ RelayStep(l) \/ queueAddFails(l) \/ RelayCrash(l)
       PROVE  QueueInv'
  <2>1. UNCHANGED exec \/ (confirmEnqueued(l) /\ markEnqueued(relay[l].ev))
    BY <1>11 DEF claimEvents, RelayStep, queueAddFails, RelayCrash, CheckEvent, queueAdd,
                 discardEvent, confirmOutbox, recordRelayFailure, SetOutbox, confirmEnqueued,
                 tableVars
  <2> QED BY <1>11, <2>1, RelayQueue, EnqueueQueue
<1> QED BY <1>2, <1>3, <1>6, <1>7, <1>8, <1>9, <1>10, <1>11, RunnerQueue DEF Next

\* PostgreSQL and BullMQ agree: an ENQUEUED execution of the first generation
\* has a job that waits or is worked on, whatever relays, workers and sweeps
\* crash, however often jobs are stalled and redelivered, queue.add rejects
\* and executions are replaced.
THEOREM QueuedExecutionsHaveJobs ==
    ASSUME QueueHolds
    PROVE  Spec => []EnqueuedHasJob
<1>1. IndInv /\ QueueInv /\ [Next]_vars => QueueInv' BY NextQueueInv
<1>2. QueueInv => EnqueuedHasJob BY DEF QueueInv, JobQueued, Startable, EnqueuedHasJob
<1> QED BY <1>1, <1>2, InitQueueInv, PipelineInvariance, PTL DEF Spec

-----------------------------------------------------------------------------
=============================================================================
