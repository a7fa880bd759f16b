------------------------------ MODULE Idempotency ------------------------------
(***************************************************************************)
(* Idempotent execution of a command: the record of one idempotency key    *)
(* (PostgresIdempotencyRepository), the service that runs a handler under  *)
(* it (IdempotencyApplicationService.execute) and the transaction around   *)
(* both (ConsumeOnceWrapper.consume; a caller of execute does the same).   *)
(*                                                                         *)
(* A TxClient is either a transaction or the pooled client itself, so a    *)
(* behaviour has one of two modes. In mode "tx" the writes of a request    *)
(* stay its own until it commits, and whoever wants to write the row waits *)
(* for the lock. In mode "pool" every statement commits at once, and the   *)
(* INSERT that acquire does not await may come after its SELECT.           *)
(*                                                                         *)
(* A token is the number of its gen_random_uuid call. locked_at is written *)
(* together with processing_token by every statement that acquires, so the *)
(* token stands for both; `stale` says that locked_at is older than the    *)
(* processing timeout. A response is identified by the token of the        *)
(* execution that produced it. Attempt counts, headers and time to live    *)
(* decide nothing and are left out.                                        *)
(***************************************************************************)
EXTENDS Naturals, FiniteSets

CONSTANTS Requests,   \* the requests that carry the key
          Hashes,     \* payload hashes; a client may reuse its key with another payload
          NoHash,     \* hash of no payload
          NoRequest,  \* holder of a free row lock
          MaxSends    \* bound: how often requests are sent, repetitions included

ASSUME NullAssumption == NoRequest \notin Requests /\ NoHash \notin Hashes
ASSUME MaxSendsAssumption == MaxSends \in Nat

VARIABLES
    mode,     \* "tx" or "pool", fixed for the behaviour
    row,      \* the committed idempotency record
    work,     \* the record as the holder of the row lock sees it
    lock,     \* the request whose transaction holds the row lock
    stale,    \* whether the processing timeout of the committed row has passed
    tokens,   \* ownership tokens generated so far
    effects,  \* committed effects of the handler
    req,      \* control state of each request
    unsent,   \* the payload hash of an INSERT that has been overtaken by its SELECT
    results,  \* the responses clients have been given, executed or replayed
    sends     \* requests sent so far

vars == <<mode, row, work, lock, stale, tokens, effects, req, unsent, results, sends>>

NoRow == [status |-> "NONE", hash |-> NoHash, token |-> 0, class |-> "none", response |-> 0]

Rows == {NoRow} \union
    [status   : {"PENDING", "PROCESSING", "COMPLETED", "FAILED"},
     hash     : Hashes,
     token    : Nat,
     class    : {"none", "RETRYABLE", "TERMINAL"},
     response : Nat]

Controls == {"idle", "insert", "select", "update", "handler", "complete", "caught",
             "functional", "retryable", "terminal", "return", "throw"}

Idle == [pc |-> "idle", hash |-> NoHash, seen |-> NoRow, token |-> 0, effect |-> FALSE]

TypeOK ==
    /\ mode \in {"tx", "pool"}
    /\ row \in Rows /\ work \in Rows
    /\ lock \in Requests \union {NoRequest}
    /\ stale \in BOOLEAN
    /\ tokens \in Nat /\ effects \in Nat
    /\ req \in [Requests -> [pc : Controls, hash : Hashes \union {NoHash}, seen : Rows,
                             token : Nat, effect : BOOLEAN]]
    /\ unsent \in [Requests -> Hashes \union {NoHash}]
    /\ results \subseteq [hash : Hashes, response : Nat]
    /\ sends \in Nat

-----------------------------------------------------------------------------
(* Statements *)

\* What a statement of r sees: its own uncommitted record, or the committed one.
View(r) == IF lock = r THEN work ELSE row

\* An INSERT on the key, or an UPDATE of the row, waits for the transaction that wrote it.
CanWrite(r) == lock \in {NoRequest, r}

\* The row a statement of r writes: its own version until commit, or at once.
Write(r, new) ==
    IF mode = "tx"
    THEN work' = new /\ lock' = r /\ UNCHANGED row
    ELSE row' = new /\ UNCHANGED <<work, lock>>

Goto(r, pc) == req' = [req EXCEPT ![r].pc = pc]

\* mutant: the transaction is left open
EndKeepsLock(r) == req' = [req EXCEPT ![r] = Idle] /\ UNCHANGED <<lock, work>>

\* The request is over; what its transaction has not committed is rolled back.
End(r) ==
    /\ req' = [req EXCEPT ![r] = Idle]
    /\ lock' = IF lock = r THEN NoRequest ELSE lock
    /\ work' = IF lock = r THEN NoRow ELSE work

-----------------------------------------------------------------------------
(* acquire *)

\* A client sends its request, the first time or again after an answer it did not like.
Begin(r) ==
    /\ req[r].pc = "idle" /\ unsent[r] = NoHash
    /\ sends < MaxSends
    /\ sends' = sends + 1
    /\ \E h \in Hashes : req' = [req EXCEPT ![r] = [Idle EXCEPT !.pc = "insert", !.hash = h]]
    /\ UNCHANGED <<mode, row, work, lock, stale, tokens, effects, unsent, results>>

PendingRow(h) == [NoRow EXCEPT !.status = "PENDING", !.hash = h]

\* INSERT ... ON CONFLICT DO NOTHING.
InsertPending(r, h) ==
    /\ CanWrite(r)
    /\ IF View(r) = NoRow THEN Write(r, PendingRow(h)) ELSE UNCHANGED <<row, work, lock>>
    /\ UNCHANGED <<mode, stale, tokens, effects, results, sends>>

tryInsertPending(r) ==
    /\ req[r].pc = "insert"
    /\ InsertPending(r, req[r].hash)
    /\ Goto(r, "select")
    /\ UNCHANGED unsent

\* acquire does not await the INSERT: on the pool its SELECT may be served first.
SelectOvertakesInsert(r) ==
    /\ req[r].pc = "insert" /\ mode = "pool"
    /\ unsent' = [unsent EXCEPT ![r] = req[r].hash]
    /\ Goto(r, "select")
    /\ UNCHANGED <<mode, row, work, lock, stale, tokens, effects, results, sends>>

LateInsert(r) ==
    /\ unsent[r] # NoHash
    /\ InsertPending(r, unsent[r])
    /\ unsent' = [unsent EXCEPT ![r] = NoHash]
    /\ UNCHANGED req

\* No row: the request runs the handler without a record id or a token (0).
AcquireWithoutRow(r) ==
    /\ req[r].pc = "select" /\ View(r) = NoRow
    /\ req' = [req EXCEPT ![r].pc = "handler", ![r].token = 0]
    /\ UNCHANGED <<mode, row, work, lock, stale, tokens, effects, unsent, results, sends>>

\* A COMPLETED record is replayed.
Replay(r) ==
    /\ req[r].pc = "select"
    /\ View(r).hash = req[r].hash /\ View(r).status = "COMPLETED"
    /\ results' = results \union {[hash |-> req[r].hash, response |-> View(r).response]}
    /\ End(r)
    /\ UNCHANGED <<mode, row, stale, tokens, effects, unsent, sends>>

\* The row refuses the request: another payload, an owner within its timeout, or a
\* terminal failure. execute throws.
Refuse(r) ==
    LET rec == View(r) IN
    /\ req[r].pc = "select" /\ rec # NoRow
    /\ \/ rec.hash # req[r].hash
       \/ rec.status = "PROCESSING" /\ ~stale
       \/ rec.status = "FAILED" /\ rec.class = "TERMINAL"
    /\ End(r)
    /\ UNCHANGED <<mode, row, stale, tokens, effects, unsent, results, sends>>

\* Otherwise acquire goes on to update the row it has seen.
RouteToUpdate(r) ==
    LET rec == View(r) IN
    /\ req[r].pc = "select"
    /\ rec # NoRow /\ rec.hash = req[r].hash
    /\ \/ rec.status = "PENDING"
       \/ rec.status = "PROCESSING" /\ stale
       \/ rec.status = "FAILED" /\ rec.class # "TERMINAL"
    /\ req' = [req EXCEPT ![r].pc = "update", ![r].seen = rec]
    /\ UNCHANGED <<mode, row, work, lock, stale, tokens, effects, unsent, results, sends>>

\* mutant: the row is updated by its id only
StillAsSeenById(r) == View(r) # NoRow

\* The WHERE clause of the UPDATE of handlePending, handleProcessing and handleFailed.
StillAsSeen(r) ==
    LET now == View(r)  seen == req[r].seen IN
    /\ now.status = seen.status
    /\ seen.status = "PROCESSING" => now.token = seen.token
    /\ seen.status = "FAILED" => now.class # "TERMINAL"

TakeOwnership(r) ==
    /\ req[r].pc = "update" /\ CanWrite(r)
    /\ StillAsSeen(r)
    /\ tokens' = tokens + 1
    /\ Write(r, [View(r) EXCEPT !.status = "PROCESSING", !.token = tokens', !.class = "none"])
    /\ stale' = (mode = "tx" /\ stale)
    /\ req' = [req EXCEPT ![r].pc = "handler", ![r].token = tokens', ![r].seen = NoRow]
    /\ UNCHANGED <<mode, effects, unsent, results, sends>>

\* Another request was faster: in-progress, or the terminal failure CONCURRENCY_LOST.
LoseOwnership(r) ==
    /\ req[r].pc = "update" /\ CanWrite(r)
    /\ ~StillAsSeen(r)
    /\ End(r)
    /\ UNCHANGED <<mode, row, stale, tokens, effects, unsent, results, sends>>

-----------------------------------------------------------------------------
(* execute: the handler and the settlement of the record *)

\* mutant: the handler writes through the pool, not through the transaction
HandlerEffectOnPool(r, done) == effects' = IF done THEN effects + 1 ELSE effects

\* An effect of the handler belongs to the transaction, or stands at once.
HandlerEffect(r, done) ==
    IF mode = "tx"
    THEN UNCHANGED effects
    ELSE effects' = IF done THEN effects + 1 ELSE effects

handler(r) ==
    /\ req[r].pc = "handler"
    /\ \E done \in BOOLEAN, outcome \in {"complete", "caught"} :
         /\ outcome = "complete" => done
         /\ HandlerEffect(r, done)
         /\ req' = [req EXCEPT ![r].pc = outcome, ![r].effect = (done /\ mode = "tx")]
    /\ UNCHANGED <<mode, row, work, lock, stale, tokens, unsent, results, sends>>

\* The token the row must still carry. Token 0 stands for the empty record id.
Owns(r) ==
    /\ View(r).status = "PROCESSING"
    /\ req[r].token # 0
    /\ View(r).token = req[r].token

CompletedRow(r) ==
    [View(r) EXCEPT !.status = "COMPLETED", !.token = 0, !.response = req[r].token]

\* markCompleted of a response, or of an error mapped to a response. On the pool the reply
\* may be lost after the UPDATE; only the first call is inside the try block.
markCompleted(r) ==
    /\ req[r].pc \in {"complete", "functional"}
    /\ CanWrite(r) /\ Owns(r)
    /\ Write(r, CompletedRow(r))
    /\ \/ Goto(r, "return")
       \/ mode = "pool" /\ Goto(r, IF req[r].pc = "complete" THEN "caught" ELSE "throw")
    /\ UNCHANGED <<mode, stale, tokens, effects, unsent, results, sends>>

\* mutant: a class the schema does not know
FailedRowUnknownClass(r) ==
    [View(r) EXCEPT !.status = "FAILED", !.token = 0,
                    !.class = IF req[r].pc = "terminal" THEN "FATAL" ELSE "RETRYABLE"]

FailedRow(r) ==
    [View(r) EXCEPT !.status = "FAILED", !.token = 0,
                    !.class = IF req[r].pc = "terminal" THEN "TERMINAL" ELSE "RETRYABLE"]

markFailed(r) ==
    /\ req[r].pc \in {"retryable", "terminal"}
    /\ CanWrite(r) /\ Owns(r)
    /\ Write(r, FailedRow(r))
    /\ Goto(r, "throw")
    /\ UNCHANGED <<mode, stale, tokens, effects, unsent, results, sends>>

\* mutant: an UPDATE of no row counts as a success
SettleNothing(r) ==
    /\ req[r].pc \in {"complete", "functional", "retryable", "terminal"}
    /\ ~Owns(r)
    /\ Goto(r, IF req[r].pc \in {"complete", "functional"} THEN "return" ELSE "throw")
    /\ UNCHANGED <<mode, row, work, lock, stale, tokens, effects, unsent, results, sends>>

\* The row is not the caller's to settle: throwOwnershipOrStateError.
throwOwnershipOrStateError(r) ==
    /\ req[r].pc \in {"complete", "functional", "retryable", "terminal"}
    /\ ~Owns(r)
    /\ Goto(r, IF req[r].pc = "complete" THEN "caught" ELSE "throw")
    /\ UNCHANGED <<mode, row, work, lock, stale, tokens, effects, unsent, results, sends>>

\* onFailure decides; without it, or with rollback-only, the error is thrown as it is.
handleHandlerError(r) ==
    /\ req[r].pc = "caught"
    /\ \E next \in {"functional", "retryable", "terminal", "throw"} : Goto(r, next)
    /\ UNCHANGED <<mode, row, work, lock, stale, tokens, effects, unsent, results, sends>>

\* consume commits what was consumed.
Commit(r) ==
    /\ req[r].pc = "return"
    /\ row' = View(r)
    /\ effects' = IF mode = "tx" /\ req[r].effect THEN effects + 1 ELSE effects
    /\ End(r)
    /\ UNCHANGED <<mode, stale, tokens, unsent, sends>>

\* The response leaves once COMMIT is confirmed.
ReturnExecuted(r) ==
    /\ Commit(r)
    /\ results' = results \union {[hash |-> req[r].hash, response |-> req[r].token]}

\* COMMIT took effect but the connection died before its reply.
CommitReplyLost(r) == Commit(r) /\ UNCHANGED results

\* The error leaves execute; consume rolls back.
Rollback(r) ==
    /\ req[r].pc = "throw"
    /\ End(r)
    /\ UNCHANGED <<mode, row, stale, tokens, effects, unsent, results, sends>>

\* The process or its connection dies at any point: the server rolls back.
Crash(r) ==
    /\ req[r].pc \notin {"idle", "throw"}
    /\ End(r)
    /\ UNCHANGED <<mode, row, stale, tokens, effects, unsent, results, sends>>

\* Time passes beyond the processing timeout of the owner.
ProcessingTimeout ==
    /\ row.status = "PROCESSING" /\ ~stale
    /\ stale' = TRUE
    /\ UNCHANGED <<mode, row, work, lock, tokens, effects, req, unsent, results, sends>>

-----------------------------------------------------------------------------

Init ==
    /\ mode \in {"tx", "pool"}
    /\ row = NoRow /\ work = NoRow /\ lock = NoRequest
    /\ stale = FALSE /\ tokens = 0 /\ effects = 0
    /\ req = [r \in Requests |-> Idle]
    /\ unsent = [r \in Requests |-> NoHash]
    /\ results = {}
    /\ sends = 0

Step(r) ==
    \/ tryInsertPending(r)
    \/ AcquireWithoutRow(r) \/ Replay(r) \/ Refuse(r) \/ RouteToUpdate(r)
    \/ TakeOwnership(r) \/ LoseOwnership(r)
    \/ handler(r) \/ markCompleted(r) \/ markFailed(r)
    \/ throwOwnershipOrStateError(r) \/ handleHandlerError(r)
    \/ ReturnExecuted(r) \/ Rollback(r)

Next ==
    \/ \E r \in Requests :
         \/ Begin(r) \/ Step(r) \/ SelectOvertakesInsert(r) \/ LateInsert(r)
         \/ CommitReplyLost(r) \/ Crash(r)
    \/ ProcessingTimeout

Spec == Init /\ [][Next]_vars

\* A request that is running goes on: statements return, locks are released at the end of a
\* transaction and handlers terminate.
FairSpec == Spec /\ \A r \in Requests : WF_vars(Step(r))
-----------------------------------------------------------------------------
(* Properties *)

\* Around a transaction the handler has at most one lasting effect for a key, and none as
\* long as the record is not COMPLETED, whatever crashes, retries and lost replies there are.
OneEffect ==
    mode = "tx" => effects <= (IF row.status = "COMPLETED" THEN 1 ELSE 0)

\* Whatever a client was given as a result, executed or replayed, is the stored response for
\* the stored payload from then on: no two clients of a key are told different things, and a
\* worker whose record was taken over reports nothing. This holds in both modes.
ResultsAgree ==
    \A a \in results :
        row.status = "COMPLETED" /\ row.response = a.response /\ row.hash = a.hash

\* COMPLETED and FAILED TERMINAL are final.
SettledIsFinal ==
    [][row.status = "COMPLETED" \/ row.class = "TERMINAL" => row' = row]_vars

\* Every request is answered: nobody waits for a row lock for ever.
EventuallyAnswered ==
    \A r \in Requests : req[r].pc # "idle" ~> req[r].pc = "idle"
=============================================================================
