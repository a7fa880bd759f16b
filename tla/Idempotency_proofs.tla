--------------------------- MODULE Idempotency_proofs ---------------------------
(***************************************************************************)
(* Proofs about Idempotency, for every set of requests and payload hashes. *)
(*                                                                         *)
(* OneEffect and ResultsAgree are not inductive. In mode "tx" they rest on *)
(* the row lock: a request past its SELECT holds it, the holder is the     *)
(* only one to see a record that is not committed, and a committed record  *)
(* is COMPLETED (Locking, HoldsLock). In mode "pool" there is no lock, and *)
(* they rest on what a request remembers of the row: once it has seen a    *)
(* record of its own payload, the row keeps that payload, and once it has  *)
(* completed the row, no UPDATE finds the row in a state it asks for       *)
(* (Remembers).                                                            *)
(***************************************************************************)
EXTENDS Idempotency, TLAPS

RequestRecords == [pc : Controls, hash : Hashes \union {NoHash}, seen : Rows,
                   token : Nat, effect : BOOLEAN]

\* An error class is stored with FAILED only.
ClassOK(rec) == rec.class # "none" => rec.status = "FAILED"

\* The record exists and is one of the payload of the request.
Known(q, rec) == rec.status # "NONE" /\ rec.hash = q.hash

\* What a request with local state q may rely on in the record it sees.
Remembers(q, rec) ==
    /\ q.pc # "idle" => q.hash \in Hashes
    /\ q.pc = "update" => Known(q, rec) /\ q.seen.status \in {"PENDING", "PROCESSING", "FAILED"}
    /\ q.token # 0 => Known(q, rec)
    /\ q.pc = "return" => rec.status = "COMPLETED" /\ rec.response = q.token /\ q.token # 0

Locking ==
    /\ mode = "pool" => lock = NoRequest /\ work = NoRow
    /\ mode = "tx" =>
         /\ row = NoRow \/ row.status = "COMPLETED"
         /\ lock = NoRequest => work = NoRow
         /\ lock # NoRequest => row = NoRow /\ work # NoRow
         /\ unsent = [r \in Requests |-> NoHash]

HoldsLock(r) ==
    mode = "tx" =>
      /\ req[r].pc \in {"idle", "insert"} => lock # r
      /\ req[r].pc = "select" => (lock = r /\ work.status = "PENDING") \/ row # NoRow
      /\ req[r].pc \notin {"idle", "insert", "select"} => lock = r

Ownership ==
    /\ Locking
    /\ ClassOK(row) /\ ClassOK(work)
    /\ \A r \in Requests : HoldsLock(r) /\ Remembers(req[r], View(r))

IndInv == TypeOK /\ Ownership /\ OneEffect /\ ResultsAgree

-----------------------------------------------------------------------------
(* Records *)

\* A record is the absent one exactly when its status says so.
LEMMA NoneIsNoRow == \A rec \in Rows : rec.status = "NONE" <=> rec = NoRow
  BY DEF Rows, NoRow

LEMMA ViewType ==
    ASSUME TypeOK, NEW r \in Requests
    PROVE  View(r) \in Rows
  BY DEF TypeOK, View

LEMMA PendingRowOK ==
    ASSUME NEW h \in Hashes
    PROVE  /\ PendingRow(h) \in Rows /\ PendingRow(h) # NoRow /\ ClassOK(PendingRow(h))
           /\ PendingRow(h).hash = h /\ PendingRow(h).status = "PENDING"
  BY DEF PendingRow, NoRow, Rows, ClassOK

\* A record written over another: it exists, and its payload hash is the old one.
Updates(rec, new) == new \in Rows /\ new # NoRow /\ ClassOK(new) /\ new.hash = rec.hash

\* Every UPDATE leaves the payload hash alone.
LEMMA UpdatesOK ==
    ASSUME NEW rec \in Rows, rec # NoRow, NEW t \in Nat
    PROVE  /\ Updates(rec, [rec EXCEPT !.status = "PROCESSING", !.token = t, !.class = "none"])
           /\ rec.class = "none" =>
                Updates(rec, [rec EXCEPT !.status = "COMPLETED", !.token = 0, !.response = t])
           /\ \A c \in {"RETRYABLE", "TERMINAL"} :
                Updates(rec, [rec EXCEPT !.status = "FAILED", !.token = 0, !.class = c])
<1> USE DEF Updates, NoRow, Rows, ClassOK
<1>1. Updates(rec, [rec EXCEPT !.status = "PROCESSING", !.token = t, !.class = "none"])
  OBVIOUS
<1>2. rec.class = "none" =>
        Updates(rec, [rec EXCEPT !.status = "COMPLETED", !.token = 0, !.response = t])
  OBVIOUS
<1>3. ASSUME NEW c \in {"RETRYABLE", "TERMINAL"}
      PROVE  Updates(rec, [rec EXCEPT !.status = "FAILED", !.token = 0, !.class = c])
  OBVIOUS
<1> QED BY <1>1, <1>2, <1>3

-----------------------------------------------------------------------------
(* The three kinds of step of a request *)

\* A request that only moves on, without writing the row.
LEMMA LocalKeeps ==
    ASSUME TypeOK, Ownership, NEW r \in Requests, NEW q \in RequestRecords,
           req' = [req EXCEPT ![r] = q],
           UNCHANGED <<mode, row, work, lock>>, mode = "tx" => unsent' = unsent,
           Remembers(q, View(r)),
           mode = "tx" =>
             /\ q.pc \in {"idle", "insert"} => lock # r
             /\ q.pc = "select" => (lock = r /\ work.status = "PENDING") \/ row # NoRow
             /\ q.pc \notin {"idle", "insert", "select"} => lock = r
    PROVE  Ownership'
<1>1. Locking' /\ ClassOK(row)' /\ ClassOK(work)'
  BY DEF Ownership, Locking, ClassOK
<1>2. ASSUME NEW s \in Requests PROVE HoldsLock(s)' /\ Remembers(req[s], View(s))'
  <2>1. View(s)' = View(s) BY DEF View
  <2>2. req'[s] = IF s = r THEN q ELSE req[s] BY DEF TypeOK
  <2> QED BY <2>1, <2>2 DEF Ownership, HoldsLock, Remembers, Known
<1> QED BY <1>1, <1>2 DEF Ownership

\* A request that writes the row, or its own version of it.
LEMMA WriteKeeps ==
    ASSUME TypeOK, Ownership, NEW r \in Requests, NEW q \in RequestRecords,
           req' = [req EXCEPT ![r] = q],
           mode' = mode, mode = "tx" => unsent' = unsent,
           NEW new \in Rows, new # NoRow, ClassOK(new),
           CanWrite(r), Write(r, new),
           View(r).status # "COMPLETED",
           View(r) # NoRow => new.hash = View(r).hash,
           mode = "tx" => row = NoRow /\ q.pc \notin {"idle", "insert"},
           q.pc = "select" => new.status = "PENDING" \/ mode = "pool",
           Remembers(q, new)
    PROVE  Ownership'
<1>0. r # NoRequest BY NullAssumption
<1>1. Locking' /\ ClassOK(row)' /\ ClassOK(work)'
  BY <1>0 DEF Ownership, Locking, ClassOK, Write, TypeOK
<1>2. ASSUME NEW s \in Requests PROVE HoldsLock(s)' /\ Remembers(req[s], View(s))'
  <2>0. s # NoRequest BY NullAssumption
  <2>2. req'[s] = IF s = r THEN q ELSE req[s] BY DEF TypeOK
  <2>3. CASE s = r
    <3>1. View(s)' = new BY <2>3, <2>0 DEF View, Write, Locking, Ownership, TypeOK
    <3> QED BY <2>2, <2>3, <3>1 DEF HoldsLock, Remembers, Known, Write
  <2>4. CASE s # r /\ mode = "tx"
    <3>1. View(s)' = row /\ View(s) = row
      BY <2>4, <2>0 DEF View, Write, CanWrite
    <3>2. req[s].pc \in {"idle", "insert", "select"} /\ lock # s
      BY <2>4, <2>0 DEF Ownership, HoldsLock, CanWrite
    <3>3. HoldsLock(s)'
      BY <2>2, <2>4, <3>2, <2>0 DEF Ownership, HoldsLock, Write, CanWrite
    <3> QED BY <2>2, <2>4, <3>1, <3>3 DEF Ownership
  <2>5. CASE s # r /\ mode = "pool"
    <3>1. View(s)' = new /\ View(s) = row /\ View(r) = row
      BY <2>5, <2>0, <1>0 DEF View, Write, Ownership, Locking
    <3>2. Remembers(req[s], row) BY <3>1 DEF Ownership
    <3>3. ASSUME Known(req[s], row) PROVE Known(req[s], new)
      BY <3>1, <3>3, NoneIsNoRow DEF Known, TypeOK
    <3>4. Remembers(req[s], new)
      BY <3>1, <3>2, <3>3 DEF Remembers
    <3> QED BY <2>2, <2>5, <3>1, <3>4 DEF HoldsLock
  <2> QED BY <2>3, <2>4, <2>5 DEF TypeOK
<1> QED BY <1>1, <1>2 DEF Ownership

\* A request that ends, with what it commits (its view) or without.
LEMMA EndKeeps ==
    ASSUME TypeOK, Ownership, NEW r \in Requests, End(r),
           mode' = mode, unsent' = unsent,
           \/ row' = row
           \/ req[r].pc = "return" /\ row' = View(r)
    PROVE  Ownership'
<1>0. r # NoRequest BY NullAssumption
<1>1. mode = "pool" => row' = row /\ lock' = lock /\ work' = work
  BY <1>0 DEF Ownership, Locking, End, View
<1>2. mode = "tx" /\ lock # r => row' = row /\ lock' = lock /\ work' = work
  BY DEF End, View, Ownership, HoldsLock
<1>3. mode = "tx" /\ lock = r =>
        /\ row = NoRow /\ lock' = NoRequest /\ work' = NoRow
        /\ row' = NoRow \/ (row'.status = "COMPLETED" /\ ClassOK(row)')
  BY <1>0 DEF End, View, Ownership, Locking, Remembers, ClassOK
<1>4. Remembers(Idle, View(r)') BY DEF Remembers, Idle
<1>5. Locking' /\ ClassOK(row)' /\ ClassOK(work)'
  <2>1. ClassOK(NoRow) BY DEF ClassOK, NoRow
  <2> QED BY <1>1, <1>2, <1>3, <2>1 DEF Ownership, Locking, ClassOK, TypeOK
<1>6. ASSUME NEW s \in Requests PROVE HoldsLock(s)' /\ Remembers(req[s], View(s))'
  <2>0. s # NoRequest BY NullAssumption
  <2>2. req'[s] = IF s = r THEN Idle ELSE req[s] BY DEF End, TypeOK
  <2>3. CASE s = r
    <3>1. HoldsLock(r)'
      BY <2>2, <2>3, <1>0 DEF HoldsLock, Idle, End
    <3> QED BY <2>2, <2>3, <3>1, <1>4
  <2>4. CASE s # r /\ (mode = "pool" \/ lock # r)
    <3>1. View(s)' = View(s) /\ row' = row /\ lock' = lock /\ work' = work
      BY <2>4, <1>1, <1>2 DEF View, TypeOK
    <3> QED BY <2>2, <2>4, <3>1 DEF Ownership, HoldsLock
  <2>5. CASE s # r /\ mode = "tx" /\ lock = r
    <3>1. req[s].pc \in {"idle", "insert"}
      BY <2>5, <1>3 DEF Ownership, HoldsLock
    <3>2. View(s) = NoRow
      BY <2>5, <1>3 DEF View
    <3>3. req[s].token = 0 /\ Remembers(req[s], NoRow)
      BY <3>2 DEF Ownership, Remembers, Known, NoRow
    <3>4. Remembers(req[s], View(s)')
      BY <3>1, <3>3 DEF Remembers
    <3> QED BY <2>2, <2>0, <2>5, <1>3, <3>1, <3>4 DEF HoldsLock
  <2> QED BY <2>3, <2>4, <2>5 DEF TypeOK
<1> QED BY <1>5, <1>6 DEF Ownership

-----------------------------------------------------------------------------
(* Each action keeps the types and the ownership of the record *)

LEMMA NoRowOK == NoRow \in Rows /\ Idle \in RequestRecords /\ ClassOK(NoRow)
  BY DEF Rows, NoRow, Idle, RequestRecords, Controls, ClassOK

LEMMA InitOwnership == Init => TypeOK /\ Ownership
<1> SUFFICES ASSUME Init PROVE TypeOK /\ Ownership OBVIOUS
<1>1. TypeOK
  BY NoRowOK DEF Init, TypeOK, RequestRecords
<1>2. \A r \in Requests : View(r) = NoRow /\ req[r] = Idle BY DEF Init, View
<1>3. \A r \in Requests : HoldsLock(r) /\ Remembers(req[r], View(r))
  BY <1>2, NullAssumption DEF Init, HoldsLock, Remembers, Idle
<1> QED BY <1>1, <1>3, NoRowOK DEF Init, Ownership, Locking

LEMMA BeginKeeps ==
    ASSUME TypeOK, Ownership, NEW r \in Requests, Begin(r)
    PROVE  TypeOK' /\ Ownership'
<1>1. PICK h \in Hashes :
        req' = [req EXCEPT ![r] = [Idle EXCEPT !.pc = "insert", !.hash = h]]
  BY DEF Begin
<1> DEFINE q == [Idle EXCEPT !.pc = "insert", !.hash = h]
<1>2. q \in RequestRecords /\ q.pc = "insert" /\ q.token = 0 /\ q.hash = h
  BY NoRowOK DEF Idle, RequestRecords, Controls
<1> HIDE DEF q
<1>3. TypeOK'
  <2>1. req' \in [Requests -> RequestRecords]
    BY <1>1, <1>2 DEF TypeOK, RequestRecords, q
  <2> QED BY <2>1 DEF TypeOK, Begin, RequestRecords
<1>4. Remembers(q, View(r)) BY <1>2 DEF Remembers
<1>5. mode = "tx" => lock # r BY DEF Begin, Ownership, HoldsLock
<1>6. Ownership' BY <1>1, <1>2, <1>4, <1>5, LocalKeeps DEF Begin, q
<1> QED BY <1>3, <1>6

LEMMA HandlerKeeps ==
    ASSUME TypeOK, Ownership, NEW r \in Requests, handler(r)
    PROVE  TypeOK' /\ Ownership'
<1>1. PICK done \in BOOLEAN, outcome \in {"complete", "caught"} :
        /\ HandlerEffect(r, done)
        /\ req' = [req EXCEPT ![r].pc = outcome, ![r].effect = (done /\ mode = "tx")]
  BY DEF handler
<1> DEFINE q == [req[r] EXCEPT !.pc = outcome, !.effect = (done /\ mode = "tx")]
<1>0. req[r] \in RequestRecords /\ req \in [Requests -> RequestRecords]
      /\ HoldsLock(r) /\ Remembers(req[r], View(r)) /\ req[r].pc = "handler"
  BY DEF TypeOK, RequestRecords, Ownership, handler
<1>2. q \in RequestRecords /\ q.pc = outcome /\ q.token = req[r].token /\ q.hash = req[r].hash
  BY <1>0 DEF RequestRecords, Controls
<1>3. req' = [req EXCEPT ![r] = q] BY <1>1, <1>0
<1> HIDE DEF q
<1>4. effects' \in Nat BY <1>1 DEF HandlerEffect, TypeOK
<1>5. TypeOK'
  BY <1>0, <1>2, <1>3, <1>4 DEF TypeOK, RequestRecords, handler
<1>6. Remembers(q, View(r)) BY <1>0, <1>2 DEF Remembers, Known
<1>7. mode = "tx" => lock = r BY <1>0 DEF HoldsLock
<1>8. Ownership' BY <1>2, <1>3, <1>6, <1>7, LocalKeeps DEF handler
<1> QED BY <1>5, <1>8

\* The moves that leave the row and the lock alone.
LEMMA MoveKeeps ==
    ASSUME TypeOK, Ownership, NEW r \in Requests,
           \/ SelectOvertakesInsert(r) \/ AcquireWithoutRow(r) \/ RouteToUpdate(r)
           \/ throwOwnershipOrStateError(r) \/ handleHandlerError(r)
    PROVE  TypeOK' /\ Ownership'
<1>0. req[r] \in RequestRecords /\ View(r) \in Rows /\ req \in [Requests -> RequestRecords]
      /\ HoldsLock(r) /\ Remembers(req[r], View(r))
  BY ViewType DEF TypeOK, RequestRecords, Ownership
<1> DEFINE q == req'[r]
<1>1. req' = [req EXCEPT ![r] = q] /\ q \in RequestRecords
  <2>2. CASE SelectOvertakesInsert(r) \/ AcquireWithoutRow(r) \/ RouteToUpdate(r)
    BY <2>2, <1>0 DEF SelectOvertakesInsert, AcquireWithoutRow, RouteToUpdate, Goto,
                      RequestRecords, Controls
  <2>4. CASE throwOwnershipOrStateError(r) \/ handleHandlerError(r)
    BY <2>4, <1>0 DEF throwOwnershipOrStateError, handleHandlerError, Goto,
                      RequestRecords, Controls
  <2> QED BY <2>2, <2>4
<1>2. /\ UNCHANGED <<mode, row, work, lock, stale, tokens, results>>
      /\ mode = "tx" => unsent' = unsent
      /\ unsent' \in [Requests -> Hashes \union {NoHash}]
      /\ effects' \in Nat /\ sends' \in Nat
  BY <1>0 DEF SelectOvertakesInsert, AcquireWithoutRow, RouteToUpdate, TypeOK,
              throwOwnershipOrStateError, handleHandlerError, RequestRecords
<1>3. TypeOK' BY <1>0, <1>1, <1>2 DEF TypeOK, RequestRecords
<1>4. Remembers(q, View(r))
  <2>2. CASE SelectOvertakesInsert(r) \/ AcquireWithoutRow(r)
    BY <2>2, <1>0 DEF SelectOvertakesInsert, AcquireWithoutRow, Goto, RequestRecords,
                      Remembers, Known
  <2>3. CASE RouteToUpdate(r)
    BY <2>3, <1>0, NoneIsNoRow DEF RouteToUpdate, RequestRecords, Remembers, Known
  <2>5. CASE throwOwnershipOrStateError(r) \/ handleHandlerError(r)
    BY <2>5, <1>0 DEF throwOwnershipOrStateError, handleHandlerError, Goto,
                      RequestRecords, Remembers, Known
  <2> QED BY <2>2, <2>3, <2>5
<1>5. mode = "tx" =>
        /\ q.pc \in {"idle", "insert"} => lock # r
        /\ q.pc = "select" => (lock = r /\ work.status = "PENDING") \/ row # NoRow
        /\ q.pc \notin {"idle", "insert", "select"} => lock = r
  <2>2. CASE SelectOvertakesInsert(r)
    BY <2>2 DEF SelectOvertakesInsert
  <2>3. CASE AcquireWithoutRow(r) \/ RouteToUpdate(r)
    \* In a transaction the SELECT finds a record, and one that is not COMPLETED is its own.
    <3>1. mode = "tx" => lock = r
      <4>1. req[r].pc = "select" BY <2>3 DEF AcquireWithoutRow, RouteToUpdate
      <4>2. CASE mode = "tx" /\ lock # r
        <5>1. View(r) = row /\ row # NoRow /\ row.status = "COMPLETED"
          BY <4>1, <4>2, <1>0 DEF HoldsLock, View, Ownership, Locking
        <5> QED BY <5>1, <2>3 DEF AcquireWithoutRow, RouteToUpdate
      <4> QED BY <4>2
    <3> QED BY <2>3, <3>1, <1>0 DEF AcquireWithoutRow, RouteToUpdate, RequestRecords
  <2>5. CASE throwOwnershipOrStateError(r) \/ handleHandlerError(r)
    BY <2>5, <1>0 DEF throwOwnershipOrStateError, handleHandlerError, Goto,
                      RequestRecords, HoldsLock
  <2> QED BY <2>2, <2>3, <2>5
<1>6. Ownership'
  <2> HIDE DEF q
  <2> QED BY <1>1, <1>2, <1>4, <1>5, LocalKeeps
<1> QED BY <1>3, <1>6

\* The INSERT, on time or late. It writes only where there is no record.
LEMMA InsertKeeps ==
    ASSUME TypeOK, Ownership, NEW r \in Requests, tryInsertPending(r) \/ LateInsert(r)
    PROVE  TypeOK' /\ Ownership'
<1>0. req[r] \in RequestRecords /\ View(r) \in Rows /\ req \in [Requests -> RequestRecords]
      /\ HoldsLock(r) /\ Remembers(req[r], View(r)) /\ r # NoRequest
  BY ViewType, NullAssumption DEF TypeOK, RequestRecords, Ownership
<1> DEFINE q == req'[r]
           h == IF LateInsert(r) THEN unsent[r] ELSE req[r].hash
<1>1. /\ req' = [req EXCEPT ![r] = q] /\ q \in RequestRecords
      /\ \/ tryInsertPending(r) /\ q = [req[r] EXCEPT !.pc = "select"]
         \/ LateInsert(r) /\ q = req[r]
  <2>1. CASE tryInsertPending(r)
    BY <2>1, <1>0 DEF tryInsertPending, Goto, RequestRecords, Controls
  <2>2. CASE LateInsert(r)
    BY <2>2, <1>0 DEF LateInsert
  <2> QED BY <2>1, <2>2
<1>2. InsertPending(r, h) /\ h \in Hashes
  BY <1>0 DEF tryInsertPending, LateInsert, Remembers, RequestRecords, TypeOK
<1>3. mode = "tx" => ~LateInsert(r) /\ unsent' = unsent
  BY DEF Ownership, Locking, LateInsert, tryInsertPending
<1>4. unsent' \in [Requests -> Hashes \union {NoHash}]
  BY DEF tryInsertPending, LateInsert, TypeOK
<1>5. mode = "tx" => lock # r /\ (View(r) = NoRow => row = NoRow)
  BY <1>0, <1>3 DEF tryInsertPending, HoldsLock, View
<1> HIDE DEF h
<1>6. CASE View(r) = NoRow
  <2>1. CanWrite(r) /\ Write(r, PendingRow(h)) /\ UNCHANGED <<mode, stale, tokens, effects, results, sends>>
    BY <1>6, <1>2 DEF InsertPending
  <2>2. /\ PendingRow(h) \in Rows /\ PendingRow(h) # NoRow /\ ClassOK(PendingRow(h))
        /\ PendingRow(h).status = "PENDING"
    BY <1>2, PendingRowOK
  <2>3. row' \in Rows /\ work' \in Rows /\ lock' \in Requests \union {NoRequest}
    BY <2>1, <2>2 DEF Write, TypeOK
  <2>4. TypeOK' BY <2>1, <2>3, <1>0, <1>1, <1>4 DEF TypeOK, RequestRecords
  <2>5. ~Known(req[r], View(r)) BY <1>6 DEF Known, NoRow
  <2>6. Remembers(q, PendingRow(h))
    BY <2>5, <1>0, <1>1 DEF Remembers, RequestRecords, tryInsertPending, NoRow
  <2>7. View(r).status # "COMPLETED" BY <1>6 DEF NoRow
  <2>8. mode = "tx" => row = NoRow /\ q.pc \notin {"idle", "insert"}
    BY <1>0, <1>1, <1>3, <1>5, <1>6 DEF RequestRecords
  <2> HIDE DEF q
  <2>9. Ownership'
    BY <1>1, <1>3, <1>6, <2>1, <2>2, <2>6, <2>7, <2>8, WriteKeeps
  <2> QED BY <2>4, <2>9
<1>7. CASE View(r) # NoRow
  <2>1. UNCHANGED <<row, work, lock, mode, stale, tokens, effects, results, sends>> /\ CanWrite(r)
    BY <1>7, <1>2 DEF InsertPending
  <2>2. TypeOK' BY <2>1, <1>0, <1>1, <1>4 DEF TypeOK, RequestRecords
  <2>3. Remembers(q, View(r))
    BY <1>0, <1>1 DEF Remembers, Known, RequestRecords, tryInsertPending
  <2>4. mode = "tx" => lock # r /\ row # NoRow /\ q.pc = "select"
    BY <1>0, <1>1, <1>3, <1>5, <1>7 DEF View, RequestRecords
  <2> HIDE DEF q
  <2>5. Ownership' BY <1>1, <1>3, <2>1, <2>3, <2>4, LocalKeeps
  <2> QED BY <2>2, <2>5
<1> QED BY <1>6, <1>7

\* An UPDATE of the record of its own payload: handlePending, handleProcessing,
\* handleFailed, markCompleted and markFailed.
LEMMA UpdateKeeps ==
    ASSUME TypeOK, Ownership, NEW r \in Requests, CanWrite(r),
           req[r].pc \in {"update", "complete", "functional", "retryable", "terminal"},
           Known(req[r], View(r)), View(r).status # "COMPLETED",
           NEW new, Updates(View(r), new), Write(r, new),
           NEW q \in RequestRecords, req' = [req EXCEPT ![r] = q],
           q.hash = req[r].hash, q.pc \notin {"idle", "insert", "select", "update"},
           q.pc = "return" => new.status = "COMPLETED" /\ new.response = q.token /\ q.token # 0,
           UNCHANGED <<mode, unsent, effects, results, sends>>,
           stale' \in BOOLEAN, tokens' \in Nat
    PROVE  TypeOK' /\ Ownership'
<1>0. /\ req \in [Requests -> RequestRecords] /\ View(r) \in Rows /\ View(r) # NoRow
      /\ HoldsLock(r) /\ Remembers(req[r], View(r)) /\ r # NoRequest
  BY ViewType, NullAssumption DEF TypeOK, RequestRecords, Ownership, Known, NoRow
<1>2. row' \in Rows /\ work' \in Rows /\ lock' \in Requests \union {NoRequest}
  BY DEF Write, TypeOK, Updates
<1>3. TypeOK' BY <1>0, <1>2 DEF TypeOK, RequestRecords
<1>4. mode = "tx" => row = NoRow
  BY <1>0 DEF HoldsLock, Ownership, Locking
<1>5. Remembers(q, new)
  BY <1>0, NoneIsNoRow DEF Remembers, Known, Updates
<1>6. Ownership'
  BY <1>4, <1>5, WriteKeeps DEF Updates
<1> QED BY <1>3, <1>6

LEMMA TakeOwnershipKeeps ==
    ASSUME TypeOK, Ownership, NEW r \in Requests, TakeOwnership(r)
    PROVE  TypeOK' /\ Ownership'
<1> DEFINE q == [req[r] EXCEPT !.pc = "handler", !.token = tokens', !.seen = NoRow]
           new == [View(r) EXCEPT !.status = "PROCESSING", !.token = tokens', !.class = "none"]
<1>0. /\ req[r] \in RequestRecords /\ req \in [Requests -> RequestRecords] /\ View(r) \in Rows
      /\ Remembers(req[r], View(r)) /\ req[r].pc = "update" /\ tokens' = tokens + 1
      /\ CanWrite(r) /\ StillAsSeen(r)
  BY ViewType DEF TypeOK, RequestRecords, Ownership, TakeOwnership
<1>1. Known(req[r], View(r)) /\ View(r).status # "COMPLETED"
  BY <1>0 DEF Remembers, StillAsSeen
<1>2. tokens' \in Nat /\ stale' \in BOOLEAN
  BY <1>0 DEF TypeOK, TakeOwnership
<1>3. /\ q \in RequestRecords /\ q.pc = "handler" /\ q.hash = req[r].hash
      /\ req' = [req EXCEPT ![r] = q]
  BY <1>0, <1>2, NoRowOK DEF TakeOwnership, RequestRecords, Controls
<1>4. View(r) # NoRow BY <1>1 DEF Known, NoRow
<1>6. Updates(View(r), new)
  BY <1>0, <1>2, <1>4, UpdatesOK
<1>5. Write(r, new) /\ UNCHANGED <<mode, effects, unsent, results, sends>>
  BY DEF TakeOwnership
<1> HIDE DEF q, new
<1> QED BY <1>0, <1>1, <1>2, <1>3, <1>5, <1>6, UpdateKeeps

\* The owner settles its record.
LEMMA SettleKeeps ==
    ASSUME TypeOK, Ownership, NEW r \in Requests, markCompleted(r) \/ markFailed(r)
    PROVE  TypeOK' /\ Ownership'
<1>0. /\ req[r] \in RequestRecords /\ req \in [Requests -> RequestRecords] /\ View(r) \in Rows
      /\ Remembers(req[r], View(r)) /\ CanWrite(r) /\ Owns(r) /\ ClassOK(View(r))
  BY ViewType DEF TypeOK, RequestRecords, Ownership, markCompleted, markFailed, View
<1>1. /\ Known(req[r], View(r)) /\ View(r).status # "COMPLETED" /\ View(r).class = "none"
      /\ req[r].token \in Nat /\ req[r].token # 0
  BY <1>0 DEF Remembers, Owns, ClassOK, RequestRecords
<1>4. View(r) # NoRow BY <1>1 DEF Known, NoRow
<1>2. CASE markCompleted(r)
  <2>1. PICK pc \in {"return", "caught", "throw"} : Goto(r, pc)
    BY <1>2 DEF markCompleted
  <2> DEFINE q == [req[r] EXCEPT !.pc = pc]
  <2>2. /\ q \in RequestRecords /\ q.pc = pc /\ q.hash = req[r].hash
        /\ q.token = req[r].token /\ req' = [req EXCEPT ![r] = q]
    BY <2>1, <1>0 DEF Goto, RequestRecords, Controls
  <2>3. LET new == CompletedRow(r) IN
          Updates(View(r), new) /\ new.status = "COMPLETED" /\ new.response = req[r].token
    <3>1. Updates(View(r), CompletedRow(r))
      BY <1>0, <1>1, <1>4, UpdatesOK DEF CompletedRow
    <3> QED BY <3>1, <1>0 DEF CompletedRow, Rows, NoRow
  <2> HIDE DEF q
  <2>4. Write(r, CompletedRow(r)) /\ UNCHANGED <<mode, stale, tokens, effects, unsent, results, sends>>
        /\ req[r].pc \in {"complete", "functional"}
    BY <1>2 DEF markCompleted
  <2>5. stale' \in BOOLEAN /\ tokens' \in Nat BY <2>4 DEF TypeOK
  <2> QED BY <1>0, <1>1, <2>1, <2>2, <2>3, <2>4, <2>5, UpdateKeeps
<1>3. CASE markFailed(r)
  <2> DEFINE q == [req[r] EXCEPT !.pc = "throw"]
  <2>2. /\ q \in RequestRecords /\ q.pc = "throw" /\ q.hash = req[r].hash
        /\ req' = [req EXCEPT ![r] = q]
    BY <1>3, <1>0 DEF markFailed, Goto, RequestRecords, Controls
  <2>3. Updates(View(r), FailedRow(r))
    BY <1>0, <1>1, <1>4, UpdatesOK DEF FailedRow
  <2> HIDE DEF q
  <2>5. Write(r, FailedRow(r)) /\ UNCHANGED <<mode, stale, tokens, effects, unsent, results, sends>>
        /\ req[r].pc \in {"retryable", "terminal"}
    BY <1>3 DEF markFailed
  <2>6. stale' \in BOOLEAN /\ tokens' \in Nat BY <2>5 DEF TypeOK
  <2> QED BY <1>0, <1>1, <2>2, <2>3, <2>5, <2>6, UpdateKeeps
<1> QED BY <1>2, <1>3

\* The steps that end a request, committed or not.
LEMMA FinishKeeps ==
    ASSUME TypeOK, Ownership, NEW r \in Requests,
           \/ Replay(r) \/ Refuse(r) \/ LoseOwnership(r) \/ Rollback(r) \/ Crash(r)
           \/ ReturnExecuted(r) \/ CommitReplyLost(r)
    PROVE  TypeOK' /\ Ownership'
<1>0. /\ req[r] \in RequestRecords /\ req \in [Requests -> RequestRecords] /\ View(r) \in Rows
      /\ Remembers(req[r], View(r))
  BY ViewType DEF TypeOK, RequestRecords, Ownership
<1>1. /\ End(r) /\ UNCHANGED <<mode, stale, tokens, unsent, sends>>
      /\ effects' \in Nat
      /\ \/ row' = row
         \/ req[r].pc = "return" /\ row' = View(r)
  BY DEF Replay, Refuse, LoseOwnership, Rollback, Crash, ReturnExecuted, CommitReplyLost,
         Commit, TypeOK
<1>2. results' \subseteq [hash : Hashes, response : Nat]
  <2>1. CASE Replay(r)
    <3>1. req[r].hash \in Hashes BY <2>1, <1>0 DEF Replay, Remembers
    <3>2. View(r).response \in Nat BY <1>0 DEF Rows, NoRow
    <3>3. results' = results \union {[hash |-> req[r].hash, response |-> View(r).response]}
      BY <2>1 DEF Replay
    <3> HIDE DEF View
    <3> QED BY <3>1, <3>2, <3>3 DEF TypeOK
  <2>2. CASE ReturnExecuted(r)
    <3>1. req[r].hash \in Hashes BY <2>2, <1>0 DEF ReturnExecuted, Commit, Remembers
    <3>2. req[r].token \in Nat BY <1>0 DEF RequestRecords
    <3>3. results' = results \union {[hash |-> req[r].hash, response |-> req[r].token]}
      BY <2>2 DEF ReturnExecuted
    <3> QED BY <3>1, <3>2, <3>3 DEF TypeOK
  <2>3. CASE results' = results BY <2>3 DEF TypeOK
  <2> QED BY <2>1, <2>2, <2>3 DEF Refuse, LoseOwnership, Rollback, Crash, CommitReplyLost
<1>3. TypeOK'
  <2>1. req' \in [Requests -> RequestRecords] BY <1>0, <1>1, NoRowOK DEF End
  <2>2. row' \in Rows /\ work' \in Rows /\ lock' \in Requests \union {NoRequest}
    BY <1>0, <1>1, NoRowOK DEF End, TypeOK
  <2> QED BY <1>1, <1>2, <2>1, <2>2 DEF TypeOK, RequestRecords
<1>4. Ownership' BY <1>1, EndKeeps
<1> QED BY <1>3, <1>4

LEMMA TimeoutKeeps ==
    ASSUME TypeOK, Ownership, ProcessingTimeout \/ UNCHANGED vars
    PROVE  TypeOK' /\ Ownership'
<1>1. UNCHANGED <<mode, row, work, lock, tokens, effects, req, unsent, results, sends>>
      /\ stale' \in BOOLEAN
  BY DEF ProcessingTimeout, vars, TypeOK
<1>2. TypeOK' BY <1>1 DEF TypeOK
<1>3. Ownership' BY <1>1 DEF Ownership, Locking, HoldsLock, View
<1> QED BY <1>2, <1>3

-----------------------------------------------------------------------------
(* The theorems *)

LEMMA OwnershipStep ==
    ASSUME TypeOK, Ownership, [Next]_vars
    PROVE  TypeOK' /\ Ownership'
<1>1. ASSUME NEW r \in Requests,
             \/ Begin(r) \/ Step(r) \/ SelectOvertakesInsert(r) \/ LateInsert(r)
             \/ CommitReplyLost(r) \/ Crash(r)
      PROVE  TypeOK' /\ Ownership'
  BY <1>1, BeginKeeps, HandlerKeeps, MoveKeeps, InsertKeeps, TakeOwnershipKeeps, SettleKeeps,
     FinishKeeps DEF Step
<1> QED BY <1>1, TimeoutKeeps DEF Next

\* How the committed row changes. In a transaction: at the COMMIT of the holder of the lock,
\* from no record to a COMPLETED one. On the pool: from a record that is not settled.
LEMMA RowStep ==
    ASSUME TypeOK, Ownership, [Next]_vars
    PROVE  \/ row' = row
           \/ /\ mode = "tx" /\ row = NoRow /\ row'.status = "COMPLETED"
              /\ \E r \in Requests : Commit(r)
           \/ mode = "pool" /\ row.status # "COMPLETED" /\ row.class # "TERMINAL"
<1>1. CASE row' = row BY <1>1
<1>2. ASSUME NEW r \in Requests, tryInsertPending(r) \/ LateInsert(r), row' # row
      PROVE  mode = "pool" /\ row = NoRow
  <2>1. mode = "pool" /\ View(r) = NoRow
    BY <1>2 DEF tryInsertPending, LateInsert, InsertPending, Write, TypeOK
  <2>2. View(r) = row
    BY <2>1, NullAssumption DEF Ownership, Locking, View
  <2> QED BY <2>1, <2>2
<1>3. ASSUME NEW r \in Requests, TakeOwnership(r), row' # row
      PROVE  mode = "pool" /\ row.status # "COMPLETED" /\ row.class # "TERMINAL"
  <2>1. mode = "pool" BY <1>3 DEF TakeOwnership, Write, TypeOK
  <2>2. View(r) = row BY <2>1, NullAssumption DEF Ownership, Locking, View
  <2>3. Remembers(req[r], row) /\ ClassOK(row) /\ StillAsSeen(r) /\ req[r].pc = "update"
    BY <1>3, <2>2 DEF Ownership, TakeOwnership
  <2> QED BY <2>1, <2>2, <2>3 DEF Remembers, ClassOK, StillAsSeen
<1>4. ASSUME NEW r \in Requests, markCompleted(r) \/ markFailed(r), row' # row
      PROVE  mode = "pool" /\ row.status # "COMPLETED" /\ row.class # "TERMINAL"
  <2>1. mode = "pool" BY <1>4 DEF markCompleted, markFailed, Write, TypeOK
  <2>2. View(r) = row BY <2>1, NullAssumption DEF Ownership, Locking, View
  <2> QED BY <1>4, <2>1, <2>2 DEF markCompleted, markFailed, Owns, ClassOK, Ownership
<1>5. ASSUME NEW r \in Requests, Commit(r), row' # row
      PROVE  mode = "tx" /\ row = NoRow /\ row'.status = "COMPLETED"
  <2>1. lock = r BY <1>5 DEF Commit, View
  <2>2. r # NoRequest BY NullAssumption
  <2>3. mode = "tx" /\ row = NoRow BY <2>1, <2>2 DEF Ownership, Locking, TypeOK
  <2> QED BY <1>5, <2>3 DEF Commit, Ownership, Remembers
<1>6. row' = row
      \/ \E r \in Requests : \/ tryInsertPending(r) \/ LateInsert(r) \/ TakeOwnership(r)
                              \/ markCompleted(r) \/ markFailed(r) \/ Commit(r)
  BY DEF Next, Step, vars, Begin, SelectOvertakesInsert, AcquireWithoutRow, Replay, Refuse,
         RouteToUpdate, LoseOwnership, handler, throwOwnershipOrStateError, handleHandlerError,
         ReturnExecuted, Rollback, CommitReplyLost, Crash, ProcessingTimeout
<1>7. NoRow.status # "COMPLETED" /\ NoRow.class # "TERMINAL" BY DEF NoRow
<1> QED BY <1>1, <1>2, <1>3, <1>4, <1>5, <1>6, <1>7

LEMMA OneEffectStep ==
    ASSUME TypeOK, Ownership, OneEffect, [Next]_vars
    PROVE  OneEffect'
<1>0. SUFFICES ASSUME mode' = "tx" PROVE effects' <= IF row'.status = "COMPLETED" THEN 1 ELSE 0
  BY DEF OneEffect
<1>1. mode = "tx"
  <2>1. CASE UNCHANGED vars \/ ProcessingTimeout
    BY <1>0, <2>1 DEF vars, ProcessingTimeout
  <2>2. ASSUME NEW r \in Requests,
               Begin(r) \/ SelectOvertakesInsert(r) \/ LateInsert(r) \/ CommitReplyLost(r)
               \/ Crash(r) \/ ReturnExecuted(r) \/ Rollback(r)
        PROVE  mode' = mode
    BY <2>2 DEF Begin, SelectOvertakesInsert, LateInsert, InsertPending, CommitReplyLost,
                Crash, ReturnExecuted, Rollback, Commit
  <2>3. ASSUME NEW r \in Requests, Step(r), ~(ReturnExecuted(r) \/ Rollback(r))
        PROVE  mode' = mode
    BY <2>3 DEF Step, tryInsertPending, InsertPending, AcquireWithoutRow, Replay, Refuse,
                RouteToUpdate, TakeOwnership, LoseOwnership, handler, markCompleted, markFailed,
                throwOwnershipOrStateError, handleHandlerError
  <2> QED BY <1>0, <2>1, <2>2, <2>3 DEF Next
<1>2. ASSUME NEW r \in Requests, Commit(r)
      PROVE  row = NoRow /\ row'.status = "COMPLETED" /\ effects' \in {effects, effects + 1}
  <2>1. req[r].pc = "return" /\ row' = View(r) BY <1>2 DEF Commit
  <2>2. lock = r /\ r # NoRequest BY <1>1, <2>1, NullAssumption DEF Ownership, HoldsLock
  <2>3. row = NoRow BY <1>1, <2>2 DEF Ownership, Locking
  <2>4. View(r).status = "COMPLETED" BY <2>1 DEF Ownership, Remembers
  <2> QED BY <1>2, <2>1, <2>3, <2>4 DEF Commit
<1>3. CASE \E r \in Requests : Commit(r)
  BY <1>1, <1>2, <1>3 DEF OneEffect, TypeOK, NoRow
<1>4. CASE ~\E r \in Requests : Commit(r)
  <2>1. effects' = effects
    <3>1. CASE UNCHANGED vars \/ ProcessingTimeout
      BY <3>1 DEF vars, ProcessingTimeout
    <3>2. ASSUME NEW r \in Requests,
                 Begin(r) \/ SelectOvertakesInsert(r) \/ LateInsert(r) \/ CommitReplyLost(r)
                 \/ Crash(r) \/ ReturnExecuted(r) \/ Rollback(r)
          PROVE  effects' = effects
      BY <1>4, <3>2 DEF Begin, SelectOvertakesInsert, LateInsert, InsertPending,
          CommitReplyLost, Crash, ReturnExecuted, Rollback
    <3>3. ASSUME NEW r \in Requests,
                 tryInsertPending(r) \/ AcquireWithoutRow(r) \/ Replay(r) \/ Refuse(r)
                 \/ RouteToUpdate(r) \/ TakeOwnership(r) \/ LoseOwnership(r)
          PROVE  effects' = effects
      BY <3>3 DEF tryInsertPending, InsertPending, AcquireWithoutRow, Replay, Refuse,
          RouteToUpdate, TakeOwnership, LoseOwnership
    <3>4. ASSUME NEW r \in Requests,
                 handler(r) \/ markCompleted(r) \/ markFailed(r)
                 \/ throwOwnershipOrStateError(r) \/ handleHandlerError(r)
          PROVE  effects' = effects
      BY <1>1, <3>4 DEF handler, HandlerEffect, markCompleted, markFailed,
          throwOwnershipOrStateError, handleHandlerError
    <3> QED BY <3>1, <3>2, <3>3, <3>4 DEF Next, Step
  <2>2. row' = row BY <1>1, <1>4, RowStep
  <2> QED BY <1>1, <2>1, <2>2 DEF OneEffect
<1> QED BY <1>3, <1>4

LEMMA ResultsAgreeStep ==
    ASSUME TypeOK, Ownership, ResultsAgree, [Next]_vars
    PROVE  ResultsAgree'
<1>1. ASSUME NEW a \in results
      PROVE  row'.status = "COMPLETED" /\ row'.response = a.response /\ row'.hash = a.hash
  BY <1>1, RowStep DEF ResultsAgree, NoRow
<1>2. ASSUME NEW r \in Requests, Replay(r)
      PROVE  /\ results' = results \union {[hash |-> req[r].hash, response |-> View(r).response]}
             /\ row' = row /\ View(r) = row /\ row.status = "COMPLETED" /\ row.hash = req[r].hash
  <2>1. View(r) = row
    BY <1>2, NullAssumption DEF Replay, View, Ownership, HoldsLock, Locking, TypeOK
  <2> QED BY <1>2, <2>1 DEF Replay
<1>3. ASSUME NEW r \in Requests, ReturnExecuted(r)
      PROVE  /\ results' = results \union {[hash |-> req[r].hash, response |-> req[r].token]}
             /\ row'.status = "COMPLETED" /\ row'.hash = req[r].hash
             /\ row'.response = req[r].token
  <2>1. req[r].pc = "return" /\ row' = View(r) /\ Remembers(req[r], View(r))
    BY <1>3 DEF ReturnExecuted, Commit, Ownership
  <2> QED BY <1>3, <2>1 DEF ReturnExecuted, Remembers, Known
<1>4. results' = results \/ \E r \in Requests : Replay(r) \/ ReturnExecuted(r)
  BY DEF Next, Step, vars, Begin, SelectOvertakesInsert, LateInsert, tryInsertPending,
        InsertPending, AcquireWithoutRow, Refuse, RouteToUpdate, TakeOwnership,
        LoseOwnership, handler, markCompleted, markFailed, throwOwnershipOrStateError,
        handleHandlerError, Rollback, CommitReplyLost, Crash, ProcessingTimeout
<1>5. ASSUME NEW a \in results'
      PROVE  row'.status = "COMPLETED" /\ row'.response = a.response /\ row'.hash = a.hash
  BY <1>1, <1>2, <1>3, <1>4, <1>5
<1> QED BY <1>5 DEF ResultsAgree

\* The inductive invariant holds throughout: the row lock orders the transactions of a key,
\* and on the pool a settled record is never updated.
THEOREM IdempotencyInvariance == Spec => []IndInv
<1>1. Init => IndInv
  <2> SUFFICES ASSUME Init PROVE IndInv OBVIOUS
  <2>1. OneEffect /\ ResultsAgree BY DEF Init, OneEffect, ResultsAgree
  <2> QED BY <2>1, InitOwnership DEF IndInv
<1>2. IndInv /\ [Next]_vars => IndInv'
  BY OwnershipStep, OneEffectStep, ResultsAgreeStep DEF IndInv
<1> QED BY <1>1, <1>2, PTL DEF Spec

\* The record, the lock and the state of every request keep their types.
THEOREM IdempotencyTypes == Spec => []TypeOK
<1>1. IndInv => TypeOK BY DEF IndInv
<1> QED BY <1>1, IdempotencyInvariance, PTL

\* In a transaction the handler has at most one lasting effect for a key, and only with a
\* COMPLETED record, for any number of requests, crashes and lost replies.
THEOREM AtMostOneEffect == Spec => []OneEffect
<1>1. IndInv => OneEffect BY DEF IndInv
<1> QED BY <1>1, IdempotencyInvariance, PTL

\* Everything clients are told under a key is the stored response, in both modes.
THEOREM ClientsAgree == Spec => []ResultsAgree
<1>1. IndInv => ResultsAgree BY DEF IndInv
<1> QED BY <1>1, IdempotencyInvariance, PTL

\* No statement, late INSERT or commit changes a record that is COMPLETED or FAILED TERMINAL.
THEOREM SettledRecordsAreFinal == Spec => SettledIsFinal
<1>1. IndInv /\ [Next]_vars =>
        [row.status = "COMPLETED" \/ row.class = "TERMINAL" => row' = row]_vars
  <2> SUFFICES ASSUME IndInv, [Next]_vars, row.status = "COMPLETED" \/ row.class = "TERMINAL"
               PROVE  row' = row
    OBVIOUS
  <2> QED BY RowStep DEF IndInv, NoRow
<1> QED BY <1>1, IdempotencyInvariance, PTL DEF Spec, SettledIsFinal
=============================================================================
