-------------------------- MODULE MissionEvents_proofs --------------------------
(***************************************************************************)
(* Proofs about MissionEvents, for any number of appends, streams and lost *)
(* connections.                                                            *)
(*                                                                         *)
(* The log: whoever is between pg_advisory_xact_lock and the end of its    *)
(* transaction holds the lock, so the maximum it has read is still the     *)
(* maximum when it commits (LockHeld, NextIsFree).                         *)
(*                                                                         *)
(* The streams: what a client has received, followed by what is on the     *)
(* wire, is the log up to lastSeq, and a batch is what follows in the log, *)
(* up to some sequence (Feed).                                             *)
(***************************************************************************)
EXTENDS MissionEvents, FiniteSetTheorems, TLAPS

AppendRecords == [pc : {"begin", "max", "insert", "commit", "done", "failed"}, next : Nat]
StreamRecords == [pc : {"off", "query", "yield", "sleep"}, lastSeq : Nat, batch : SUBSET Rows]

LockHeld == \A a \in Appends : append[a].pc \in {"max", "insert", "commit"} <=> lock = a

NextIsFree ==
    \A a \in Appends : append[a].pc \in {"insert", "commit"} =>
        append[a].next = Cardinality(log) + 1

\* The sequences number the rows.
LogNumbered ==
    /\ IsFiniteSet(log)
    /\ {row.sequence : row \in log} = 1 .. Cardinality(log)
    /\ \A x, y \in log : x.sequence = y.sequence => x = y

LogInv == LockHeld /\ NextIsFree /\ LogNumbered

\* The rows that follow sequence n in the log, up to some sequence.
Follows(batch, n) ==
    /\ batch \subseteq log
    /\ \A row \in batch : row.sequence > n
    /\ \A row \in batch : \A x \in log :
         n < x.sequence /\ x.sequence <= row.sequence => x \in batch

Feed(st, w, rec) ==
    /\ \A i \in 1 .. Len(rec) : rec[i] \in log /\ rec[i].sequence = i
    /\ \A i \in 1 .. Len(w) : w[i] \in log /\ w[i].sequence = Len(rec) + i
    /\ st.pc = "off" => w = <<>>
    /\ st.pc # "off" => st.lastSeq = Len(rec) + Len(w)
    /\ st.pc = "yield" => Follows(st.batch, st.lastSeq)

FeedInv == \A s \in Streams : Feed(stream[s], wire[s], received[s])

IndInv == TypeOK /\ LogInv /\ FeedInv

-----------------------------------------------------------------------------
(* The operators *)

\* MAX(sequence) of a log without gaps is the number of its rows.
LEMMA MaxOfLog ==
    ASSUME LogNumbered
    PROVE  /\ Cardinality(log) \in Nat
           /\ Max({0} \cup {row.sequence : row \in log}) = Cardinality(log)
<1>1. Cardinality(log) \in Nat BY FS_CardinalityType DEF LogNumbered
<1> DEFINE n == Cardinality(log)
           S == {0} \cup 1 .. n
<1>2. {0} \cup {row.sequence : row \in log} = S BY DEF LogNumbered
<1> HIDE DEF n
<1>3. n \in S /\ \A y \in S : n >= y BY <1>1 DEF n
<1>4. \A x \in S : (\A y \in S : x >= y) => x = n BY <1>1, <1>3 DEF n
<1>5. Max(S) = n BY <1>3, <1>4 DEF Max
<1> QED BY <1>1, <1>2, <1>5 DEF n

\* The row a stream yields next is the one after the last it has yielded.
LEMMA FirstIsNext ==
    ASSUME TypeOK, LogNumbered, NEW n \in Nat, NEW batch, Follows(batch, n), batch # {}
    PROVE  First(batch) \in batch /\ First(batch).sequence = n + 1
<1>0. Cardinality(log) \in Nat /\ log \subseteq Rows BY MaxOfLog DEF TypeOK
<1>1. PICK b \in batch : TRUE OBVIOUS
<1>2. b \in log /\ b.sequence \in Nat /\ b.sequence > n
  BY <1>0, <1>1 DEF Follows, Rows
<1>3. b.sequence \in 1 .. Cardinality(log) BY <1>2 DEF LogNumbered
<1>4. n + 1 \in {row.sequence : row \in log}
  <2>1. n + 1 \in 1 .. Cardinality(log) BY <1>0, <1>2, <1>3
  <2> QED BY <2>1 DEF LogNumbered
<1>5. PICK x \in log : x.sequence = n + 1 BY <1>4
<1>6. x \in batch BY <1>1, <1>2, <1>5 DEF Follows
<1>7. \A other \in batch : other.sequence \in Nat /\ x.sequence <= other.sequence
  BY <1>0, <1>5 DEF Follows, Rows
<1>8. First(batch) \in batch /\ \A other \in batch : First(batch).sequence <= other.sequence
  BY <1>6, <1>7 DEF First
<1>9. First(batch).sequence = n + 1 BY <1>5, <1>6, <1>7, <1>8
<1> QED BY <1>8, <1>9

\* The Last-Event-ID of a client numbers what it has received.
LEMMA LastEventIdIsLen ==
    ASSUME TypeOK, FeedInv, NEW s \in Streams
    PROVE  LastEventId(s) = Len(received[s]) /\ Len(received[s]) \in Nat
<1>1. received[s] \in Seq(Rows) BY DEF TypeOK
<1>2. CASE received[s] = <<>> BY <1>2 DEF LastEventId
<1>3. CASE received[s] # <<>>
  <2>1. Len(received[s]) \in 1 .. Len(received[s]) BY <1>1, <1>3
  <2>2. \A i \in 1 .. Len(received[s]) : received[s][i].sequence = i BY DEF FeedInv, Feed
  <2> QED BY <1>1, <1>3, <2>1, <2>2 DEF LastEventId
<1> QED BY <1>1, <1>2, <1>3

-----------------------------------------------------------------------------
(* The steps of appendEvent *)

LEMMA InitIndInv == Init => IndInv
<1> SUFFICES ASSUME Init PROVE IndInv OBVIOUS
<1>1. TypeOK BY DEF Init, TypeOK, NewAppend, Disconnected
<1>2. LogNumbered
  <2>1. Cardinality(log) = 0 /\ IsFiniteSet(log) BY FS_EmptySet DEF Init
  <2> QED BY <2>1 DEF Init, LogNumbered
<1>3. LockHeld /\ NextIsFree BY NoAppendAssumption DEF Init, LockHeld, NextIsFree, NewAppend
<1>4. FeedInv
  <2>1. \A s \in Streams : stream[s] = Disconnected /\ wire[s] = <<>> /\ received[s] = <<>>
    BY DEF Init
  <2>2. Feed(Disconnected, <<>>, <<>>)
    <3>1. 1 .. Len(<<>>) = {} OBVIOUS
    <3> QED BY <3>1 DEF Feed, Disconnected
  <2> QED BY <2>1, <2>2 DEF FeedInv
<1> QED BY <1>1, <1>2, <1>3, <1>4 DEF IndInv, LogInv

LEMMA TakeLockKeeps ==
    ASSUME TypeOK, LogInv, NEW a \in Appends, TakeLock(a)
    PROVE  LogInv' /\ log' = log
<1>1. log' = log BY DEF TakeLock
<1>2. \A b \in Appends : append'[b] = IF b = a THEN [append[a] EXCEPT !.pc = "max"] ELSE append[b]
  BY DEF TakeLock, TypeOK
<1>3. append[a] \in AppendRecords BY DEF TypeOK, AppendRecords
<1>4. LockHeld' BY <1>2, <1>3, NoAppendAssumption DEF LogInv, LockHeld, TakeLock, AppendRecords
<1>5. NextIsFree' BY <1>1, <1>2, <1>3 DEF LogInv, NextIsFree, AppendRecords
<1> QED BY <1>1, <1>4, <1>5 DEF LogInv, LogNumbered

LEMMA SelectMaxKeeps ==
    ASSUME TypeOK, LogInv, NEW a \in Appends, SelectMax(a)
    PROVE  LogInv' /\ log' = log /\ append' \in [Appends -> AppendRecords]
<1>1. log' = log /\ lock' = lock BY DEF SelectMax
<1>0. Cardinality(log) \in Nat /\ Max({0} \cup {row.sequence : row \in log}) = Cardinality(log)
  BY MaxOfLog DEF LogInv
<1>2. append' = [append EXCEPT ![a] = [pc |-> "insert", next |-> Cardinality(log) + 1]]
  BY <1>0 DEF SelectMax
<1>3. \A b \in Appends : append'[b] = IF b = a THEN [pc |-> "insert", next |-> Cardinality(log) + 1]
                                      ELSE append[b]
  BY <1>2 DEF TypeOK
<1>4. LockHeld' BY <1>1, <1>3 DEF LogInv, LockHeld, SelectMax
<1>5. NextIsFree' BY <1>1, <1>3 DEF LogInv, NextIsFree
<1>6. append' \in [Appends -> AppendRecords]
  BY <1>0, <1>2 DEF TypeOK, AppendRecords
<1> QED BY <1>1, <1>4, <1>5, <1>6 DEF LogInv, LogNumbered

\* The INSERT under the lock never meets the sequence it writes.
LEMMA InsertSucceeds ==
    ASSUME TypeOK, LogInv, NEW a \in Appends, append[a].pc \in {"insert", "commit"}
    PROVE  \A row \in log : row.sequence \in Nat /\ row.sequence < append[a].next
<1>1. Cardinality(log) \in Nat /\ append[a].next = Cardinality(log) + 1
  BY MaxOfLog DEF LogInv, NextIsFree
<1>2. \A row \in log : row.sequence \in 1 .. Cardinality(log) BY DEF LogInv, LogNumbered
<1> QED BY <1>1, <1>2

LEMMA InsertKeeps ==
    ASSUME TypeOK, LogInv, NEW a \in Appends, Insert(a)
    PROVE  LogInv' /\ log' = log /\ lock' = lock
<1>0. append[a] \in AppendRecords /\ append[a].pc = "insert"
  BY DEF TypeOK, AppendRecords, Insert
<1>1. ~\E row \in log : row.sequence = append[a].next
  BY <1>0, InsertSucceeds DEF AppendRecords
<1>2. append' = [append EXCEPT ![a].pc = "commit"] BY <1>1 DEF Insert
<1>3. \A b \in Appends : append'[b] = IF b = a THEN [append[a] EXCEPT !.pc = "commit"] ELSE append[b]
  BY <1>2 DEF TypeOK
<1>4. append'[a].pc = "commit" BY <1>0, <1>3 DEF AppendRecords
<1>5. log' = log /\ lock' = lock BY <1>4 DEF Insert
<1>6. LockHeld' BY <1>0, <1>3, <1>5 DEF LogInv, LockHeld, AppendRecords
<1>7. NextIsFree' BY <1>0, <1>3, <1>5 DEF LogInv, NextIsFree, AppendRecords
<1> QED BY <1>5, <1>6, <1>7 DEF LogInv, LogNumbered

\* The COMMIT adds the next sequence, and nobody else holds one.
LEMMA CommitKeeps ==
    ASSUME TypeOK, LogInv, NEW a \in Appends, Commit(a)
    PROVE  /\ LogInv' /\ log \subseteq log' /\ log' \subseteq Rows
           /\ \A x \in log' \ log : \A y \in log : y.sequence < x.sequence
<1>0. append[a] \in AppendRecords /\ append[a].pc = "commit" /\ lock = a /\ a # NoAppend
  BY NoAppendAssumption DEF TypeOK, AppendRecords, Commit, LogInv, LockHeld
<1> DEFINE n == Cardinality(log)
           new == Row(append[a].next, a)
<1>1. n \in Nat /\ append[a].next = n + 1 /\ IsFiniteSet(log)
  BY <1>0, MaxOfLog DEF LogInv, NextIsFree, LogNumbered
<1>2. new \in Rows /\ new.sequence = n + 1 BY <1>0, <1>1 DEF Row, Rows, AppendRecords
<1>3. log' = log \cup {new} BY DEF Commit
<1>4. \A y \in log : y.sequence \in Nat /\ y.sequence < n + 1
  BY <1>0, <1>1, InsertSucceeds
<1>5. new \notin log BY <1>1, <1>2, <1>4
<1>6. IsFiniteSet(log') /\ Cardinality(log') = n + 1
  BY <1>1, <1>3, <1>5, FS_AddElement
<1> HIDE DEF n, new
<1>7. {row.sequence : row \in log'} = 1 .. n + 1
  <2>1. {row.sequence : row \in log} = 1 .. n BY DEF LogInv, LogNumbered, n
  <2>2. {row.sequence : row \in log'} = (1 .. n) \cup {n + 1} BY <2>1, <1>2, <1>3
  <2> QED BY <2>2, <1>1
<1>8. LogNumbered'
  <2>1. \A x, y \in log' : x.sequence = y.sequence => x = y
    BY <1>1, <1>2, <1>3, <1>4 DEF LogInv, LogNumbered
  <2> QED BY <1>6, <1>7, <2>1 DEF LogNumbered
<1>9. \A b \in Appends : append'[b] = IF b = a THEN [append[a] EXCEPT !.pc = "done"] ELSE append[b]
  BY DEF Commit, TypeOK
<1>10. lock' = NoAppend BY <1>0 DEF Commit
<1>11. \A b \in Appends \ {a} : append[b].pc \notin {"max", "insert", "commit"}
  BY <1>0 DEF LogInv, LockHeld
<1>12. LockHeld' /\ NextIsFree'
  BY <1>0, <1>9, <1>10, <1>11, NoAppendAssumption DEF LockHeld, NextIsFree, AppendRecords
<1>13. log \subseteq log' /\ log' \subseteq Rows BY <1>2, <1>3 DEF TypeOK
<1>14. \A x \in log' \ log : \A y \in log : y.sequence < x.sequence BY <1>2, <1>3, <1>4
<1> QED BY <1>8, <1>12, <1>13, <1>14 DEF LogInv

LEMMA RollbackKeeps ==
    ASSUME TypeOK, LogInv, NEW a \in Appends, Rollback(a)
    PROVE  LogInv' /\ log' = log
<1>0. append[a] \in AppendRecords /\ lock = a /\ a # NoAppend
  BY NoAppendAssumption DEF TypeOK, AppendRecords, Rollback, LogInv, LockHeld
<1>1. log' = log /\ lock' = NoAppend BY <1>0 DEF Rollback
<1>2. \A b \in Appends : append'[b] = IF b = a THEN [append[a] EXCEPT !.pc = "failed"] ELSE append[b]
  BY DEF Rollback, TypeOK
<1>3. LockHeld' /\ NextIsFree'
  BY <1>0, <1>1, <1>2, NoAppendAssumption DEF LogInv, LockHeld, NextIsFree, AppendRecords
<1> QED BY <1>1, <1>3 DEF LogInv, LogNumbered

-----------------------------------------------------------------------------
(* The steps of a stream *)

\* A log that only grows at its end keeps what every stream relies on.
LEMMA GrowthKeepsFeed ==
    ASSUME FeedInv, log \subseteq log', log \subseteq Rows, log' \subseteq Rows,
           \A x \in log' \ log : \A y \in log : y.sequence < x.sequence,
           UNCHANGED <<stream, wire, received>>
    PROVE  FeedInv'
<1> SUFFICES ASSUME NEW s \in Streams PROVE Feed(stream[s], wire[s], received[s])'
  BY DEF FeedInv
<1>1. Feed(stream[s], wire[s], received[s]) BY DEF FeedInv
<1>2. ASSUME NEW n, NEW batch, Follows(batch, n) PROVE Follows(batch, n)'
  <2>1. \A x, y \in log' : x.sequence \in Nat /\ y.sequence \in Nat BY DEF Rows
  <2> QED BY <1>2, <2>1 DEF Follows
<1>3. stream[s].pc = "yield" => Follows(stream[s].batch, stream[s].lastSeq)'
  BY <1>1, <1>2 DEF Feed
<1> QED BY <1>1, <1>3 DEF Feed

\* A step of one stream has to keep the feed of that stream only.
LEMMA OneStream ==
    ASSUME TypeOK, FeedInv, NEW s \in Streams, UNCHANGED log,
           \A o \in Streams \ {s} : /\ stream'[o] = stream[o] /\ wire'[o] = wire[o]
                                    /\ received'[o] = received[o],
           Feed(stream'[s], wire'[s], received'[s])
    PROVE  FeedInv'
<1>1. ASSUME NEW o \in Streams PROVE Feed(stream'[o], wire'[o], received'[o])
  BY <1>1 DEF FeedInv
<1>2. ASSUME NEW o \in Streams PROVE Feed(stream[o], wire[o], received[o])'
  BY <1>1, <1>2 DEF Feed, Follows
<1> QED BY <1>2 DEF FeedInv

LEMMA ConnectKeeps ==
    ASSUME TypeOK, FeedInv, NEW s \in Streams, Connect(s)
    PROVE  stream' \in [Streams -> StreamRecords] /\ FeedInv'
<1> DEFINE st == [pc |-> "query", lastSeq |-> LastEventId(s), batch |-> {}]
<1>0. Feed(stream[s], wire[s], received[s]) /\ stream[s].pc = "off" BY DEF FeedInv, Connect
<1>1. LastEventId(s) = Len(received[s]) /\ Len(received[s]) \in Nat BY LastEventIdIsLen
<1>2. /\ stream' = [stream EXCEPT ![s] = st] /\ st \in StreamRecords
      /\ st.pc = "query" /\ st.lastSeq = Len(received[s])
      /\ UNCHANGED <<log, wire, received>>
  BY <1>1 DEF Connect, StreamRecords
<1> HIDE DEF st
<1>3. stream \in [Streams -> StreamRecords] BY DEF TypeOK, StreamRecords
<1>4. wire[s] = <<>> BY <1>0 DEF Feed
<1>5. Len(wire[s]) = 0 BY <1>4
<1>6. Feed(st, wire[s], received[s])
  BY <1>0, <1>1, <1>2, <1>4, <1>5 DEF Feed
<1> QED BY <1>2, <1>3, <1>6, OneStream

LEMMA GetEventsSinceKeeps ==
    ASSUME TypeOK, FeedInv, NEW s \in Streams, getEventsSince(s)
    PROVE  stream' \in [Streams -> StreamRecords] /\ FeedInv'
<1> DEFINE batch == {row \in log : row.sequence > stream[s].lastSeq}
           st == [stream[s] EXCEPT !.pc = "yield", !.batch = batch]
<1>0. /\ Feed(stream[s], wire[s], received[s]) /\ stream[s].pc = "query"
      /\ stream[s] \in StreamRecords /\ stream \in [Streams -> StreamRecords]
  BY DEF FeedInv, getEventsSince, TypeOK, StreamRecords
<1>1. /\ stream' = [stream EXCEPT ![s] = st]
      /\ UNCHANGED <<log, wire, received>>
  BY <1>0 DEF getEventsSince
<1>2. batch \subseteq log /\ batch \subseteq Rows BY DEF TypeOK
<1>3. Follows(batch, stream[s].lastSeq)
  <2>1. \A x \in log : x.sequence \in Nat BY DEF TypeOK, Rows
  <2> QED BY <2>1 DEF Follows
<1> HIDE DEF batch
<1>4. /\ st \in StreamRecords /\ st.pc = "yield" /\ st.lastSeq = stream[s].lastSeq
      /\ st.batch = batch
  BY <1>0, <1>2 DEF StreamRecords
<1> HIDE DEF st
<1>5. Feed(st, wire[s], received[s])
  BY <1>0, <1>3, <1>4 DEF Feed
<1> QED BY <1>0, <1>1, <1>4, <1>5, OneStream

\* A batch without its first row follows that row.
LEMMA YieldKeeps ==
    ASSUME TypeOK, LogNumbered, FeedInv, NEW s \in Streams, Yield(s)
    PROVE  /\ stream' \in [Streams -> StreamRecords] /\ wire' \in [Streams -> Seq(Rows)]
           /\ FeedInv'
<1> DEFINE row == First(stream[s].batch)
           n == stream[s].lastSeq
           batch == stream[s].batch \ {row}
<1>0. /\ Feed(stream[s], wire[s], received[s]) /\ stream[s].pc = "yield"
      /\ stream[s] \in StreamRecords /\ stream \in [Streams -> StreamRecords]
      /\ wire[s] \in Seq(Rows) /\ received[s] \in Seq(Rows) /\ stream[s].batch # {}
      /\ n \in Nat
  BY DEF FeedInv, Yield, TypeOK, StreamRecords
<1>1. Follows(stream[s].batch, n) /\ n = Len(received[s]) + Len(wire[s]) BY <1>0 DEF Feed
<1>2. row \in stream[s].batch /\ row.sequence = n + 1 BY <1>0, <1>1, FirstIsNext
<1>3. row \in log /\ row \in Rows BY <1>1, <1>2 DEF Follows, TypeOK
<1>4. Max({n, row.sequence}) = n + 1
  <2>1. Max({n, n + 1}) = n + 1 BY <1>0 DEF Max
  <2> QED BY <1>2, <2>1
<1>5. /\ stream' = [stream EXCEPT ![s] = [@ EXCEPT !.batch = batch, !.lastSeq = n + 1]]
      /\ wire' = [wire EXCEPT ![s] = Append(wire[s], row)]
      /\ UNCHANGED <<log, received>>
  BY <1>0, <1>4 DEF Yield
<1>6. Follows(batch, n + 1)
  <2>1. \A x \in log : x.sequence \in Nat /\ (x.sequence = n + 1 => x = row)
    BY <1>2, <1>3 DEF TypeOK, Rows, LogNumbered
  <2>2. \A x \in stream[s].batch : x \in log /\ x.sequence > n BY <1>1 DEF Follows
  <2>3. \A x \in stream[s].batch, y \in log :
          n < y.sequence /\ y.sequence <= x.sequence => y \in stream[s].batch
    BY <1>1 DEF Follows
  <2> HIDE DEF row
  <2>4. \A x \in batch : x \in log /\ x.sequence > n + 1 BY <1>0, <1>2, <2>1, <2>2
  <2>5. \A x \in batch, y \in log :
          n + 1 < y.sequence /\ y.sequence <= x.sequence => y \in batch
    BY <1>0, <1>2, <2>1, <2>3
  <2> QED BY <2>4, <2>5 DEF Follows
<1>m. PICK m \in Nat : m = n + 1 BY <1>0
<1> DEFINE st == [stream[s] EXCEPT !.batch = batch, !.lastSeq = m]
           w == Append(wire[s], row)
<1>b. batch \in SUBSET Rows BY <1>0 DEF StreamRecords
<1> HIDE DEF row, batch
<1>7. /\ st \in StreamRecords /\ st.pc = "yield" /\ st.lastSeq = m /\ st.batch = batch
  <2>1. stream[s] \in StreamRecords /\ stream[s].pc = "yield" BY <1>0
  <2> QED BY <2>1, <1>b DEF StreamRecords
<1>a. Len(wire[s]) \in Nat /\ Len(received[s]) \in Nat /\ n \in Nat
  <2>1. n \in Nat BY <1>0
  <2> QED BY <2>1, <1>0
<1>c. Len(w) = Len(wire[s]) + 1 BY <1>0, <1>3
<1>8. w \in Seq(Rows) /\ Len(w) = Len(wire[s]) + 1
      /\ \A i \in 1 .. Len(w) : w[i] = IF i = Len(wire[s]) + 1 THEN row ELSE wire[s][i]
  BY <1>0, <1>3
<1> HIDE DEF st, w
<1>9. \A i \in 1 .. Len(w) : w[i] \in log /\ w[i].sequence = Len(received[s]) + i
  <2> SUFFICES ASSUME NEW i \in 1 .. Len(w)
               PROVE  w[i] \in log /\ w[i].sequence = Len(received[s]) + i
    OBVIOUS
  <2>1. CASE i = Len(wire[s]) + 1 
    <3>1. w[i] = row BY <2>1, <1>8
    <3>2. row.sequence = Len(received[s]) + Len(wire[s]) + 1 BY <1>1, <1>2
    <3>3. \A x, y \in Nat : x + y + 1 = x + (y + 1) OBVIOUS
    <3>4. row.sequence = Len(received[s]) + i BY <2>1, <3>2, <3>3, <1>a
    <3> QED BY <3>1, <3>4, <1>3
  <2>2. CASE i # Len(wire[s]) + 1
    <3>1. i \in 1 .. Len(wire[s]) BY <2>2, <1>0, <1>8
    <3> QED BY <2>2, <3>1, <1>0, <1>8 DEF Feed
  <2> QED BY <2>1, <2>2
<1>10. n + 1 = Len(received[s]) + Len(w)
  <2>1. n = Len(received[s]) + Len(wire[s]) BY <1>1
  <2>2. n + 1 = Len(received[s]) + Len(wire[s]) + 1 BY <2>1, <1>a
  <2>3. Len(received[s]) + Len(w) = Len(received[s]) + (Len(wire[s]) + 1) BY <1>c
  <2>4. \A x, y \in Nat : x + y + 1 = x + (y + 1) OBVIOUS
  <2> QED BY <2>2, <2>3, <2>4, <1>a
<1>11. Feed(st, w, received[s])
  BY <1>0, <1>6, <1>7, <1>9, <1>10, <1>m DEF Feed
<1>12. stream' = [stream EXCEPT ![s] = st] /\ wire' = [wire EXCEPT ![s] = w]
  BY <1>5, <1>m DEF st, w
<1>13. wire \in [Streams -> Seq(Rows)] BY DEF TypeOK
<1>14. stream' \in [Streams -> StreamRecords] BY <1>0, <1>7, <1>12
<1>15. wire' \in [Streams -> Seq(Rows)] BY <1>8, <1>12, <1>13
<1>16. /\ stream'[s] = st /\ wire'[s] = w /\ received' = received /\ log' = log
       /\ \A o \in Streams \ {s} : stream'[o] = stream[o] /\ wire'[o] = wire[o]
  BY <1>0, <1>5, <1>12, <1>13
<1>17. FeedInv' BY <1>11, <1>16, OneStream
<1> QED BY <1>14, <1>15, <1>17

LEMMA PollKeeps ==
    ASSUME TypeOK, FeedInv, NEW s \in Streams, Sleep(s) \/ Poll(s)
    PROVE  stream' \in [Streams -> StreamRecords] /\ FeedInv'
<1>0. /\ Feed(stream[s], wire[s], received[s]) /\ stream[s].pc # "off"
      /\ stream[s] \in StreamRecords /\ stream \in [Streams -> StreamRecords]
  BY DEF FeedInv, Sleep, Poll, TypeOK, StreamRecords
<1>1. PICK pc \in {"sleep", "query"} : stream' = [stream EXCEPT ![s].pc = pc]
  BY DEF Sleep, Poll
<1> DEFINE st == [stream[s] EXCEPT !.pc = pc]
<1>2. st \in StreamRecords /\ st.pc = pc /\ st.lastSeq = stream[s].lastSeq
  BY <1>0 DEF StreamRecords
<1>3. stream' = [stream EXCEPT ![s] = st] /\ UNCHANGED <<log, wire, received>>
  BY <1>1 DEF Sleep, Poll
<1> HIDE DEF st
<1>4. Feed(st, wire[s], received[s]) BY <1>0, <1>2 DEF Feed
<1> QED BY <1>0, <1>2, <1>3, <1>4, OneStream

LEMMA ReceiveKeeps ==
    ASSUME TypeOK, FeedInv, NEW s \in Streams, Receive(s)
    PROVE  /\ received' \in [Streams -> Seq(Rows)] /\ wire' \in [Streams -> Seq(Rows)]
           /\ FeedInv'
<1> DEFINE w == Tail(wire[s])
           rec == Append(received[s], Head(wire[s]))
<1>0. /\ Feed(stream[s], wire[s], received[s])
      /\ wire[s] \in Seq(Rows) /\ received[s] \in Seq(Rows) /\ wire[s] # <<>>
      /\ wire \in [Streams -> Seq(Rows)] /\ received \in [Streams -> Seq(Rows)]
  BY DEF FeedInv, Receive, TypeOK
<1>1. /\ wire' = [wire EXCEPT ![s] = w] /\ received' = [received EXCEPT ![s] = rec]
      /\ UNCHANGED <<log, stream>>
  BY DEF Receive
<1>2. /\ w \in Seq(Rows) /\ Len(w) = Len(wire[s]) - 1
      /\ \A i \in 1 .. Len(w) : w[i] = wire[s][i + 1]
  BY <1>0
<1>3. Head(wire[s]) = wire[s][1] /\ Head(wire[s]) \in Rows /\ 1 \in 1 .. Len(wire[s])
  BY <1>0
<1>4. /\ rec \in Seq(Rows) /\ Len(rec) = Len(received[s]) + 1
      /\ \A i \in 1 .. Len(rec) : rec[i] = IF i = Len(received[s]) + 1 THEN wire[s][1]
                                             ELSE received[s][i]
  BY <1>0, <1>3
<1> HIDE DEF w, rec
<1>5. \A i \in 1 .. Len(w) : w[i] \in log /\ w[i].sequence = Len(rec) + i
  <2> SUFFICES ASSUME NEW i \in 1 .. Len(w) PROVE w[i] \in log /\ w[i].sequence = Len(rec) + i
    OBVIOUS
  <2>1. i + 1 \in 1 .. Len(wire[s]) BY <1>0, <1>2
  <2>2. wire[s][i + 1] \in log /\ wire[s][i + 1].sequence = Len(received[s]) + (i + 1)
    BY <2>1, <1>0 DEF Feed
  <2> QED BY <2>2, <1>0, <1>2, <1>4
<1>6. \A i \in 1 .. Len(rec) : rec[i] \in log /\ rec[i].sequence = i
  <2> SUFFICES ASSUME NEW i \in 1 .. Len(rec) PROVE rec[i] \in log /\ rec[i].sequence = i
    OBVIOUS
  <2>1. CASE i = Len(received[s]) + 1
    BY <2>1, <1>0, <1>3, <1>4 DEF Feed
  <2>2. CASE i # Len(received[s]) + 1
    <3>1. i \in 1 .. Len(received[s]) BY <2>2, <1>0, <1>4
    <3> QED BY <2>2, <3>1, <1>0, <1>4 DEF Feed
  <2> QED BY <2>1, <2>2
<1>7. Len(rec) + Len(w) = Len(received[s]) + Len(wire[s]) BY <1>0, <1>2, <1>4
<1>8. Feed(stream[s], w, rec)
  BY <1>0, <1>5, <1>6, <1>7 DEF Feed
<1> QED BY <1>0, <1>1, <1>2, <1>4, <1>8, OneStream

LEMMA DropKeeps ==
    ASSUME TypeOK, FeedInv, NEW s \in Streams, Drop(s)
    PROVE  /\ stream' \in [Streams -> StreamRecords] /\ wire' \in [Streams -> Seq(Rows)]
           /\ FeedInv'
<1>0. /\ Feed(stream[s], wire[s], received[s]) /\ received[s] \in Seq(Rows)
      /\ stream \in [Streams -> StreamRecords] /\ wire \in [Streams -> Seq(Rows)]
  BY DEF FeedInv, TypeOK, StreamRecords
<1>1. /\ stream' = [stream EXCEPT ![s] = Disconnected] /\ wire' = [wire EXCEPT ![s] = <<>>]
      /\ UNCHANGED <<log, received>>
  BY DEF Drop
<1>2. Disconnected \in StreamRecords /\ <<>> \in Seq(Rows) /\ Disconnected.pc = "off"
  BY DEF Disconnected, StreamRecords
<1>3. 1 .. Len(<<>>) = {} OBVIOUS
<1>4. Feed(Disconnected, <<>>, received[s]) BY <1>0, <1>2, <1>3 DEF Feed
<1> QED BY <1>0, <1>1, <1>2, <1>4, OneStream

-----------------------------------------------------------------------------
(* The theorems *)

LEMMA AppendKeeps ==
    ASSUME IndInv, NEW a \in Appends, AppendStep(a) \/ Rollback(a)
    PROVE  IndInv'
<1>0. TypeOK /\ LogInv /\ FeedInv /\ log \subseteq Rows BY DEF IndInv, TypeOK
<1>1. UNCHANGED <<stream, wire, received, drops>>
  BY DEF AppendStep, TakeLock, SelectMax, Insert, Commit, Rollback
<1>2. LogInv' /\ log \subseteq log' /\ log' \subseteq Rows
      /\ \A x \in log' \ log : \A y \in log : y.sequence < x.sequence
  <2>1. CASE Commit(a) BY <2>1, <1>0, CommitKeeps
  <2>2. CASE ~Commit(a)
    <3>1. LogInv' /\ log' = log
      BY <2>2, <1>0, TakeLockKeeps, SelectMaxKeeps, InsertKeeps, RollbackKeeps DEF AppendStep
    <3> QED BY <3>1, <1>0
  <2> QED BY <2>1, <2>2
<1>3. lock' \in Appends \cup {NoAppend} /\ append' \in [Appends -> AppendRecords]
  <2>1. CASE SelectMax(a)
    BY <2>1, <1>0, SelectMaxKeeps DEF SelectMax, TypeOK
  <2>2. CASE TakeLock(a) \/ Commit(a) \/ Rollback(a)
    <3>1. PICK pc \in {"max", "done", "failed"} : append' = [append EXCEPT ![a].pc = pc]
      BY <2>2 DEF TakeLock, Commit, Rollback
    <3>2. lock' \in Appends \cup {NoAppend}
      BY <2>2, <1>0 DEF TakeLock, Commit, Rollback, TypeOK
    <3> QED BY <3>1, <3>2, <1>0 DEF TypeOK, AppendRecords
  <2>3. CASE Insert(a)
    <3>1. PICK pc \in {"failed", "commit"} : append' = [append EXCEPT ![a].pc = pc]
      BY <2>3 DEF Insert
    <3>2. lock' = lock BY <2>3, <1>0, InsertKeeps
    <3> QED BY <3>1, <3>2, <1>0 DEF TypeOK, AppendRecords
  <2> QED BY <2>1, <2>2, <2>3 DEF AppendStep
<1>4. TypeOK' BY <1>0, <1>1, <1>2, <1>3 DEF TypeOK, AppendRecords
<1>5. FeedInv' BY <1>0, <1>1, <1>2, GrowthKeepsFeed
<1> QED BY <1>2, <1>4, <1>5 DEF IndInv

LEMMA StreamKeeps ==
    ASSUME IndInv, NEW s \in Streams, Connect(s) \/ StreamStep(s) \/ Receive(s) \/ Drop(s)
    PROVE  IndInv'
<1>0. TypeOK /\ LogNumbered /\ FeedInv BY DEF IndInv, LogInv
<1>1. UNCHANGED <<log, lock, append>> /\ drops' \in Nat
  BY <1>0 DEF StreamStep, Connect, getEventsSince, Yield, Sleep, Poll, Receive, Drop, TypeOK
<1>2. LogInv' BY <1>1 DEF IndInv, LogInv, LockHeld, NextIsFree, LogNumbered
<1>3. FeedInv'
  BY <1>0, ConnectKeeps, GetEventsSinceKeeps, YieldKeeps, PollKeeps, ReceiveKeeps, DropKeeps
  DEF StreamStep
<1>4. stream' \in [Streams -> StreamRecords]
  BY <1>0, ConnectKeeps, GetEventsSinceKeeps, YieldKeeps, PollKeeps, DropKeeps
  DEF StreamStep, Receive, TypeOK, StreamRecords
<1>5. wire' \in [Streams -> Seq(Rows)] /\ received' \in [Streams -> Seq(Rows)]
  BY <1>0, YieldKeeps, ReceiveKeeps, DropKeeps
  DEF StreamStep, Connect, getEventsSince, Sleep, Poll, Yield, Drop, TypeOK
<1>6. TypeOK' BY <1>0, <1>1, <1>4, <1>5 DEF TypeOK, StreamRecords
<1> QED BY <1>2, <1>3, <1>6 DEF IndInv

\* The inductive invariant of the event log and its streams.
THEOREM EventsInvariance == Spec => []IndInv
<1>1. IndInv /\ [Next]_vars => IndInv'
  <2> SUFFICES ASSUME IndInv, [Next]_vars PROVE IndInv' OBVIOUS
  <2>1. CASE UNCHANGED vars
    BY <2>1 DEF vars, IndInv, TypeOK, LogInv, LockHeld, NextIsFree, LogNumbered, FeedInv, Feed,
                Follows
  <2> QED BY <2>1, AppendKeeps, StreamKeeps DEF Next
<1> QED BY <1>1, InitIndInv, PTL DEF Spec

\* Rows, locks, batches and wires keep their types.
THEOREM EventsTypes == Spec => []TypeOK
<1>1. IndInv => TypeOK BY DEF IndInv
<1> QED BY <1>1, EventsInvariance, PTL

\* Any number of concurrent appends, each of which may roll back at any point, number the
\* events 1, 2, 3, ... without gap or duplicate.
THEOREM LogHasNoGap == Spec => []LogIsGapless
<1>1. IndInv => LogIsGapless
  <2> SUFFICES ASSUME IndInv PROVE LogIsGapless OBVIOUS
  <2>1. TypeOK /\ LogInv BY DEF IndInv
  <2>2. \A a \in Appends : append[a].pc \in {"insert", "commit"} =>
          \A row \in log : row.sequence < append[a].next
    BY <2>1, InsertSucceeds
  <2> QED BY <2>1, <2>2 DEF LogIsGapless, LogInv, LogNumbered
<1> QED BY <1>1, EventsInvariance, PTL

\* Over any number of reconnections a client receives the log from its first event on, each
\* event once and in order.
THEOREM ClientsReceiveAPrefix == Spec => []ReceivedIsPrefix
<1>1. IndInv => ReceivedIsPrefix BY DEF IndInv, FeedInv, Feed, ReceivedIsPrefix
<1> QED BY <1>1, EventsInvariance, PTL
=============================================================================
