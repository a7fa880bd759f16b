----------------------------- MODULE MissionEvents -----------------------------
(***************************************************************************)
(* The event log of one mission (MissionEventStore) and the streams that   *)
(* replay it (missionSSEStream).                                           *)
(*                                                                         *)
(* appendEvent is a transaction of three statements: it takes an advisory  *)
(* lock, reads MAX(sequence) and inserts the next one; the lock is held    *)
(* until the transaction ends. A stream reads the events after the last    *)
(* one it has yielded, yields them one at a time and polls again. What it  *)
(* has yielded travels to the client; when the connection drops, what is   *)
(* under way is lost, and the client comes back with the id of the last    *)
(* event it has received.                                                  *)
(*                                                                         *)
(* An event is the name of the append that wrote it. Heartbeats, the type  *)
(* of an event and its snapshot decide nothing and are left out.           *)
(***************************************************************************)
EXTENDS Integers, Sequences, FiniteSets, FiniteSetsExt

CONSTANTS
    Appends,    \* calls of appendEvent, each for one event
    Streams,    \* clients, each with at most one stream at a time
    NoAppend,   \* holder of a free advisory lock
    MaxDrops    \* bound: connections lost

ASSUME NoAppendAssumption == NoAppend \notin Appends
ASSUME MaxDropsAssumption == MaxDrops \in Nat

VARIABLES
    log,        \* the committed rows of mission_events
    lock,       \* holder of the advisory lock of the mission
    append,     \* local state of each appendEvent
    stream,     \* local state of each missionSSEStream
    wire,       \* events yielded and not yet received, oldest first
    received,   \* events the client has received, oldest first
    drops       \* connections lost so far

vars == <<log, lock, append, stream, wire, received, drops>>

Row(n, a) == [sequence |-> n, event |-> a]
Rows == [sequence : Nat, event : Appends]

NewAppend == [pc |-> "begin", next |-> 0]
Disconnected == [pc |-> "off", lastSeq |-> 0, batch |-> {}]

TypeOK ==
    /\ log \subseteq Rows
    /\ lock \in Appends \cup {NoAppend}
    /\ append \in [Appends -> [pc : {"begin", "max", "insert", "commit", "done", "failed"},
                               next : Nat]]
    /\ stream \in [Streams -> [pc : {"off", "query", "yield", "sleep"}, lastSeq : Nat,
                               batch : SUBSET Rows]]
    /\ wire \in [Streams -> Seq(Rows)]
    /\ received \in [Streams -> Seq(Rows)]
    /\ drops \in Nat

-----------------------------------------------------------------------------
(* appendEvent *)

\* mutant: the lock is only tried
TakeLockTry(a) ==
    /\ append[a].pc = "begin"
    /\ lock' = IF lock = NoAppend THEN a ELSE lock
    /\ append' = [append EXCEPT ![a].pc = "max"]
    /\ UNCHANGED <<log, stream, wire, received, drops>>

\* SELECT pg_advisory_xact_lock.
TakeLock(a) ==
    /\ append[a].pc = "begin" /\ lock = NoAppend
    /\ lock' = a
    /\ append' = [append EXCEPT ![a].pc = "max"]
    /\ UNCHANGED <<log, stream, wire, received, drops>>

\* SELECT COALESCE(MAX(sequence), 0): committed rows only.
SelectMax(a) ==
    /\ append[a].pc = "max"
    /\ append' = [append EXCEPT ![a] = [pc |-> "insert",
                       next |-> Max({0} \cup {row.sequence : row \in log}) + 1]]
    /\ UNCHANGED <<log, lock, stream, wire, received, drops>>

\* Another transaction has inserted the sequence and has not ended.
Inserted(n) == {a \in Appends : append[a].pc = "commit" /\ append[a].next = n}

\* The INSERT. The unique index makes it wait for an open transaction with the same
\* sequence, and fail when the sequence is taken.
Insert(a) ==
    /\ append[a].pc = "insert" /\ Inserted(append[a].next) = {}
    /\ append' = [append EXCEPT ![a].pc =
                    IF \E row \in log : row.sequence = append[a].next THEN "failed" ELSE "commit"]
    /\ lock' = IF append'[a].pc = "failed" /\ lock = a THEN NoAppend ELSE lock
    /\ UNCHANGED <<log, stream, wire, received, drops>>

Commit(a) ==
    /\ append[a].pc = "commit"
    /\ log' = log \cup {Row(append[a].next, a)}
    /\ append' = [append EXCEPT ![a].pc = "done"]
    /\ lock' = IF lock = a THEN NoAppend ELSE lock
    /\ UNCHANGED <<stream, wire, received, drops>>

\* mutant: an outcome the caller does not know
RollbackUnknown(a) ==
    /\ append[a].pc \in {"max", "insert", "commit"}
    /\ append' = [append EXCEPT ![a].pc = "error"]
    /\ lock' = IF lock = a THEN NoAppend ELSE lock
    /\ UNCHANGED <<log, stream, wire, received, drops>>

\* A statement fails or the process dies: rolled back, the lock is released.
Rollback(a) ==
    /\ append[a].pc \in {"max", "insert", "commit"}
    /\ append' = [append EXCEPT ![a].pc = "failed"]
    /\ lock' = IF lock = a THEN NoAppend ELSE lock
    /\ UNCHANGED <<log, stream, wire, received, drops>>

-----------------------------------------------------------------------------
(* missionSSEStream *)

\* mutant: the header is not read
LastEventIdIgnored(s) == 0

\* The Last-Event-ID a client sends.
LastEventId(s) == IF received[s] = <<>> THEN 0 ELSE received[s][Len(received[s])].sequence

Connect(s) ==
    /\ stream[s].pc = "off"
    /\ stream' = [stream EXCEPT ![s] = [pc |-> "query", lastSeq |-> LastEventId(s), batch |-> {}]]
    /\ UNCHANGED <<log, lock, append, wire, received, drops>>

\* getEventsSince, of the catch-up and of every poll.
getEventsSince(s) ==
    /\ stream[s].pc = "query"
    /\ stream' = [stream EXCEPT ![s].pc = "yield",
                    ![s].batch = {row \in log : row.sequence > stream[s].lastSeq}]
    /\ UNCHANGED <<log, lock, append, wire, received, drops>>

\* The rows are yielded in the order of their sequence.
First(rows) == CHOOSE row \in rows : \A other \in rows : row.sequence <= other.sequence

Yield(s) ==
    LET row == First(stream[s].batch) IN
    /\ stream[s].pc = "yield" /\ stream[s].batch # {}
    /\ wire' = [wire EXCEPT ![s] = Append(@, row)]
    /\ stream' = [stream EXCEPT ![s].batch = @ \ {row},
                                ![s].lastSeq = Max({@, row.sequence})]
    /\ UNCHANGED <<log, lock, append, received, drops>>

\* mutant: polling starts at the end of the log, not at the last event sent
SleepAtEnd(s) ==
    /\ stream[s].pc = "yield" /\ stream[s].batch = {}
    /\ stream' = [stream EXCEPT ![s].pc = "sleep",
                    ![s].lastSeq = Max({0} \cup {row.sequence : row \in log})]
    /\ UNCHANGED <<log, lock, append, wire, received, drops>>

\* The batch is finished; the stream sleeps until the next poll.
Sleep(s) ==
    /\ stream[s].pc = "yield" /\ stream[s].batch = {}
    /\ stream' = [stream EXCEPT ![s].pc = "sleep"]
    /\ UNCHANGED <<log, lock, append, wire, received, drops>>

Poll(s) ==
    /\ stream[s].pc = "sleep"
    /\ stream' = [stream EXCEPT ![s].pc = "query"]
    /\ UNCHANGED <<log, lock, append, wire, received, drops>>

\* The transport delivers in order.
Receive(s) ==
    /\ wire[s] # <<>>
    /\ received' = [received EXCEPT ![s] = Append(@, Head(wire[s]))]
    /\ wire' = [wire EXCEPT ![s] = Tail(@)]
    /\ UNCHANGED <<log, lock, append, stream, drops>>

\* The connection drops, or the server dies: the generator ends, what is under way is lost.
Drop(s) ==
    /\ stream[s].pc # "off" /\ drops < MaxDrops
    /\ drops' = drops + 1
    /\ stream' = [stream EXCEPT ![s] = Disconnected]
    /\ wire' = [wire EXCEPT ![s] = <<>>]
    /\ UNCHANGED <<log, lock, append, received>>

-----------------------------------------------------------------------------

Init ==
    /\ log = {} /\ lock = NoAppend
    /\ append = [a \in Appends |-> NewAppend]
    /\ stream = [s \in Streams |-> Disconnected]
    /\ wire = [s \in Streams |-> <<>>]
    /\ received = [s \in Streams |-> <<>>]
    /\ drops = 0

AppendStep(a) == TakeLock(a) \/ SelectMax(a) \/ Insert(a) \/ Commit(a)
StreamStep(s) == getEventsSince(s) \/ Yield(s) \/ Sleep(s) \/ Poll(s)

Next ==
    \/ \E a \in Appends : AppendStep(a) \/ Rollback(a)
    \/ \E s \in Streams : Connect(s) \/ StreamStep(s) \/ Receive(s) \/ Drop(s)

Spec == Init /\ [][Next]_vars

\* Statements return, the generator is resumed while its consumer reads, bytes arrive.
\* Nothing is assumed of clients: none has to connect, or to come back.
FairSpec ==
    /\ Spec
    /\ \A a \in Appends : WF_vars(AppendStep(a))
    /\ \A s \in Streams : WF_vars(StreamStep(s)) /\ WF_vars(Receive(s))

-----------------------------------------------------------------------------
(* Properties *)

\* Two emitters at once, one of which may roll back at any point, leave no gap and no
\* duplicate in the committed sequences, and no append fails on the unique index: a
\* failed append was rolled back for another reason (appendEvent and its advisory lock).
LogIsGapless ==
    /\ {row.sequence : row \in log} = 1 .. Cardinality(log)
    /\ \A a \in Appends : append[a].pc \in {"insert", "commit"} =>
         \A row \in log : row.sequence < append[a].next

\* What a client has received, over all its connections, is a prefix of the log: each event
\* once and in order, wherever the connection dropped (missionSSEStream with Last-Event-ID).
ReceivedIsPrefix ==
    \A s \in Streams : \A i \in 1 .. Len(received[s]) :
        received[s][i] \in log /\ received[s][i].sequence = i

\* An event that is committed reaches every client that stays connected, also one that is
\* committed between the catch-up and the first poll.
EventuallyReceived ==
    \A s \in Streams : \A a \in Appends :
        (stream[s].pc # "off" /\ append[a].pc = "done")
            ~> (stream[s].pc = "off" \/ \E i \in 1 .. Len(received[s]) : received[s][i].event = a)
=============================================================================
