--------------------------- MODULE LLMGateway_proofs ---------------------------
(***************************************************************************)
(* Proofs about LLMGateway, for every set of providers, chains, windows,   *)
(* limits and thresholds and any finite number of concurrent requests.     *)
(*                                                                         *)
(* BoundedOvershoot is not inductive: a count grows when a call returns,   *)
(* and what bounds it is how many calls are still out. The invariant is    *)
(* that the count of a window and the calls out to the provider together   *)
(* stay below the limit plus the number of requests (RateAndCalls).        *)
(***************************************************************************)
EXTENDS LLMGateway, FiniteSetTheorems, TLAPS

Circuits == [state : {"CLOSED", "OPEN", "HALF_OPEN"},
             failureCount : 0 .. MaxFailures,
             successCount : 0 .. SuccessThreshold - 1]
Rates == [Windows -> 0 .. MaxCount] \cup {NoState}
RequestRecords == [pc : {"idle", "next", "call", "sleep"},
                   kind : {"none", "chat", "stream"},
                   provider : Providers \cup {"none"},
                   next : Nat]

\* A request in the loop of executeWithFailover is at a position of its chain. Without
\* failover there is no such loop.
Position(q) ==
    /\ q.pc # "idle" => q.provider \in Providers
    /\ q.pc = "next" => q.next > 0
    /\ q.pc \in {"call", "sleep"} /\ q.next # 0 =>
         q.provider \in DOMAIN Chain /\ q.next <= Len(Chain[q.provider])
    /\ ~failover => q.pc \in {"idle", "call"} /\ q.next = 0

\* The calls that are out to p, without failover.
Out(p) == {r \in Requests : req[r].pc = "call" /\ req[r].provider = p}

RateAndCalls(p) ==
    ~failover /\ rate[p] # NoState => \A w \in Windows :
        rate[p][w] + Cardinality(Out(p)) <= Limit[w] + Cardinality(Requests) - 1

IndInv ==
    /\ TypeOK
    /\ \A r \in Requests : Position(req[r])
    /\ ClosedIsHealthy
    /\ \A p \in Providers : RateAndCalls(p)

-----------------------------------------------------------------------------
(* The operators *)

LEMMA MinOfTwo ==
    ASSUME NEW a \in Nat, NEW b \in Nat
    PROVE  Min({a, b}) = IF a <= b THEN a ELSE b
  BY DEF Min

\* recordSuccess and recordFailure keep a circuit's counts below their thresholds, and a
\* circuit that is still closed is below the failure threshold.
LEMMA RecordSuccessOK ==
    ASSUME NEW c \in Circuits
    PROVE  recordSuccess(c) \in Circuits /\ recordSuccess(c).failureCount = 0
  BY ThresholdAssumption DEF Circuits, recordSuccess, MaxFailures

LEMMA RecordFailureOK ==
    ASSUME NEW c \in Circuits
    PROVE  /\ recordFailure(c) \in Circuits
           /\ recordFailure(c).state = "CLOSED" => recordFailure(c).failureCount < FailureThreshold
<1>1. c.failureCount + 1 \in Nat /\ MaxFailures \in Nat
  BY ThresholdAssumption DEF Circuits, MaxFailures
<1>2. Min({c.failureCount + 1, MaxFailures})
        = IF c.failureCount + 1 <= MaxFailures THEN c.failureCount + 1 ELSE MaxFailures
  BY <1>1, MinOfTwo
<1> QED BY <1>1, <1>2, ThresholdAssumption DEF Circuits, recordFailure, MaxFailures

LEMMA AfterCanExecuteOK ==
    ASSUME TypeOK, NEW p \in Providers
    PROVE  /\ AfterCanExecute(p) \in Circuits
           /\ AfterCanExecute(p).failureCount = circuit[p].failureCount
           /\ AfterCanExecute(p).state = "CLOSED" => circuit[p].state = "CLOSED"
<1>1. circuit[p] \in Circuits /\ 0 \in 0 .. SuccessThreshold - 1
  BY ThresholdAssumption DEF TypeOK, Circuits
<1>2. CASE AfterCanExecute(p) = circuit[p] BY <1>1, <1>2
<1>3. CASE AfterCanExecute(p) = [circuit[p] EXCEPT !.state = "HALF_OPEN", !.successCount = 0]
  BY <1>1, <1>3 DEF Circuits
<1> QED BY <1>2, <1>3 DEF AfterCanExecute

\* check starts a window at zero or keeps its count.
LEMMA AfterCheckOK ==
    ASSUME TypeOK, NEW p \in Providers, NEW expired \in SUBSET Windows
    PROVE  /\ AfterCheck(p, expired) \in [Windows -> 0 .. MaxCount]
           /\ \A w \in Windows : \/ AfterCheck(p, expired)[w] = 0
                                 \/ /\ rate[p] # NoState
                                    /\ AfterCheck(p, expired)[w] = rate[p][w]
<1>1. rate[p] # NoState => rate[p] \in [Windows -> 0 .. MaxCount] BY DEF TypeOK
<1>2. 0 \in 0 .. MaxCount BY LimitAssumption
<1> QED BY <1>1, <1>2 DEF AfterCheck

\* increment adds at most one to a count, and nothing to a provider never checked.
LEMMA IncrementedOK ==
    ASSUME TypeOK, NEW p \in Providers
    PROVE  /\ Incremented(p) \in Rates
           /\ rate[p] = NoState => Incremented(p) = NoState
           /\ rate[p] # NoState => \A w \in Windows :
                Incremented(p)[w] \in Nat /\ Incremented(p)[w] <= rate[p][w] + 1
<1>1. CASE rate[p] = NoState BY <1>1 DEF Incremented, Rates
<1>2. CASE rate[p] # NoState
  <2>1. rate[p] \in [Windows -> 0 .. MaxCount] BY <1>2 DEF TypeOK
  <2>2. ASSUME NEW w \in Windows
        PROVE  /\ Min({rate[p][w] + 1, MaxCount}) \in 0 .. MaxCount
               /\ Min({rate[p][w] + 1, MaxCount}) <= rate[p][w] + 1
    <3>1. rate[p][w] + 1 \in Nat /\ MaxCount \in Nat BY <2>1, LimitAssumption
    <3> QED BY <3>1, MinOfTwo
  <2>3. Incremented(p) = [w \in Windows |-> Min({rate[p][w] + 1, MaxCount})]
    BY <1>2 DEF Incremented
  <2> QED BY <1>2, <2>1, <2>2, <2>3 DEF Rates
<1> QED BY <1>1, <1>2

LEMMA CandidateOK ==
    ASSUME NEW q \in RequestRecords, q.provider \in DOMAIN Chain,
           q.next # 0, q.next <= Len(Chain[q.provider])
    PROVE  Chain[q.provider][q.next] \in Providers
<1>1. Chain[q.provider] \in Seq(Providers) BY ChainAssumption
<1>2. q.next \in 1 .. Len(Chain[q.provider]) BY <1>1 DEF RequestRecords
<1> QED BY <1>1, <1>2

-----------------------------------------------------------------------------
(* The calls that are out *)

LEMMA OutFacts ==
    ASSUME NEW p
    PROVE  /\ IsFiniteSet(Out(p)) /\ Cardinality(Out(p)) \in Nat
           /\ Cardinality(Requests) \in Nat
           /\ Cardinality(Out(p)) <= Cardinality(Requests)
           /\ \A r \in Requests \ Out(p) : Cardinality(Out(p)) <= Cardinality(Requests) - 1
<1>1. Out(p) \in SUBSET Requests BY DEF Out
<1>2. /\ IsFiniteSet(Out(p)) /\ Cardinality(Out(p)) <= Cardinality(Requests)
      /\ Cardinality(Requests) = Cardinality(Out(p)) => Requests = Out(p)
  BY <1>1, RequestsAssumption, FS_Subset
<1>3. Cardinality(Out(p)) \in Nat /\ Cardinality(Requests) \in Nat
  BY <1>2, RequestsAssumption, FS_CardinalityType
<1> QED BY <1>2, <1>3

\* A request that does not call p, or stops calling it.
LEMMA OutShrinks ==
    ASSUME TypeOK, NEW p \in Providers, NEW r \in Requests, NEW q \in RequestRecords,
           req' = [req EXCEPT ![r] = q], q.pc # "call"
    PROVE  /\ Out(p)' = Out(p) \ {r}
           /\ Cardinality(Out(p)') = IF r \in Out(p) THEN Cardinality(Out(p)) - 1
                                     ELSE Cardinality(Out(p))
<1>1. Out(p)' = Out(p) \ {r} BY DEF Out, TypeOK
<1> QED BY <1>1, OutFacts, FS_RemoveElement

\* A request that begins to call p.
LEMMA OutGrows ==
    ASSUME TypeOK, NEW p \in Providers, NEW r \in Requests, NEW q \in RequestRecords,
           req' = [req EXCEPT ![r] = q], q.pc = "call", r \notin Out(p)
    PROVE  /\ q.provider = p =>
                Cardinality(Out(p)') = Cardinality(Out(p)) + 1
           /\ q.provider # p => Out(p)' = Out(p)
<1>1. q.provider = p => Out(p)' = Out(p) \cup {r} BY DEF Out, TypeOK
<1>2. q.provider # p => Out(p)' = Out(p) BY DEF Out, TypeOK
<1> QED BY <1>1, <1>2, OutFacts, FS_AddElement

-----------------------------------------------------------------------------
(* The actions *)

LEMMA RecordsOK ==
    /\ Idle \in RequestRecords /\ NewCircuit \in Circuits /\ NoState \in Rates
    /\ Idle.pc = "idle" /\ Position(Idle)
    /\ NewCircuit.failureCount < FailureThreshold
  BY ThresholdAssumption DEF Idle, RequestRecords, NewCircuit, Circuits, MaxFailures, Rates, Position

LEMMA InitIndInv == Init => IndInv
<1> SUFFICES ASSUME Init PROVE IndInv OBVIOUS
<1>1. TypeOK BY RecordsOK DEF Init, TypeOK, RequestRecords, Circuits, Rates
<1>2. \A r \in Requests : Position(req[r]) BY RecordsOK DEF Init
<1>3. ClosedIsHealthy BY RecordsOK DEF Init, ClosedIsHealthy
<1>4. \A p \in Providers : RateAndCalls(p) BY DEF Init, RateAndCalls
<1> QED BY <1>1, <1>2, <1>3, <1>4 DEF IndInv

\* What a step has to leave as it was, or to establish.
LEMMA Assemble ==
    ASSUME IndInv, NEW r \in Requests, NEW q \in RequestRecords,
           req' = [req EXCEPT ![r] = q], Position(q), failover' = failover,
           circuit' \in [Providers -> Circuits], cooled' \subseteq Providers,
           rate' \in [Providers -> Rates],
           \A p \in Providers :
              circuit'[p].state = "CLOSED" => circuit'[p].failureCount < FailureThreshold,
           \A p \in Providers : RateAndCalls(p)'
    PROVE  IndInv'
<1>1. req \in [Requests -> RequestRecords] /\ failover \in BOOLEAN
  BY DEF IndInv, TypeOK, RequestRecords
<1>2. TypeOK' BY <1>1 DEF TypeOK, Circuits, Rates, RequestRecords
<1>3. ASSUME NEW s \in Requests PROVE Position(req[s])'
  <2>1. req'[s] = IF s = r THEN q ELSE req[s] BY <1>1
  <2> QED BY <2>1 DEF Position, IndInv
<1>4. ClosedIsHealthy' BY DEF ClosedIsHealthy
<1> QED BY <1>2, <1>3, <1>4 DEF IndInv

\* A step that neither counts a request nor begins a call keeps every RateAndCalls.
LEMMA RateKept ==
    ASSUME IndInv, NEW p \in Providers, failover' = failover, rate'[p] = rate[p],
           NEW r \in Requests, NEW q \in RequestRecords, req' = [req EXCEPT ![r] = q],
           q.pc # "call"
    PROVE  RateAndCalls(p)'
<1>1. SUFFICES ASSUME ~failover, rate[p] # NoState, NEW w \in Windows
               PROVE  rate[p][w] + Cardinality(Out(p)') <= Limit[w] + Cardinality(Requests) - 1
  BY DEF RateAndCalls
<1>2. rate[p][w] + Cardinality(Out(p)) <= Limit[w] + Cardinality(Requests) - 1
  BY <1>1 DEF IndInv, RateAndCalls
<1>3. Cardinality(Out(p)') <= Cardinality(Out(p)) /\ Cardinality(Out(p)') \in Int
  <2>1. TypeOK BY DEF IndInv
  <2>2. Cardinality(Out(p)') = IF r \in Out(p) THEN Cardinality(Out(p)) - 1
                               ELSE Cardinality(Out(p))
    BY <2>1, OutShrinks
  <2>3. Cardinality(Out(p)) \in Nat BY OutFacts
  <2> QED BY <2>2, <2>3
<1>4. rate[p][w] \in Nat /\ Limit[w] \in Nat
  BY <1>1, LimitAssumption DEF IndInv, TypeOK
<1> QED BY <1>2, <1>3, <1>4, OutFacts

LEMMA BeginKeeps ==
    ASSUME IndInv, NEW r \in Requests, NEW kind \in {"chat", "stream"}, NEW p \in Providers,
           Begin(r, kind, p)
    PROVE  IndInv'
<1>0. TypeOK /\ req[r] \in RequestRecords /\ req \in [Requests -> RequestRecords]
      /\ circuit \in [Providers -> Circuits] /\ rate \in [Providers -> Rates]
      /\ cooled \subseteq Providers /\ Position(req[r])
  BY DEF IndInv, TypeOK, RequestRecords, Circuits, Rates
<1>1. PICK expired \in SUBSET Windows :
         /\ rate' = [rate EXCEPT ![p] = AfterCheck(p, expired)]
         /\ IF Allowed(rate'[p])
            THEN req' = [req EXCEPT ![r] =
                    IF Direct(kind)
                    THEN [pc |-> "call", kind |-> kind, provider |-> p, next |-> 0]
                    ELSE [pc |-> "next", kind |-> kind, provider |-> p, next |-> 1]]
            ELSE UNCHANGED req
  BY DEF Begin
<1>2. /\ req[r].pc = "idle" /\ UNCHANGED <<failover, circuit, cooled>>
      /\ rate'[p] = AfterCheck(p, expired)
      /\ \A o \in Providers \ {p} : rate'[o] = rate[o]
  BY <1>0, <1>1 DEF Begin
<1>3. rate'[p] \in [Windows -> 0 .. MaxCount] /\ rate' \in [Providers -> Rates]
  BY <1>0, <1>1, <1>2, AfterCheckOK DEF Rates
<1> DEFINE q == IF ~Allowed(rate'[p]) THEN req[r]
                ELSE IF Direct(kind)
                     THEN [pc |-> "call", kind |-> kind, provider |-> p, next |-> 0]
                     ELSE [pc |-> "next", kind |-> kind, provider |-> p, next |-> 1]
<1>4. q \in RequestRecords /\ req' = [req EXCEPT ![r] = q] /\ Position(q)
      /\ (q.pc = "call" => Allowed(rate'[p]) /\ q.provider = p)
      /\ (q.pc # "call" /\ Allowed(rate'[p]) => failover)
  BY <1>0, <1>1, <1>2 DEF RequestRecords, Position, Direct
<1> HIDE DEF q
<1>5. \A o \in Providers : r \notin Out(o) BY <1>2 DEF Out
<1>6. ASSUME NEW o \in Providers PROVE RateAndCalls(o)'
  <2>1. CASE o = p
    <3>1. SUFFICES ASSUME ~failover, NEW w \in Windows
                   PROVE  rate'[p][w] + Cardinality(Out(p)') <= Limit[w] + Cardinality(Requests) - 1
      BY <2>1, <1>2 DEF RateAndCalls
    <3>2. /\ rate'[p][w] \in Nat /\ Limit[w] \in Nat
          /\ Cardinality(Out(p)) <= Cardinality(Requests) - 1
          /\ Cardinality(Out(p)) \in Nat /\ Cardinality(Requests) \in Nat
      BY <1>3, <1>5, OutFacts, LimitAssumption
    <3>3. CASE q.pc = "call"
      <4>1. rate'[p][w] < Limit[w] BY <3>3, <1>4 DEF Allowed
      <4>2. Cardinality(Out(p)') = Cardinality(Out(p)) + 1
        BY <3>3, <1>0, <1>4, <1>5, OutGrows
      <4> QED BY <3>2, <4>1, <4>2
    <3>4. CASE q.pc # "call"
      <4>1. Cardinality(Out(p)') = Cardinality(Out(p))
        BY <3>4, <1>0, <1>4, <1>5, OutShrinks
      <4>2. rate'[p][w] = 0 \/ (rate[p] # NoState /\ rate'[p][w] = rate[p][w])
        BY <1>0, <1>2, AfterCheckOK
      <4>3. CASE rate'[p][w] = 0 BY <4>1, <4>3, <3>2
      <4>4. CASE rate[p] # NoState /\ rate'[p][w] = rate[p][w]
        BY <4>1, <4>4, <3>1 DEF IndInv, RateAndCalls
      <4> QED BY <4>2, <4>3, <4>4
    <3> QED BY <3>3, <3>4
  <2>2. CASE o # p
    <3>1. rate'[o] = rate[o] BY <2>2, <1>2
    <3>2. CASE q.pc = "call"
      <4>1. Out(o)' = Out(o) BY <3>2, <2>2, <1>0, <1>4, <1>5, OutGrows
      <4> QED BY <3>1, <4>1, <1>2 DEF IndInv, RateAndCalls
    <3>3. CASE q.pc # "call" BY <3>3, <3>1, <1>2, <1>4, RateKept
    <3> QED BY <3>2, <3>3
  <2> QED BY <2>1, <2>2
<1>7. \A o \in Providers :
        circuit'[o].state = "CLOSED" => circuit'[o].failureCount < FailureThreshold
  BY <1>2 DEF IndInv, ClosedIsHealthy
<1> QED BY <1>0, <1>2, <1>3, <1>4, <1>6, <1>7, Assemble

\* The steps of the failover loop that neither call nor count: the circuits change only
\* through canExecute.
LEMMA LoopKeeps ==
    ASSUME IndInv, NEW r \in Requests, NoChain(r) \/ AllFailed(r) \/ WakeUp(r)
    PROVE  IndInv'
<1>0. TypeOK /\ req[r] \in RequestRecords /\ req \in [Requests -> RequestRecords]
      /\ circuit \in [Providers -> Circuits] /\ rate \in [Providers -> Rates]
      /\ cooled \subseteq Providers /\ Position(req[r])
  BY DEF IndInv, TypeOK, RequestRecords, Circuits, Rates
<1>1. UNCHANGED <<failover, circuit, cooled, rate>>
  BY DEF NoChain, AllFailed, WakeUp
<1>2. PICK q \in RequestRecords :
        req' = [req EXCEPT ![r] = q] /\ Position(q) /\ q.pc # "call"
  <2>1. CASE NoChain(r) \/ AllFailed(r)
    BY <2>1, RecordsOK DEF NoChain, AllFailed, End
  <2>2. CASE WakeUp(r)
    <3> DEFINE q == [req[r] EXCEPT !.pc = "next", !.next = @ + 1]
    <3>1. q \in RequestRecords /\ req' = [req EXCEPT ![r] = q] /\ q.pc = "next"
          /\ q.next = req[r].next + 1 /\ q.provider = req[r].provider
      BY <2>2, <1>0 DEF WakeUp, RequestRecords
    <3>2. Position(q)
      BY <2>2, <1>0, <3>1 DEF Position, WakeUp, RequestRecords
    <3> QED BY <3>1, <3>2
  <2> QED BY <2>1, <2>2
<1>3. \A p \in Providers : RateAndCalls(p)' BY <1>1, <1>2, RateKept
<1>4. \A p \in Providers :
        circuit'[p].state = "CLOSED" => circuit'[p].failureCount < FailureThreshold
  BY <1>1 DEF IndInv, ClosedIsHealthy
<1> QED BY <1>0, <1>1, <1>2, <1>3, <1>4, Assemble

LEMMA TryNextKeeps ==
    ASSUME IndInv, NEW r \in Requests, TryNext(r)
    PROVE  IndInv'
<1>0. TypeOK /\ req[r] \in RequestRecords /\ req \in [Requests -> RequestRecords]
      /\ circuit \in [Providers -> Circuits] /\ rate \in [Providers -> Rates]
      /\ cooled \subseteq Providers /\ Position(req[r])
  BY DEF IndInv, TypeOK, RequestRecords, Circuits, Rates
<1>1. /\ req[r].pc = "next" /\ req[r].provider \in DOMAIN Chain /\ req[r].next # 0
      /\ req[r].next <= Len(Chain[req[r].provider])
      /\ UNCHANGED <<failover, rate>>
  BY <1>0 DEF TryNext, Position, RequestRecords
<1>2. Candidate(r) \in Providers BY <1>0, <1>1, CandidateOK DEF Candidate
<1>3. failover BY <1>0, <1>1 DEF Position
<1>4. \A p \in Providers : RateAndCalls(p)' BY <1>1, <1>3 DEF RateAndCalls
<1>5. PICK q \in RequestRecords : req' = [req EXCEPT ![r] = q] /\ Position(q)
  <2>1. CASE canExecute(Candidate(r))
    <3> DEFINE q == [req[r] EXCEPT !.pc = "call"]
    <3>1. q \in RequestRecords /\ req' = [req EXCEPT ![r] = q] /\ q.pc = "call"
          /\ q.next = req[r].next /\ q.provider = req[r].provider
      BY <2>1, <1>0 DEF TryNext, RequestRecords
    <3>2. Position(q)
      BY <1>0, <1>1, <1>3, <3>1 DEF Position, RequestRecords
    <3> QED BY <3>1, <3>2
  <2>2. CASE ~canExecute(Candidate(r))
    <3> DEFINE q == [req[r] EXCEPT !.next = @ + 1]
    <3>1. q \in RequestRecords /\ req' = [req EXCEPT ![r] = q] /\ q.pc = "next"
          /\ q.next = req[r].next + 1 /\ q.provider = req[r].provider
      BY <2>2, <1>0, <1>1 DEF TryNext, RequestRecords
    <3>2. Position(q)
      BY <1>0, <1>1, <1>3, <3>1 DEF Position, RequestRecords
    <3> QED BY <3>1, <3>2
  <2> QED BY <2>1, <2>2
<1>6. /\ circuit' \in [Providers -> Circuits] /\ cooled' \subseteq Providers
      /\ \A p \in Providers :
           circuit'[p].state = "CLOSED" => circuit'[p].failureCount < FailureThreshold
  <2>1. CASE canExecute(Candidate(r))
    <3>1. circuit' = [circuit EXCEPT ![Candidate(r)] = AfterCanExecute(Candidate(r))]
          /\ cooled' \subseteq Providers
      BY <2>1, <1>0 DEF TryNext
    <3> QED BY <3>1, <1>0, <1>2, AfterCanExecuteOK DEF IndInv, ClosedIsHealthy
  <2>2. CASE ~canExecute(Candidate(r))
    <3>1. UNCHANGED <<circuit, cooled>> BY <2>2 DEF TryNext
    <3> QED BY <3>1, <1>0 DEF IndInv, ClosedIsHealthy
  <2> QED BY <2>1, <2>2
<1> QED BY <1>0, <1>1, <1>4, <1>5, <1>6, Assemble

LEMMA ServingOK ==
    ASSUME IndInv, NEW r \in Requests, req[r].pc = "call"
    PROVE  Serving(r) \in Providers
<1>1. Position(req[r]) /\ req[r] \in RequestRecords BY DEF IndInv, TypeOK, RequestRecords
<1> QED BY <1>1, CandidateOK DEF Serving, Candidate, Position

\* A call that succeeds counts one request more, and is itself no longer out.
LEMMA CallSucceedsKeeps ==
    ASSUME IndInv, NEW r \in Requests, CallSucceeds(r)
    PROVE  IndInv'
<1>0. TypeOK /\ req[r] \in RequestRecords /\ req \in [Requests -> RequestRecords]
      /\ circuit \in [Providers -> Circuits] /\ rate \in [Providers -> Rates]
      /\ cooled \subseteq Providers /\ Position(req[r]) /\ req[r].pc = "call"
  BY DEF IndInv, TypeOK, RequestRecords, Circuits, Rates, CallSucceeds
<1> DEFINE s == Serving(r)
<1>1. s \in Providers BY <1>0, ServingOK
<1>2. /\ rate' = [rate EXCEPT ![s] = Incremented(s)]
      /\ req' = [req EXCEPT ![r] = Idle]
      /\ circuit' = circuit \/ circuit' = [circuit EXCEPT ![s] = recordSuccess(circuit[s])]
      /\ UNCHANGED <<failover, cooled>>
  BY DEF CallSucceeds, End
<1>3. ~failover => req[r].provider = s BY <1>0 DEF Position, Serving
<1> HIDE DEF s
<1>4. circuit' \in [Providers -> Circuits]
      /\ \A p \in Providers :
           circuit'[p].state = "CLOSED" => circuit'[p].failureCount < FailureThreshold
  <2>1. CASE circuit' = circuit BY <2>1, <1>0 DEF IndInv, ClosedIsHealthy
  <2>2. CASE circuit' = [circuit EXCEPT ![s] = recordSuccess(circuit[s])]
    BY <2>2, <1>0, <1>1, RecordSuccessOK, ThresholdAssumption DEF IndInv, ClosedIsHealthy
  <2> QED BY <1>2, <2>1, <2>2
<1>5. rate' \in [Providers -> Rates] BY <1>0, <1>1, <1>2, IncrementedOK
<1>6. ASSUME NEW p \in Providers PROVE RateAndCalls(p)'
  <2>1. CASE p # s
    <3>1. rate'[p] = rate[p] BY <2>1, <1>0, <1>2
    <3> QED BY <3>1, <1>2, RateKept, RecordsOK
  <2>2. CASE p = s
    <3>1. SUFFICES ASSUME ~failover, rate'[p] # NoState, NEW w \in Windows
                   PROVE  rate'[p][w] + Cardinality(Out(p)') <= Limit[w] + Cardinality(Requests) - 1
      BY <1>2 DEF RateAndCalls
    <3>2. rate'[p] = Incremented(p) BY <2>2, <1>0, <1>2
    <3>3. rate[p] # NoState /\ rate'[p][w] \in Nat /\ rate'[p][w] <= rate[p][w] + 1
      BY <3>1, <3>2, <1>0, IncrementedOK
    <3>4. r \in Out(p) BY <2>2, <3>1, <1>0, <1>3 DEF Out
    <3>5. Cardinality(Out(p)') = Cardinality(Out(p)) - 1
      BY <3>4, <1>0, <1>2, OutShrinks, RecordsOK
    <3>6. rate[p][w] + Cardinality(Out(p)) <= Limit[w] + Cardinality(Requests) - 1
      BY <3>1, <3>3 DEF IndInv, RateAndCalls
    <3>7. rate[p][w] \in Nat /\ Limit[w] \in Nat /\ Cardinality(Out(p)) \in Nat
          /\ Cardinality(Requests) \in Nat
      <4>1. rate[p] \in [Windows -> 0 .. MaxCount] BY <3>3 DEF IndInv, TypeOK
      <4>2. Cardinality(Out(p)) \in Nat /\ Cardinality(Requests) \in Nat BY OutFacts
      <4> QED BY <4>1, <4>2, LimitAssumption
    <3> QED BY <3>3, <3>5, <3>6, <3>7
  <2> QED BY <2>1, <2>2
<1> QED BY <1>0, <1>2, <1>4, <1>5, <1>6, Assemble, RecordsOK

LEMMA CallFailsKeeps ==
    ASSUME IndInv, NEW r \in Requests, CallFails(r)
    PROVE  IndInv'
<1>0. TypeOK /\ req[r] \in RequestRecords /\ req \in [Requests -> RequestRecords]
      /\ circuit \in [Providers -> Circuits] /\ rate \in [Providers -> Rates]
      /\ cooled \subseteq Providers /\ Position(req[r]) /\ req[r].pc = "call"
  BY DEF IndInv, TypeOK, RequestRecords, Circuits, Rates, CallFails
<1> DEFINE s == Serving(r)
<1>1. s \in Providers BY <1>0, ServingOK
<1>2. UNCHANGED <<failover, rate>> BY DEF CallFails
<1>3. CASE req[r].next = 0
  <2>1. req' = [req EXCEPT ![r] = Idle] /\ UNCHANGED <<circuit, cooled>>
    BY <1>3 DEF CallFails, End
  <2>2. \A p \in Providers : RateAndCalls(p)' BY <1>2, <2>1, RateKept, RecordsOK
  <2>3. \A p \in Providers :
          circuit'[p].state = "CLOSED" => circuit'[p].failureCount < FailureThreshold
    BY <2>1 DEF IndInv, ClosedIsHealthy
  <2> QED BY <1>0, <1>2, <2>1, <2>2, <2>3, Assemble, RecordsOK
<1>4. CASE req[r].next # 0
  <2>1. circuit' = [circuit EXCEPT ![s] = recordFailure(circuit[s])] /\ cooled' \subseteq Providers
    BY <1>0, <1>4 DEF CallFails
  <2> DEFINE q == [req[r] EXCEPT !.pc = "sleep"]
  <2>2. q \in RequestRecords /\ req' = [req EXCEPT ![r] = q] /\ q.pc = "sleep"
        /\ q.next = req[r].next /\ q.provider = req[r].provider
    BY <1>0, <1>4 DEF CallFails, RequestRecords
  <2>3. Position(q) BY <1>0, <1>4, <2>2 DEF Position
  <2> HIDE DEF q, s
  <2>4. \A p \in Providers : RateAndCalls(p)' BY <1>2, <2>2, RateKept
  <2>5. /\ circuit' \in [Providers -> Circuits]
        /\ \A p \in Providers :
             circuit'[p].state = "CLOSED" => circuit'[p].failureCount < FailureThreshold
    BY <2>1, <1>0, <1>1, RecordFailureOK DEF IndInv, ClosedIsHealthy
  <2> QED BY <1>0, <1>2, <2>1, <2>2, <2>3, <2>4, <2>5, Assemble
<1> QED BY <1>3, <1>4

\* Time and the operators do not touch the requests.
LEMMA EnvironmentKeeps ==
    ASSUME IndInv,
           \/ \E p \in Providers : CircuitTimeout(p) \/ resetCircuit(p) \/ resetRate(p)
           \/ UNCHANGED vars
    PROVE  IndInv'
<1>0. TypeOK /\ circuit \in [Providers -> Circuits] /\ rate \in [Providers -> Rates]
  BY DEF IndInv, TypeOK, Circuits, Rates
<1>1. /\ UNCHANGED <<failover, req>> /\ cooled' \subseteq Providers
      /\ circuit' = circuit \/ \E p \in Providers : circuit' = [circuit EXCEPT ![p] = NewCircuit]
      /\ rate' = rate \/ \E p \in Providers : rate' = [rate EXCEPT ![p] = NoState]
  BY DEF CircuitTimeout, resetCircuit, resetRate, vars, IndInv, TypeOK
<1>2. /\ circuit' \in [Providers -> Circuits]
      /\ \A p \in Providers :
           circuit'[p].state = "CLOSED" => circuit'[p].failureCount < FailureThreshold
  BY <1>0, <1>1, RecordsOK DEF IndInv, ClosedIsHealthy
<1>3. rate' \in [Providers -> Rates]
      /\ \A p \in Providers : rate'[p] = rate[p] \/ rate'[p] = NoState
  BY <1>0, <1>1, RecordsOK
<1>4. TypeOK' BY <1>1, <1>2, <1>3 DEF IndInv, TypeOK, Circuits, Rates
<1>5. \A p \in Providers : Out(p)' = Out(p) BY <1>1 DEF Out
<1>6. \A p \in Providers : RateAndCalls(p)'
  BY <1>1, <1>3, <1>5 DEF IndInv, RateAndCalls
<1>7. \A r \in Requests : Position(req[r])' BY <1>1 DEF IndInv, Position
<1> QED BY <1>2, <1>4, <1>6, <1>7 DEF IndInv, ClosedIsHealthy

-----------------------------------------------------------------------------
(* The theorems *)

\* The inductive invariant of the gateway.
THEOREM GatewayInvariance == Spec => []IndInv
<1>1. IndInv /\ [Next]_vars => IndInv'
  <2> SUFFICES ASSUME IndInv, [Next]_vars PROVE IndInv' OBVIOUS
  <2>1. ASSUME NEW r \in Requests, Step(r) PROVE IndInv'
    BY <2>1, LoopKeeps, TryNextKeeps, CallSucceedsKeeps, CallFailsKeeps DEF Step
  <2> QED BY <2>1, BeginKeeps, EnvironmentKeeps DEF Next
<1> QED BY <1>1, InitIndInv, PTL DEF Spec

\* The circuits' counts stay within their thresholds, the counters within their bound.
THEOREM GatewayTypes == Spec => []TypeOK
<1>1. IndInv => TypeOK BY DEF IndInv
<1> QED BY <1>1, GatewayInvariance, PTL

\* No late result, reset or half-open trial leaves a closed circuit at its failure threshold.
THEOREM ClosedCircuitsAreHealthy == Spec => []ClosedIsHealthy
<1>1. IndInv => ClosedIsHealthy BY DEF IndInv
<1> QED BY <1>1, GatewayInvariance, PTL

\* Without failover, n concurrent requests exceed a window's limit by at most n - 1, however
\* windows expire and counters are reset while calls are out.
THEOREM OvershootIsBounded == Spec => []BoundedOvershoot
<1>1. IndInv => BoundedOvershoot
  <2> SUFFICES ASSUME IndInv, ~failover, NEW p \in Providers, rate[p] # NoState, NEW w \in Windows
               PROVE  rate[p][w] <= Limit[w] + Cardinality(Requests) - 1
    BY DEF BoundedOvershoot
  <2>1. rate[p][w] + Cardinality(Out(p)) <= Limit[w] + Cardinality(Requests) - 1
    BY DEF IndInv, RateAndCalls
  <2>2. rate[p][w] \in Nat /\ Limit[w] \in Nat BY LimitAssumption DEF IndInv, TypeOK
  <2> QED BY <2>1, <2>2, OutFacts
<1> QED BY <1>1, GatewayInvariance, PTL
=============================================================================
