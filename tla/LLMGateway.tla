------------------------------ MODULE LLMGateway ------------------------------
(***************************************************************************)
(* One process of the LLM gateway: LLMGatewayService.chat and streamChat,  *)
(* the RateLimiter and the FailoverService with a circuit breaker per      *)
(* provider. The state is in memory and the code between two awaits is     *)
(* atomic; a request awaits while a provider works, so what a request      *)
(* checked before the call may be out of date when its result is recorded. *)
(*                                                                         *)
(* LLMGatewayService exists twice: service.ts, which the package exports,  *)
(* and gateway.service.ts, which sdk.ts uses. Both check, fail over and    *)
(* count alike; gateway.service.ts also has a budget check, which is off   *)
(* by default and left out. One organization; context pruning, metrics,    *)
(* spans and the content of messages are left out. The failure count is    *)
(* compared with its threshold only, and a rate count with its limit, so   *)
(* both stop counting at a bound (MaxFailures, MaxCount).                  *)
(***************************************************************************)
EXTENDS Naturals, Sequences, FiniteSets, FiniteSetsExt

CONSTANTS
    Providers,
    Chain,              \* the default chains: a sequence of providers for each one that has one
    Requests,           \* concurrent calls of chat or streamChat
    Windows,            \* windows of the rate limiter: a minute and a day
    Limit,              \* requests per window
    FailureThreshold,   \* failures before opening
    SuccessThreshold,   \* successes to close from half-open
    MaxCount            \* bound: rate counts are exact below it

ASSUME ChainAssumption ==
    /\ DOMAIN Chain \subseteq Providers
    /\ \A p \in DOMAIN Chain : Chain[p] \in Seq(Providers) /\ Len(Chain[p]) > 0
ASSUME RequestsAssumption == IsFiniteSet(Requests)
ASSUME ThresholdAssumption ==
    FailureThreshold \in Nat \ {0} /\ SuccessThreshold \in Nat \ {0}
ASSUME LimitAssumption ==
    /\ Limit \in [Windows -> Nat]
    /\ MaxCount \in Nat /\ \A w \in Windows : Limit[w] + Cardinality(Requests) <= MaxCount

VARIABLES
    failover,   \* enableFailover, fixed when the gateway is constructed
    circuit,    \* the ProviderCircuit of each provider
    cooled,     \* providers whose last failure is at least `timeout` ago
    rate,       \* the ProviderRateState of each provider; NoState before its first check
    req         \* control state of each request

vars == <<failover, circuit, cooled, rate, req>>

MaxFailures == FailureThreshold
NewCircuit == [state |-> "CLOSED", failureCount |-> 0, successCount |-> 0]
NoState == [w \in {} |-> 0]
Idle == [pc |-> "idle", kind |-> "none", provider |-> "none", next |-> 0]

TypeOK ==
    /\ failover \in BOOLEAN
    /\ circuit \in [Providers -> [state : {"CLOSED", "OPEN", "HALF_OPEN"},
                                  failureCount : 0 .. MaxFailures,
                                  successCount : 0 .. SuccessThreshold - 1]]
    /\ cooled \subseteq Providers
    /\ rate \in [Providers -> [Windows -> 0 .. MaxCount] \cup {NoState}]
    /\ req \in [Requests -> [pc : {"idle", "next", "call", "sleep"},
                             kind : {"none", "chat", "stream"},
                             provider : Providers \cup {"none"},
                             next : Nat]]

-----------------------------------------------------------------------------
(* ProviderCircuit *)

\* mutant: a half-open circuit counts its successes and never closes
recordSuccessNeverCloses(c) ==
    [c EXCEPT !.failureCount = 0,
              !.successCount = IF c.state = "HALF_OPEN"
                               THEN Min({@ + 1, SuccessThreshold - 1}) ELSE @]

\* mutant: the count is kept when the circuit closes
recordSuccessKeepsCount(c) ==
    LET closes == c.state = "HALF_OPEN" /\ c.successCount + 1 >= SuccessThreshold IN
    [state        |-> IF closes THEN "CLOSED" ELSE c.state,
     failureCount |-> 0,
     successCount |-> IF c.state = "HALF_OPEN" THEN c.successCount + 1 ELSE c.successCount]

recordSuccess(c) ==
    LET closes == c.state = "HALF_OPEN" /\ c.successCount + 1 >= SuccessThreshold IN
    [state        |-> IF closes THEN "CLOSED" ELSE c.state,
     failureCount |-> 0,
     successCount |-> IF c.state = "HALF_OPEN" /\ ~closes THEN c.successCount + 1
                      ELSE IF closes THEN 0 ELSE c.successCount]

\* mutant: opens one failure late
recordFailureLate(c) ==
    LET failures == c.failureCount + 1 IN
    [state        |-> IF c.state = "CLOSED" /\ failures > FailureThreshold
                      THEN "OPEN" ELSE c.state,
     failureCount |-> Min({failures, MaxFailures}),
     successCount |-> 0]

recordFailure(c) ==
    LET failures == c.failureCount + 1 IN
    [state        |-> IF c.state = "CLOSED" /\ failures >= FailureThreshold
                      THEN "OPEN" ELSE c.state,
     failureCount |-> Min({failures, MaxFailures}),
     successCount |-> 0]

\* canExecute answers, and turns an open circuit half-open once its timeout is over.
canExecute(p) == circuit[p].state # "OPEN" \/ p \in cooled

AfterCanExecute(p) ==
    IF circuit[p].state = "OPEN" /\ p \in cooled
    THEN [circuit[p] EXCEPT !.state = "HALF_OPEN", !.successCount = 0]
    ELSE circuit[p]

-----------------------------------------------------------------------------
(* RateLimiter *)

\* check: the state after it, for the windows that have expired.
AfterCheck(p, expired) ==
    [w \in Windows |-> IF rate[p] = NoState \/ w \in expired THEN 0 ELSE rate[p][w]]

\* mutant: one request too many
AllowedAtLimit(counts) == \A w \in Windows : counts[w] <= Limit[w]

Allowed(counts) == \A w \in Windows : counts[w] < Limit[w]

\* increment: does nothing for a provider that was never checked.
Incremented(p) ==
    IF rate[p] = NoState THEN NoState
    ELSE [w \in Windows |-> Min({rate[p][w] + 1, MaxCount})]

-----------------------------------------------------------------------------
(* chat and streamChat *)

End(r) == req' = [req EXCEPT ![r] = Idle]

\* streamChat, and chat without failover, call the requested provider and no other.
Direct(kind) == kind = "stream" \/ ~failover

\* A request arrives for p: the rate check, and if it passes the first provider.
Begin(r, kind, p) ==
    /\ req[r].pc = "idle"
    /\ \E expired \in SUBSET Windows :
         /\ rate' = [rate EXCEPT ![p] = AfterCheck(p, expired)]
         /\ IF Allowed(rate'[p])
            THEN req' = [req EXCEPT ![r] =
                    IF Direct(kind)
                    THEN [pc |-> "call", kind |-> kind, provider |-> p, next |-> 0]
                    ELSE [pc |-> "next", kind |-> kind, provider |-> p, next |-> 1]]
            ELSE UNCHANGED req
    /\ UNCHANGED <<failover, circuit, cooled>>

\* A provider without a chain: executeWithFailover throws before it has tried anything.
NoChain(r) ==
    /\ req[r].pc = "next" /\ req[r].provider \notin DOMAIN Chain
    /\ End(r)
    /\ UNCHANGED <<failover, circuit, cooled, rate>>

Candidate(r) == Chain[req[r].provider][req[r].next]

\* The loop of executeWithFailover: call the next provider, or skip it if its circuit is open.
TryNext(r) ==
    /\ req[r].pc = "next" /\ req[r].provider \in DOMAIN Chain
    /\ req[r].next <= Len(Chain[req[r].provider])
    /\ IF canExecute(Candidate(r))
       THEN /\ circuit' = [circuit EXCEPT ![Candidate(r)] = AfterCanExecute(Candidate(r))]
            /\ cooled' = IF circuit[Candidate(r)].state = "OPEN"
                         THEN cooled \ {Candidate(r)} ELSE cooled
            /\ req' = [req EXCEPT ![r].pc = "call"]
       ELSE /\ req' = [req EXCEPT ![r].next = @ + 1]
            /\ UNCHANGED <<circuit, cooled>>
    /\ UNCHANGED <<failover, rate>>

\* "All providers failed".
AllFailed(r) ==
    /\ req[r].pc = "next" /\ req[r].provider \in DOMAIN Chain
    /\ req[r].next > Len(Chain[req[r].provider])
    /\ End(r)
    /\ UNCHANGED <<failover, circuit, cooled, rate>>

\* The provider that serves r: streams and chats without failover use the requested one.
Serving(r) == IF req[r].next = 0 THEN req[r].provider ELSE Candidate(r)

\* The call succeeds: the circuit (under failover), then the counters of the provider used.
CallSucceeds(r) ==
    LET p == Serving(r) IN
    /\ req[r].pc = "call"
    /\ circuit' = IF req[r].next = 0 THEN circuit
                  ELSE [circuit EXCEPT ![p] = recordSuccess(circuit[p])]
    /\ rate' = [rate EXCEPT ![p] = Incremented(p)]
    /\ End(r)
    /\ UNCHANGED <<failover, cooled>>

\* It fails: under failover the next provider is tried after a delay.
CallFails(r) ==
    LET p == Serving(r) IN
    /\ req[r].pc = "call"
    /\ IF req[r].next = 0
       THEN End(r) /\ UNCHANGED <<circuit, cooled>>
       ELSE /\ circuit' = [circuit EXCEPT ![p] = recordFailure(circuit[p])]
            /\ cooled' = cooled \ {p}
            /\ req' = [req EXCEPT ![r].pc = "sleep"]
    /\ UNCHANGED <<failover, rate>>

WakeUp(r) ==
    /\ req[r].pc = "sleep"
    /\ req' = [req EXCEPT ![r].pc = "next", ![r].next = @ + 1]
    /\ UNCHANGED <<failover, circuit, cooled, rate>>

-----------------------------------------------------------------------------
(* Time and operators *)

\* The timeout of an open circuit passes without another failure.
CircuitTimeout(p) ==
    /\ circuit[p].state = "OPEN" /\ p \notin cooled
    /\ cooled' = cooled \cup {p}
    /\ UNCHANGED <<failover, circuit, rate, req>>

resetCircuit(p) ==
    /\ circuit[p] # NewCircuit
    /\ circuit' = [circuit EXCEPT ![p] = NewCircuit]
    /\ cooled' = cooled \ {p}
    /\ UNCHANGED <<failover, rate, req>>

resetRate(p) ==
    /\ rate[p] # NoState
    /\ rate' = [rate EXCEPT ![p] = NoState]
    /\ UNCHANGED <<failover, circuit, cooled, req>>

-----------------------------------------------------------------------------

Init ==
    /\ failover \in BOOLEAN
    /\ circuit = [p \in Providers |-> NewCircuit]
    /\ cooled = {}
    /\ rate = [p \in Providers |-> NoState]
    /\ req = [r \in Requests |-> Idle]

Step(r) == NoChain(r) \/ TryNext(r) \/ AllFailed(r) \/ CallSucceeds(r) \/ CallFails(r) \/ WakeUp(r)

Next ==
    \/ \E r \in Requests, kind \in {"chat", "stream"}, p \in Providers : Begin(r, kind, p)
    \/ \E r \in Requests : Step(r)
    \/ \E p \in Providers : CircuitTimeout(p) \/ resetCircuit(p) \/ resetRate(p)

Spec == Init /\ [][Next]_vars

\* A request goes on: providers answer or fail, timers fire. Time passes.
FairSpec ==
    /\ Spec
    /\ \A r \in Requests : WF_vars(Step(r))
    /\ \A p \in Providers : WF_vars(CircuitTimeout(p))

-----------------------------------------------------------------------------
(* Properties *)

\* A circuit that is closed has seen fewer consecutive failures than its threshold: it
\* opens in time and closes with its counts cleared, over any sequence of results, resets
\* and half-open trials.
ClosedIsHealthy ==
    \A p \in Providers :
        circuit[p].state = "CLOSED" => circuit[p].failureCount < FailureThreshold

\* check and increment are separated by the call, so a window may be exceeded; as long as
\* no provider serves as a fallback, only by the requests under way, less one. (A fallback
\* is counted and never checked, and so not limited at all.)
BoundedOvershoot ==
    ~failover => \A p \in Providers : rate[p] # NoState =>
        \A w \in Windows : rate[p][w] <= Limit[w] + Cardinality(Requests) - 1

Calling(p) == {r \in Requests : req[r].pc = "call" /\ req[r].next # 0 /\ Serving(r) = p}

\* A provider that has recovered is used normally again: if from some time on its calls
\* succeed, and requests keep trying it, then its circuit closes and stays closed.
Recovery ==
    \A p \in Providers :
        (/\ <>[][\A r \in Calling(p) : ~CallFails(r)]_vars
         /\ []<>(Calling(p) # {}))
        => <>[](circuit[p].state = "CLOSED")
=============================================================================
