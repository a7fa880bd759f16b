------------------------------ MODULE Missions ------------------------------
(***************************************************************************)
(* One accounting mission: its row, the append-only decision log, and the  *)
(* lease on it, under the API instances that serve it.                     *)
(*                                                                         *)
(*   - requests execute, approve and reject of MissionsService: each reads *)
(*     the row, checks it, and then compares-and-sets the version the      *)
(*     CLIENT sent (optimisticUpdate), not the version it has read;        *)
(*   - pipeline runs (MonthlyCloseOrchestrator under the intent handler),  *)
(*     started by execute or by recovery, that store where they end;       *)
(*   - startup recovery (runMissionRecovery) of every instance;            *)
(*   - crashes of an instance and rejected statements at any point.        *)
(*                                                                         *)
(* A proposal stands for its evidence hash.  A mission has a row of its    *)
(* own and no statement touches two, so one mission is modelled.           *)
(***************************************************************************)
EXTENDS Naturals, Sequences, FiniteSets

CONSTANTS Instances,    \* processes of the API
          Clients,      \* requests in flight at once
          Proposals,    \* what a pipeline run can propose
          NoProposal,
          MaxCrashes,   \* bound on crashes of instances
          MaxRejected,  \* bound on statements the database rejects
          MaxStale      \* bound on how many versions late a client may be

ASSUME MissionConstants ==
    /\ NoProposal \notin Proposals
    /\ Instances \cap Clients = {}
    /\ MaxCrashes \in Nat /\ MaxRejected \in Nat /\ MaxStale \in Nat

VARIABLES mission,    \* the row of accounting_missions
          receipts,   \* mission_receipts, in insertion order
          lease,      \* the row of mission_leases, and as history the instances
                      \* that acquired it, live, and it has not expired since
          phase,      \* per instance: down, scan, claim or serving
          req,        \* per client: the request in progress
          runs,       \* pipeline runs, named by who dispatched them
          crashes, rejected

vars == <<mission, receipts, lease, phase, req, runs, crashes, rejected>>

(***************************************************************************)
(* Rows and local state.                                                   *)
(***************************************************************************)
Statuses == {"NONE", "DRAFT", "QUEUED", "RUNNING", "BLOCKED", "FAILED",
             "AWAITING_APPROVAL", "APPROVED", "REJECTED"}

Decisions == {"APPROVED", "REJECTED"}

Ends == {"BLOCKED", "FAILED", "AWAITING_APPROVAL"}

MissionRow(s, v, p) == [status |-> s, version |-> v, proposal |-> p]

MissionRows == [status : Statuses, version : Nat,
                proposal : Proposals \cup {NoProposal}]

NoMission == MissionRow("NONE", 0, NoProposal)

Request(st, i, v, row, to) ==
    [stage |-> st, inst |-> i, expected |-> v, read |-> row, to |-> to]

NoRequest == Request("idle", "nobody", 0, NoMission, "NONE")

Run(st, i, to, p) == [stage |-> st, inst |-> i, to |-> to, proposal |-> p]

NoRun == Run("idle", "nobody", "NONE", NoProposal)

Init ==
    /\ mission = NoMission
    /\ receipts = << >>
    /\ lease = [owner |-> "nobody", expires |-> "none", holders |-> {}]
    /\ phase = [i \in Instances |-> "scan"]
    /\ req = [c \in Clients |-> NoRequest]
    /\ runs = [r \in Instances \cup Clients |-> NoRun]
    /\ crashes = 0
    /\ rejected = 0

(***************************************************************************)
(* Statements.                                                             *)
(***************************************************************************)
\* mutant: the version is not compared
AtVersionAny(v) == mission.status # "NONE"

\* The WHERE clause of optimisticUpdate: the row exists at version v.
AtVersion(v) == mission.status # "NONE" /\ mission.version = v

\* mutant: the status is not in the WHERE clause
transitionFromAny(s, p) ==
    mission' = MissionRow(s, mission.version + 1,
                          IF s = "AWAITING_APPROVAL" THEN p ELSE mission.proposal)

\* mutant: as CorrectionIntentHandler writes, by id and without a new version
transitionById(s, p) ==
    mission' = MissionRow(s, mission.version,
                          IF s = "AWAITING_APPROVAL" THEN p ELSE mission.proposal)

\* mutant: the status MissionRuntime's events use for a blocked mission
transitionToEventStatus(s, p) ==
    mission' = IF mission.status = "RUNNING"
               THEN MissionRow(IF s = "BLOCKED" THEN "BLOCKED_BY_GATE" ELSE s,
                               mission.version + 1,
                               IF s = "AWAITING_APPROVAL" THEN p ELSE mission.proposal)
               ELSE mission

\* The store of the monthly close writes only a row that is RUNNING and
\* counts the version up; otherwise the result is dropped with a warning.
transitionFromRunning(s, p) ==
    mission' = IF mission.status = "RUNNING"
               THEN MissionRow(s, mission.version + 1,
                               IF s = "AWAITING_APPROVAL" THEN p ELSE mission.proposal)
               ELSE mission

\* The intent handler's onRunning: a pipeline run starts, nobody awaits it.
onRunning(r, i) == runs' = [runs EXCEPT ![r] = Run("working", i, "NONE", NoProposal)]

(***************************************************************************)
(* Requests.  A client sends a version it has been served, so at most the  *)
(* version of the row at the time the request reads it.  A request whose   *)
(* checks fail answers an error and changes nothing.                       *)
(***************************************************************************)
Up(i) == phase[i] # "down"

ServedVersions == {v \in 1..mission.version : v + MaxStale >= mission.version}

createMission ==
    /\ \E i \in Instances : Up(i)
    /\ mission.status = "NONE"
    /\ mission' = MissionRow("DRAFT", 1, NoProposal)
    /\ UNCHANGED <<receipts, lease, phase, req, runs, crashes, rejected>>

\* QUEUED is reached from DRAFT only: no code writes REVISION_REQUESTED.
executeMission(c, i, v) ==
    /\ Up(i) /\ req[c].stage = "idle"
    /\ mission.status = "DRAFT"
    /\ req' = [req EXCEPT ![c] = Request("queue", i, v, mission, "QUEUED")]
    /\ UNCHANGED <<mission, receipts, lease, phase, runs, crashes, rejected>>

\* hash is the evidence hash the approver has reviewed.
approveMission(c, i, v, hash) ==
    /\ Up(i) /\ req[c].stage = "idle"
    /\ mission.status = "AWAITING_APPROVAL"
    /\ mission.proposal = hash
    /\ req' = [req EXCEPT ![c] = Request("decide", i, v, mission, "APPROVED")]
    /\ UNCHANGED <<mission, receipts, lease, phase, runs, crashes, rejected>>

rejectMission(c, i, v) ==
    /\ Up(i) /\ req[c].stage = "idle"
    /\ mission.status = "AWAITING_APPROVAL"
    /\ req' = [req EXCEPT ![c] = Request("decide", i, v, mission, "REJECTED")]
    /\ UNCHANGED <<mission, receipts, lease, phase, runs, crashes, rejected>>

\* The first update of executeMission; the second one uses the version it returns.
SetQueued(c) ==
    LET q == req[c] IN
    /\ q.stage = "queue"
    /\ IF AtVersion(q.expected)
       THEN /\ mission' = MissionRow("QUEUED", mission.version + 1, mission.proposal)
            /\ req' = [req EXCEPT ![c] =
                         Request("run", q.inst, q.expected + 1, mission', "RUNNING")]
       ELSE /\ req' = [req EXCEPT ![c] = NoRequest]
            /\ UNCHANGED mission
    /\ UNCHANGED <<receipts, lease, phase, runs, crashes, rejected>>

SetRunning(c) ==
    LET q == req[c] IN
    /\ q.stage = "run"
    /\ req' = [req EXCEPT ![c] = NoRequest]
    /\ IF AtVersion(q.expected)
       THEN /\ mission' = MissionRow("RUNNING", mission.version + 1, mission.proposal)
            /\ onRunning(c, q.inst)
       ELSE UNCHANGED <<mission, runs>>
    /\ UNCHANGED <<receipts, lease, phase, crashes, rejected>>

\* One transaction: the new status and its row in the decision log.  The
\* receipt's evidence is that of the proposal the request has read.
Decide(c) ==
    LET q == req[c] IN
    /\ q.stage = "decide"
    /\ req' = [req EXCEPT ![c] = NoRequest]
    /\ IF AtVersion(q.expected)
       THEN /\ mission' = MissionRow(q.to, mission.version + 1, mission.proposal)
            /\ receipts' = Append(receipts, [decision |-> q.to,
                                             evidence |-> q.read.proposal])
       ELSE UNCHANGED <<mission, receipts>>
    /\ UNCHANGED <<lease, phase, runs, crashes, rejected>>

\* A statement or transaction of the request is rejected; it rolls back.
RequestRejected(c) ==
    /\ req[c].stage # "idle"
    /\ rejected < MaxRejected
    /\ rejected' = rejected + 1
    /\ req' = [req EXCEPT ![c] = NoRequest]
    /\ UNCHANGED <<mission, receipts, lease, phase, runs, crashes>>

(***************************************************************************)
(* Pipeline runs.                                                          *)
(***************************************************************************)
\* The ten steps end: blocked by a gate or a blocker, failed, or a proposal.
execute(r, to, p) ==
    /\ runs[r].stage = "working"
    /\ p = NoProposal <=> to # "AWAITING_APPROVAL"
    /\ runs' = [runs EXCEPT ![r] = Run("store", runs[r].inst, to, p)]
    /\ UNCHANGED <<mission, receipts, lease, phase, req, crashes, rejected>>

\* mutant: the handler does not catch
ThrowUnhandled(r) ==
    /\ runs[r].stage = "working"
    /\ runs' = [runs EXCEPT ![r] = NoRun]
    /\ UNCHANGED <<mission, receipts, lease, phase, req, crashes, rejected>>

\* A step throws what execute does not handle: the intent handler catches it.
Throw(r) ==
    /\ runs[r].stage = "working"
    /\ runs' = [runs EXCEPT ![r] = Run("caught", runs[r].inst, "FAILED", NoProposal)]
    /\ UNCHANGED <<mission, receipts, lease, phase, req, crashes, rejected>>

\* markBlocked, markFailed or markAwaitingApproval.
StoreResult(r) ==
    /\ runs[r].stage \in {"store", "caught"}
    /\ transitionFromRunning(runs[r].to, runs[r].proposal)
    /\ runs' = [runs EXCEPT ![r] = NoRun]
    /\ UNCHANGED <<receipts, lease, phase, req, crashes, rejected>>

\* The store rejects: the handler tries markFailed once, then only logs.
StoreRejected(r) ==
    /\ runs[r].stage \in {"store", "caught"}
    /\ rejected < MaxRejected
    /\ rejected' = rejected + 1
    /\ runs' = [runs EXCEPT ![r] =
                  IF runs[r].stage = "store"
                  THEN Run("caught", runs[r].inst, "FAILED", NoProposal)
                  ELSE NoRun]
    /\ UNCHANGED <<mission, receipts, lease, phase, req, crashes>>

(***************************************************************************)
(* Startup recovery.                                                       *)
(***************************************************************************)
\* Every instance presents the same lease owner.
RecoveryOwner(i) == "startup-recovery"

\* The SELECT of the recoverable missions.
Scan(i) ==
    /\ phase[i] = "scan"
    /\ phase' = [phase EXCEPT ![i] =
                   IF mission.status = "RUNNING" THEN "claim" ELSE "serving"]
    /\ UNCHANGED <<mission, receipts, lease, req, runs, crashes, rejected>>

\* INSERT ... ON CONFLICT DO UPDATE WHERE expired or of the same owner.
CanAcquire(i) == lease.expires # "future" \/ lease.owner = RecoveryOwner(i)

\* acquire, and the dispatch that follows it; the row is not read again.
Claim(i) ==
    /\ phase[i] = "claim"
    /\ phase' = [phase EXCEPT ![i] = "serving"]
    /\ IF CanAcquire(i)
       THEN /\ lease' = [owner |-> RecoveryOwner(i), expires |-> "future",
                         holders |-> lease.holders \cup {i}]
            /\ onRunning(i, i)
       ELSE UNCHANGED <<lease, runs>>
    /\ UNCHANGED <<mission, receipts, req, crashes, rejected>>

\* The SELECT or the acquire rejects: the scan ends until the next start.
RecoveryRejected(i) ==
    /\ phase[i] \in {"scan", "claim"}
    /\ rejected < MaxRejected
    /\ rejected' = rejected + 1
    /\ phase' = [phase EXCEPT ![i] = "serving"]
    /\ UNCHANGED <<mission, receipts, lease, req, runs, crashes>>

LeaseExpires ==
    /\ lease.expires = "future"
    /\ lease' = [owner |-> lease.owner, expires |-> "past", holders |-> {}]
    /\ UNCHANGED <<mission, receipts, phase, req, runs, crashes, rejected>>

(***************************************************************************)
(* An instance stops with all it had in memory, and starts again.          *)
(***************************************************************************)
Crash(i) ==
    /\ Up(i)
    /\ crashes < MaxCrashes
    /\ crashes' = crashes + 1
    /\ phase' = [phase EXCEPT ![i] = "down"]
    /\ req' = [c \in Clients |-> IF req[c].inst = i THEN NoRequest ELSE req[c]]
    /\ runs' = [r \in Instances \cup Clients |->
                  IF runs[r].inst = i THEN NoRun ELSE runs[r]]
    /\ lease' = [owner |-> lease.owner, expires |-> lease.expires,
                 holders |-> lease.holders \ {i}]
    /\ UNCHANGED <<mission, receipts, rejected>>

Restart(i) ==
    /\ phase[i] = "down"
    /\ phase' = [phase EXCEPT ![i] = "scan"]
    /\ UNCHANGED <<mission, receipts, lease, req, runs, crashes, rejected>>

RequestStep(c) ==
    \/ \E i \in Instances, v \in ServedVersions :
         \/ executeMission(c, i, v)
         \/ \E hash \in Proposals : approveMission(c, i, v, hash)
         \/ rejectMission(c, i, v)
    \/ SetQueued(c)
    \/ SetRunning(c)
    \/ Decide(c)
    \/ RequestRejected(c)

RunStep(r) ==
    \/ \E to \in Ends, p \in Proposals \cup {NoProposal} : execute(r, to, p)
    \/ Throw(r)
    \/ StoreResult(r)
    \/ StoreRejected(r)

InstanceStep(i) ==
    Scan(i) \/ Claim(i) \/ RecoveryRejected(i) \/ Crash(i) \/ Restart(i)

Next ==
    \/ createMission
    \/ \E c \in Clients : RequestStep(c)
    \/ \E r \in Instances \cup Clients : RunStep(r)
    \/ \E i \in Instances : InstanceStep(i)
    \/ LeaseExpires

Spec == Init /\ [][Next]_vars

(***************************************************************************)
(* Fairness.  A request, a run and a recovery that have begun go on while  *)
(* their process lives, every step of a pipeline has bounded retries, and  *)
(* a stopped instance is started again.  Nothing is assumed of clients.    *)
(***************************************************************************)
Fairness ==
    /\ \A c \in Clients : WF_vars(SetQueued(c) \/ SetRunning(c) \/ Decide(c))
    /\ \A r \in Instances \cup Clients :
         /\ WF_vars(Throw(r) \/ \E to \in Ends, p \in Proposals \cup {NoProposal} :
                                  execute(r, to, p))
         /\ WF_vars(StoreResult(r))
    /\ \A i \in Instances : WF_vars(Scan(i) \/ Claim(i)) /\ WF_vars(Restart(i))

FairSpec == Spec /\ Fairness

-----------------------------------------------------------------------------
(***************************************************************************)
(* Properties.                                                             *)
(***************************************************************************)
TypeOK ==
    /\ mission \in MissionRows
    /\ receipts \in Seq([decision : Decisions, evidence : Proposals \cup {NoProposal}])
    /\ lease \in [owner : {"nobody", "startup-recovery"}, expires : {"none", "future", "past"},
                  holders : SUBSET Instances]
    /\ phase \in [Instances -> {"down", "scan", "claim", "serving"}]
    /\ req \in [Clients -> [stage : {"idle", "queue", "run", "decide"},
                            inst : Instances \cup {"nobody"}, expected : Nat,
                            read : MissionRows, to : Statuses]]
    /\ runs \in [Instances \cup Clients ->
                   [stage : {"idle", "working", "store", "caught"},
                    inst : Instances \cup {"nobody"},
                    to : Ends \cup {"NONE"}, proposal : Proposals \cup {NoProposal}]]
    /\ crashes \in 0..MaxCrashes
    /\ rejected \in 0..MaxRejected

\* optimisticUpdate compares the version the client sent, while the status
\* and the evidence were checked on the row the request read.  Whenever the
\* update of a request would succeed, that row is still the current one, so
\* no decision is taken on a state that was not checked.
CheckedRowIsCurrent ==
    \A c \in Clients :
        req[c].stage # "idle" /\ AtVersion(req[c].expected) => mission = req[c].read

\* The decision log and the row agree: a mission is APPROVED or REJECTED
\* exactly when the log holds one receipt, of that decision, and its evidence
\* is that of the proposal in the row, whatever requests and late pipeline
\* runs raced.
DecisionMatchesLog ==
    IF mission.status \in Decisions
    THEN receipts = <<[decision |-> mission.status, evidence |-> mission.proposal]>>
    ELSE receipts = << >>

\* A mission that left RUNNING is never overwritten by a late pipeline run or
\* by a recovered one: it keeps its proposal, and only AWAITING_APPROVAL can
\* still change, by a decision.
LateResultsAreDropped ==
    [][mission.status \in Ends \cup Decisions /\ mission' # mission
         => /\ mission.status = "AWAITING_APPROVAL"
            /\ mission'.status \in Decisions
            /\ mission'.proposal = mission.proposal]_vars

\* A RUNNING mission does not stay RUNNING, through crashes of the instance
\* that runs its pipeline at any point, unless the database rejected a
\* statement (then it waits for the next start of an instance).
RunningEnds ==
    mission.status = "RUNNING" ~> (mission.status # "RUNNING" \/ rejected > 0)

\* mission-recovery.hook.ts:20 says that fencing guarantees exactly one owner
\* per mission: no two live instances hold an unexpired lease.
ExactlyOneOwner == Cardinality(lease.holders) <= 1

\* missions.service.ts:188 points a second start at the existing mission so
\* that it can be resumed: a QUEUED mission is run at some time.
QueuedIsResumed == mission.status = "QUEUED" ~> mission.status # "QUEUED"
=============================================================================
