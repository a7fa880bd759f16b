--------------------------- MODULE Missions_proofs ---------------------------
(***************************************************************************)
(* Proofs about Missions, for any number of instances, requests, crashes   *)
(* and rejected statements.                                                *)
(*                                                                         *)
(* CheckedRowIsCurrent is not inductive: it speaks only of a request whose *)
(* version is the current one.  What makes it so is an order that every    *)
(* request keeps, ReadsAreOrdered: the version the client sent is at most  *)
(* the one the request read, which is at most the current one, and a       *)
(* version names one content of the row.                                   *)
(***************************************************************************)
EXTENDS Missions, TLAPS

Active(c) == req[c].stage # "idle"

ReadsAreOrdered ==
    \A c \in Clients : Active(c) =>
        /\ req[c].expected <= req[c].read.version
        /\ req[c].read.version <= mission.version
        /\ mission.version = req[c].read.version => mission = req[c].read

\* What the checks of a request have established of the row it read.
ReadsAreChecked ==
    \A c \in Clients :
        /\ req[c].stage = "queue" => req[c].read.status = "DRAFT"
        /\ req[c].stage = "run" => req[c].read.status = "QUEUED"
        /\ req[c].stage = "decide" => /\ req[c].read.status = "AWAITING_APPROVAL"
                                      /\ req[c].to \in Decisions

RunsHaveResults ==
    \A r \in Instances \cup Clients :
        runs[r].stage \in {"store", "caught"} => runs[r].to \in Ends

NoRowHasNoVersion == mission.status = "NONE" => mission.version = 0

IndInv == TypeOK /\ ReadsAreOrdered /\ ReadsAreChecked /\ RunsHaveResults
            /\ NoRowHasNoVersion /\ DecisionMatchesLog

-----------------------------------------------------------------------------
\* The initial state: no row, no request, no run.
LEMMA InitIndInv == Init => IndInv
<1> SUFFICES ASSUME Init PROVE IndInv
  OBVIOUS
<1> USE MissionConstants
<1>1. NoMission \in MissionRows /\ NoMission.status = "NONE"
  BY DEF NoMission, MissionRow, MissionRows, Statuses
<1>2. TypeOK
  BY <1>1 DEF Init, TypeOK, NoRequest, Request, NoRun, Run, Statuses
<1>3. ReadsAreOrdered /\ ReadsAreChecked /\ RunsHaveResults
  BY DEF Init, ReadsAreOrdered, ReadsAreChecked, RunsHaveResults, Active,
         NoRequest, Request, NoRun, Run
<1>4. DecisionMatchesLog /\ NoRowHasNoVersion
  BY <1>1 DEF Init, DecisionMatchesLog, NoRowHasNoVersion, Decisions, NoMission, MissionRow
<1> QED BY <1>2, <1>3, <1>4 DEF IndInv

\* A request whose update would succeed has read the current row.
LEMMA CurrentRead ==
    ASSUME IndInv, NEW c \in Clients, Active(c), AtVersion(req[c].expected)
    PROVE  mission = req[c].read
<1>1. mission.version \in Nat /\ req[c].read.version \in Nat /\ req[c].expected \in Nat
  BY DEF IndInv, TypeOK, MissionRows
<1>2. /\ req[c].expected <= req[c].read.version
      /\ req[c].read.version <= mission.version
      /\ mission.version = req[c].read.version => mission = req[c].read
  BY DEF IndInv, ReadsAreOrdered
<1> QED BY <1>1, <1>2 DEF AtVersion

\* A step that counts the version up and leaves the other requests alone
\* keeps their order.
LEMMA OrderKept ==
    ASSUME IndInv, mission' \in MissionRows,
           mission' = mission \/ mission'.version = mission.version + 1,
           \A c \in Clients :
               \/ req'[c] = req[c]
               \/ req'[c].stage = "idle"
               \/ /\ req'[c].read = mission'
                  /\ req'[c].expected <= mission'.version
    PROVE  ReadsAreOrdered'
<1> SUFFICES ASSUME NEW c \in Clients, req'[c].stage # "idle"
             PROVE  /\ req'[c].expected <= req'[c].read.version
                    /\ req'[c].read.version <= mission'.version
                    /\ mission'.version = req'[c].read.version => mission' = req'[c].read
  BY DEF ReadsAreOrdered, Active
<1>1. mission.version \in Nat /\ mission'.version \in Nat
      /\ req[c].read.version \in Nat /\ req[c].expected \in Nat
  BY DEF IndInv, TypeOK, MissionRows
<1>2. CASE req'[c].read = mission' /\ req'[c].expected <= mission'.version
  BY <1>1, <1>2
<1>3. CASE req'[c] = req[c]
  <2>1. /\ req[c].expected <= req[c].read.version
        /\ req[c].read.version <= mission.version
        /\ mission.version = req[c].read.version => mission = req[c].read
    BY <1>3 DEF IndInv, ReadsAreOrdered, Active
  <2> QED BY <1>1, <1>3, <2>1
<1> QED BY <1>2, <1>3

\* Reading steps: the row stays, one request begins with what it has read.
LEMMA RequestBegins ==
    ASSUME IndInv, NEW c \in Clients, NEW i \in Instances, NEW v \in ServedVersions,
           \/ executeMission(c, i, v)
           \/ \E hash \in Proposals : approveMission(c, i, v, hash)
           \/ rejectMission(c, i, v)
    PROVE  IndInv'
<1> USE MissionConstants
<1>1. PICK st \in {"queue", "decide"}, to \in {"QUEUED"} \cup Decisions :
         /\ req' = [req EXCEPT ![c] = Request(st, i, v, mission, to)]
         /\ st = "queue" => mission.status = "DRAFT"
         /\ st = "decide" => mission.status = "AWAITING_APPROVAL" /\ to \in Decisions
  BY DEF executeMission, approveMission, rejectMission, Decisions
<1>2. UNCHANGED <<mission, receipts, lease, phase, runs, crashes, rejected>>
  BY DEF executeMission, approveMission, rejectMission
<1>3. v \in Nat /\ v <= mission.version
  BY DEF ServedVersions, IndInv, TypeOK, MissionRows
<1>4. TypeOK'
  BY <1>1, <1>2, <1>3 DEF IndInv, TypeOK, Request, Statuses, Decisions
<1>5. ReadsAreOrdered'
  <2>1. \A d \in Clients : \/ req'[d] = req[d]
                           \/ req'[d].stage = "idle"
                           \/ req'[d].read = mission' /\ req'[d].expected <= mission'.version
    BY <1>1, <1>2, <1>3 DEF IndInv, TypeOK, Request
  <2> QED BY <1>2, <2>1, OrderKept DEF IndInv, TypeOK
<1>6. ReadsAreChecked'
  BY <1>1, <1>2 DEF IndInv, ReadsAreChecked, TypeOK, Request
<1>7. RunsHaveResults' /\ NoRowHasNoVersion' /\ DecisionMatchesLog'
  BY <1>2 DEF IndInv, RunsHaveResults, NoRowHasNoVersion, DecisionMatchesLog
<1> QED BY <1>4, <1>5, <1>6, <1>7 DEF IndInv

\* The writing steps of a request.  Each changes the row only when the row is
\* the one the request has checked.
LEMMA RequestWrites ==
    ASSUME IndInv, NEW c \in Clients,
           SetQueued(c) \/ SetRunning(c) \/ Decide(c) \/ RequestRejected(c)
    PROVE  IndInv'
<1> USE MissionConstants
<1>0. Active(c)
  BY DEF Active, SetQueued, SetRunning, Decide, RequestRejected
<1>t. /\ mission \in MissionRows /\ mission.version \in Nat
      /\ mission.proposal \in Proposals \cup {NoProposal}
      /\ req[c].expected \in Nat /\ req[c].inst \in Instances \cup {"nobody"}
      /\ req[c].read.proposal \in Proposals \cup {NoProposal}
  BY DEF IndInv, TypeOK, MissionRows
<1>a. NoRequest \in [stage : {"idle", "queue", "run", "decide"},
                     inst : Instances \cup {"nobody"}, expected : Nat,
                     read : MissionRows, to : Statuses]
      /\ NoRequest.stage = "idle"
  BY DEF NoRequest, Request, NoMission, MissionRow, MissionRows, Statuses
<1>1. CASE SetQueued(c) /\ AtVersion(req[c].expected)
  <2>1. mission = req[c].read /\ mission.status = "DRAFT"
    BY <1>0, <1>1, CurrentRead DEF SetQueued, IndInv, ReadsAreChecked
  <2>2. /\ mission' = MissionRow("QUEUED", mission.version + 1, mission.proposal)
        /\ req' = [req EXCEPT ![c] = Request("run", req[c].inst, req[c].expected + 1,
                                             mission', "RUNNING")]
        /\ UNCHANGED <<receipts, lease, phase, runs, crashes, rejected>>
    BY <1>1 DEF SetQueued
  <2>3. /\ mission' \in MissionRows /\ mission'.status = "QUEUED"
        /\ mission'.version = mission.version + 1
    BY <1>t, <2>2 DEF MissionRow, MissionRows, Statuses
  <2>4. TypeOK'
    BY <1>t, <2>2, <2>3 DEF IndInv, TypeOK, Request, Statuses
  <2>5. ReadsAreOrdered'
    <3>1. req[c].expected + 1 <= mission'.version
      BY <1>1, <1>t, <2>3 DEF AtVersion
    <3>2. \A d \in Clients : \/ req'[d] = req[d]
                             \/ req'[d].stage = "idle"
                             \/ req'[d].read = mission' /\ req'[d].expected <= mission'.version
      BY <2>2, <3>1 DEF IndInv, TypeOK, Request
    <3> QED BY <2>3, <3>2, OrderKept
  <2>6. ReadsAreChecked'
    BY <2>2, <2>3 DEF IndInv, ReadsAreChecked, TypeOK, Request
  <2>7. RunsHaveResults' /\ NoRowHasNoVersion' /\ DecisionMatchesLog'
    BY <2>1, <2>2, <2>3 DEF IndInv, RunsHaveResults, NoRowHasNoVersion,
                            DecisionMatchesLog, Decisions
  <2> QED BY <2>4, <2>5, <2>6, <2>7 DEF IndInv
<1>2. CASE SetRunning(c) /\ AtVersion(req[c].expected)
  <2>1. mission = req[c].read /\ mission.status = "QUEUED"
    BY <1>0, <1>2, CurrentRead DEF SetRunning, IndInv, ReadsAreChecked
  <2>2. /\ mission' = MissionRow("RUNNING", mission.version + 1, mission.proposal)
        /\ req' = [req EXCEPT ![c] = NoRequest]
        /\ runs' = [runs EXCEPT ![c] = Run("working", req[c].inst, "NONE", NoProposal)]
        /\ UNCHANGED <<receipts, lease, phase, crashes, rejected>>
    BY <1>2 DEF SetRunning, onRunning
  <2>3. /\ mission' \in MissionRows /\ mission'.status = "RUNNING"
        /\ mission'.version = mission.version + 1
    BY <1>t, <2>2 DEF MissionRow, MissionRows, Statuses
  <2>4. TypeOK'
    BY <1>t, <1>a, <2>2, <2>3 DEF IndInv, TypeOK, Run
  <2>5. ReadsAreOrdered'
    <3>1. \A d \in Clients : req'[d] = req[d] \/ req'[d].stage = "idle"
      BY <1>a, <2>2 DEF IndInv, TypeOK
    <3> QED BY <2>3, <3>1, OrderKept
  <2>6. ReadsAreChecked' /\ RunsHaveResults'
    BY <1>a, <2>2 DEF IndInv, ReadsAreChecked, RunsHaveResults, TypeOK, Run
  <2>7. NoRowHasNoVersion' /\ DecisionMatchesLog'
    BY <2>1, <2>2, <2>3 DEF IndInv, NoRowHasNoVersion, DecisionMatchesLog, Decisions
  <2> QED BY <2>4, <2>5, <2>6, <2>7 DEF IndInv
<1>3. CASE Decide(c) /\ AtVersion(req[c].expected)
  <2>1. /\ mission = req[c].read /\ mission.status = "AWAITING_APPROVAL"
        /\ req[c].to \in Decisions
    BY <1>0, <1>3, CurrentRead DEF Decide, IndInv, ReadsAreChecked
  <2>2. /\ mission' = MissionRow(req[c].to, mission.version + 1, mission.proposal)
        /\ req' = [req EXCEPT ![c] = NoRequest]
        /\ receipts' = Append(receipts, [decision |-> req[c].to,
                                         evidence |-> req[c].read.proposal])
        /\ UNCHANGED <<lease, phase, runs, crashes, rejected>>
    BY <1>3 DEF Decide
  <2>3. /\ mission' \in MissionRows /\ mission'.status = req[c].to
        /\ mission'.proposal = mission.proposal
        /\ mission'.version = mission.version + 1
    BY <1>t, <2>1, <2>2 DEF MissionRow, MissionRows, Statuses, Decisions
  <2>4. receipts = << >>
    BY <2>1 DEF IndInv, DecisionMatchesLog, Decisions
  <2>5. receipts' = <<[decision |-> mission'.status, evidence |-> mission'.proposal]>>
    BY <2>1, <2>2, <2>3, <2>4
  <2>6. NoRowHasNoVersion' /\ DecisionMatchesLog'
    BY <2>1, <2>3, <2>5 DEF NoRowHasNoVersion, DecisionMatchesLog, Decisions
  <2>7. TypeOK'
    <3>1. receipts' \in Seq([decision : Decisions, evidence : Proposals \cup {NoProposal}])
      BY <1>t, <2>1, <2>3, <2>5
    <3> QED BY <1>a, <2>2, <2>3, <3>1 DEF IndInv, TypeOK
  <2>8. ReadsAreOrdered'
    <3>1. \A d \in Clients : req'[d] = req[d] \/ req'[d].stage = "idle"
      BY <1>a, <2>2 DEF IndInv, TypeOK
    <3> QED BY <2>3, <3>1, OrderKept
  <2>9. ReadsAreChecked' /\ RunsHaveResults'
    BY <1>a, <2>2 DEF IndInv, ReadsAreChecked, RunsHaveResults, TypeOK
  <2> QED BY <2>6, <2>7, <2>8, <2>9 DEF IndInv
<1>4. CASE \/ RequestRejected(c)
           \/ /\ ~AtVersion(req[c].expected)
              /\ SetQueued(c) \/ SetRunning(c) \/ Decide(c)
  <2>1. /\ UNCHANGED <<mission, receipts, lease, phase, runs, crashes>>
        /\ req' = [req EXCEPT ![c] = NoRequest]
        /\ rejected' \in 0..MaxRejected
    BY <1>4 DEF RequestRejected, SetQueued, SetRunning, Decide, IndInv, TypeOK
  <2>2. TypeOK'
    BY <1>a, <2>1 DEF IndInv, TypeOK
  <2>3. ReadsAreOrdered'
    <3>1. \A d \in Clients : req'[d] = req[d] \/ req'[d].stage = "idle"
      BY <1>a, <2>1 DEF IndInv, TypeOK
    <3> QED BY <1>t, <2>1, <3>1, OrderKept
  <2>4. ReadsAreChecked'
    BY <1>a, <2>1 DEF IndInv, ReadsAreChecked, TypeOK
  <2>5. RunsHaveResults' /\ NoRowHasNoVersion' /\ DecisionMatchesLog'
    BY <2>1 DEF IndInv, RunsHaveResults, NoRowHasNoVersion, DecisionMatchesLog
  <2> QED BY <2>2, <2>3, <2>4, <2>5 DEF IndInv
<1> QED BY <1>1, <1>2, <1>3, <1>4

\* The steps of a pipeline run: its result changes the row only if RUNNING.
LEMMA RunSteps ==
    ASSUME IndInv, NEW r \in Instances \cup Clients, RunStep(r)
    PROVE  IndInv'
<1> USE MissionConstants
<1> DEFINE RunType == [stage : {"idle", "working", "store", "caught"},
                       inst : Instances \cup {"nobody"},
                       to : Ends \cup {"NONE"}, proposal : Proposals \cup {NoProposal}]
<1>t. /\ mission \in MissionRows /\ mission.version \in Nat
      /\ mission.proposal \in Proposals \cup {NoProposal}
      /\ runs[r] \in RunType
  BY DEF IndInv, TypeOK, MissionRows
<1>1. /\ UNCHANGED <<receipts, lease, phase, req, crashes>>
      /\ rejected' \in 0..MaxRejected
  BY DEF RunStep, execute, Throw, StoreResult, StoreRejected, IndInv, TypeOK
<1>2. PICK n \in RunType : /\ runs' = [runs EXCEPT ![r] = n]
                           /\ n.stage \in {"store", "caught"} => n.to \in Ends
  <2>1. NoRun \in RunType /\ NoRun.stage = "idle"
    BY DEF NoRun, Run
  <2>2. Run("caught", runs[r].inst, "FAILED", NoProposal) \in RunType
        /\ Run("caught", runs[r].inst, "FAILED", NoProposal).to \in Ends
    BY <1>t DEF Run, Ends
  <2>3. \A to \in Ends, p \in Proposals \cup {NoProposal} :
           /\ Run("store", runs[r].inst, to, p) \in RunType
           /\ Run("store", runs[r].inst, to, p).to \in Ends
    BY <1>t DEF Run
  <2>4. CASE \E to \in Ends, p \in Proposals \cup {NoProposal} : execute(r, to, p)
    BY <2>3, <2>4 DEF execute
  <2>5. CASE Throw(r)
    BY <2>2, <2>5 DEF Throw
  <2>6. CASE StoreResult(r)
    BY <2>1, <2>6 DEF StoreResult
  <2>7. CASE StoreRejected(r)
    BY <2>1, <2>2, <2>7 DEF StoreRejected
  <2> QED BY <2>4, <2>5, <2>6, <2>7 DEF RunStep
<1>3. \/ mission' = mission
      \/ /\ mission.status = "RUNNING" /\ mission' \in MissionRows
         /\ mission'.version = mission.version + 1 /\ mission'.status \in Ends
  <2>1. CASE StoreResult(r)
    <3>1. runs[r].to \in Ends /\ runs[r].proposal \in Proposals \cup {NoProposal}
      BY <1>t, <2>1 DEF StoreResult, IndInv, RunsHaveResults
    <3> QED BY <1>t, <2>1, <3>1
            DEF StoreResult, transitionFromRunning, MissionRow, MissionRows, Ends, Statuses
  <2> QED BY <2>1 DEF RunStep, execute, Throw, StoreRejected
<1>4. TypeOK'
  BY <1>1, <1>2, <1>3 DEF IndInv, TypeOK
<1>5. ReadsAreOrdered'
  BY <1>1, <1>3, <1>t, OrderKept
<1>6. ReadsAreChecked'
  BY <1>1 DEF IndInv, ReadsAreChecked
<1>7. RunsHaveResults'
  BY <1>2 DEF IndInv, RunsHaveResults, TypeOK
<1>8. NoRowHasNoVersion' /\ DecisionMatchesLog'
  BY <1>1, <1>3 DEF IndInv, NoRowHasNoVersion, DecisionMatchesLog, Decisions, Ends
<1> QED BY <1>4, <1>5, <1>6, <1>7, <1>8 DEF IndInv

\* Recovery, crashes and restarts: the row and the log stay, requests and
\* runs go on or are dropped, and a new run has no result yet.
LEMMA InstanceSteps ==
    ASSUME IndInv, NEW i \in Instances, InstanceStep(i)
    PROVE  IndInv'
<1> USE MissionConstants
<1>1. /\ UNCHANGED <<mission, receipts>>
      /\ crashes' \in 0..MaxCrashes /\ rejected' \in 0..MaxRejected
  BY DEF InstanceStep, Scan, Claim, RecoveryRejected, Crash, Restart, IndInv, TypeOK
<1>2. /\ phase' \in [Instances -> {"down", "scan", "claim", "serving"}]
      /\ lease' \in [owner : {"nobody", "startup-recovery"}, expires : {"none", "future", "past"},
                     holders : SUBSET Instances]
  <2>1. CASE Scan(i) \/ RecoveryRejected(i) \/ Restart(i)
    BY <2>1 DEF Scan, RecoveryRejected, Restart, IndInv, TypeOK
  <2>2. CASE Claim(i)
    BY <2>2 DEF Claim, RecoveryOwner, IndInv, TypeOK
  <2>3. CASE Crash(i)
    BY <2>3 DEF Crash, IndInv, TypeOK
  <2> QED BY <2>1, <2>2, <2>3 DEF InstanceStep
<1>3. /\ req' = [c \in Clients |-> req'[c]]
      /\ \A c \in Clients : req'[c] \in {req[c], NoRequest}
  BY DEF InstanceStep, Scan, Claim, RecoveryRejected, Crash, Restart, IndInv, TypeOK
<1>4. /\ runs' = [r \in Instances \cup Clients |-> runs'[r]]
      /\ \A r \in Instances \cup Clients :
           runs'[r] \in {runs[r], NoRun, Run("working", i, "NONE", NoProposal)}
  BY DEF InstanceStep, Scan, Claim, onRunning, RecoveryRejected, Crash, Restart,
         IndInv, TypeOK
<1>5. /\ NoRequest \in [stage : {"idle", "queue", "run", "decide"},
                        inst : Instances \cup {"nobody"}, expected : Nat,
                        read : MissionRows, to : Statuses]
      /\ NoRequest.stage = "idle"
  BY DEF NoRequest, Request, NoMission, MissionRow, MissionRows, Statuses
<1>6. TypeOK'
  <2>1. req' \in [Clients -> [stage : {"idle", "queue", "run", "decide"},
                              inst : Instances \cup {"nobody"}, expected : Nat,
                              read : MissionRows, to : Statuses]]
    BY <1>3, <1>5 DEF IndInv, TypeOK
  <2>2. runs' \in [Instances \cup Clients ->
                     [stage : {"idle", "working", "store", "caught"},
                      inst : Instances \cup {"nobody"},
                      to : Ends \cup {"NONE"}, proposal : Proposals \cup {NoProposal}]]
    BY <1>4 DEF NoRun, Run, IndInv, TypeOK
  <2> QED BY <1>1, <1>2, <2>1, <2>2 DEF IndInv, TypeOK
<1>7. ReadsAreOrdered'
  BY <1>1, <1>3, <1>5, OrderKept DEF IndInv, TypeOK
<1>8. ReadsAreChecked'
  BY <1>3, <1>5 DEF IndInv, ReadsAreChecked
<1>9. RunsHaveResults'
  BY <1>4 DEF IndInv, RunsHaveResults, NoRun, Run
<1>10. NoRowHasNoVersion' /\ DecisionMatchesLog'
  BY <1>1 DEF IndInv, NoRowHasNoVersion, DecisionMatchesLog
<1> QED BY <1>6, <1>7, <1>8, <1>9, <1>10 DEF IndInv

\* The inductive invariant holds in every reachable state.
THEOREM MissionInvariance == Spec => []IndInv
<1> USE MissionConstants
<1>1. IndInv /\ [Next]_vars => IndInv'
  <2> SUFFICES ASSUME IndInv, [Next]_vars PROVE IndInv'
    OBVIOUS
  <2>1. CASE createMission
    <3>1. /\ UNCHANGED <<receipts, lease, phase, req, runs, crashes, rejected>>
          /\ mission.status = "NONE" /\ mission' = MissionRow("DRAFT", 1, NoProposal)
      BY <2>1 DEF createMission
    <3>2. mission' \in MissionRows /\ mission'.status = "DRAFT" /\ mission'.version = 1
      BY <3>1 DEF MissionRow, MissionRows, Statuses
    <3>3. TypeOK'
      BY <3>1, <3>2 DEF IndInv, TypeOK
    <3>4. ReadsAreOrdered'
      <4>1. mission'.version = mission.version + 1
        BY <3>1, <3>2 DEF IndInv, NoRowHasNoVersion
      <4> QED BY <3>1, <3>2, <4>1, OrderKept
    <3>5. /\ ReadsAreChecked' /\ RunsHaveResults'
          /\ NoRowHasNoVersion' /\ DecisionMatchesLog'
      BY <3>1, <3>2 DEF IndInv, ReadsAreChecked, RunsHaveResults, NoRowHasNoVersion,
                        DecisionMatchesLog, Decisions
    <3> QED BY <3>3, <3>4, <3>5 DEF IndInv
  <2>2. CASE \E c \in Clients : RequestStep(c)
    BY <2>2, RequestBegins, RequestWrites DEF RequestStep
  <2>3. CASE \E r \in Instances \cup Clients : RunStep(r)
    BY <2>3, RunSteps
  <2>4. CASE \E i \in Instances : InstanceStep(i)
    BY <2>4, InstanceSteps
  <2>5. CASE LeaseExpires \/ UNCHANGED vars
    <3>1. UNCHANGED <<mission, receipts, phase, req, runs, crashes, rejected>>
      BY <2>5 DEF LeaseExpires, vars
    <3>2. TypeOK'
      BY <2>5, <3>1 DEF LeaseExpires, vars, IndInv, TypeOK
    <3>3. /\ ReadsAreOrdered' /\ ReadsAreChecked' /\ RunsHaveResults'
          /\ NoRowHasNoVersion' /\ DecisionMatchesLog'
      BY <3>1 DEF IndInv, ReadsAreOrdered, ReadsAreChecked, RunsHaveResults,
                  NoRowHasNoVersion, DecisionMatchesLog, Active
    <3> QED BY <3>2, <3>3 DEF IndInv
  <2> QED BY <2>1, <2>2, <2>3, <2>4, <2>5 DEF Next
<1> QED BY <1>1, InitIndInv, PTL DEF Spec

\* Type correctness.
THEOREM MissionTypes == Spec => []TypeOK
BY MissionInvariance, PTL DEF IndInv

\* An update that succeeds acts on the row that was checked.
THEOREM UpdatesActOnCheckedRow == Spec => []CheckedRowIsCurrent
<1>1. IndInv => CheckedRowIsCurrent
  BY CurrentRead DEF CheckedRowIsCurrent, Active
<1> QED BY <1>1, MissionInvariance, PTL

\* The decision log holds exactly the decision the row shows.
THEOREM LogHoldsTheDecision == Spec => []DecisionMatchesLog
BY MissionInvariance, PTL DEF IndInv

\* No late or recovered pipeline run overwrites a mission that left RUNNING.
THEOREM DecisionsStand == Spec => LateResultsAreDropped
<1>1. ASSUME IndInv, [Next]_vars, mission.status \in Ends \cup Decisions,
             mission' # mission
      PROVE  /\ mission.status = "AWAITING_APPROVAL"
             /\ mission'.status \in Decisions
             /\ mission'.proposal = mission.proposal
  <2>1. PICK c \in Clients : SetQueued(c) \/ SetRunning(c) \/ Decide(c)
    BY <1>1 DEF Next, vars, createMission, RequestStep, RunStep, InstanceStep,
         LeaseExpires, executeMission, approveMission, rejectMission,
         RequestRejected, execute, Throw, StoreResult, StoreRejected,
         transitionFromRunning, Scan, Claim, RecoveryRejected, Crash, Restart,
         Ends, Decisions
  <2>2. AtVersion(req[c].expected) /\ Active(c)
    BY <1>1, <2>1 DEF SetQueued, SetRunning, Decide, Active
  <2>3. mission = req[c].read
    BY <1>1, <2>2, CurrentRead
  <2>4. /\ Decide(c) /\ req[c].to \in Decisions
        /\ mission.status = "AWAITING_APPROVAL"
    BY <1>1, <2>1, <2>3 DEF SetQueued, SetRunning, Decide, IndInv, ReadsAreChecked,
         Ends, Decisions
  <2> QED BY <2>2, <2>4 DEF Decide, MissionRow
<1>2. IndInv /\ [Next]_vars
        => [mission.status \in Ends \cup Decisions /\ mission' # mission
              => /\ mission.status = "AWAITING_APPROVAL"
                 /\ mission'.status \in Decisions
                 /\ mission'.proposal = mission.proposal]_vars
  BY <1>1
<1> QED BY <1>2, MissionInvariance, PTL DEF Spec, LateResultsAreDropped
=============================================================================
