------------------------------- MODULE Journal -------------------------------
(* The general journal: the commands that create, edit, delete, approve and *)
(* declare journal entries, and the transactional apply that posts a        *)
(* monthly-close proposal and closes its period.                            *)
(*                                                                          *)
(* Every command reads the entry (its row, then its lines), decides, and    *)
(* only then opens the transaction that writes, so what it decided on may   *)
(* be stale.  The transactions run at READ COMMITTED: a statement waits for *)
(* a row another open transaction has written, and PostgreSQL aborts one of *)
(* two transactions that wait for each other.  An open transaction is the   *)
(* state of its command (its locks and what it will write); the tables are  *)
(* what is committed.                                                       *)
(*                                                                          *)
(* An entry's lines are written by one INSERT, so one tag stands for the    *)
(* lines of one write; those written with their entry carry its id.  One    *)
(* company and one fiscal period are modelled; numbers, dates, accounts and *)
(* amounts are left out, except whether an entry of a proposal balances.    *)
EXTENDS Naturals, Sequences, FiniteSets

CONSTANTS
    Users,          \* the requests that may be in flight at once
    Missions,       \* monthly-close missions of the period
    Proposal,       \* mission -> for each proposed entry, whether it balances
    NoProposal,     \* the Proposal of a mission that has none
    Drafts,         \* how many drafts the journal already holds
    MaxFresh,       \* bound: entry ids and tags ever generated
    MaxCommands,    \* bound: commands ever received
    MaxFaults       \* bound: transactions cut off by a lost connection

ASSUME MissionAssumption ==
    Proposal \in [Missions -> Seq(BOOLEAN) \cup {NoProposal}]
ASSUME BoundAssumption ==
    /\ Drafts \in Nat /\ MaxFresh \in Nat
    /\ MaxCommands \in Nat /\ MaxFaults \in Nat

(* A command generates one id or tag, an apply one for each proposed entry: *)
(* there are enough of them, and no step waits for one (fresh \in Fresh).   *)
ASSUME FreshAssumption ==
    \E n \in 1..MaxFresh :
        /\ MaxFresh >= Drafts + n * MaxCommands
        /\ \A m \in Missions : Proposal[m] = NoProposal \/ Len(Proposal[m]) <= n

VARIABLES
    entries,    \* journal_entries: id -> status, "none" where there is no row
    lines,      \* journal_entry_lines: id -> the tags of its lines
    period,     \* accounting_periods.status
    gates,      \* close_gates.status of the period
    mission,    \* accounting_missions.status
    receipts,   \* mission_receipts: the mission and the entries it posted
    cmd,        \* user -> the command in progress
    fresh,      \* the next unused id or tag
    commands, faults    \* received and injected so far

vars == <<entries, lines, period, gates, mission, receipts, cmd, fresh,
          commands, faults>>
tables == <<entries, lines, period, gates, mission, receipts>>

Fresh == 1..MaxFresh
Status == {"borrador", "mayorizado", "declarado"}
Editing == {"edit", "editHeader", "approve", "declare"}
Kinds == Editing \cup {"create", "delete", "mayorizar", "apply"}
Steps == {"idle", "load", "row", "lines", "decide", "updateRow", "select",
          "deleteLines", "lockLines", "commitUpdate", "deleteRow", "cascade",
          "commitDelete", "insert", "lockPeriod", "post", "finish"}

(* No command: nothing read, no transaction and no lock.                    *)
Idle == [kind |-> "none", at |-> "idle", entry |-> 0, mission |-> NoProposal,
         status |-> "none", body |-> {}, seen |-> {}, held |-> {},
         row |-> FALSE, posted |-> <<>>]

TypeOK ==
    /\ entries \in [Fresh -> Status \cup {"none"}]
    /\ lines \in [Fresh -> SUBSET Fresh]
    /\ period \in {"abierto", "cerrado_final"}
    /\ gates \in {"OPEN", "PASSED"}
    /\ mission \in [Missions -> {"APPROVED", "COMPLETED"}]
    /\ receipts \subseteq [mission: Missions, posted: Seq(Fresh)]
    /\ cmd \in [Users -> [kind: Kinds \cup {"none"}, at: Steps,
                          entry: Fresh \cup {0},
                          mission: Missions \cup {NoProposal},
                          status: Status \cup {"none"},
                          body: SUBSET Fresh, seen: SUBSET Fresh,
                          held: SUBSET Fresh, row: BOOLEAN,
                          posted: Seq(Fresh)]]
    /\ fresh \in 1..(MaxFresh + 1)
    /\ commands \in 0..MaxCommands
    /\ faults \in 0..MaxFaults

(* An open period with open gates.  The apply never looks at the mission's   *)
(* status, so APPROVED stands for any status a mission has before it.       *)
Init ==
    /\ entries = [e \in Fresh |-> IF e <= Drafts THEN "borrador" ELSE "none"]
    /\ lines = [e \in Fresh |-> IF e <= Drafts THEN {e} ELSE {}]
    /\ period = "abierto"
    /\ gates = "OPEN"
    /\ mission = [m \in Missions |-> "APPROVED"]
    /\ receipts = {}
    /\ cmd = [u \in Users |-> Idle]
    /\ fresh = Drafts + 1
    /\ commands = 0
    /\ faults = 0

----------------------------------------------------------------------------
(* Locks.  A transaction holds the entry row it wrote, the lines it deleted *)
(* and the period row it selected FOR UPDATE until it ends.                 *)

RowHeld(e, u) == \E v \in Users \ {u} : cmd[v].row /\ cmd[v].entry = e
LinesHeld(tags, u) == \E v \in Users \ {u} : cmd[v].held \cap tags # {}
PeriodHeld(u) == \E v \in Users \ {u} : cmd[v].at \in {"post", "finish"}

(* The transaction of u waits for a lock that v holds.                      *)
Waits(u, v) ==
    LET c == cmd[u]
        d == cmd[v]
    IN  \/ c.at \in {"updateRow", "deleteRow"} /\ d.row /\ d.entry = c.entry
        \/ c.at = "lockLines" /\ d.held \cap c.seen # {}
        \/ c.at = "cascade" /\ d.held \cap lines[c.entry] # {}

Goto(u, step) == cmd' = [cmd EXCEPT ![u].at = step]

(* The command answers, with a result or an error; its transaction is over. *)
End(u) == cmd' = [cmd EXCEPT ![u] = Idle]

----------------------------------------------------------------------------
(* The commands.                                                            *)

(* A request names an entry that was created once, or a mission.            *)
Begin(u) ==
    /\ cmd[u] = Idle
    /\ commands < MaxCommands
    /\ commands' = commands + 1
    /\ \/ cmd' = [cmd EXCEPT ![u].kind = "create", ![u].at = "insert"]
       \/ \E k \in Editing \cup {"delete", "mayorizar"}, e \in 1..(fresh - 1) :
            /\ entries[e] # "none"
            /\ cmd' = [cmd EXCEPT ![u].kind = k, ![u].at = "row",
                                  ![u].entry = e]
       \/ \E m \in Missions :
            cmd' = [cmd EXCEPT ![u].kind = "apply", ![u].at = "load",
                               ![u].mission = m]
    /\ UNCHANGED <<tables, fresh, faults>>

(* CreateJournalEntryUseCase: a draft with new lines, in one transaction;   *)
(* an account that does not exist ends it before.                           *)
Create(u) ==
    /\ cmd[u].at = "insert"
    /\ \/ /\ fresh \in Fresh
          /\ entries' = [entries EXCEPT ![fresh] = "borrador"]
          /\ lines' = [lines EXCEPT ![fresh] = {fresh}]
          /\ fresh' = fresh + 1
       \/ UNCHANGED <<entries, lines, fresh>>
    /\ End(u)
    /\ UNCHANGED <<period, gates, mission, receipts, commands, faults>>

(* findById, first query: the entry's row; none is "Asiento no encontrado". *)
ReadRow(u) ==
    /\ cmd[u].at = "row"
    /\ IF entries[cmd[u].entry] = "none"
       THEN End(u)
       ELSE cmd' = [cmd EXCEPT ![u].status = entries[cmd[u].entry],
                               ![u].at = "lines"]
    /\ UNCHANGED <<tables, fresh, commands, faults>>

(* findById, second query: the entry's lines.  An entry deleted in between  *)
(* has none, and JournalEntry's constructor throws.                         *)
ReadLines(u) ==
    /\ cmd[u].at = "lines"
    /\ IF lines[cmd[u].entry] = {}
       THEN End(u)
       ELSE cmd' = [cmd EXCEPT ![u].body = lines[cmd[u].entry],
                               ![u].at = "decide"]
    /\ UNCHANGED <<tables, fresh, commands, faults>>

(* canBeModified, canBeDeleted, canBePosted, canBeDeclared: decided on the  *)
(* entry that was read.  mayorizar looks its period up by the organization's*)
(* number in a uuid column, which the database refuses.                     *)
Permitted(kind, status) ==
    CASE kind = "declare" -> status = "mayorizado"
      [] kind = "mayorizar" -> FALSE
      [] OTHER -> status = "borrador"

(* mutant: a status the table does not know *)
NewStatusUnknown(kind, status) ==
    IF kind = "approve" THEN "aprobado" ELSE status

(* The status the entity that will be stored carries.                       *)
NewStatus(kind, status) ==
    CASE kind = "approve" -> "mayorizado"
      [] kind = "declare" -> "declarado"
      [] OTHER -> status

(* UpdateJournalEntryUseCase: the entity it will store has new lines, if    *)
(* the edit has some and their accounts exist, else the lines that were     *)
(* read; and the status that was read.                                      *)
UpdateEntry(u) ==
    LET c == cmd[u] IN
    /\ c.at = "decide"
    /\ c.kind \in {"edit", "editHeader"}
    /\ \/ /\ c.kind = "edit" \/ ~Permitted(c.kind, c.status)
          /\ End(u)
          /\ fresh' = fresh
       \/ /\ c.kind = "editHeader"
          /\ Permitted(c.kind, c.status)
          /\ Goto(u, "updateRow")
          /\ fresh' = fresh
       \/ /\ c.kind = "edit"
          /\ Permitted(c.kind, c.status)
          /\ fresh \in Fresh
          /\ cmd' = [cmd EXCEPT ![u].at = "updateRow", ![u].body = {fresh}]
          /\ fresh' = fresh + 1
    /\ UNCHANGED <<tables, commands, faults>>

(* UpdateJournalEntryStatusUseCase: the lines that were read, a new status. *)
UpdateStatus(u) ==
    LET c == cmd[u] IN
    /\ c.at = "decide"
    /\ c.kind \in {"approve", "declare", "mayorizar"}
    /\ IF Permitted(c.kind, c.status)
       THEN cmd' = [cmd EXCEPT ![u].at = "updateRow",
                               ![u].status = NewStatus(c.kind, c.status)]
       ELSE End(u)
    /\ UNCHANGED <<tables, fresh, commands, faults>>

(* DeleteJournalEntryUseCase, and rejectJournalEntryProposal, which does    *)
(* the same.                                                                *)
DeleteEntry(u) ==
    /\ cmd[u].at = "decide"
    /\ cmd[u].kind = "delete"
    /\ IF Permitted("delete", cmd[u].status) THEN Goto(u, "select") ELSE End(u)
    /\ UNCHANGED <<tables, fresh, commands, faults>>

----------------------------------------------------------------------------
(* PostgresJournalEntryRepository.update: one transaction.                  *)

(* mutant: the row is looked up, and updated only after its lines *)
UpdateRowUnlocked(u) ==
    /\ cmd[u].at = "updateRow"
    /\ IF entries[cmd[u].entry] = "none" THEN End(u) ELSE Goto(u, "deleteLines")
    /\ UNCHANGED <<tables, fresh, commands, faults>>

(* mutant: an upsert, for which a row that is gone is no error *)
UpdateRowUpserts(u) ==
    /\ cmd[u].at = "updateRow"
    /\ ~RowHeld(cmd[u].entry, u)
    /\ cmd' = [cmd EXCEPT ![u].row = TRUE, ![u].at = "deleteLines"]
    /\ UNCHANGED <<tables, fresh, commands, faults>>

(* UPDATE journal_entries: waits for the row; no row is an error.           *)
UpdateRow(u) ==
    LET c == cmd[u] IN
    /\ c.at = "updateRow"
    /\ ~RowHeld(c.entry, u)
    /\ IF entries[c.entry] = "none"
       THEN End(u)
       ELSE cmd' = [cmd EXCEPT ![u].row = TRUE, ![u].at = "deleteLines"]
    /\ UNCHANGED <<tables, fresh, commands, faults>>

(* DELETE FROM journal_entry_lines: the statement's snapshot of the lines.  *)
DeleteLines(u) ==
    /\ cmd[u].at = "deleteLines"
    /\ cmd' = [cmd EXCEPT ![u].seen = lines[cmd[u].entry],
                          ![u].at = "lockLines"]
    /\ UNCHANGED <<tables, fresh, commands, faults>>

(* It waits for those another transaction has deleted, and skips the ones   *)
(* that are gone by then.                                                   *)
LockLines(u) ==
    LET c == cmd[u] IN
    /\ c.at = "lockLines"
    /\ ~LinesHeld(c.seen, u)
    /\ cmd' = [cmd EXCEPT ![u].held = c.seen \cap lines[c.entry],
                          ![u].at = IF c.kind = "delete" THEN "deleteRow"
                                    ELSE "commitUpdate"]
    /\ UNCHANGED <<tables, fresh, commands, faults>>

(* insertLines and COMMIT: the row, the deletions and the new lines appear. *)
CommitUpdate(u) ==
    LET c == cmd[u] IN
    /\ c.at = "commitUpdate"
    /\ entries' = [entries EXCEPT ![c.entry] = c.status]
    /\ lines' = [lines EXCEPT ![c.entry] = (@ \ c.held) \cup c.body]
    /\ End(u)
    /\ UNCHANGED <<period, gates, mission, receipts, fresh, commands, faults>>

----------------------------------------------------------------------------
(* PostgresJournalEntryRepository.delete: one transaction.                  *)

(* The ownership SELECT takes no lock; no row is an error.                  *)
SelectOwned(u) ==
    /\ cmd[u].at = "select"
    /\ IF entries[cmd[u].entry] = "none" THEN End(u) ELSE Goto(u, "deleteLines")
    /\ UNCHANGED <<tables, fresh, commands, faults>>

(* DELETE FROM journal_entries: waits for the row; none left is no error.   *)
DeleteRow(u) ==
    LET c == cmd[u] IN
    /\ c.at = "deleteRow"
    /\ ~RowHeld(c.entry, u)
    /\ cmd' = [cmd EXCEPT ![u].row = TRUE, ![u].at = "cascade"]
    /\ UNCHANGED <<tables, fresh, commands, faults>>

(* ON DELETE CASCADE: the lines written since the first statement go too.   *)
Cascade(u) ==
    LET c == cmd[u] IN
    /\ c.at = "cascade"
    /\ ~LinesHeld(lines[c.entry], u)
    /\ cmd' = [cmd EXCEPT ![u].held = @ \cup lines[c.entry],
                          ![u].at = "commitDelete"]
    /\ UNCHANGED <<tables, fresh, commands, faults>>

CommitDelete(u) ==
    LET c == cmd[u] IN
    /\ c.at = "commitDelete"
    /\ entries' = [entries EXCEPT ![c.entry] = "none"]
    /\ lines' = [lines EXCEPT ![c.entry] = @ \ c.held]
    /\ End(u)
    /\ UNCHANGED <<period, gates, mission, receipts, fresh, commands, faults>>

----------------------------------------------------------------------------
(* TransactionalApplyUseCase.                                               *)

(* The mission and its proposal are read before the transaction.            *)
LoadMission(u) ==
    /\ cmd[u].at = "load"
    /\ IF Proposal[cmd[u].mission] = NoProposal THEN End(u)
       ELSE Goto(u, "lockPeriod")
    /\ UNCHANGED <<tables, fresh, commands, faults>>

(* mutant: a SELECT without FOR UPDATE *)
LockPeriodPlain(u) ==
    /\ cmd[u].at = "lockPeriod"
    /\ IF period # "abierto" THEN End(u) ELSE Goto(u, "post")
    /\ UNCHANGED <<tables, fresh, commands, faults>>

(* SELECT ... FOR UPDATE on the period: it waits, and reads what the other  *)
(* transaction left; a period that is not open ends the apply.              *)
LockPeriod(u) ==
    /\ cmd[u].at = "lockPeriod"
    /\ ~PeriodHeld(u)
    /\ IF period # "abierto" THEN End(u) ELSE Goto(u, "post")
    /\ UNCHANGED <<tables, fresh, commands, faults>>

(* JournalEntryPostingService.post, once per proposed entry: one that does  *)
(* not balance throws, and the transaction is rolled back.                  *)
Post(u) ==
    LET c == cmd[u]
        n == Len(c.posted) + 1
    IN
    /\ c.at = "post"
    /\ \/ /\ n > Len(Proposal[c.mission])
          /\ Goto(u, "finish")
          /\ fresh' = fresh
       \/ /\ n <= Len(Proposal[c.mission])
          /\ ~Proposal[c.mission][n]
          /\ End(u)
          /\ fresh' = fresh
       \/ /\ n <= Len(Proposal[c.mission])
          /\ Proposal[c.mission][n]
          /\ fresh \in Fresh
          /\ cmd' = [cmd EXCEPT ![u].posted = Append(@, fresh)]
          /\ fresh' = fresh + 1
    /\ UNCHANGED <<tables, commands, faults>>

(* mutant: the default of the column *)
PostedAsDraft == "borrador"

(* The status post() stores when the caller names it.                       *)
PostedStatus == "mayorizado"

(* closeFinal, the gates, the mission, the receipt, COMMIT.                 *)
Finish(u) ==
    LET c == cmd[u]
        new == {c.posted[i] : i \in DOMAIN c.posted}
    IN
    /\ c.at = "finish"
    /\ entries' = [e \in Fresh |-> IF e \in new THEN PostedStatus
                                   ELSE entries[e]]
    /\ lines' = [e \in Fresh |-> IF e \in new THEN {e} ELSE lines[e]]
    /\ period' = "cerrado_final"
    /\ gates' = "PASSED"
    /\ mission' = [mission EXCEPT ![c.mission] = "COMPLETED"]
    /\ receipts' = receipts \cup {[mission |-> c.mission, posted |-> c.posted]}
    /\ End(u)
    /\ UNCHANGED <<fresh, commands, faults>>

----------------------------------------------------------------------------
(* PostgreSQL.                                                              *)

(* Two transactions that wait for each other: one of them is aborted.       *)
DeadlockAbort(u) ==
    /\ \E v \in Users \ {u} : Waits(u, v) /\ Waits(v, u)
    /\ End(u)
    /\ UNCHANGED <<tables, fresh, commands, faults>>

(* A lost connection: the open transaction is rolled back.                  *)
LoseConnection(u) ==
    /\ cmd[u].at \notin {"idle"}
    /\ faults < MaxFaults
    /\ faults' = faults + 1
    /\ End(u)
    /\ UNCHANGED <<tables, fresh, commands>>

CommandStep(u) ==
    \/ Create(u) \/ ReadRow(u) \/ ReadLines(u)
    \/ UpdateEntry(u) \/ UpdateStatus(u) \/ DeleteEntry(u)
    \/ UpdateRow(u) \/ DeleteLines(u) \/ LockLines(u) \/ CommitUpdate(u)
    \/ SelectOwned(u) \/ DeleteRow(u) \/ Cascade(u) \/ CommitDelete(u)
    \/ LoadMission(u) \/ LockPeriod(u) \/ Post(u) \/ Finish(u)
    \/ DeadlockAbort(u)

Next == \E u \in Users : Begin(u) \/ CommandStep(u) \/ LoseConnection(u)

Spec == Init /\ [][Next]_vars

(* A request's statements are sent as the previous one answers, a freed row *)
(* lock wakes its waiters, and the deadlock detector runs after a timeout.  *)
FairSpec == Spec /\ \A u \in Users : WF_vars(CommandStep(u))

----------------------------------------------------------------------------
(* A committed entry has the lines of exactly one write, and lines exist    *)
(* only with their entry, whatever edits, approvals and deletions overlap:  *)
(* the double entry that was validated is the one that is stored, never two *)
(* merged or an orphan.  It rests on the row UPDATE coming first.           *)
OneBody ==
    \A e \in Fresh :
        IF entries[e] = "none" THEN lines[e] = {} ELSE Cardinality(lines[e]) = 1

(* A period is closed exactly when one mission was applied to it: that      *)
(* mission is COMPLETED and no other, the gates are passed, one receipt     *)
(* exists and the entries it names are the whole proposal, all in the       *)
(* ledger, even when two missions, or the same one twice, are applied at    *)
(* the same time, or one fails halfway.                                     *)
CloseIsAllOrNothing ==
    LET done == {m \in Missions : mission[m] = "COMPLETED"} IN
    IF period = "abierto"
    THEN done = {} /\ receipts = {} /\ gates = "OPEN"
    ELSE /\ gates = "PASSED"
         /\ \E m \in Missions, r \in receipts :
              /\ receipts = {r}
              /\ r.mission = m
              /\ done = {m}
              /\ Len(r.posted) = Len(Proposal[m])
              /\ \A i \in DOMAIN r.posted : entries[r.posted[i]] # "none"

(* What a close posted is never edited, reverted to a draft or deleted:     *)
(* no command can have read it as a draft, so no stale decision exists.     *)
ClosingEntriesAreFinal ==
    [][\A r \in receipts : \A i \in DOMAIN r.posted :
          LET e == r.posted[i] IN
          /\ lines'[e] = lines[e]
          /\ entries'[e] \in {entries[e], "declarado"}]_vars

(* The ids that have no row and will get none: the entry was deleted, or    *)
(* the transaction that would have inserted it did not commit.              *)
Gone ==
    {e \in 1..(fresh - 1) :
        /\ entries[e] = "none"
        /\ \A u \in Users : \A i \in DOMAIN cmd[u].posted : cmd[u].posted[i] # e}

(* A deleted entry stays deleted: an edit or an approval that read it       *)
(* before the deletion committed does not write it back, whether it waited  *)
(* for the row or came later, nor does what an aborted apply posted appear. *)
DeletedStaysDeleted == [][\A e \in Gone : entries'[e] = "none"]_vars

(* "Solo se pueden editar asientos en borrador", "Solo se pueden eliminar   *)
(* asientos en borrador": a posted entry stays, with its lines.             *)
PostedIsFinal ==
    [][\A e \in Fresh : entries[e] \in {"mayorizado", "declarado"} =>
          /\ lines'[e] = lines[e]
          /\ entries'[e] \in {entries[e], "declarado"}]_vars
=============================================================================
