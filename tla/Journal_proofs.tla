---------------------------- MODULE Journal_proofs ----------------------------
(***************************************************************************)
(* Proofs about Journal, for any number of users, missions, proposals,     *)
(* drafts, commands and lost connections.                                  *)
(*                                                                         *)
(* OneBody rests on the row of the entry: a transaction that has updated   *)
(* or deleted it holds it alone, so the lines it deletes are the lines     *)
(* that are there when it commits (Holding, Apart).                        *)
(*                                                                         *)
(* CloseIsAllOrNothing rests on the row of the period: one apply at a time *)
(* is past SELECT ... FOR UPDATE, the period is open while it is, and      *)
(* nobody can refer to the entries it posts before it commits (Posting,    *)
(* Apart).                                                                 *)
(*                                                                         *)
(* ClosingEntriesAreFinal needs, of every command on a closing entry, that *)
(* it has read it as posted and with the lines it was posted with          *)
(* (OnClosing).                                                            *)
(***************************************************************************)
EXTENDS Journal, FiniteSetTheorems, TLAPS

Commands == [kind: Kinds \cup {"none"}, at: Steps, entry: Fresh \cup {0},
             mission: Missions \cup {NoProposal}, status: Status \cup {"none"},
             body: SUBSET Fresh, seen: SUBSET Fresh, held: SUBSET Fresh,
             row: BOOLEAN, posted: Seq(Fresh)]

Reading == {"row", "lines", "decide"}
Updating == {"updateRow", "deleteLines", "lockLines", "commitUpdate"}
Deleting == {"select", "deleteLines", "lockLines", "deleteRow", "cascade", "commitDelete"}
Posts == {"post", "finish"}

\* The steps of a command, and what it has read by then.
Shape(c) ==
    /\ c.at \in Reading \cup Updating \cup Deleting => c.entry \in 1..(fresh - 1)
    /\ c.at \notin Reading \cup Updating \cup Deleting => c.entry = 0
    /\ c.at \in Updating \cup Deleting =>
         \/ c.kind = "delete" /\ c.at \in Deleting
         \/ c.kind # "delete" /\ c.at \in Updating
    /\ c.at \in {"lines", "decide", "select"} \cup Updating => c.status # "none"
    /\ c.at \in {"decide", "select"} \cup Updating => Cardinality(c.body) = 1
    /\ c.row <=> \/ c.at \in {"cascade", "commitDelete"}
                 \/ c.kind # "delete" /\ c.at \in {"deleteLines", "lockLines", "commitUpdate"}
    /\ c.at \notin Posts => c.posted = <<>>
    /\ c.at \in {"load", "lockPeriod"} \cup Posts => c.mission \in Missions
    /\ c.at \in {"lockPeriod"} \cup Posts => Proposal[c.mission] # NoProposal
    /\ c.at \in Posts => Len(c.posted) <= Len(Proposal[c.mission])
    /\ c.at = "finish" => Len(c.posted) = Len(Proposal[c.mission])

\* While a transaction holds the row of an entry, its lines do not change.
Holding(c) ==
    /\ c.row /\ c.kind # "delete" => entries[c.entry] # "none"
    /\ c.at = "lockLines" /\ c.kind # "delete" => c.seen = lines[c.entry]
    /\ c.at = "commitUpdate" => c.held = lines[c.entry]
    /\ c.at = "commitDelete" => lines[c.entry] \subseteq c.held

\* What an apply has posted is not in the ledger until it commits.
Posting(c) ==
    /\ c.at \in Posts => period = "abierto"
    /\ \A i \in DOMAIN c.posted : c.posted[i] < fresh /\ entries[c.posted[i]] = "none"

Closing == UNION {{r.posted[i] : i \in DOMAIN r.posted} : r \in receipts}

\* A command on a closing entry has read it as posted; it may declare it.
OnClosing(c) ==
    c.entry \in Closing =>
      /\ c.at \in Reading \cup Updating
      /\ c.at \in {"lines", "decide"} => c.status \in {"mayorizado", "declarado"}
      /\ c.at \in {"decide"} \cup Updating => c.body = {c.entry}
      /\ c.at \in Updating => c.kind = "declare" /\ c.status = "declarado"

CommandOK(c) == Shape(c) /\ Holding(c) /\ Posting(c) /\ OnClosing(c)

\* Two commands: one holds a row, one is past the lock on the period, and neither refers to
\* what the other has not committed yet.
Apart(c, d) ==
    /\ ~(c.row /\ d.row /\ c.entry = d.entry)
    /\ ~(c.at \in Posts /\ d.at \in Posts)
    /\ \A i \in DOMAIN c.posted : c.posted[i] # d.entry
    /\ \A i \in DOMAIN d.posted : d.posted[i] # c.entry

TablesOK ==
    /\ OneBody
    /\ CloseIsAllOrNothing
    /\ \A e \in Fresh : e >= fresh => entries[e] = "none"
    /\ \A e \in Closing : /\ e < fresh /\ lines[e] = {e}
                          /\ entries[e] \in {"mayorizado", "declarado"}

IndInv ==
    /\ TypeOK
    /\ TablesOK
    /\ \A u \in Users : CommandOK(cmd[u])
    /\ \A u, v \in Users : u # v => Apart(cmd[u], cmd[v])

-----------------------------------------------------------------------------
(* Frames *)

LEMMA Bounds == MaxFresh \in Nat /\ Drafts \in Nat /\ Drafts <= MaxFresh
<1>1. PICK n \in 1..MaxFresh : MaxFresh >= Drafts + n * MaxCommands BY FreshAssumption
<1>2. n * MaxCommands \in Nat /\ MaxFresh \in Nat /\ Drafts \in Nat BY BoundAssumption
<1> QED BY <1>1, <1>2

LEMMA FreshType ==
    ASSUME TypeOK
    PROVE  fresh \in Nat /\ fresh >= 1 /\ fresh <= MaxFresh + 1
  BY Bounds DEF TypeOK

LEMMA ClosingType ==
    ASSUME TypeOK
    PROVE  Closing \subseteq Fresh
<1> SUFFICES ASSUME NEW r \in receipts, NEW i \in DOMAIN r.posted PROVE r.posted[i] \in Fresh
  BY DEF Closing
<1>1. r \in [mission: Missions, posted: Seq(Fresh)] BY DEF TypeOK
<1>2. r.posted \in Seq(Fresh) BY <1>1
<1> QED BY <1>2

LEMMA CommandType ==
    ASSUME TypeOK, NEW u \in Users
    PROVE  /\ cmd \in [Users -> Commands] /\ cmd[u] \in Commands
           /\ cmd[u].posted \in Seq(Fresh) /\ \A i \in DOMAIN cmd[u].posted : cmd[u].posted[i] \in Fresh
<1>1. cmd \in [Users -> Commands] /\ cmd[u] \in Commands BY DEF TypeOK, Commands
<1>2. cmd[u].posted \in Seq(Fresh) BY <1>1 DEF Commands
<1> QED BY <1>1, <1>2

LEMMA IdleOK ==
    ASSUME TypeOK
    PROVE  /\ Idle \in Commands /\ Idle.at = "idle" /\ Idle.entry = 0 /\ Idle.row = FALSE
           /\ Idle.posted = <<>> /\ Idle.kind = "none"
           /\ CommandOK(Idle)
           /\ \A v \in Users : Apart(Idle, cmd[v])
<1>1. /\ Idle \in Commands /\ Idle.at = "idle" /\ Idle.entry = 0 /\ Idle.row = FALSE
      /\ Idle.posted = <<>> /\ Idle.kind = "none"
  BY DEF Idle, Commands, Kinds, Steps
<1>2. DOMAIN <<>> = {} OBVIOUS
<1>3. 0 \notin Fresh BY Bounds DEF Fresh
<1>4. CommandOK(Idle)
  BY <1>1, <1>2, <1>3, ClosingType
  DEF CommandOK, Shape, Holding, Posting, OnClosing, Reading, Updating, Deleting, Posts
<1>5. ASSUME NEW v \in Users PROVE Apart(Idle, cmd[v])
  BY <1>1, <1>2, <1>3, CommandType DEF Apart, Posts
<1> QED BY <1>1, <1>4, <1>5

\* A later generation of ids or tags disturbs no command and no table.
LEMMA FreshGrows ==
    ASSUME TypeOK, UNCHANGED tables, fresh' \in {fresh, fresh + 1}, NEW c, CommandOK(c),
           c \in Commands
    PROVE  CommandOK(c)'
<1>0. fresh \in Nat /\ fresh' \in Nat /\ fresh' >= fresh BY FreshType
<1>1. UNCHANGED <<entries, lines, period, gates, mission, receipts>> BY DEF tables
<1>2. Closing' = Closing BY <1>1 DEF Closing
<1>3. Shape(c)'
  <2>1. c.entry \in 1..(fresh - 1) => c.entry \in 1..(fresh' - 1) BY <1>0
  <2> QED BY <2>1 DEF CommandOK, Shape
<1>4. Posting(c)'
  <2>0. c.posted \in Seq(Fresh) BY DEF Commands
  <2>1. \A i \in DOMAIN c.posted : c.posted[i] \in Nat BY <2>0, Bounds DEF Fresh
  <2> QED BY <1>0, <1>1, <2>1 DEF CommandOK, Posting
<1>5. Holding(c)' /\ OnClosing(c)' BY <1>1, <1>2 DEF CommandOK, Holding, OnClosing
<1> QED BY <1>3, <1>4, <1>5 DEF CommandOK

\* A command that moves on without committing anything.
LEMMA MoveKeeps ==
    ASSUME IndInv, NEW u \in Users, NEW c \in Commands, cmd' = [cmd EXCEPT ![u] = c],
           UNCHANGED tables, fresh' \in {fresh, fresh + 1}, fresh' <= MaxFresh + 1,
           commands' \in 0..MaxCommands, faults' \in 0..MaxFaults,
           CommandOK(c)', \A v \in Users \ {u} : Apart(c, cmd[v])
    PROVE  IndInv'
<1>0. TypeOK /\ TablesOK /\ cmd \in [Users -> Commands] BY CommandType DEF IndInv, TypeOK, Commands
<1>1. UNCHANGED <<entries, lines, period, gates, mission, receipts>> BY DEF tables
<1>2. fresh' \in 1..(MaxFresh + 1) /\ fresh' >= fresh /\ fresh \in Nat BY <1>0, FreshType, Bounds
<1>3. TypeOK' BY <1>0, <1>1, <1>2 DEF TypeOK, Commands
<1>4. TablesOK'
  <2>1. Closing' = Closing BY <1>1 DEF Closing
  <2>2. OneBody' /\ CloseIsAllOrNothing' BY <1>0, <1>1 DEF TablesOK, OneBody, CloseIsAllOrNothing
  <2>3. \A e \in Fresh : e \in Nat BY Bounds DEF Fresh
  <2>4. Closing \subseteq Fresh BY <1>0, ClosingType
  <2>5. \A e \in Fresh : e >= fresh' => entries[e] = "none" BY <1>0, <1>2, <2>3 DEF TablesOK
  <2>6. \A e \in Closing : e < fresh' BY <1>0, <1>2, <2>3, <2>4 DEF TablesOK
  <2> QED BY <1>0, <1>1, <2>1, <2>2, <2>5, <2>6 DEF TablesOK
<1>5. \A v \in Users : cmd'[v] = IF v = u THEN c ELSE cmd[v] BY <1>0
<1>6. ASSUME NEW v \in Users PROVE CommandOK(cmd[v])'
  <2>1. CASE v = u BY <1>5, <2>1 DEF CommandOK, Shape, Holding, Posting, OnClosing
  <2>2. CASE v # u
    <3>1. CommandOK(cmd[v]) /\ cmd[v] \in Commands BY <1>0 DEF IndInv
    <3>2. PICK d : d = cmd[v] /\ d = cmd'[v] BY <1>5, <2>2
    <3>3. CommandOK(d) BY <3>1, <3>2
    <3>4. CommandOK(d)' BY <1>0, <3>1, <3>2, <3>3, FreshGrows
    <3> QED BY <3>2, <3>4 DEF CommandOK, Shape, Holding, Posting, OnClosing
  <2> QED BY <2>1, <2>2
<1>7. ASSUME NEW v \in Users, NEW w \in Users, v # w PROVE Apart(cmd[v], cmd[w])'
  BY <1>5, <1>7 DEF IndInv, Apart
<1> QED BY <1>3, <1>4, <1>6, <1>7 DEF IndInv

LEMMA StepKeeps ==
    ASSUME IndInv, NEW u \in Users, NEW c \in Commands, cmd' = [cmd EXCEPT ![u] = c],
           UNCHANGED <<tables, commands, faults>>,
           fresh' \in {fresh, fresh + 1}, fresh' <= MaxFresh + 1,
           CommandOK(c), \A v \in Users \ {u} : Apart(c, cmd[v])
    PROVE  IndInv'
<1>1. TypeOK /\ commands' \in 0..MaxCommands /\ faults' \in 0..MaxFaults BY DEF IndInv, TypeOK
<1>2. CommandOK(c)' BY <1>1, FreshGrows
<1> QED BY <1>1, <1>2, MoveKeeps

\* A command that ends: an answer, an error, an abort or a lost connection.
LEMMA EndKeeps ==
    ASSUME IndInv, NEW u \in Users, End(u), UNCHANGED <<tables, fresh, commands>>,
           faults' \in 0..MaxFaults
    PROVE  IndInv'
<1>0. TypeOK /\ commands' \in 0..MaxCommands BY DEF IndInv, TypeOK
<1>1. PICK c : c = Idle OBVIOUS
<1>2. c \in Commands /\ CommandOK(c) /\ \A v \in Users : Apart(c, cmd[v])
  BY <1>0, <1>1, IdleOK
<1>3. cmd' = [cmd EXCEPT ![u] = c] BY <1>1 DEF End
<1>4. CommandOK(c)' BY <1>0, <1>2, FreshGrows
<1>5. fresh' <= MaxFresh + 1 BY <1>0, FreshType
<1> QED BY <1>0, <1>2, <1>3, <1>4, <1>5, MoveKeeps

\* A command that keeps its entry and takes no lock stays apart from the others.
LEMMA StaysApart ==
    ASSUME IndInv, NEW u \in Users, NEW c \in Commands,
           c.entry = cmd[u].entry, c.posted = cmd[u].posted,
           c.at \in Posts => cmd[u].at \in Posts, c.row => cmd[u].row
    PROVE  \A v \in Users \ {u} : Apart(c, cmd[v])
  BY DEF IndInv, Apart

-----------------------------------------------------------------------------
(* The steps that commit nothing *)

LEMMA BeginKeeps ==
    ASSUME IndInv, NEW u \in Users, Begin(u)
    PROVE  IndInv'
<1>0. /\ TypeOK /\ TablesOK /\ cmd[u] = Idle /\ UNCHANGED <<tables, fresh, faults>>
      /\ faults' \in 0..MaxFaults /\ cmd \in [Users -> Commands]
  BY CommandType DEF IndInv, Begin, TypeOK
<1>1. commands' \in 0..MaxCommands
  <2>1. commands \in 0..MaxCommands BY <1>0 DEF TypeOK
  <2>2. commands < MaxCommands /\ commands' = commands + 1 BY DEF Begin
  <2> QED BY <2>1, <2>2, BoundAssumption
<1>a. Idle \in Commands BY <1>0, IdleOK
<1>2. fresh' \in {fresh, fresh + 1} /\ fresh' <= MaxFresh + 1 /\ fresh \in Nat
  BY <1>0, FreshType
<1>3. DOMAIN <<>> = {} /\ 0 \notin Fresh /\ 0 \notin Closing
  BY <1>0, Bounds, ClosingType DEF Fresh
<1>4. ASSUME NEW c \in Commands, cmd' = [cmd EXCEPT ![u] = c], CommandOK(c),
             c.posted = <<>>, c.row = FALSE, c.at \notin Posts,
             c.entry # 0 => c.entry \in Fresh /\ entries[c.entry] # "none"
      PROVE  IndInv'
  <2>1. CommandOK(c)' BY <1>0, <1>2, <1>4, FreshGrows
  <2>2. ASSUME NEW v \in Users \ {u} PROVE Apart(c, cmd[v])
    <3>1. \A i \in DOMAIN cmd[v].posted :
            cmd[v].posted[i] \in Fresh /\ entries[cmd[v].posted[i]] = "none"
      BY <1>0, CommandType DEF IndInv, CommandOK, Posting
    <3> QED BY <1>3, <1>4, <3>1 DEF Apart
  <2> QED BY <1>0, <1>1, <1>2, <1>4, <2>1, <2>2, MoveKeeps
<1>5. CASE cmd' = [cmd EXCEPT ![u].kind = "create", ![u].at = "insert"]
  <2>1. PICK c : c = [Idle EXCEPT !.kind = "create", !.at = "insert"] OBVIOUS
  <2>2. c \in Commands BY <1>a, <2>1 DEF Commands, Kinds, Steps
  <2>3. c.at = "insert" /\ c.entry = 0 /\ c.row = FALSE /\ c.posted = <<>> /\ c.kind = "create"
    BY <2>1 DEF Idle
  <2>4. cmd' = [cmd EXCEPT ![u] = c] BY <1>0, <1>5, <2>1
  <2>5. CommandOK(c)
    BY <1>3, <2>3
    DEF CommandOK, Shape, Holding, Posting, OnClosing, Reading, Updating, Deleting, Posts
  <2> QED BY <1>4, <2>2, <2>3, <2>4, <2>5 DEF Posts
<1>6. ASSUME NEW k \in Editing \cup {"delete", "mayorizar"}, NEW e \in 1..(fresh - 1),
             entries[e] # "none",
             cmd' = [cmd EXCEPT ![u].kind = k, ![u].at = "row", ![u].entry = e]
      PROVE  IndInv'
  <2>1. PICK c : c = [Idle EXCEPT !.kind = k, !.at = "row", !.entry = e] OBVIOUS
  <2>2. e \in Fresh /\ e # 0 BY <1>0, <1>2, <1>6, FreshType, Bounds DEF Fresh
  <2>3. c \in Commands BY <1>a, <2>1, <2>2 DEF Commands, Kinds, Steps
  <2>4. c.at = "row" /\ c.entry = e /\ c.row = FALSE /\ c.posted = <<>> /\ c.kind = k
    BY <2>1 DEF Idle
  <2>5. cmd' = [cmd EXCEPT ![u] = c] BY <1>0, <1>6, <2>1
  <2>6. CommandOK(c)
    BY <1>3, <1>6, <2>4
    DEF CommandOK, Shape, Holding, Posting, OnClosing, Reading, Updating, Deleting, Posts
  <2> QED BY <1>4, <1>6, <2>2, <2>3, <2>4, <2>5, <2>6 DEF Posts
<1>7. ASSUME NEW m \in Missions,
             cmd' = [cmd EXCEPT ![u].kind = "apply", ![u].at = "load", ![u].mission = m]
      PROVE  IndInv'
  <2>1. PICK c : c = [Idle EXCEPT !.kind = "apply", !.at = "load", !.mission = m] OBVIOUS
  <2>2. c \in Commands BY <1>a, <2>1 DEF Commands, Kinds, Steps
  <2>3. c.at = "load" /\ c.entry = 0 /\ c.row = FALSE /\ c.posted = <<>> /\ c.kind = "apply"
        /\ c.mission = m
    BY <2>1 DEF Idle
  <2>4. cmd' = [cmd EXCEPT ![u] = c] BY <1>0, <1>7, <2>1
  <2>5. CommandOK(c)
    BY <1>3, <2>3
    DEF CommandOK, Shape, Holding, Posting, OnClosing, Reading, Updating, Deleting, Posts
  <2> QED BY <1>4, <2>2, <2>3, <2>4, <2>5 DEF Posts
<1> QED BY <1>5, <1>6, <1>7 DEF Begin

\* The two queries of findById.
LEMMA ReadKeeps ==
    ASSUME IndInv, NEW u \in Users, ReadRow(u) \/ ReadLines(u)
    PROVE  IndInv'
<1>0. /\ TypeOK /\ TablesOK /\ UNCHANGED <<tables, fresh, commands, faults>>
      /\ faults' \in 0..MaxFaults /\ cmd[u] \in Commands /\ CommandOK(cmd[u])
  BY CommandType DEF IndInv, ReadRow, ReadLines, TypeOK
<1>1. fresh' \in {fresh, fresh + 1} /\ fresh' <= MaxFresh + 1
  BY <1>0, FreshType
<1>2. CASE End(u) BY <1>0, <1>2, EndKeeps
<1>3. CASE ReadRow(u) /\ ~End(u)
  <2>1. PICK c : c = [cmd[u] EXCEPT !.status = entries[cmd[u].entry], !.at = "lines"] OBVIOUS
  <2>2. cmd[u].at = "row" /\ entries[cmd[u].entry] # "none" /\ cmd' = [cmd EXCEPT ![u] = c]
    BY <1>3, <2>1 DEF ReadRow
  <2>3. cmd[u].entry \in Fresh
    BY <1>0, <2>2, FreshType, Bounds DEF CommandOK, Shape, Reading, Fresh
  <2>4. entries[cmd[u].entry] \in Status BY <1>0, <2>2, <2>3 DEF TypeOK
  <2>5. /\ c \in Commands /\ c.at = "lines" /\ c.entry = cmd[u].entry /\ c.row = cmd[u].row
        /\ c.posted = cmd[u].posted /\ c.kind = cmd[u].kind /\ c.status = entries[cmd[u].entry]
    BY <1>0, <2>1, <2>4 DEF Commands, Steps
  <2>6. CommandOK(c)
    <3>1. Shape(c)
      BY <1>0, <2>2, <2>5 DEF CommandOK, Shape, Reading, Updating, Deleting, Posts
    <3>2. Holding(c) /\ Posting(c)
      BY <1>0, <2>2, <2>5 DEF CommandOK, Shape, Holding, Posting, Updating, Posts
    <3>3. OnClosing(c)
      BY <1>0, <2>2, <2>5 DEF OnClosing, Reading, Updating, TablesOK
    <3> QED BY <3>1, <3>2, <3>3 DEF CommandOK
  <2>7. \A v \in Users \ {u} : Apart(c, cmd[v]) BY <2>5, StaysApart DEF Posts
  <2> QED BY <1>0, <1>1, <2>2, <2>5, <2>6, <2>7, StepKeeps
<1>4. CASE ReadLines(u) /\ ~End(u)
  <2>1. PICK c : c = [cmd[u] EXCEPT !.body = lines[cmd[u].entry], !.at = "decide"] OBVIOUS
  <2>2. cmd[u].at = "lines" /\ lines[cmd[u].entry] # {} /\ cmd' = [cmd EXCEPT ![u] = c]
    BY <1>4, <2>1 DEF ReadLines
  <2>3. cmd[u].entry \in Fresh
    BY <1>0, <2>2, FreshType, Bounds DEF CommandOK, Shape, Reading, Fresh
  <2>4. lines[cmd[u].entry] \in SUBSET Fresh /\ Cardinality(lines[cmd[u].entry]) = 1
    BY <1>0, <2>2, <2>3 DEF TypeOK, TablesOK, OneBody
  <2>5. /\ c \in Commands /\ c.at = "decide" /\ c.entry = cmd[u].entry /\ c.row = cmd[u].row
        /\ c.posted = cmd[u].posted /\ c.kind = cmd[u].kind /\ c.status = cmd[u].status
        /\ c.body = lines[cmd[u].entry]
    BY <1>0, <2>1, <2>4 DEF Commands, Steps
  <2>6. CommandOK(c)
    <3>1. Shape(c)
      BY <1>0, <2>2, <2>4, <2>5 DEF CommandOK, Shape, Reading, Updating, Deleting, Posts
    <3>2. Holding(c) /\ Posting(c)
      BY <1>0, <2>2, <2>5 DEF CommandOK, Shape, Holding, Posting, Updating, Posts
    <3>3. OnClosing(c)
      BY <1>0, <2>2, <2>5 DEF CommandOK, OnClosing, Reading, Updating, TablesOK
    <3> QED BY <3>1, <3>2, <3>3 DEF CommandOK
  <2>7. \A v \in Users \ {u} : Apart(c, cmd[v]) BY <2>5, StaysApart DEF Posts
  <2> QED BY <1>0, <1>1, <2>2, <2>5, <2>6, <2>7, StepKeeps
<1> QED BY <1>2, <1>3, <1>4

LEMMA MovesOn ==
    ASSUME IndInv, NEW u \in Users, NEW c \in Commands, cmd' = [cmd EXCEPT ![u] = c],
           UNCHANGED <<tables, commands, faults>>,
           fresh' \in {fresh, fresh + 1}, fresh' <= MaxFresh + 1,
           c.entry = cmd[u].entry, c.posted = cmd[u].posted,
           c.at \in Posts => cmd[u].at \in Posts, c.row => cmd[u].row, CommandOK(c)
    PROVE  IndInv'
  BY StaysApart, StepKeeps

\* Only a declaration is permitted on what is no draft any more, and nothing else on a draft.
LEMMA PermittedIs ==
    ASSUME NEW k \in Kinds, NEW s, Permitted(k, s)
    PROVE  /\ k = "declare" => s = "mayorizado"
           /\ k # "declare" => s = "borrador"
           /\ k # "mayorizar"
  BY DEF Permitted

LEMMA NewStatusIs ==
    ASSUME NEW k, NEW s \in Status
    PROVE  NewStatus(k, s) \in Status /\ (k = "declare" => NewStatus(k, s) = "declarado")
  BY DEF NewStatus, Status

\* The use cases decide on what was read; what they decide on a closing entry is to declare it.
LEMMA DecideKeeps ==
    ASSUME IndInv, NEW u \in Users, UpdateEntry(u) \/ UpdateStatus(u) \/ DeleteEntry(u)
    PROVE  IndInv'
<1>0. /\ TypeOK /\ UNCHANGED <<tables, commands, faults>> /\ cmd[u].at = "decide"
      /\ faults' \in 0..MaxFaults /\ cmd[u] \in Commands /\ CommandOK(cmd[u])
      /\ cmd \in [Users -> Commands]
  BY CommandType DEF IndInv, UpdateEntry, UpdateStatus, DeleteEntry, TypeOK
<1>1. fresh <= MaxFresh + 1 /\ fresh \in Nat BY <1>0, FreshType
<1>2. /\ cmd[u].row = FALSE /\ cmd[u].posted = <<>> /\ cmd[u].status \in Status
      /\ cmd[u].entry \in 1..(fresh - 1) /\ Cardinality(cmd[u].body) = 1
      /\ cmd[u].entry \in Closing =>
           cmd[u].status \in {"mayorizado", "declarado"} /\ cmd[u].body = {cmd[u].entry}
  BY <1>0 DEF CommandOK, Shape, OnClosing, Commands, Reading, Updating, Deleting, Posts
<1>3. CASE End(u) /\ fresh' = fresh BY <1>0, <1>3, EndKeeps
\* The decisions to go on.
<1>4. ASSUME NEW c \in Commands, cmd' = [cmd EXCEPT ![u] = c],
             fresh' \in {fresh, fresh + 1}, fresh' <= MaxFresh + 1,
             c.entry = cmd[u].entry, c.posted = <<>>, c.row = FALSE, c.kind = cmd[u].kind,
             c.status # "none", Cardinality(c.body) = 1,
             \/ c.at = "select" /\ c.kind = "delete" /\ c.entry \notin Closing
             \/ /\ c.at = "updateRow" /\ c.kind # "delete"
                /\ \/ c.entry \notin Closing
                   \/ c.kind = "declare" /\ c.status = "declarado" /\ c.body = {c.entry}
      PROVE  IndInv'
  <2>0. DOMAIN <<>> = {} OBVIOUS
  <2>1. Shape(c) BY <1>2, <1>4 DEF Shape, Reading, Updating, Deleting, Posts
  <2>2. Holding(c) /\ Posting(c) BY <1>4, <2>0 DEF Holding, Posting, Posts
  <2>3. OnClosing(c) BY <1>4 DEF OnClosing, Reading, Updating
  <2>4. CommandOK(c) BY <2>1, <2>2, <2>3 DEF CommandOK
  <2>5. c.at \notin Posts BY <1>4 DEF Posts
  <2> QED BY <1>0, <1>2, <1>4, <2>4, <2>5, MovesOn
<1>5. CASE DeleteEntry(u) /\ ~End(u)
  <2>1. PICK c : c = [cmd[u] EXCEPT !.at = "select"] OBVIOUS
  <2>2. /\ cmd' = [cmd EXCEPT ![u] = c] /\ cmd[u].kind = "delete" /\ fresh' = fresh
        /\ Permitted("delete", cmd[u].status)
    BY <1>5, <2>1 DEF DeleteEntry, Goto
  <2>3. /\ c \in Commands /\ c.at = "select" /\ c.entry = cmd[u].entry /\ c.row = cmd[u].row
        /\ c.posted = cmd[u].posted /\ c.kind = cmd[u].kind /\ c.body = cmd[u].body
        /\ c.status = cmd[u].status
    BY <1>0, <2>1 DEF Commands, Steps
  <2>4. cmd[u].status = "borrador" BY <2>2, PermittedIs DEF Kinds
  <2> QED BY <1>1, <1>2, <1>4, <2>2, <2>3, <2>4
<1>6. CASE UpdateStatus(u) /\ ~End(u)
  <2>1. PICK c : c = [cmd[u] EXCEPT !.at = "updateRow",
                                    !.status = NewStatus(cmd[u].kind, cmd[u].status)]
    OBVIOUS
  <2>2. /\ cmd' = [cmd EXCEPT ![u] = c] /\ cmd[u].kind \in {"approve", "declare", "mayorizar"}
        /\ Permitted(cmd[u].kind, cmd[u].status) /\ fresh' = fresh
    BY <1>6, <2>1 DEF UpdateStatus
  <2>3. NewStatus(cmd[u].kind, cmd[u].status) \in Status
        /\ (cmd[u].kind = "declare" => NewStatus(cmd[u].kind, cmd[u].status) = "declarado")
    BY <1>2, NewStatusIs
  <2>4. /\ c \in Commands /\ c.at = "updateRow" /\ c.entry = cmd[u].entry /\ c.row = cmd[u].row
        /\ c.posted = cmd[u].posted /\ c.kind = cmd[u].kind /\ c.body = cmd[u].body
        /\ c.status = NewStatus(cmd[u].kind, cmd[u].status)
    BY <1>0, <2>1, <2>3 DEF Commands, Steps
  <2>5. /\ cmd[u].kind = "declare" => cmd[u].status = "mayorizado"
        /\ cmd[u].kind # "declare" => cmd[u].status = "borrador"
    BY <2>2, PermittedIs DEF Kinds, Editing
  <2>6. c.status # "none" BY <2>3, <2>4 DEF Status
  <2> QED BY <1>1, <1>2, <1>4, <2>2, <2>3, <2>4, <2>5, <2>6
<1>7. CASE UpdateEntry(u) /\ ~(End(u) /\ fresh' = fresh)
  <2>0. cmd[u].kind \in {"edit", "editHeader"} /\ Permitted(cmd[u].kind, cmd[u].status)
    BY <1>7 DEF UpdateEntry
  <2>1. cmd[u].status = "borrador" BY <2>0, PermittedIs DEF Kinds, Editing
  <2>2. CASE fresh' = fresh /\ Goto(u, "updateRow")
    <3>1. PICK c : c = [cmd[u] EXCEPT !.at = "updateRow"] OBVIOUS
    <3>2. cmd' = [cmd EXCEPT ![u] = c] BY <2>2, <3>1 DEF Goto
    <3>3. /\ c \in Commands /\ c.at = "updateRow" /\ c.entry = cmd[u].entry /\ c.row = cmd[u].row
          /\ c.posted = cmd[u].posted /\ c.kind = cmd[u].kind /\ c.body = cmd[u].body
          /\ c.status = cmd[u].status
      BY <1>0, <3>1 DEF Commands, Steps
    <3> QED BY <1>1, <1>2, <1>4, <2>0, <2>1, <2>2, <3>2, <3>3
  <2>3. CASE /\ fresh \in Fresh /\ fresh' = fresh + 1
             /\ cmd' = [cmd EXCEPT ![u].at = "updateRow", ![u].body = {fresh}]
    <3>1. PICK c : c = [cmd[u] EXCEPT !.at = "updateRow", !.body = {fresh}] OBVIOUS
    <3>2. cmd' = [cmd EXCEPT ![u] = c] BY <2>3, <3>1
    <3>3. /\ c \in Commands /\ c.at = "updateRow" /\ c.entry = cmd[u].entry /\ c.row = cmd[u].row
          /\ c.posted = cmd[u].posted /\ c.kind = cmd[u].kind /\ c.body = {fresh}
          /\ c.status = cmd[u].status
      BY <1>0, <2>3, <3>1 DEF Commands, Steps
    <3>4. Cardinality({fresh}) = 1 BY FS_Singleton
    <3>5. fresh' <= MaxFresh + 1 BY <2>3, Bounds DEF Fresh
    <3> QED BY <1>1, <1>2, <1>4, <2>0, <2>1, <2>3, <3>2, <3>3, <3>4, <3>5
  <2> QED BY <1>7, <2>2, <2>3 DEF UpdateEntry
<1> QED BY <1>0, <1>3, <1>5, <1>6, <1>7 DEF UpdateStatus, DeleteEntry

\* The statements of the transactions, up to COMMIT: the row lock and what it protects.
LEMMA StatementKeeps ==
    ASSUME IndInv, NEW u \in Users,
           \/ UpdateRow(u) \/ DeleteLines(u) \/ LockLines(u)
           \/ SelectOwned(u) \/ DeleteRow(u) \/ Cascade(u)
    PROVE  IndInv'
<1>0. /\ TypeOK /\ UNCHANGED <<tables, fresh, commands, faults>>
      /\ faults' \in 0..MaxFaults /\ cmd[u] \in Commands /\ CommandOK(cmd[u])
      /\ cmd \in [Users -> Commands]
  BY CommandType DEF IndInv, UpdateRow, DeleteLines, LockLines, SelectOwned, DeleteRow, Cascade,
                     TypeOK
<1>1. fresh' \in {fresh, fresh + 1} /\ fresh' <= MaxFresh + 1 /\ fresh \in Nat
  BY <1>0, FreshType
<1>2. CASE End(u) BY <1>0, <1>2, EndKeeps
<1> DEFINE e == cmd[u].entry
<1>3. /\ cmd[u].at \in Updating \cup Deleting /\ e \in 1..(fresh - 1) /\ cmd[u].posted = <<>>
      /\ cmd[u].at \notin Posts /\ e \in Fresh
  <2>1. cmd[u].at \in Updating \cup Deleting
    BY DEF UpdateRow, DeleteLines, LockLines, SelectOwned, DeleteRow, Cascade, Updating, Deleting
  <2>2. e \in 1..(fresh - 1) BY <1>0, <2>1 DEF CommandOK, Shape
  <2>3. cmd[u].at \notin Posts BY <2>1 DEF Updating, Deleting, Posts
  <2>4. e \in Fresh BY <1>0, <1>1, <2>2, FreshType, Bounds DEF Fresh
  <2> QED BY <1>0, <2>1, <2>2, <2>3, <2>4 DEF CommandOK, Shape
<1>4. lines[e] \in SUBSET Fresh BY <1>0, <1>3 DEF TypeOK
\* What has to be shown of the next step of the same command.
<1>5. ASSUME NEW c \in Commands, cmd' = [cmd EXCEPT ![u] = c],
             c.entry = e, c.posted = cmd[u].posted, c.kind = cmd[u].kind, c.status = cmd[u].status,
             c.body = cmd[u].body, c.at \in Updating \cup Deleting,
             Shape(c), Holding(c),
             c.row /\ ~cmd[u].row => ~RowHeld(e, u)
      PROVE  IndInv'
  <2>0. DOMAIN <<>> = {} OBVIOUS
  <2>1. c.at \notin Posts BY <1>5 DEF Updating, Deleting, Posts
  <2>2. Posting(c) BY <1>3, <1>5, <2>0, <2>1 DEF Posting
  <2>3. OnClosing(c)
    <3>1. SUFFICES ASSUME c.entry \in Closing
                   PROVE  c.at \in Updating /\ c.kind = "declare" /\ c.status = "declarado"
                          /\ c.body = {c.entry}
      BY DEF OnClosing, Reading, Updating
    <3>2. cmd[u].kind = "declare" /\ cmd[u].status = "declarado" /\ cmd[u].body = {e}
      BY <1>0, <1>3, <1>5, <3>1 DEF CommandOK, OnClosing, Reading, Updating, Deleting
    <3> QED BY <1>5, <3>2 DEF Shape
  <2>4. CommandOK(c) BY <1>5, <2>2, <2>3 DEF CommandOK
  <2>5. ASSUME NEW v \in Users \ {u} PROVE Apart(c, cmd[v])
    <3>1. Apart(cmd[u], cmd[v]) BY DEF IndInv
    <3>2. ~(c.row /\ cmd[v].row /\ c.entry = cmd[v].entry)
      BY <1>5, <3>1 DEF Apart, RowHeld
    <3> QED BY <1>3, <1>5, <2>0, <2>1, <3>1, <3>2 DEF Apart
  <2> QED BY <1>0, <1>1, <1>5, <2>4, <2>5, StepKeeps
<1>6. CASE UpdateRow(u) /\ ~End(u)
  <2>1. PICK c : c = [cmd[u] EXCEPT !.row = TRUE, !.at = "deleteLines"] OBVIOUS
  <2>2. /\ cmd' = [cmd EXCEPT ![u] = c] /\ cmd[u].at = "updateRow" /\ ~RowHeld(e, u)
        /\ entries[e] # "none"
    BY <1>6, <2>1 DEF UpdateRow
  <2>3. /\ c \in Commands /\ c.at = "deleteLines" /\ c.entry = e /\ c.row = TRUE
        /\ c.posted = cmd[u].posted /\ c.kind = cmd[u].kind /\ c.body = cmd[u].body
        /\ c.status = cmd[u].status
    BY <1>0, <2>1 DEF Commands, Steps
  <2>4. Shape(c)
    BY <1>0, <2>2, <2>3 DEF CommandOK, Shape, Reading, Updating, Deleting, Posts
  <2>5. Holding(c) BY <2>2, <2>3 DEF Holding
  <2> QED BY <1>5, <2>2, <2>3, <2>4, <2>5 DEF Updating
<1>7. CASE DeleteLines(u)
  <2>1. PICK c : c = [cmd[u] EXCEPT !.seen = lines[e], !.at = "lockLines"] OBVIOUS
  <2>2. cmd' = [cmd EXCEPT ![u] = c] /\ cmd[u].at = "deleteLines"
    BY <1>7, <2>1 DEF DeleteLines
  <2>3. /\ c \in Commands /\ c.at = "lockLines" /\ c.entry = e /\ c.row = cmd[u].row
        /\ c.posted = cmd[u].posted /\ c.kind = cmd[u].kind /\ c.body = cmd[u].body
        /\ c.status = cmd[u].status /\ c.seen = lines[e]
    BY <1>0, <1>4, <2>1 DEF Commands, Steps
  <2>4. Shape(c)
    BY <1>0, <2>2, <2>3 DEF CommandOK, Shape, Reading, Updating, Deleting, Posts
  <2>5. Holding(c) BY <1>0, <2>2, <2>3 DEF CommandOK, Holding
  <2> QED BY <1>5, <2>2, <2>3, <2>4, <2>5 DEF Updating
<1>8. CASE LockLines(u)
  <2>1. PICK c : c = [cmd[u] EXCEPT !.held = cmd[u].seen \cap lines[e],
                                    !.at = IF cmd[u].kind = "delete" THEN "deleteRow"
                                           ELSE "commitUpdate"]
    OBVIOUS
  <2>2. cmd' = [cmd EXCEPT ![u] = c] /\ cmd[u].at = "lockLines"
    BY <1>8, <2>1 DEF LockLines
  <2>3. /\ c \in Commands /\ c.entry = e /\ c.row = cmd[u].row
        /\ c.at = IF cmd[u].kind = "delete" THEN "deleteRow" ELSE "commitUpdate"
        /\ c.posted = cmd[u].posted /\ c.kind = cmd[u].kind /\ c.body = cmd[u].body
        /\ c.status = cmd[u].status /\ c.held = cmd[u].seen \cap lines[e]
    BY <1>0, <1>4, <2>1 DEF Commands, Steps
  <2>4. Shape(c)
    BY <1>0, <2>2, <2>3 DEF CommandOK, Shape, Reading, Updating, Deleting, Posts
  <2>5. Holding(c) BY <1>0, <2>2, <2>3 DEF CommandOK, Holding
  <2>6. c.at \in Updating \cup Deleting BY <2>3 DEF Updating, Deleting
  <2> QED BY <1>5, <2>2, <2>3, <2>4, <2>5, <2>6
<1>9. CASE SelectOwned(u) /\ ~End(u)
  <2>1. PICK c : c = [cmd[u] EXCEPT !.at = "deleteLines"] OBVIOUS
  <2>2. cmd' = [cmd EXCEPT ![u] = c] /\ cmd[u].at = "select"
    BY <1>9, <2>1 DEF SelectOwned, Goto
  <2>3. /\ c \in Commands /\ c.at = "deleteLines" /\ c.entry = e /\ c.row = cmd[u].row
        /\ c.posted = cmd[u].posted /\ c.kind = cmd[u].kind /\ c.body = cmd[u].body
        /\ c.status = cmd[u].status
    BY <1>0, <2>1 DEF Commands, Steps
  <2>4. cmd[u].kind = "delete" /\ cmd[u].row = FALSE
    BY <1>0, <2>2 DEF CommandOK, Shape, Updating, Deleting, Commands
  <2>5. Shape(c) /\ Holding(c)
    <3>1. Shape(c) BY <1>0, <2>2, <2>3, <2>4 DEF CommandOK, Shape, Reading, Updating, Deleting, Posts
    <3>2. Holding(c) BY <2>3, <2>4 DEF Holding
    <3> QED BY <3>1, <3>2
  <2> QED BY <1>5, <2>2, <2>3, <2>5 DEF Updating
<1>10. CASE DeleteRow(u)
  <2>1. PICK c : c = [cmd[u] EXCEPT !.row = TRUE, !.at = "cascade"] OBVIOUS
  <2>2. cmd' = [cmd EXCEPT ![u] = c] /\ cmd[u].at = "deleteRow" /\ ~RowHeld(e, u)
    BY <1>10, <2>1 DEF DeleteRow
  <2>3. /\ c \in Commands /\ c.at = "cascade" /\ c.entry = e /\ c.row = TRUE
        /\ c.posted = cmd[u].posted /\ c.kind = cmd[u].kind /\ c.body = cmd[u].body
        /\ c.status = cmd[u].status
    BY <1>0, <2>1 DEF Commands, Steps
  <2>4. cmd[u].kind = "delete"
    BY <1>0, <2>2 DEF CommandOK, Shape, Updating, Deleting
  <2>5. Shape(c) /\ Holding(c)
    BY <1>3, <2>3, <2>4 DEF Shape, Holding, Reading, Updating, Deleting, Posts
  <2> QED BY <1>5, <2>2, <2>3, <2>5 DEF Deleting
<1>11. CASE Cascade(u)
  <2>1. PICK c : c = [cmd[u] EXCEPT !.held = @ \cup lines[e], !.at = "commitDelete"] OBVIOUS
  <2>2. cmd' = [cmd EXCEPT ![u] = c] /\ cmd[u].at = "cascade"
    BY <1>11, <2>1 DEF Cascade
  <2>3. /\ c \in Commands /\ c.at = "commitDelete" /\ c.entry = e /\ c.row = cmd[u].row
        /\ c.posted = cmd[u].posted /\ c.kind = cmd[u].kind /\ c.body = cmd[u].body
        /\ c.status = cmd[u].status /\ c.held = cmd[u].held \cup lines[e]
    BY <1>0, <1>4, <2>1 DEF Commands, Steps
  <2>4. cmd[u].kind = "delete" /\ cmd[u].row
    BY <1>0, <2>2 DEF CommandOK, Shape, Updating, Deleting
  <2>5. Shape(c) /\ Holding(c)
    BY <1>3, <2>3, <2>4 DEF Shape, Holding, Reading, Updating, Deleting, Posts
  <2> QED BY <1>5, <2>2, <2>3, <2>4, <2>5 DEF Deleting
<1> QED BY <1>2, <1>6, <1>7, <1>8, <1>9, <1>10, <1>11

\* The apply, up to its COMMIT.
LEMMA ApplyKeeps ==
    ASSUME IndInv, NEW u \in Users, LoadMission(u) \/ LockPeriod(u) \/ Post(u)
    PROVE  IndInv'
<1>0. /\ TypeOK /\ TablesOK /\ UNCHANGED <<tables, commands, faults>>
      /\ commands' \in 0..MaxCommands /\ faults' \in 0..MaxFaults
      /\ cmd[u] \in Commands /\ CommandOK(cmd[u])
      /\ cmd \in [Users -> Commands] /\ cmd[u].posted \in Seq(Fresh)
  BY CommandType DEF IndInv, LoadMission, LockPeriod, Post, TypeOK
<1>1. fresh <= MaxFresh + 1 /\ fresh \in Nat BY <1>0, FreshType
<1>2. CASE End(u) /\ fresh' = fresh BY <1>0, <1>2, EndKeeps
<1>3. 0 \notin Closing /\ DOMAIN <<>> = {} BY <1>0, ClosingType, Bounds DEF Fresh
<1>4. CASE LoadMission(u) /\ ~End(u)
  <2>1. PICK c : c = [cmd[u] EXCEPT !.at = "lockPeriod"] OBVIOUS
  <2>2. /\ cmd' = [cmd EXCEPT ![u] = c] /\ cmd[u].at = "load" /\ fresh' = fresh
        /\ Proposal[cmd[u].mission] # NoProposal
    BY <1>4, <2>1 DEF LoadMission, Goto
  <2>3. /\ c \in Commands /\ c.at = "lockPeriod" /\ c.entry = cmd[u].entry /\ c.row = cmd[u].row
        /\ c.posted = cmd[u].posted /\ c.kind = cmd[u].kind /\ c.mission = cmd[u].mission
    BY <1>0, <2>1 DEF Commands, Steps
  <2>4. cmd[u].entry = 0 /\ cmd[u].row = FALSE /\ cmd[u].posted = <<>> /\ cmd[u].mission \in Missions
    BY <1>0, <2>2 DEF CommandOK, Shape, Reading, Updating, Deleting, Posts, Commands
  <2>5. CommandOK(c)
    BY <1>3, <2>2, <2>3, <2>4
    DEF CommandOK, Shape, Holding, Posting, OnClosing, Reading, Updating, Deleting, Posts
  <2>6. c.at \notin Posts BY <2>3 DEF Posts
  <2> QED BY <1>0, <1>1, <2>2, <2>3, <2>5, <2>6, MovesOn
<1>5. CASE LockPeriod(u) /\ ~End(u)
  <2>1. PICK c : c = [cmd[u] EXCEPT !.at = "post"] OBVIOUS
  <2>2. /\ cmd' = [cmd EXCEPT ![u] = c] /\ cmd[u].at = "lockPeriod" /\ fresh' = fresh
        /\ period = "abierto" /\ ~PeriodHeld(u)
    BY <1>5, <2>1 DEF LockPeriod, Goto
  <2>3. /\ c \in Commands /\ c.at = "post" /\ c.entry = cmd[u].entry /\ c.row = cmd[u].row
        /\ c.posted = cmd[u].posted /\ c.kind = cmd[u].kind /\ c.mission = cmd[u].mission
    BY <1>0, <2>1 DEF Commands, Steps
  <2>4. cmd[u].entry = 0 /\ cmd[u].row = FALSE /\ cmd[u].posted = <<>> /\ cmd[u].mission \in Missions
        /\ Proposal[cmd[u].mission] # NoProposal
    BY <1>0, <2>2 DEF CommandOK, Shape, Reading, Updating, Deleting, Posts, Commands
  <2>5. Len(<<>>) = 0 /\ Len(Proposal[cmd[u].mission]) \in Nat
    <3>1. Proposal[cmd[u].mission] \in Seq(BOOLEAN) BY <2>4, MissionAssumption
    <3> QED BY <3>1
  <2>6. CommandOK(c)
    <3>1. Shape(c)
      BY <2>3, <2>4, <2>5 DEF Shape, Reading, Updating, Deleting, Posts
    <3> QED BY <1>3, <2>2, <2>3, <2>4, <3>1 DEF CommandOK, Holding, Posting, OnClosing
  <2>7. ASSUME NEW v \in Users \ {u} PROVE Apart(c, cmd[v])
    <3>1. Apart(cmd[u], cmd[v]) BY DEF IndInv
    <3>2. cmd[v].at \notin Posts BY <2>2 DEF PeriodHeld, Posts
    <3> QED BY <2>3, <3>1, <3>2 DEF Apart
  <2> QED BY <1>0, <1>1, <2>2, <2>3, <2>6, <2>7, StepKeeps
<1>6. CASE Post(u) /\ Goto(u, "finish")
  <2>1. PICK c : c = [cmd[u] EXCEPT !.at = "finish"] OBVIOUS
  <2>2. cmd' = [cmd EXCEPT ![u] = c] /\ cmd[u].at = "post"
    BY <1>6, <2>1 DEF Post, Goto
  <2>3. /\ c \in Commands /\ c.at = "finish" /\ c.entry = cmd[u].entry /\ c.row = cmd[u].row
        /\ c.posted = cmd[u].posted /\ c.kind = cmd[u].kind /\ c.mission = cmd[u].mission
    BY <1>0, <2>1 DEF Commands, Steps
  <2>4. cmd'[u].at = "finish" BY <1>0, <2>2, <2>3
  <2>5. fresh' = fresh /\ Len(cmd[u].posted) + 1 > Len(Proposal[cmd[u].mission])
    <3>1. \A x : [cmd EXCEPT ![u].posted = x][u].at = "post" BY <1>0, <2>2 DEF Commands
    <3>2. [cmd EXCEPT ![u] = Idle][u].at = "idle" BY <1>0, IdleOK
    <3> QED BY <1>6, <2>4, <3>1, <3>2 DEF Post, End
  <2>6. /\ Proposal[cmd[u].mission] \in Seq(BOOLEAN) /\ cmd[u].entry = 0 /\ cmd[u].row = FALSE
        /\ cmd[u].mission \in Missions /\ Proposal[cmd[u].mission] # NoProposal
        /\ Len(cmd[u].posted) <= Len(Proposal[cmd[u].mission])
    BY <1>0, <2>2, MissionAssumption
    DEF CommandOK, Shape, Reading, Updating, Deleting, Posts, Commands
  <2>7. Len(cmd[u].posted) = Len(Proposal[cmd[u].mission])
    <3>1. Len(cmd[u].posted) \in Nat /\ Len(Proposal[cmd[u].mission]) \in Nat BY <1>0, <2>6
    <3> QED BY <3>1, <2>5, <2>6
  <2>8. CommandOK(c)
    <3>1. Shape(c)
      BY <2>3, <2>6, <2>7 DEF Shape, Reading, Updating, Deleting, Posts
    <3>2. Posting(c) BY <1>0, <2>2, <2>3 DEF CommandOK, Posting, Posts
    <3> QED BY <1>3, <2>3, <2>6, <3>1, <3>2 DEF CommandOK, Holding, OnClosing
  <2>9. cmd[u].at \in Posts BY <2>2 DEF Posts
  <2> QED BY <1>0, <1>1, <2>2, <2>3, <2>5, <2>8, <2>9, MovesOn
\* The next entry of the proposal: an id nobody knows.
<1>7. CASE /\ Post(u) /\ fresh \in Fresh /\ fresh' = fresh + 1
           /\ Len(cmd[u].posted) + 1 <= Len(Proposal[cmd[u].mission])
           /\ cmd' = [cmd EXCEPT ![u].posted = Append(@, fresh)]
  <2>1. PICK c : c = [cmd[u] EXCEPT !.posted = Append(cmd[u].posted, fresh)] OBVIOUS
  <2>2. cmd' = [cmd EXCEPT ![u] = c] /\ cmd[u].at = "post"
    BY <1>7, <2>1 DEF Post
  <2>3. Append(cmd[u].posted, fresh) \in Seq(Fresh) BY <1>0, <1>7
  <2>4. /\ c \in Commands /\ c.at = "post" /\ c.entry = cmd[u].entry /\ c.row = cmd[u].row
        /\ c.posted = Append(cmd[u].posted, fresh) /\ c.kind = cmd[u].kind
        /\ c.mission = cmd[u].mission
    BY <1>0, <2>1, <2>2, <2>3 DEF Commands
  <2>5. /\ cmd[u].entry = 0 /\ cmd[u].row = FALSE
        /\ cmd[u].mission \in Missions /\ Proposal[cmd[u].mission] # NoProposal
        /\ period = "abierto"
        /\ \A i \in DOMAIN cmd[u].posted :
             cmd[u].posted[i] < fresh /\ entries[cmd[u].posted[i]] = "none"
    BY <1>0, <2>2
    DEF CommandOK, Shape, Posting, Reading, Updating, Deleting, Posts, Commands
  <2>6. /\ Len(c.posted) = Len(cmd[u].posted) + 1 /\ DOMAIN c.posted = 1..(Len(cmd[u].posted) + 1)
        /\ DOMAIN cmd[u].posted = 1..Len(cmd[u].posted)
        /\ \A i \in DOMAIN c.posted : \/ c.posted[i] = fresh
                                        \/ /\ i \in DOMAIN cmd[u].posted
                                           /\ c.posted[i] = cmd[u].posted[i]
    BY <1>0, <1>7, <2>4
  <2>7. entries[fresh] = "none" BY <1>0, <1>1, <1>7 DEF TablesOK
  <2>8. UNCHANGED <<entries, lines, period, receipts>> /\ Closing' = Closing
    BY <1>0 DEF tables, Closing
  <2>9. CommandOK(c)'
    <3>1. Shape(c)'
      BY <1>7, <2>4, <2>5, <2>6 DEF Shape, Reading, Updating, Deleting, Posts
    <3>2. Posting(c)'
      <4>1. \A i \in DOMAIN cmd[u].posted : cmd[u].posted[i] \in Nat BY <1>0, Bounds DEF Fresh
      <4>2. \A i \in DOMAIN c.posted : c.posted[i] < fresh' /\ entries[c.posted[i]] = "none"
        BY <1>1, <1>7, <2>5, <2>6, <2>7, <4>1
      <4> QED BY <2>5, <2>8, <4>2 DEF Posting
    <3>3. Holding(c)' BY <2>4, <2>5 DEF Holding
    <3>4. OnClosing(c)' BY <1>3, <2>4, <2>5, <2>8 DEF OnClosing
    <3> QED BY <3>1, <3>2, <3>3, <3>4 DEF CommandOK
  <2>10. ASSUME NEW v \in Users \ {u} PROVE Apart(c, cmd[v])
    <3>1. Apart(cmd[u], cmd[v]) /\ CommandOK(cmd[v]) BY DEF IndInv
    <3>2. cmd[v].entry # fresh
      <4>1. cmd[v].entry = 0 \/ cmd[v].entry \in 1..(fresh - 1) BY <3>1 DEF CommandOK, Shape
      <4> QED BY <4>1, <1>0, <1>1, FreshType
    <3>3. cmd[u].at \in Posts /\ c.at \in Posts BY <2>2, <2>4 DEF Posts
    <3> QED BY <2>4, <2>5, <2>6, <3>1, <3>2, <3>3 DEF Apart
  <2>11. fresh' <= MaxFresh + 1 BY <1>7, Bounds DEF Fresh
  <2> QED BY <1>0, <1>7, <2>2, <2>4, <2>9, <2>10, <2>11, MoveKeeps
<1> QED BY <1>2, <1>4, <1>5, <1>6, <1>7 DEF LoadMission, LockPeriod, Post

-----------------------------------------------------------------------------
(* The steps that commit *)

\* A transaction that writes the entries of S leaves the other commands as they were: they hold
\* no row of S and have posted nothing of S.
LEMMA CommitKeeps ==
    ASSUME IndInv, NEW u \in Users, End(u), NEW S,
           \A x \in Fresh \ S : entries'[x] = entries[x] /\ lines'[x] = lines[x],
           fresh' \in {fresh, fresh + 1}, UNCHANGED <<commands, faults>>,
           TypeOK', TablesOK', Closing' \subseteq Fresh,
           \A v \in Users \ {u} :
              /\ cmd[v].row => cmd[v].entry \notin S
              /\ \A i \in DOMAIN cmd[v].posted : cmd[v].posted[i] \notin S
              /\ cmd[v].at \in Posts => period' = "abierto"
              /\ cmd[v].entry \in Closing' => cmd[v].entry \in Closing
    PROVE  IndInv'
<1>0. /\ TypeOK /\ cmd \in [Users -> Commands] /\ fresh \in Nat /\ fresh' \in Nat
      /\ fresh' >= fresh
  BY CommandType, FreshType DEF IndInv, TypeOK, Commands
<1>1. \A v \in Users : cmd'[v] = IF v = u THEN Idle ELSE cmd[v] BY <1>0 DEF End
<1>2. ASSUME NEW v \in Users PROVE CommandOK(cmd[v])'
  <2>1. CASE v = u
    <3>1. PICK d : d = Idle /\ d = cmd'[u] BY <1>1
    <3>2. d.at = "idle" /\ d.entry = 0 /\ d.row = FALSE /\ d.posted = <<>> /\ d.kind = "none"
      BY <3>1 DEF Idle
    <3>3. 0 \notin Closing' /\ DOMAIN <<>> = {} BY Bounds DEF Fresh
    <3>4. CommandOK(d)'
      BY <3>2, <3>3
      DEF CommandOK, Shape, Holding, Posting, OnClosing, Reading, Updating, Deleting, Posts
    <3> QED BY <2>1, <3>1, <3>4 DEF CommandOK, Shape, Holding, Posting, OnClosing
  <2>2. CASE v # u
    <3>1. PICK d : d = cmd[v] /\ d = cmd'[v] BY <1>1, <2>2
    <3>2. CommandOK(d) /\ d \in Commands /\ d.posted \in Seq(Fresh) BY <1>0, <3>1, CommandType DEF IndInv
    <3>3. /\ d.row => d.entry \notin S
          /\ \A i \in DOMAIN d.posted : d.posted[i] \notin S
          /\ d.at \in Posts => period' = "abierto"
          /\ d.entry \in Closing' => d.entry \in Closing
      BY <2>2, <3>1
    <3>4. Shape(d)'
      <4>1. d.entry \in 1..(fresh - 1) => d.entry \in 1..(fresh' - 1) BY <1>0
      <4> QED BY <3>2, <4>1 DEF CommandOK, Shape
    <3>5. Holding(d)'
      <4>1. d.row => d.entry \in Fresh
        <5>1. d.row => d.at \in Updating \cup Deleting
          BY <3>2 DEF CommandOK, Shape, Updating, Deleting
        <5>2. d.row => d.entry \in 1..(fresh - 1) BY <3>2, <5>1 DEF CommandOK, Shape
        <5> QED BY <1>0, <5>2, FreshType, Bounds DEF Fresh
      <4>2. d.row => entries'[d.entry] = entries[d.entry] /\ lines'[d.entry] = lines[d.entry]
        BY <3>3, <4>1
      <4>3. /\ d.at = "lockLines" /\ d.kind # "delete" => d.row
            /\ d.at \in {"commitUpdate", "commitDelete"} => d.row
        BY <3>2 DEF CommandOK, Shape, Updating, Deleting
      <4> QED BY <3>2, <4>2, <4>3 DEF CommandOK, Holding
    <3>6. Posting(d)'
      <4>1. \A i \in DOMAIN d.posted : d.posted[i] \in Fresh \ S /\ d.posted[i] \in Nat
        BY <3>2, <3>3, Bounds DEF Fresh
      <4>2. \A i \in DOMAIN d.posted : d.posted[i] < fresh /\ entries[d.posted[i]] = "none"
        BY <3>2 DEF CommandOK, Posting
      <4>3. \A i \in DOMAIN d.posted : d.posted[i] < fresh' BY <1>0, <4>1, <4>2
      <4> QED BY <3>3, <4>1, <4>2, <4>3 DEF Posting
    <3>7. OnClosing(d)' BY <3>2, <3>3 DEF CommandOK, OnClosing
    <3>8. CommandOK(d)' BY <3>4, <3>5, <3>6, <3>7 DEF CommandOK
    <3> QED BY <3>1, <3>8 DEF CommandOK, Shape, Holding, Posting, OnClosing
  <2> QED BY <2>1, <2>2
<1>3. ASSUME NEW v \in Users, NEW w \in Users, v # w PROVE Apart(cmd[v], cmd[w])'
  <2>0. Idle.at = "idle" /\ Idle.entry = 0 /\ Idle.row = FALSE /\ Idle.posted = <<>>
    BY <1>0, IdleOK
  <2>1. DOMAIN <<>> = {} /\ 0 \notin Fresh BY Bounds DEF Fresh
  <2>2. \A x \in Users : \A i \in DOMAIN cmd[x].posted : cmd[x].posted[i] \in Fresh
    BY <1>0, CommandType
  <2>3. CASE v = u BY <1>1, <1>3, <2>0, <2>1, <2>2, <2>3 DEF Apart, Posts
  <2>4. CASE w = u BY <1>1, <1>3, <2>0, <2>1, <2>2, <2>4 DEF Apart, Posts
  <2>5. CASE v # u /\ w # u BY <1>1, <1>3, <2>5 DEF IndInv, Apart
  <2> QED BY <2>3, <2>4, <2>5
<1> QED BY <1>2, <1>3 DEF IndInv

\* A closed period stays as it is while its entries stay in the ledger.
LEMMA ClosedStays ==
    ASSUME TypeOK, CloseIsAllOrNothing, UNCHANGED <<period, gates, mission, receipts>>,
           \A x \in Closing : entries[x] # "none" => entries'[x] # "none"
    PROVE  CloseIsAllOrNothing'
<1>1. CASE period = "abierto" BY <1>1 DEF CloseIsAllOrNothing
<1>2. CASE period # "abierto"
  <2>1. PICK m \in Missions, r \in receipts :
          /\ receipts = {r} /\ r.mission = m
          /\ {n \in Missions : mission[n] = "COMPLETED"} = {m}
          /\ Len(r.posted) = Len(Proposal[m])
          /\ \A i \in DOMAIN r.posted : entries[r.posted[i]] # "none"
    BY <1>2 DEF CloseIsAllOrNothing
  <2>2. gates = "PASSED" BY <1>2 DEF CloseIsAllOrNothing
  <2>3. \A i \in DOMAIN r.posted : r.posted[i] \in Closing BY DEF Closing
  <2>4. \A i \in DOMAIN r.posted : entries'[r.posted[i]] # "none" BY <2>1, <2>3
  <2> QED BY <1>2, <2>1, <2>2, <2>4 DEF CloseIsAllOrNothing
<1> QED BY <1>1, <1>2

\* A transaction that holds the row of the entry it writes: it is no other's, and nobody is
\* posting it.
LEMMA RowIsMine ==
    ASSUME IndInv, NEW u \in Users, cmd[u].row, NEW v \in Users \ {u}
    PROVE  /\ cmd[v].row => cmd[v].entry \notin {cmd[u].entry}
           /\ \A i \in DOMAIN cmd[v].posted : cmd[v].posted[i] \notin {cmd[u].entry}
           /\ cmd[v].at \in Posts => period = "abierto"
<1>1. Apart(cmd[u], cmd[v]) /\ CommandOK(cmd[v]) BY DEF IndInv
<1> QED BY <1>1 DEF Apart, CommandOK, Posting

LEMMA CommitUpdateKeeps ==
    ASSUME IndInv, NEW u \in Users, CommitUpdate(u)
    PROVE  IndInv'
<1>0. /\ TypeOK /\ TablesOK /\ cmd \in [Users -> Commands] /\ fresh \in Nat
      /\ UNCHANGED <<period, gates, mission, receipts, fresh, commands, faults>> /\ End(u)
  BY CommandType, FreshType DEF IndInv, CommitUpdate
<1>1. PICK c : c = cmd[u] OBVIOUS
<1>2. c \in Commands /\ CommandOK(c) /\ c.at = "commitUpdate"
  BY <1>0, <1>1 DEF IndInv, CommitUpdate
<1>3. /\ c.row /\ c.kind # "delete" /\ c.status # "none" /\ Cardinality(c.body) = 1
      /\ c.entry \in 1..(fresh - 1)
  BY <1>2 DEF CommandOK, Shape, Updating, Deleting
<1>4. c.held = lines[c.entry] BY <1>2 DEF CommandOK, Holding
<1>5. c.entry \in Fresh /\ c.entry < fresh BY <1>0, <1>3, FreshType, Bounds DEF Fresh
<1>6. /\ entries' = [entries EXCEPT ![c.entry] = c.status]
      /\ lines' = [lines EXCEPT ![c.entry] = (lines[c.entry] \ c.held) \cup c.body]
  BY <1>1 DEF CommitUpdate
<1>7. c.status \in Status /\ c.body \in SUBSET Fresh BY <1>2, <1>3 DEF Commands
<1>8. /\ entries \in [Fresh -> Status \cup {"none"}] /\ lines \in [Fresh -> SUBSET Fresh]
  BY <1>0 DEF TypeOK
<1>9. lines'[c.entry] = c.body /\ entries'[c.entry] = c.status
  BY <1>4, <1>5, <1>6, <1>8
<1>10. \A x \in Fresh \ {c.entry} : entries'[x] = entries[x] /\ lines'[x] = lines[x]
  BY <1>6, <1>8
<1>11. Closing' = Closing /\ Closing \subseteq Fresh BY <1>0, ClosingType DEF Closing
<1>12. TypeOK'
  <2>1. entries' \in [Fresh -> Status \cup {"none"}] BY <1>6, <1>7, <1>8
  <2>2. lines' \in [Fresh -> SUBSET Fresh] BY <1>6, <1>7, <1>8
  <2>3. cmd' \in [Users -> Commands] BY <1>0, IdleOK DEF End
  <2> QED BY <1>0, <2>1, <2>2, <2>3 DEF TypeOK, Commands
<1>13. OneBody'
  <2> SUFFICES ASSUME NEW x \in Fresh
               PROVE IF entries'[x] = "none" THEN lines'[x] = {} ELSE Cardinality(lines'[x]) = 1
    BY DEF OneBody
  <2> QED BY <1>0, <1>3, <1>9, <1>10 DEF TablesOK, OneBody
<1>14. CloseIsAllOrNothing'
  BY <1>0, <1>3, <1>9, <1>10, <1>11, ClosedStays DEF TablesOK
<1>15. TablesOK'
  <2>1. \A x \in Fresh : x >= fresh => entries'[x] = "none"
    <3>1. \A x \in Fresh : x >= fresh => x # c.entry BY <1>0, <1>3
    <3> QED BY <1>0, <1>10, <3>1 DEF TablesOK
  <2>2. ASSUME NEW x \in Closing
        PROVE  x < fresh /\ lines'[x] = {x} /\ entries'[x] \in {"mayorizado", "declarado"}
    <3>1. x < fresh /\ lines[x] = {x} /\ entries[x] \in {"mayorizado", "declarado"}
      BY <1>0 DEF TablesOK
    <3>2. c.entry = x => c.body = {x} /\ c.status = "declarado"
      BY <1>2 DEF CommandOK, OnClosing, Updating
    <3> QED BY <1>9, <1>10, <1>11, <3>1, <3>2
  <2> QED BY <1>0, <1>11, <1>13, <1>14, <2>1, <2>2 DEF TablesOK
<1>16. ASSUME NEW v \in Users \ {u}
       PROVE  /\ cmd[v].row => cmd[v].entry \notin {c.entry}
              /\ \A i \in DOMAIN cmd[v].posted : cmd[v].posted[i] \notin {c.entry}
              /\ cmd[v].at \in Posts => period' = "abierto"
              /\ cmd[v].entry \in Closing' => cmd[v].entry \in Closing
  BY <1>0, <1>1, <1>3, <1>11, RowIsMine
<1> QED BY <1>0, <1>10, <1>11, <1>12, <1>15, <1>16, CommitKeeps

LEMMA CommitDeleteKeeps ==
    ASSUME IndInv, NEW u \in Users, CommitDelete(u)
    PROVE  IndInv'
<1>0. /\ TypeOK /\ TablesOK /\ cmd \in [Users -> Commands] /\ fresh \in Nat
      /\ UNCHANGED <<period, gates, mission, receipts, fresh, commands, faults>> /\ End(u)
  BY CommandType, FreshType DEF IndInv, CommitDelete
<1>1. PICK c : c = cmd[u] OBVIOUS
<1>2. c \in Commands /\ CommandOK(c) /\ c.at = "commitDelete"
  BY <1>0, <1>1 DEF IndInv, CommitDelete
<1>3. c.row /\ c.entry \in 1..(fresh - 1)
  BY <1>2 DEF CommandOK, Shape, Updating, Deleting
<1>4. lines[c.entry] \subseteq c.held BY <1>2 DEF CommandOK, Holding
<1>5. c.entry \in Fresh /\ c.entry < fresh BY <1>0, <1>3, FreshType, Bounds DEF Fresh
<1>6. /\ entries' = [entries EXCEPT ![c.entry] = "none"]
      /\ lines' = [lines EXCEPT ![c.entry] = lines[c.entry] \ c.held]
  BY <1>1 DEF CommitDelete
<1>7. c.entry \notin Closing
  BY <1>2 DEF CommandOK, OnClosing, Reading, Updating
<1>8. /\ entries \in [Fresh -> Status \cup {"none"}] /\ lines \in [Fresh -> SUBSET Fresh]
  BY <1>0 DEF TypeOK
<1>9. lines'[c.entry] = {} /\ entries'[c.entry] = "none"
  BY <1>4, <1>5, <1>6, <1>8
<1>10. \A x \in Fresh \ {c.entry} : entries'[x] = entries[x] /\ lines'[x] = lines[x]
  BY <1>6, <1>8
<1>11. Closing' = Closing /\ Closing \subseteq Fresh BY <1>0, ClosingType DEF Closing
<1>12. TypeOK'
  <2>1. entries' \in [Fresh -> Status \cup {"none"}] BY <1>6, <1>8
  <2>2. lines' \in [Fresh -> SUBSET Fresh] BY <1>6, <1>8
  <2>3. cmd' \in [Users -> Commands] BY <1>0, IdleOK DEF End
  <2> QED BY <1>0, <2>1, <2>2, <2>3 DEF TypeOK, Commands
<1>13. OneBody'
  <2> SUFFICES ASSUME NEW x \in Fresh
               PROVE IF entries'[x] = "none" THEN lines'[x] = {} ELSE Cardinality(lines'[x]) = 1
    BY DEF OneBody
  <2> QED BY <1>0, <1>9, <1>10 DEF TablesOK, OneBody
<1>14. CloseIsAllOrNothing'
  BY <1>0, <1>7, <1>10, <1>11, ClosedStays DEF TablesOK
<1>15. TablesOK'
  <2>1. \A x \in Fresh : x >= fresh => entries'[x] = "none"
    BY <1>0, <1>9, <1>10 DEF TablesOK
  <2>2. \A x \in Closing : x < fresh /\ lines'[x] = {x} /\ entries'[x] \in {"mayorizado", "declarado"}
    BY <1>0, <1>7, <1>10, <1>11 DEF TablesOK
  <2> QED BY <1>0, <1>11, <1>13, <1>14, <2>1, <2>2 DEF TablesOK
<1>16. ASSUME NEW v \in Users \ {u}
       PROVE  /\ cmd[v].row => cmd[v].entry \notin {c.entry}
              /\ \A i \in DOMAIN cmd[v].posted : cmd[v].posted[i] \notin {c.entry}
              /\ cmd[v].at \in Posts => period' = "abierto"
              /\ cmd[v].entry \in Closing' => cmd[v].entry \in Closing
  BY <1>0, <1>1, <1>3, <1>11, RowIsMine
<1> QED BY <1>0, <1>10, <1>11, <1>12, <1>15, <1>16, CommitKeeps

LEMMA CreateKeeps ==
    ASSUME IndInv, NEW u \in Users, Create(u)
    PROVE  IndInv'
<1>0. /\ TypeOK /\ TablesOK /\ cmd \in [Users -> Commands] /\ fresh \in Nat
      /\ UNCHANGED <<period, gates, mission, receipts, commands, faults>> /\ End(u)
      /\ faults' \in 0..MaxFaults
  BY CommandType, FreshType DEF IndInv, Create, TypeOK
<1>1. CASE UNCHANGED <<entries, lines, fresh>> BY <1>0, <1>1, EndKeeps DEF tables
<1>2. CASE /\ fresh \in Fresh /\ fresh' = fresh + 1
           /\ entries' = [entries EXCEPT ![fresh] = "borrador"]
           /\ lines' = [lines EXCEPT ![fresh] = {fresh}]
  <2>1. /\ entries \in [Fresh -> Status \cup {"none"}] /\ lines \in [Fresh -> SUBSET Fresh]
    BY <1>0 DEF TypeOK
  <2>2. lines'[fresh] = {fresh} /\ entries'[fresh] = "borrador" /\ Cardinality({fresh}) = 1
    BY <1>2, <2>1, FS_Singleton
  <2>3. \A x \in Fresh \ {fresh} : entries'[x] = entries[x] /\ lines'[x] = lines[x]
    BY <1>2, <2>1
  <2>4. Closing' = Closing /\ Closing \subseteq Fresh BY <1>0, ClosingType DEF Closing
  <2>5. fresh' \in 1..(MaxFresh + 1) BY <1>0, <1>2, Bounds DEF Fresh
  <2>6. TypeOK'
    <3>1. entries' \in [Fresh -> Status \cup {"none"}] BY <1>2, <2>1 DEF Status
    <3>2. lines' \in [Fresh -> SUBSET Fresh] BY <1>2, <2>1
    <3>3. cmd' \in [Users -> Commands] BY <1>0, IdleOK DEF End
    <3> QED BY <1>0, <2>5, <3>1, <3>2, <3>3 DEF TypeOK, Commands
  <2>7. \A x \in Closing : x < fresh /\ x \in Nat /\ x # fresh
    BY <1>0, <2>4, Bounds DEF TablesOK, Fresh
  <2>8. OneBody'
    <3> SUFFICES ASSUME NEW x \in Fresh
                 PROVE IF entries'[x] = "none" THEN lines'[x] = {} ELSE Cardinality(lines'[x]) = 1
      BY DEF OneBody
    <3> QED BY <1>0, <2>2, <2>3 DEF TablesOK, OneBody
  <2>9. CloseIsAllOrNothing'
    BY <1>0, <2>3, <2>4, <2>7, ClosedStays DEF TablesOK
  <2>10. TablesOK'
    <3>1. \A x \in Fresh : x >= fresh' => entries'[x] = "none"
      <4>1. \A x \in Fresh : x >= fresh' => x >= fresh /\ x # fresh
        BY <1>0, <1>2, Bounds DEF Fresh
      <4> QED BY <1>0, <2>3, <4>1 DEF TablesOK
    <3>2. \A x \in Closing : x < fresh'
      BY <1>0, <1>2, <2>7
    <3>3. \A x \in Closing : lines'[x] = {x} /\ entries'[x] \in {"mayorizado", "declarado"}
      BY <1>0, <2>3, <2>4, <2>7 DEF TablesOK
    <3> QED BY <2>4, <2>8, <2>9, <3>1, <3>2, <3>3 DEF TablesOK
  <2>11. ASSUME NEW v \in Users \ {u}
         PROVE  /\ cmd[v].row => cmd[v].entry \notin {fresh}
                /\ \A i \in DOMAIN cmd[v].posted : cmd[v].posted[i] \notin {fresh}
                /\ cmd[v].at \in Posts => period' = "abierto"
                /\ cmd[v].entry \in Closing' => cmd[v].entry \in Closing
    <3>1. CommandOK(cmd[v]) BY DEF IndInv
    <3>2. cmd[v].entry = 0 \/ cmd[v].entry \in 1..(fresh - 1) BY <3>1 DEF CommandOK, Shape
    <3>3. cmd[v].entry # fresh BY <1>0, <3>2, FreshType
    <3>4. \A i \in DOMAIN cmd[v].posted : cmd[v].posted[i] < fresh
      BY <3>1 DEF CommandOK, Posting
    <3>5. \A i \in DOMAIN cmd[v].posted : cmd[v].posted[i] # fresh BY <1>0, <3>4
    <3> QED BY <1>0, <2>4, <3>1, <3>3, <3>5 DEF CommandOK, Posting
  <2> QED BY <1>0, <1>2, <2>3, <2>4, <2>6, <2>10, <2>11, CommitKeeps
<1> QED BY <1>1, <1>2 DEF Create

\* The COMMIT of an apply: the period was open, so it is the first and the only one.
LEMMA FinishKeeps ==
    ASSUME IndInv, NEW u \in Users, Finish(u)
    PROVE  IndInv'
<1>0. /\ TypeOK /\ TablesOK /\ cmd \in [Users -> Commands] /\ fresh \in Nat
      /\ UNCHANGED <<fresh, commands, faults>> /\ End(u)
  BY CommandType, FreshType DEF IndInv, Finish
<1>1. PICK c : c = cmd[u] OBVIOUS
<1>2. c \in Commands /\ CommandOK(c) /\ c.at = "finish" /\ c.posted \in Seq(Fresh)
  BY <1>0, <1>1, CommandType DEF IndInv, Finish
<1>3. /\ c.mission \in Missions /\ Len(c.posted) = Len(Proposal[c.mission])
      /\ period = "abierto" /\ \A i \in DOMAIN c.posted : c.posted[i] < fresh
  BY <1>2 DEF CommandOK, Shape, Posting, Posts
<1> DEFINE new == {c.posted[i] : i \in DOMAIN c.posted}
           r == [mission |-> c.mission, posted |-> c.posted]
<1>4. new \subseteq Fresh BY <1>2
<1>5. /\ entries' = [x \in Fresh |-> IF x \in new THEN "mayorizado" ELSE entries[x]]
      /\ lines' = [x \in Fresh |-> IF x \in new THEN {x} ELSE lines[x]]
      /\ period' = "cerrado_final" /\ gates' = "PASSED"
      /\ mission' = [mission EXCEPT ![c.mission] = "COMPLETED"]
      /\ receipts' = receipts \cup {r}
  BY <1>1 DEF Finish, PostedStatus
<1>6. receipts = {} /\ \A m \in Missions : mission[m] # "COMPLETED"
  BY <1>0, <1>3 DEF TablesOK, CloseIsAllOrNothing
<1>7. receipts' = {r} /\ r.posted = c.posted /\ r.mission = c.mission BY <1>5, <1>6
<1>8. Closing' = new BY <1>7 DEF Closing
<1> HIDE DEF new, r
<1>9. /\ \A x \in Fresh \ new : entries'[x] = entries[x] /\ lines'[x] = lines[x]
      /\ \A x \in new : entries'[x] = "mayorizado" /\ lines'[x] = {x}
  BY <1>4, <1>5
<1>10. TypeOK'
  <2>1. entries' \in [Fresh -> Status \cup {"none"}] BY <1>0, <1>5 DEF TypeOK, Status
  <2>2. lines' \in [Fresh -> SUBSET Fresh] BY <1>0, <1>5 DEF TypeOK
  <2>3. cmd' \in [Users -> Commands] BY <1>0, IdleOK DEF End
  <2>4. mission' \in [Missions -> {"APPROVED", "COMPLETED"}] BY <1>0, <1>5 DEF TypeOK
  <2>5. r \in [mission: Missions, posted: Seq(Fresh)] BY <1>2, <1>3 DEF r
  <2>6. period' \in {"abierto", "cerrado_final"} /\ gates' \in {"OPEN", "PASSED"} BY <1>5
  <2> QED BY <1>0, <1>7, <2>1, <2>2, <2>3, <2>4, <2>5, <2>6 DEF TypeOK, Commands
<1>11. OneBody'
  <2> SUFFICES ASSUME NEW x \in Fresh
               PROVE IF entries'[x] = "none" THEN lines'[x] = {} ELSE Cardinality(lines'[x]) = 1
    BY DEF OneBody
  <2>1. Cardinality({x}) = 1 BY FS_Singleton
  <2> QED BY <1>0, <1>9, <2>1 DEF TablesOK, OneBody
<1>12. CloseIsAllOrNothing'
  <2>1. {m \in Missions : mission'[m] = "COMPLETED"} = {c.mission}
    BY <1>0, <1>3, <1>5, <1>6 DEF TypeOK
  <2>2. \A i \in DOMAIN r.posted : entries'[r.posted[i]] # "none"
    <3>1. \A i \in DOMAIN r.posted : r.posted[i] \in new BY <1>7 DEF new
    <3> QED BY <1>9, <3>1
  <2>3. r \in receipts' /\ Len(r.posted) = Len(Proposal[c.mission]) BY <1>3, <1>7
  <2> QED BY <1>3, <1>5, <1>7, <2>1, <2>2, <2>3 DEF CloseIsAllOrNothing
<1>13. \A x \in new : x < fresh BY <1>3 DEF new
<1>14. TablesOK'
  <2>1. \A x \in Fresh : x >= fresh => entries'[x] = "none"
    <3>1. \A x \in Fresh : x >= fresh => x \notin new BY <1>0, <1>13, Bounds DEF Fresh
    <3> QED BY <1>0, <1>9, <3>1 DEF TablesOK
  <2> QED BY <1>0, <1>8, <1>9, <1>11, <1>12, <1>13, <2>1 DEF TablesOK
<1>15. ASSUME NEW v \in Users \ {u}
       PROVE  /\ cmd[v].entry \notin new
              /\ \A i \in DOMAIN cmd[v].posted : cmd[v].posted[i] \notin new
              /\ cmd[v].at \notin Posts
  <2>1. Apart(c, cmd[v]) /\ CommandOK(cmd[v]) BY <1>1 DEF IndInv
  <2>2. cmd[v].at \notin Posts BY <1>2, <2>1 DEF Apart, Posts
  <2>3. cmd[v].posted = <<>> BY <2>1, <2>2 DEF CommandOK, Shape
  <2>4. cmd[v].entry \notin new BY <2>1 DEF Apart, new
  <2> QED BY <2>2, <2>3, <2>4
<1> QED BY <1>0, <1>4, <1>8, <1>9, <1>10, <1>14, <1>15, CommitKeeps

-----------------------------------------------------------------------------
LEMMA InitIndInv == Init => IndInv
<1> SUFFICES ASSUME Init PROVE IndInv OBVIOUS
<1>0. Drafts \in Nat /\ MaxFresh \in Nat /\ Drafts <= MaxFresh BY Bounds
<1>1. TypeOK
  <2>1. cmd \in [Users -> Commands]
    BY DEF Init, Idle, Commands, Kinds, Steps
  <2>2. entries \in [Fresh -> Status \cup {"none"}] BY DEF Init, Status
  <2>3. lines \in [Fresh -> SUBSET Fresh] BY DEF Init
  <2>4. fresh \in 1..(MaxFresh + 1) BY <1>0 DEF Init
  <2>5. commands \in 0..MaxCommands /\ faults \in 0..MaxFaults BY BoundAssumption DEF Init
  <2> QED BY <2>1, <2>2, <2>3, <2>4, <2>5 DEF Init, TypeOK, Commands
<1>2. Closing = {} BY DEF Init, Closing
<1>3. OneBody
  <2> SUFFICES ASSUME NEW x \in Fresh
               PROVE IF entries[x] = "none" THEN lines[x] = {} ELSE Cardinality(lines[x]) = 1
    BY DEF OneBody
  <2>1. Cardinality({x}) = 1 BY FS_Singleton
  <2>2. entries[x] = (IF x <= Drafts THEN "borrador" ELSE "none")
        /\ lines[x] = (IF x <= Drafts THEN {x} ELSE {})
    BY DEF Init
  <2> QED BY <2>1, <2>2
<1>4. CloseIsAllOrNothing BY DEF Init, CloseIsAllOrNothing
<1>5. \A x \in Fresh : x >= fresh => entries[x] = "none"
  <2>1. \A x \in Fresh : x >= Drafts + 1 => ~(x <= Drafts) BY <1>0 DEF Fresh
  <2> QED BY <2>1 DEF Init
<1>6. TablesOK BY <1>2, <1>3, <1>4, <1>5 DEF TablesOK
<1>7. \A u \in Users : cmd[u] = Idle BY DEF Init
<1>8. CommandOK(Idle) /\ \A v \in Users : Apart(Idle, cmd[v]) BY <1>1, IdleOK
<1> QED BY <1>1, <1>6, <1>7, <1>8 DEF IndInv

LEMMA NextIndInv == IndInv /\ [Next]_vars => IndInv'
<1> SUFFICES ASSUME IndInv, [Next]_vars PROVE IndInv' OBVIOUS
<1>1. CASE UNCHANGED vars
  <2>0. UNCHANGED <<entries, lines, period, gates, mission, receipts, cmd, fresh, commands, faults>>
    BY <1>1 DEF vars
  <2>1. TypeOK' BY <2>0 DEF IndInv, TypeOK
  <2>2. TablesOK' BY <2>0 DEF IndInv, TablesOK, OneBody, CloseIsAllOrNothing, Closing
  <2>3. ASSUME NEW u \in Users PROVE CommandOK(cmd[u])'
    <3>1. CommandOK(cmd[u]) BY DEF IndInv
    <3>2. Closing' = Closing BY <2>0 DEF Closing
    <3> QED BY <2>0, <3>1, <3>2 DEF CommandOK, Shape, Holding, Posting, OnClosing
  <2>4. \A u, v \in Users : u # v => Apart(cmd[u], cmd[v])' BY <2>0 DEF IndInv, Apart
  <2> QED BY <2>1, <2>2, <2>3, <2>4 DEF IndInv
<1>2. ASSUME NEW u \in Users, CommandStep(u) PROVE IndInv'
  <2>1. CASE DeadlockAbort(u)
    <3>1. faults' \in 0..MaxFaults BY <2>1 DEF DeadlockAbort, IndInv, TypeOK
    <3> QED BY <2>1, <3>1, EndKeeps DEF DeadlockAbort
  <2> QED BY <1>2, <2>1, CreateKeeps, ReadKeeps, DecideKeeps, StatementKeeps, CommitUpdateKeeps,
             CommitDeleteKeeps, ApplyKeeps, FinishKeeps
          DEF CommandStep
<1>3. ASSUME NEW u \in Users, LoseConnection(u) PROVE IndInv'
  <2>1. faults' \in 0..MaxFaults
    <3>1. faults \in 0..MaxFaults /\ faults < MaxFaults /\ faults' = faults + 1
      BY <1>3 DEF LoseConnection, IndInv, TypeOK
    <3> QED BY <3>1, BoundAssumption
  <2> QED BY <1>3, <2>1, EndKeeps DEF LoseConnection
<1> QED BY <1>1, <1>2, <1>3, BeginKeeps DEF Next

(* The invariant: the row lock, the period lock and what each command has  *)
(* read of a closing entry, in every state of the journal.                 *)
THEOREM JournalInvariance == Spec => []IndInv
  BY InitIndInv, NextIndInv, PTL DEF Spec

(* Type correctness: no command stores a status the tables do not know, or  *)
(* writes or locks an entry outside the ids ever generated.                *)
THEOREM JournalTypes == Spec => []TypeOK
<1>1. IndInv => TypeOK BY DEF IndInv
<1> QED BY <1>1, JournalInvariance, PTL

(* Concurrent edits, approvals and deletions never merge two bodies of     *)
(* lines or leave an orphan.                                               *)
THEOREM EntriesHaveOneBody == Spec => []OneBody
<1>1. IndInv => OneBody BY DEF IndInv, TablesOK
<1> QED BY <1>1, JournalInvariance, PTL

(* A period is closed by exactly one mission, with its whole proposal.     *)
THEOREM ClosingIsAllOrNothing == Spec => []CloseIsAllOrNothing
<1>1. IndInv => CloseIsAllOrNothing BY DEF IndInv, TablesOK
<1> QED BY <1>1, JournalInvariance, PTL

\* Of the steps that write entries, only an update reaches a closing one, to declare it.
LEMMA ClosingMoves ==
    ASSUME IndInv, [Next]_vars, NEW e \in Closing
    PROVE  receipts \subseteq receipts' /\ entries'[e] \in {entries[e], "declarado"}
<1>0. /\ TypeOK /\ TablesOK /\ cmd \in [Users -> Commands] /\ fresh \in Nat
      /\ entries \in [Fresh -> Status \cup {"none"}]
  BY CommandType, FreshType DEF IndInv, TypeOK, Commands
<1>1. e \in Fresh /\ e < fresh /\ e # fresh BY <1>0, ClosingType, Bounds DEF TablesOK, Fresh
<1>2. receipts # {} BY DEF Closing
<1>3. period # "abierto" BY <1>0, <1>2 DEF TablesOK, CloseIsAllOrNothing
<1>4. CASE UNCHANGED vars BY <1>4 DEF vars
<1>5. ASSUME NEW u \in Users, Begin(u) \/ CommandStep(u) \/ LoseConnection(u)
      PROVE  receipts \subseteq receipts' /\ entries'[e] \in {entries[e], "declarado"}
  <2>0. CommandOK(cmd[u]) BY DEF IndInv
  <2>1. CASE Create(u) BY <1>0, <1>1, <2>1 DEF Create
  <2>2. CASE CommitUpdate(u)
    <3>1. cmd[u].entry = e => cmd[u].status = "declarado"
      BY <2>0, <2>2 DEF CommitUpdate, CommandOK, OnClosing, Updating
    <3> QED BY <1>0, <1>1, <2>2, <3>1 DEF CommitUpdate
  <2>3. CASE CommitDelete(u)
    <3>1. cmd[u].entry # e
      BY <2>0, <2>3 DEF CommitDelete, CommandOK, OnClosing, Reading, Updating
    <3> QED BY <1>0, <1>1, <2>3, <3>1 DEF CommitDelete
  <2>4. CASE Finish(u)
    BY <1>3, <2>0, <2>4 DEF Finish, CommandOK, Posting, Posts
  <2>5. CASE UNCHANGED tables BY <2>5 DEF tables
  <2> QED BY <1>5, <2>1, <2>2, <2>3, <2>4, <2>5
          DEF Begin, CommandStep, LoseConnection, ReadRow, ReadLines, UpdateEntry, UpdateStatus,
              DeleteEntry, UpdateRow, DeleteLines, LockLines, SelectOwned, DeleteRow, Cascade,
              LoadMission, LockPeriod, Post, DeadlockAbort
<1> QED BY <1>4, <1>5 DEF Next

(* What a close posted keeps its lines and is only ever declared: no edit, *)
(* approval or deletion decided on a stale read reaches it.                *)
THEOREM ClosedEntriesAreFinal == Spec => ClosingEntriesAreFinal
<1>1. IndInv /\ IndInv' /\ [Next]_vars =>
        [\A r \in receipts : \A i \in DOMAIN r.posted :
           LET e == r.posted[i] IN
           /\ lines'[e] = lines[e]
           /\ entries'[e] \in {entries[e], "declarado"}]_vars
  <2> SUFFICES ASSUME IndInv, IndInv', [Next]_vars, NEW r \in receipts, NEW i \in DOMAIN r.posted
               PROVE  /\ lines'[r.posted[i]] = lines[r.posted[i]]
                      /\ entries'[r.posted[i]] \in {entries[r.posted[i]], "declarado"}
    OBVIOUS
  <2>1. r.posted[i] \in Closing BY DEF Closing
  <2>2. receipts \subseteq receipts' /\ entries'[r.posted[i]] \in {entries[r.posted[i]], "declarado"}
    BY <2>1, ClosingMoves
  <2>3. r.posted[i] \in Closing' BY <2>2 DEF Closing
  <2>4. lines[r.posted[i]] = {r.posted[i]} BY <2>1 DEF IndInv, TablesOK
  <2>5. lines'[r.posted[i]] = {r.posted[i]} BY <2>3 DEF IndInv, TablesOK
  <2> QED BY <2>2, <2>4, <2>5
<1> QED BY <1>1, JournalInvariance, PTL DEF Spec, ClosingEntriesAreFinal

\* An id that is gone is written by no step: an update writes the row it holds, which exists; a
\* new entry gets an unused id; an apply inserts what it has posted itself.
LEMMA GoneStays ==
    ASSUME IndInv, [Next]_vars, NEW e \in Gone
    PROVE  entries'[e] = "none"
<1>0. /\ cmd \in [Users -> Commands] /\ fresh \in Nat /\ fresh <= MaxFresh + 1
      /\ entries \in [Fresh -> Status \cup {"none"}]
  BY CommandType, FreshType DEF IndInv, TypeOK, Commands
<1>1. /\ e \in Fresh /\ e # fresh /\ entries[e] = "none"
      /\ \A u \in Users : \A i \in DOMAIN cmd[u].posted : cmd[u].posted[i] # e
  BY <1>0, Bounds DEF Gone, Fresh
<1>2. CASE UNCHANGED vars BY <1>1, <1>2 DEF vars
<1>3. ASSUME NEW u \in Users, Begin(u) \/ CommandStep(u) \/ LoseConnection(u)
      PROVE  entries'[e] = "none"
  <2>0. CommandOK(cmd[u]) BY DEF IndInv
  <2>1. CASE Create(u) BY <1>0, <1>1, <2>1 DEF Create
  <2>2. CASE CommitUpdate(u)
    <3>1. cmd[u].row /\ cmd[u].kind # "delete"
      BY <2>0, <2>2 DEF CommitUpdate, CommandOK, Shape, Updating, Deleting
    <3>2. cmd[u].entry # e BY <1>1, <2>0, <3>1 DEF CommandOK, Holding
    <3> QED BY <1>0, <1>1, <2>2, <3>2 DEF CommitUpdate
  <2>3. CASE CommitDelete(u) BY <1>0, <1>1, <2>3 DEF CommitDelete
  <2>4. CASE Finish(u) BY <1>0, <1>1, <2>4 DEF Finish
  <2>5. CASE UNCHANGED tables BY <1>1, <2>5 DEF tables
  <2> QED BY <1>3, <2>1, <2>2, <2>3, <2>4, <2>5
          DEF Begin, CommandStep, LoseConnection, ReadRow, ReadLines, UpdateEntry, UpdateStatus,
              DeleteEntry, UpdateRow, DeleteLines, LockLines, SelectOwned, DeleteRow, Cascade,
              LoadMission, LockPeriod, Post, DeadlockAbort
<1> QED BY <1>2, <1>3 DEF Next

(* No edit or approval brings back an entry that was deleted while it was  *)
(* under way, although it decided on a read that is older than the         *)
(* deletion.                                                               *)
THEOREM DeletedEntriesStayDeleted == Spec => DeletedStaysDeleted
<1>1. IndInv /\ [Next]_vars => [\A e \in Gone : entries'[e] = "none"]_vars BY GoneStays
<1> QED BY <1>1, JournalInvariance, PTL DEF Spec, DeletedStaysDeleted
=============================================================================
