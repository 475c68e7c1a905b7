------------------------------ MODULE Migrations ------------------------------
(***************************************************************************)
(* How Core opens the database of an older installation (Store.__init__ and  *)
(* the _migrate methods of core/state/db.py).                                *)
(*                                                                         *)
(* A start is a sequence of statements.  Outside a transaction each commits   *)
(* alone (the columns of tool_calls, the tables of schema.sql, the column of  *)
(* camera_events); the others commit together.  Core may die between any two, *)
(* and the next start begins again with the first method on what was          *)
(* committed.                                                              *)
(***************************************************************************)
EXTENDS Naturals, FiniteSets

CONSTANTS
    Rows,        \* the rows each old table may hold
    Captures,    \* when the motion frames were captured, in minutes
    MaxGap,      \* max_gap_seconds, in the same minutes
    MaxDeaths,   \* bound: deaths of Core
    None

VARIABLES
    stage,       \* the statement the start is at, "down" or "up"
    db,          \* what is committed: tables, their columns and rows
    tx,          \* what the open transaction sees, or None
    installed,   \* the database the first start found
    deaths

vars == <<stage, db, tx, installed, deaths>>

\* schema.sql, in the columns that an older installation may lack.  Two stand for the
\* eight of tool_calls.
Schema == [users |-> {"id"}, owner |-> {"google_sub"},
           sessions |-> {"token_hash", "user_id"},
           conversations |-> {"title", "user_id"},
           state_records |-> {"namespace", "user_id"},
           approvals |-> {"kind", "action_digest"},
           tool_calls |-> {"args_json", "approval_id", "status"},
           camera_events |-> {"trigger", "burst_id"}]

Tables  == DOMAIN Schema
Names   == Tables \cup {"approvals_legacy", "state_records_legacy"}
NoTable == [columns |-> {}, rows |-> {}]

Exists(d, t)       == d[t].columns # {}
Create(d, t)       == [d EXCEPT ![t].columns = Schema[t]]
Drop(d, t)         == [d EXCEPT ![t] = NoTable]
Rename(d, t, u)    == [d EXCEPT ![u] = d[t], ![t] = NoTable]
AddColumn(d, t, c) == [d EXCEPT ![t].columns = @ \cup {c}]

Row(r, u, s, b) == [id |-> r, user |-> u, status |-> s, burst |-> b]
Ids(d, t) == {row.id : row \in d[t].rows}

\* The installations: none, the prototype, and the one of a sole owner, whose cookies
\* are hashed and whose approvals are bound, with or without the owner's first sign-in.
Installation(old, statuses, bound) ==
    [t \in Names |->
        IF t \in {"users", "approvals_legacy", "state_records_legacy"} THEN NoTable
        ELSE IF t = "owner"
             THEN [columns |-> Schema.owner,
                   rows |-> IF bound THEN {Row("sub", None, None, 0)} ELSE {}]
             ELSE [columns |-> old[t],
                   rows |-> IF t = "camera_events" THEN {Row(c, None, None, 0) : c \in Captures}
                            ELSE IF t = "tool_calls" THEN {}
                            ELSE {Row(r, None, statuses[r], 0) : r \in Rows}]]

Prototype ==
    [sessions |-> {"token"}, conversations |-> {"title"}, state_records |-> {"namespace"},
     approvals |-> {"kind"}, tool_calls |-> {"args_json"}, camera_events |-> {"trigger"}]
SoleOwner == [Prototype EXCEPT !.sessions = {"token_hash"}, !.approvals = Schema.approvals,
                               !.tool_calls = Schema.tool_calls]

Init ==
    /\ \/ db = [t \in Names |-> NoTable]
       \/ \E bound \in BOOLEAN :
            \/ \E s \in [Rows -> {"pending", "denied"}] : db = Installation(Prototype, s, bound)
            \/ \E s \in [Rows -> {"pending", "executing"}] : db = Installation(SoleOwner, s, bound)
    /\ stage = "down" /\ tx = None /\ installed = db /\ deaths = 0

-----------------------------------------------------------------------------
\* Mutant: a statement of a transaction commits.
WithinTorn(next, d) ==
    stage' = next /\ tx' = d /\ db' = d /\ UNCHANGED <<installed, deaths>>

\* A statement that commits alone (or the last of a transaction, with its commit), one
\* that does not commit, and a method that finds nothing to do.
Alone(next, d)  == stage' = next /\ db' = d /\ tx' = None /\ UNCHANGED <<installed, deaths>>
Within(next, d) == stage' = next /\ tx' = d /\ UNCHANGED <<db, installed, deaths>>
Skip(next)      == stage' = next /\ UNCHANGED <<db, tx, installed, deaths>>

Open == stage = "down" /\ Skip("sessions")

\* Raw cookies cannot be kept as hashes: the table goes, and schema.sql makes it anew.
_migrate_legacy_sessions ==
    /\ stage = "sessions"
    /\ IF Exists(db, "sessions") /\ "token_hash" \notin db["sessions"].columns
       THEN Alone("approvals", Drop(db, "sessions"))
       ELSE Skip("approvals")

\* Mutant: the approval keeps its status.
LegacyStillPending(row) == row

\* An approval of the prototype is bound to nobody: it becomes evidence.
Legacy(row) == [row EXCEPT !.status = IF @ \in {"denied", "expired"} THEN @ ELSE "expired"]

ReplaceApprovals ==
    /\ stage = "approvals"
    /\ IF Exists(db, "approvals") /\ "action_digest" \notin db["approvals"].columns
       THEN Within("copy_approvals",
                   Create(Rename(db, "approvals", "approvals_legacy"), "approvals"))
       ELSE Skip("tool_calls")

CopyApproval ==
    /\ stage = "copy_approvals"
    /\ \E row \in tx["approvals_legacy"].rows :
        /\ row.id \notin Ids(tx, "approvals")
        /\ Within("copy_approvals", [tx EXCEPT !["approvals"].rows = @ \cup {Legacy(row)}])

CommitApprovals ==
    /\ stage = "copy_approvals"
    /\ Ids(tx, "approvals_legacy") = Ids(tx, "approvals")
    /\ Alone("tool_calls", Drop(tx, "approvals_legacy"))

\* Mutant: one column of the new runtime stands for all of them.
MissingColumnsOfFirst == IF Exists(db, "tool_calls") /\ "approval_id" \notin db["tool_calls"].columns
                         THEN Schema.tool_calls \ db["tool_calls"].columns ELSE {}

\* Each missing column is added and committed; a fresh database has no table yet.
MissingColumns == IF Exists(db, "tool_calls")
                  THEN Schema.tool_calls \ db["tool_calls"].columns ELSE {}

_migrate_tool_calls ==
    /\ stage = "tool_calls"
    /\ IF MissingColumns # {}
       THEN \E c \in MissingColumns : Alone("tool_calls", AddColumn(db, "tool_calls", c))
       ELSE Skip("schema")

\* CREATE TABLE IF NOT EXISTS, each on its own; what exists keeps its old columns.
executescript ==
    /\ stage = "schema"
    /\ LET missing == {t \in Tables : ~Exists(db, t)} IN
       IF missing # {} THEN Alone("schema", Create(db, CHOOSE t \in missing : TRUE))
                       ELSE Skip("users")

-----------------------------------------------------------------------------
\* _migrate_identity_model, one transaction.  What belongs to nobody goes to the owner,
\* or to the local principal while nobody has signed in.
Principal(d) == IF d["owner"].rows = {} THEN "local-dev" ELSE "owner"

InsertPrincipals ==
    /\ stage = "users"
    /\ Within("owning", [db EXCEPT !["users"].rows =
           @ \cup {Row(u, None, None, 0) : u \in {"local-dev", Principal(db)}}])

\* ALTER TABLE ... ADD COLUMN user_id where it is missing, UPDATE ... WHERE user_id IS NULL.
Owned(d, t) ==
    [AddColumn(d, t, "user_id") EXCEPT ![t].rows =
        {IF row.user = None THEN [row EXCEPT !.user = Principal(d)] ELSE row : row \in @}]

OwnRows ==
    /\ stage = "owning"
    /\ Within("records", Owned(Owned(tx, "sessions"), "conversations"))

RenameRecords ==
    /\ stage = "records"
    /\ IF "user_id" \notin tx["state_records"].columns
       THEN Within("create_records", Rename(tx, "state_records", "state_records_legacy"))
       ELSE Skip("commit_identity")

CreateRecords == stage = "create_records" /\ Within("copy_records", Create(tx, "state_records"))

CopyRecords ==
    /\ stage = "copy_records"
    /\ Within("commit_identity",
              Drop([tx EXCEPT !["state_records"].rows =
                       {[row EXCEPT !.user = Principal(tx)] : row \in tx["state_records_legacy"].rows}],
                   "state_records_legacy"))

CommitIdentity == stage = "commit_identity" /\ Alone("camera", tx)

-----------------------------------------------------------------------------
\* The column commits alone; the frames are numbered in one transaction, in their order:
\* a frame belongs to the burst of the frame before it unless the gap is too large.
_migrate_camera_events ==
    /\ stage = "camera"
    /\ Alone("backfill", AddColumn(db, "camera_events", "burst_id"))

Seen == IF tx = None THEN db ELSE tx
Frames(d)   == d["camera_events"].rows
NewBurst(d) == 1 + CHOOSE b \in 0..Cardinality(Frames(d)) :
                      /\ b \in {f.burst : f \in Frames(d)} \cup {0}
                      /\ \A f \in Frames(d) : f.burst <= b

\* Mutant: a frame that comes exactly at the gap starts a burst.
BurstsEarly(d, row) == {f.burst : f \in {f \in Frames(d) : row.id - MaxGap < f.id /\ f.id < row.id}}

Bursts(d, row) == {f.burst : f \in {f \in Frames(d) : row.id - MaxGap <= f.id /\ f.id < row.id}}

_backfill_camera_event_burst_ids ==
    /\ stage = "backfill"
    /\ \E row \in Frames(Seen) :
        /\ row.burst = 0
        /\ \A f \in Frames(Seen) : f.burst = 0 => f.id >= row.id
        /\ \E b \in IF Bursts(Seen, row) = {} THEN {NewBurst(Seen)} ELSE Bursts(Seen, row) :
              Within("backfill", [Seen EXCEPT !["camera_events"].rows =
                  (@ \ {row}) \cup {[row EXCEPT !.burst = b]}])

CommitCamera ==
    /\ stage = "backfill"
    /\ \A f \in Frames(Seen) : f.burst # 0
    /\ Alone("recover", Seen)

\* What was executing when Core died is closed as failed, never run again.
recover_interrupted_approvals ==
    /\ stage = "recover"
    /\ Alone("up", [db EXCEPT !["approvals"].rows =
           {IF row.status = "executing" THEN [row EXCEPT !.status = "failed"] ELSE row : row \in @}])

\* While Core serves, the owner may sign in for the first time.
bind_owner ==
    /\ stage = "up" /\ db["owner"].rows = {}
    /\ Alone("up", [db EXCEPT !["owner"].rows = {Row("sub", None, None, 0)},
                              !["users"].rows = @ \cup {Row("owner", None, None, 0)}])

\* Core dies, or is stopped; the open transaction is undone.
Die ==
    /\ stage # "down" /\ deaths < MaxDeaths
    /\ deaths' = deaths + 1 /\ stage' = "down" /\ tx' = None
    /\ UNCHANGED <<db, installed>>

Next ==
    \/ Open \/ _migrate_legacy_sessions
    \/ ReplaceApprovals \/ CopyApproval \/ CommitApprovals
    \/ _migrate_tool_calls \/ executescript
    \/ InsertPrincipals \/ OwnRows \/ RenameRecords \/ CreateRecords \/ CopyRecords \/ CommitIdentity
    \/ _migrate_camera_events \/ _backfill_camera_event_burst_ids \/ CommitCamera
    \/ recover_interrupted_approvals \/ bind_owner \/ Die

Spec == Init /\ [][Next]_vars

-----------------------------------------------------------------------------
\* However often a start was interrupted, the one that ends has every table and column
\* of the runtime and none of the old ones ("installations created by the prototype").
Current ==
    stage = "up" => \A t \in Names : IF t \in Tables THEN Schema[t] \subseteq db[t].columns
                                                     ELSE ~Exists(db, t)

\* No conversation, record or approval of the installation is lost on the way, and what
\* is served has an owner: the one who had signed in ("without discarding sole-owner
\* state", db.py:144-149).
NothingDiscarded ==
    /\ Ids(installed, "state_records")
          \subseteq Ids(db, "state_records") \cup Ids(db, "state_records_legacy")
    /\ stage = "up" =>
        /\ \A t \in {"conversations", "state_records", "approvals", "camera_events"} :
               Ids(db, t) = Ids(installed, t)
        /\ \A t \in {"sessions", "conversations", "state_records"} : \A row \in db[t].rows :
               /\ row.user \in Ids(db, "users")
               /\ installed["owner"].rows # {} => row.user = "owner"

\* "Without making old, unbound approvals executable": none is ever pending in the table
\* of the runtime, and after a start nothing is executing (db.py:268-275, 107-112).
LegacyNeverRuns ==
    /\ "action_digest" \in db["approvals"].columns =>
          \A row \in db["approvals"].rows :
              "action_digest" \notin installed["approvals"].columns
                  => row.status \in {"denied", "expired"}
    /\ stage = "up" => \A row \in db["approvals"].rows : row.status # "executing"

\* Frames at most the gap apart are of one burst, frames of two bursts are not
\* (db.py:341-342, 368-372).
BurstsAreMotions ==
    stage = "up" => \A f, g \in Frames(db) :
        /\ f.id <= g.id /\ g.id - f.id <= MaxGap => f.burst = g.burst
        /\ f.burst = g.burst /\ f.id < g.id =>
              \E h \in Frames(db) : f.id < h.id /\ h.id <= g.id /\ h.id - f.id <= MaxGap
=============================================================================
