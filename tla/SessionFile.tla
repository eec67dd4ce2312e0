---- MODULE SessionFile ----
(***************************************************************************)
(* One .nrp file on disk and the processes that create, open, migrate,     *)
(* fill and delete it (core/storage/database.py, core/storage/nrp.py).     *)
(* A migration runs statement by statement in autocommit, so a process may *)
(* be killed, or another may run its own statement, between any two.       *)
(* Rows are ids; an event row also names the packet it points at.          *)
(***************************************************************************)
EXTENDS Naturals, Sequences, FiniteSets

CONSTANTS
  Openers,     \* threads and processes that construct a SessionStorage on the path
  OldFiles,    \* the files found on disk: [version, format, rows], or NoFile
  NoRef,       \* NULL in a packet_id column
  MaxKills,    \* how many times a process may be killed
  MaxRefused   \* how many attempts to open or create may be refused

Core == {"flows", "packets", "events", "raw_blocks"}
SchemaVersion == 4
FormatVersion == 1
NoFile == [version |-> 0, format |-> 0, rows |-> [t \in Core |-> {}]]

Ids(rows) == {r.id : r \in rows}
IsRow(r) == r = [id |-> r.id, packet |-> r.packet]
PointsInto(rows, packets) == \A r \in rows : r.packet = NoRef \/ r.packet \in Ids(packets)

\* A file this program or an older version of it wrote: add_packet writes a packet and its raw block
\* in one transaction, and since schema 4 events.packet_id references packets (foreign_keys is ON).
ASSUME FileAssumption ==
  /\ IsFiniteSet(Openers) /\ MaxKills \in Nat /\ MaxRefused \in Nat
  /\ \A f \in OldFiles :
       /\ f.version \in Nat /\ f.format \in Nat
       /\ f.rows = [t \in Core |-> f.rows[t]]
       /\ \A t \in Core : \A r \in f.rows[t] : IsRow(r)
       /\ f.format <= FormatVersion /\ f.version <= SchemaVersion =>
            /\ Ids(f.rows["raw_blocks"]) \subseteq Ids(f.rows["packets"])
            /\ f.version = SchemaVersion => PointsInto(f.rows["events"], f.rows["packets"])

VARIABLES
  db,          \* the file: see FileInit
  opener,      \* each process: where it is in __init__, the stage and statement it is at
  kept,        \* what a reader is entitled to find: the rows never deleted
  overlapped,  \* two processes were migrating the file at one time
  cut,         \* a process was killed while a rebuilt table had no name of its own
  kills,
  refusals

fileVars == <<db, opener, kept, overlapped, cut, kills, refusals>>

\* The statements of _MIGRATION_STAGES. The indexes on one table are one statement, and a new table
\* carries its indexes; the two columns metadata gets hold nothing here and are left out.
AddColumn(t, c) == [op |-> "column", table |-> t, arg |-> c]
MakeTable(t) == [op |-> "make", table |-> t, arg |-> "none"]
Index(t) == [op |-> "index", table |-> t, arg |-> "none"]
\* Mutant: the old table is dropped before its rows are copied.
RebuildDropsFirst(t) == << [op |-> "shadow", table |-> t, arg |-> "none"], [op |-> "drop", table |-> t, arg |-> "none"],
                           [op |-> "copy", table |-> t, arg |-> "none"], [op |-> "rename", table |-> t, arg |-> "none"] >>
Rebuild(t) == << [op |-> "shadow", table |-> t, arg |-> "none"], [op |-> "copy", table |-> t, arg |-> "none"],
                 [op |-> "drop", table |-> t, arg |-> "none"], [op |-> "rename", table |-> t, arg |-> "none"] >>
UnlinkDangling == [op |-> "unlink", table |-> "events", arg |-> "none"]

Stages ==
  << << AddColumn("packets", "captured_len"), AddColumn("packets", "original_len") >>,
     << AddColumn("events", "packet_id"), AddColumn("events", "parent_id"),
        AddColumn("packets", "info"), Index("events") >>,
     << MakeTable("streams"), MakeTable("protocol_facts") >>,
     Rebuild("flows") \o Rebuild("packets") \o << Index("packets"), UnlinkDangling >>
       \o Rebuild("events") \o << Index("events") >> \o Rebuild("raw_blocks") >>

\* What SQLite answers "no such table" or "already exists" to.
Impossible(d, s) ==
  \/ s.op \in {"column", "copy", "drop", "index", "unlink"} /\ s.table \in d.gone
  \/ s.op \in {"copy", "rename"} /\ s.table \notin DOMAIN d.shadow
  \/ s.op = "rename" /\ s.table \notin d.gone
  \/ s.op = "unlink" /\ "packets" \in d.gone
  \/ s.op = "column" /\ <<s.table, s.arg>> \in d.columns

Without(f, x) == [y \in DOMAIN f \ {x} |-> f[y]]
With(f, x, v) == [y \in DOMAIN f \cup {x} |-> IF y = x THEN v ELSE f[y]]

\* INSERT OR IGNORE skips the rows whose key the rebuilt table already holds.
Merged(into, from) == into \cup {r \in from : r.id \notin Ids(into)}

Executed(d, s) ==
  CASE s.op = "column" -> [d EXCEPT !.columns = @ \cup {<<s.table, s.arg>>}]
    [] s.op = "make" -> [d EXCEPT !.extra = @ \cup {s.table}]
    [] s.op = "shadow" -> IF s.table \in DOMAIN d.shadow THEN d
                          ELSE [d EXCEPT !.shadow = With(@, s.table, {})]
    [] s.op = "copy" -> [d EXCEPT !.shadow[s.table] = Merged(@, d.rows[s.table])]
    [] s.op = "drop" -> [d EXCEPT !.rows[s.table] = {}, !.gone = @ \cup {s.table}]
    [] s.op = "rename" -> [d EXCEPT !.rows[s.table] = d.shadow[s.table], !.gone = @ \ {s.table},
                                    !.shadow = Without(@, s.table)]
    [] s.op = "unlink" -> [d EXCEPT !.rows["events"] =
                             {IF r.packet \in Ids(d.rows["packets"]) THEN r ELSE [r EXCEPT !.packet = NoRef] : r \in @}]
    [] OTHER -> d

Away == [pc |-> "out", stage |-> 0, at |-> 0]
Migrating(o) == opener[o].pc \in {"look", "run", "record", "stamp"}

Blank == [exists |-> FALSE, magic |-> FALSE, format |-> FormatVersion, version |-> 0, stamped |-> 0,
          session |-> FALSE, status |-> "none", rows |-> [t \in Core |-> {}], gone |-> {},
          shadow |-> [t \in {} |-> {}], columns |-> {}, extra |-> {}]

\* The columns and tables a file of that version has.
Layout(version) ==
  [columns |-> UNION {{<<Stages[n][k].table, Stages[n][k].arg>> :
                        k \in {j \in DOMAIN Stages[n] : Stages[n][j].op = "column"}} :
                      n \in {m \in 1..3 : m <= version}},
   extra |-> IF version >= 3 THEN {"streams", "protocol_facts"} ELSE {}]

FileInit ==
  \E f \in OldFiles \cup {NoFile} :
    /\ db = IF f = NoFile THEN Blank
            ELSE [Blank EXCEPT !.exists = TRUE, !.magic = TRUE, !.format = f.format,
                               !.version = f.version, !.session = TRUE, !.status = "complete",
                               !.rows = f.rows, !.columns = Layout(f.version).columns,
                               !.extra = Layout(f.version).extra]
    /\ kept = f.rows
    /\ opener = [o \in Openers |-> Away]
    /\ overlapped = FALSE /\ cut = FALSE /\ kills = 0 /\ refusals = 0

Go(o, pc, stage, at) ==
  /\ opener' = [opener EXCEPT ![o] = [pc |-> pc, stage |-> stage, at |-> at]]
  /\ overlapped' = (overlapped \/ (pc \in {"look", "run", "record"} /\ \E p \in Openers \ {o} : Migrating(p)))

\* A column is looked up before it is added; every other statement runs at once.
Take(o, stage, at) == Go(o, IF Stages[stage][at].op = "column" THEN "look" ELSE "run", stage, at)

Begin(o, stage) == IF stage > SchemaVersion THEN Go(o, "stamp", stage, 1) ELSE Take(o, stage, 1)

CreateTables(o) ==
  /\ opener[o].pc = "out" /\ ~db.exists
  /\ db' = [db EXCEPT !.exists = TRUE]
  /\ Go(o, "fill", 0, 0)
  /\ UNCHANGED <<kept, cut, kills, refusals>>

CreateRows(o) ==
  /\ opener[o].pc = "fill"
  /\ db' = [db EXCEPT !.magic = TRUE, !.session = TRUE, !.status = "created"]
  /\ Begin(o, 1)
  /\ UNCHANGED <<kept, cut, kills, refusals>>

\* check_header and the first lines of _migrate.
Readable == db.magic /\ db.format <= FormatVersion /\ db.version <= SchemaVersion

\* InvalidNrpError: create on a file that exists, open on one that is not there or has no usable header.
Refuse(o, create) ==
  /\ opener[o].pc = "out" /\ refusals < MaxRefused
  /\ IF create THEN db.exists ELSE ~db.exists \/ ~Readable
  /\ refusals' = refusals + 1
  /\ UNCHANGED <<db, opener, kept, overlapped, cut, kills>>

OpenFile(o) ==
  /\ opener[o].pc = "out" /\ db.exists /\ Readable
  /\ IF db.version = SchemaVersion THEN Go(o, "open", 0, 0) ELSE Begin(o, db.version + 1)
  /\ UNCHANGED <<db, kept, cut, kills, refusals>>

Statement(o) == Stages[opener[o].stage][opener[o].at]

AfterStatement(o) ==
  LET s == opener[o].stage IN
  IF opener[o].at < Len(Stages[s]) THEN Take(o, s, opener[o].at + 1) ELSE Go(o, "record", s, 0)

\* _apply_statement: the columns are listed in one statement and added in another.
LookAtColumns(o) ==
  /\ opener[o].pc = "look"
  /\ IF <<Statement(o).table, Statement(o).arg>> \in db.columns
     THEN AfterStatement(o) ELSE Go(o, "run", opener[o].stage, opener[o].at)
  /\ UNCHANGED <<db, kept, cut, kills, refusals>>

Execute(o) ==
  /\ opener[o].pc = "run" /\ ~Impossible(db, Statement(o))
  /\ db' = Executed(db, Statement(o))
  /\ AfterStatement(o)
  /\ UNCHANGED <<kept, cut, kills, refusals>>

ExecuteFails(o) ==
  /\ opener[o].pc = "run" /\ Impossible(db, Statement(o))
  /\ Go(o, "broken", opener[o].stage, opener[o].at)
  /\ UNCHANGED <<db, kept, cut, kills, refusals>>

RecordVersion(o) ==
  /\ opener[o].pc = "record"
  /\ db' = [db EXCEPT !.version = opener[o].stage]
  /\ Begin(o, opener[o].stage + 1)
  /\ UNCHANGED <<kept, cut, kills, refusals>>

StampHeader(o) ==
  /\ opener[o].pc = "stamp"
  /\ db' = [db EXCEPT !.stamped = SchemaVersion]
  /\ Go(o, "open", 0, 0)
  /\ UNCHANGED <<kept, cut, kills, refusals>>

\* add_packet with its raw block, in one transaction; the migrated tables refuse a packet of no session.
AddPacket(o, id) ==
  /\ opener[o].pc = "open" /\ db.session /\ db.gone \cap {"packets", "raw_blocks"} = {}
  /\ id \notin Ids(db.rows["packets"]) /\ id \notin Ids(kept["packets"])
  /\ LET row == [id |-> id, packet |-> NoRef]
         into(f) == [f EXCEPT !["packets"] = @ \cup {row}, !["raw_blocks"] = @ \cup {row}] IN
     /\ db' = [db EXCEPT !.rows = into(@), !.status = "capturing"]
     /\ kept' = into(kept)
  /\ UNCHANGED <<opener, overlapped, cut, kills, refusals>>

SetStatus(o, status) ==
  /\ opener[o].pc = "open" /\ db.session /\ db.status # status
  /\ db' = [db EXCEPT !.status = status]
  /\ UNCHANGED <<opener, kept, overlapped, cut, kills, refusals>>

\* Every table is emptied in one transaction; a raw block goes with its packet.
DeleteSession(o) ==
  /\ opener[o].pc = "open" /\ db.session /\ db.gone = {}
  /\ db' = [db EXCEPT !.session = FALSE, !.status = "none",
                      !.rows = [t \in Core |-> IF t = "raw_blocks"
                                               THEN {r \in @[t] : r.id \notin Ids(@["packets"])} ELSE {}]]
  /\ kept' = [t \in Core |-> {}]
  /\ UNCHANGED <<opener, overlapped, cut, kills, refusals>>

CloseSession(o) ==
  /\ opener[o].pc \in {"open", "broken"} /\ refusals < MaxRefused
  /\ opener' = [opener EXCEPT ![o] = Away]
  /\ refusals' = refusals + 1
  /\ UNCHANGED <<db, kept, overlapped, cut, kills>>

Kill(o) ==
  /\ kills < MaxKills /\ (Migrating(o) \/ opener[o].pc = "fill")
  /\ kills' = kills + 1
  /\ opener' = [opener EXCEPT ![o] = Away]
  /\ cut' = (cut \/ db.gone # {})
  /\ UNCHANGED <<db, kept, overlapped, refusals>>

\* The lifecycle words of the older captures are read as today's.
StatusRead ==
  CASE db.status = "complete" -> "ready"
    [] db.status = "running" -> "capturing"
    [] db.status = "error" -> "failed"
    [] db.status = "none" -> "created"
    [] OTHER -> db.status

MigrationStep(o) ==
  OpenFile(o) \/ LookAtColumns(o) \/ Execute(o) \/ ExecuteFails(o) \/ RecordVersion(o) \/ StampHeader(o)

FileNext ==
  \E o \in Openers :
    \/ CreateTables(o) \/ CreateRows(o) \/ (\E create \in BOOLEAN : Refuse(o, create)) \/ MigrationStep(o) \/ Kill(o)
    \/ \E id \in {9} : AddPacket(o, id)
    \/ SetStatus(o, "archived")
    \/ DeleteSession(o) \/ CloseSession(o)

FileSpec == FileInit /\ [][FileNext]_fileVars

----------------------------------------------------------------------------
FileTypeOK ==
  /\ DOMAIN db.rows = Core /\ db.gone \subseteq Core /\ DOMAIN db.shadow \subseteq Core
  /\ db.version \in 0..6 /\ StatusRead \in {"created", "capturing", "ready", "failed", "archived"}
  /\ \A o \in Openers : opener[o].pc \in {"out", "fill", "look", "run", "record", "stamp", "open", "broken"}

\* The rows of table t, under its own name or that of the copy being made of it.
Found(t) == Ids(db.rows[t]) \cup (IF t \in DOMAIN db.shadow THEN Ids(db.shadow[t]) ELSE {})

\* RowsSurvive: whatever is interrupted, no row that was stored and not deleted leaves the file
\* (every table is copied before it is dropped), a session that could be opened has all its tables
\* under their own names and no event points at a packet the file lacks; two migrations of one
\* file at once are the only thing that can lose rows (_MIGRATION_STAGES 4, _migrate 533-565).
RowsSurvive ==
  ~overlapped =>
    /\ \A t \in Core : Ids(kept[t]) \subseteq Found(t)
    /\ \A o \in Openers : opener[o].pc = "open" /\ Readable =>
         /\ db.gone = {} /\ \A t \in Core : Ids(kept[t]) = Ids(db.rows[t])
         /\ PointsInto(db.rows["events"], db.rows["packets"])

\* StuckOnlyWhenCut: a readable file whose migration fails was left between the DROP and the RENAME
\* of a table, or was being migrated by somebody else; every other interruption is survived by
\* running the stage again (_apply_statement 271-286).
StuckOnlyWhenCut ==
  \A o \in Openers : opener[o].pc = "broken" => cut \/ overlapped

\* FileSurvives: no interruption of a migration takes a row out of the file, and only one between the
\* DROP and the RENAME of a table, or a second migration at the same time, leaves a file that cannot
\* be opened (database.py 135-238, 533-565).
FileSurvives == RowsSurvive /\ StuckOnlyWhenCut

\* RerunSucceeds: "so a stage can be safely re-run (e.g. after an interrupted migration ...)"
\* (database.py:275): opening a readable file never ends in an error of the database.
RerunSucceeds == \A o \in Openers : opener[o].pc # "broken"
====
