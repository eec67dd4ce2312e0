--------------------------- MODULE StorageProofs ---------------------------
(***************************************************************************)
(* Theorems about what is kept of a capture.  First SessionFile: what a    *)
(* migration may do to the rows of a file, for any number of processes.    *)
(* Then CaseFile, for any workers, scenarios, runs, selections and bounds: *)
(* what an artefact says of its capture stays true, and requests that do   *)
(* not overlap on a row lose nothing of each other.  At the end Jobs, the  *)
(* registry of background jobs beside them.                                *)
(***************************************************************************)
EXTENDS SessionFile, CaseFile, Jobs, TLAPS


\* Where stage 4 gives each table its name back, and the tables it has not got to at statement k.
RenamedAt == [flows |-> 4, packets |-> 8, events |-> 14, raw_blocks |-> 19]
Unrenamed(k) == {t \in Core : RenamedAt[t] >= k}
Unlinked == 10
Finished == 20

Positions == {"out", "fill", "look", "run", "record", "stamp", "open", "broken"}

\* What is known of a file that was never migrated by two processes at once.
Shaped(d) ==
  /\ d = [exists |-> d.exists, magic |-> d.magic, format |-> d.format, version |-> d.version,
          stamped |-> d.stamped, session |-> d.session, status |-> d.status, rows |-> d.rows,
          gone |-> d.gone, shadow |-> d.shadow, columns |-> d.columns, extra |-> d.extra]
  /\ d.exists \in BOOLEAN /\ d.magic \in BOOLEAN /\ d.session \in BOOLEAN
  /\ d.version \in Nat /\ d.format \in Nat
  /\ d.rows = [t \in Core |-> d.rows[t]]
  /\ d.gone \subseteq Core
  /\ d.shadow = [t \in DOMAIN d.shadow |-> d.shadow[t]]
  /\ DOMAIN d.shadow \subseteq Core

RowsTyped(d, q) ==
  /\ q = [t \in Core |-> q[t]]
  /\ \A t \in Core : \A r \in d.rows[t] : IsRow(r)
  /\ \A t \in DOMAIN d.shadow : \A r \in d.shadow[t] : IsRow(r)

Safe(d, q) ==
  /\ \A t \in d.gone : t \in DOMAIN d.shadow /\ Ids(d.shadow[t]) = Ids(q[t])
  /\ \A t \in Core \ d.gone : Ids(d.rows[t]) = Ids(q[t])
  /\ \A t \in DOMAIN d.shadow : Ids(d.shadow[t]) \subseteq Ids(q[t])
  /\ "events" \in DOMAIN d.shadow => PointsInto(d.shadow["events"], q["packets"])

ReadableFile(d) == d.magic /\ d.format <= FormatVersion /\ d.version <= SchemaVersion

Settled(d, q) ==
  /\ d.version # 3 => DOMAIN d.shadow = {}
  /\ ReadableFile(d) => Ids(q["raw_blocks"]) \subseteq Ids(q["packets"])
  /\ ReadableFile(d) /\ d.version = SchemaVersion => PointsInto(d.rows["events"], q["packets"])
  /\ ~d.magic => d.version = 0 /\ d.format = FormatVersion /\ \A t \in Core : q[t] = {}
  /\ ~d.exists => ~d.magic

Good(d, q) == Shaped(d) /\ RowsTyped(d, q) /\ Safe(d, q) /\ Settled(d, q)

FileInv == Good(db, kept)

\* What is known of the processes.
InStage(o) == opener[o].pc \in {"look", "run", "record"}

\* How far stage 4 has come.
Progress(d, q, k) ==
  /\ DOMAIN d.shadow \subseteq Unrenamed(k)
  /\ k > Unlinked => PointsInto(d.rows["events"], q["packets"])

\* What the statement a process is about to run finds.
Ready(d, q, s) ==
  /\ s.op \in {"copy", "drop"} => s.table \in DOMAIN d.shadow
  /\ s.op = "drop" => Ids(d.shadow[s.table]) = Ids(q[s.table])
  /\ s.op = "rename" => s.table \in d.gone
  /\ s.op = "column" => <<s.table, s.arg>> \notin d.columns

PlaceOf(o) ==
  /\ opener[o].pc \notin {"out", "fill", "broken"} => Readable
  /\ opener[o].pc = "broken" => cut /\ db.magic
  /\ opener[o].pc = "fill" => db.exists /\ ~db.magic
  /\ opener[o].pc \in {"stamp", "open"} => db.version = SchemaVersion
  /\ InStage(o) => opener[o].stage = db.version + 1 /\ db.version < SchemaVersion
  /\ opener[o].pc \in {"look", "run"} => opener[o].at \in 1..Len(Stages[opener[o].stage])
  /\ opener[o].pc = "look" => Statement(o).op = "column"
  /\ opener[o].pc = "run" => Ready(db, kept, Statement(o))
  /\ InStage(o) /\ opener[o].stage = 4 =>
       Progress(db, kept, IF opener[o].pc = "record" THEN Finished ELSE opener[o].at)

Alone ==
  \A o, p \in Openers : o # p =>
    /\ InStage(o) => ~Migrating(p)
    /\ opener[o].pc = "fill" => opener[p].pc # "fill"

NothingGone ==
  ~cut => \A t \in db.gone : \E o \in Openers :
            opener[o].pc = "run" /\ Statement(o).op = "rename" /\ Statement(o).table = t

OpenersInv ==
  /\ opener \in [Openers -> [pc : Positions, stage : Nat, at : Nat]]
  /\ cut \in BOOLEAN
  /\ \A o \in Openers : PlaceOf(o)
  /\ Alone /\ NothingGone

MigrationInv == overlapped \in BOOLEAN /\ (~overlapped => FileInv /\ OpenersInv)


----------------------------------------------------------------------------
\* The statements of the migration, one by one.
LEMMA StageLengths ==
  Len(Stages[1]) = 2 /\ Len(Stages[2]) = 4 /\ Len(Stages[3]) = 2 /\ Len(Stages[4]) = 19
BY DEF Stages, Rebuild

LEMMA EarlyStages ==
  /\ \A n \in 1..3 : \A k \in 1..Len(Stages[n]) : Stages[n][k].op \in {"column", "make", "index"}
  /\ Stages[1][1].op = "column" /\ Stages[2][1].op = "column" /\ Stages[3][1].op = "make"
<1>1. \A k \in 1..2 : Stages[1][k].op = "column"
  BY DEF Stages, AddColumn
<1>2. \A k \in 1..4 : Stages[2][k].op \in {"column", "index"}
  BY DEF Stages, AddColumn, Index
<1>3. \A k \in 1..2 : Stages[3][k].op = "make"
  BY DEF Stages, MakeTable
<1>4. Stages[2][1].op = "column"
  BY DEF Stages, AddColumn
<1>5. ASSUME NEW n \in 1..3, NEW k \in 1..Len(Stages[n]) PROVE Stages[n][k].op \in {"column", "make", "index"}
  <2>1. CASE n = 1
    BY <1>1, <1>5, <2>1, StageLengths
  <2>2. CASE n = 2
    BY <1>2, <1>5, <2>2, StageLengths
  <2>3. CASE n = 3
    BY <1>3, <1>5, <2>3, StageLengths
  <2> QED BY <2>1, <2>2, <2>3
<1> QED BY <1>1, <1>3, <1>4, <1>5

LEMMA LastStatements ==
  /\ Stages[4][1] = [op |-> "shadow", table |-> "flows", arg |-> "none"]
  /\ Stages[4][2] = [op |-> "copy", table |-> "flows", arg |-> "none"]
  /\ Stages[4][3] = [op |-> "drop", table |-> "flows", arg |-> "none"]
  /\ Stages[4][4] = [op |-> "rename", table |-> "flows", arg |-> "none"]
  /\ Stages[4][5] = [op |-> "shadow", table |-> "packets", arg |-> "none"]
  /\ Stages[4][6] = [op |-> "copy", table |-> "packets", arg |-> "none"]
  /\ Stages[4][7] = [op |-> "drop", table |-> "packets", arg |-> "none"]
  /\ Stages[4][8] = [op |-> "rename", table |-> "packets", arg |-> "none"]
  /\ Stages[4][9] = [op |-> "index", table |-> "packets", arg |-> "none"]
  /\ Stages[4][10] = [op |-> "unlink", table |-> "events", arg |-> "none"]
  /\ Stages[4][11] = [op |-> "shadow", table |-> "events", arg |-> "none"]
  /\ Stages[4][12] = [op |-> "copy", table |-> "events", arg |-> "none"]
  /\ Stages[4][13] = [op |-> "drop", table |-> "events", arg |-> "none"]
  /\ Stages[4][14] = [op |-> "rename", table |-> "events", arg |-> "none"]
  /\ Stages[4][15] = [op |-> "index", table |-> "events", arg |-> "none"]
  /\ Stages[4][16] = [op |-> "shadow", table |-> "raw_blocks", arg |-> "none"]
  /\ Stages[4][17] = [op |-> "copy", table |-> "raw_blocks", arg |-> "none"]
  /\ Stages[4][18] = [op |-> "drop", table |-> "raw_blocks", arg |-> "none"]
  /\ Stages[4][19] = [op |-> "rename", table |-> "raw_blocks", arg |-> "none"]
<1> DEFINE x1 == [op |-> "shadow", table |-> "flows", arg |-> "none"]
           x2 == [op |-> "copy", table |-> "flows", arg |-> "none"]
           x3 == [op |-> "drop", table |-> "flows", arg |-> "none"]
           x4 == [op |-> "rename", table |-> "flows", arg |-> "none"]
           x5 == [op |-> "shadow", table |-> "packets", arg |-> "none"]
           x6 == [op |-> "copy", table |-> "packets", arg |-> "none"]
           x7 == [op |-> "drop", table |-> "packets", arg |-> "none"]
           x8 == [op |-> "rename", table |-> "packets", arg |-> "none"]
           x9 == [op |-> "index", table |-> "packets", arg |-> "none"]
           x10 == [op |-> "unlink", table |-> "events", arg |-> "none"]
           x11 == [op |-> "shadow", table |-> "events", arg |-> "none"]
           x12 == [op |-> "copy", table |-> "events", arg |-> "none"]
           x13 == [op |-> "drop", table |-> "events", arg |-> "none"]
           x14 == [op |-> "rename", table |-> "events", arg |-> "none"]
           x15 == [op |-> "index", table |-> "events", arg |-> "none"]
           x16 == [op |-> "shadow", table |-> "raw_blocks", arg |-> "none"]
           x17 == [op |-> "copy", table |-> "raw_blocks", arg |-> "none"]
           x18 == [op |-> "drop", table |-> "raw_blocks", arg |-> "none"]
           x19 == [op |-> "rename", table |-> "raw_blocks", arg |-> "none"]
<1>1. Stages[4] = <<x1, x2, x3, x4>> \o <<x5, x6, x7, x8>> \o <<x9, x10>>
                    \o <<x11, x12, x13, x14>> \o <<x15>> \o <<x16, x17, x18, x19>>
  BY DEF Stages, Rebuild, Index, UnlinkDangling
<1> HIDE DEF x1, x2, x3, x4, x5, x6, x7, x8, x9, x10, x11, x12, x13, x14, x15, x16, x17, x18, x19
<1>2. /\ Stages[4][1] = x1 /\ Stages[4][2] = x2 /\ Stages[4][3] = x3 /\ Stages[4][4] = x4 /\ Stages[4][5] = x5
      /\ Stages[4][6] = x6 /\ Stages[4][7] = x7 /\ Stages[4][8] = x8 /\ Stages[4][9] = x9 /\ Stages[4][10] = x10
      /\ Stages[4][11] = x11 /\ Stages[4][12] = x12 /\ Stages[4][13] = x13 /\ Stages[4][14] = x14 /\ Stages[4][15] = x15
      /\ Stages[4][16] = x16 /\ Stages[4][17] = x17 /\ Stages[4][18] = x18 /\ Stages[4][19] = x19
  BY <1>1, SMTT(30)
<1> QED BY <1>2 DEF x1, x2, x3, x4, x5, x6, x7, x8, x9, x10, x11, x12, x13, x14, x15, x16, x17, x18, x19

Following(k) ==
  LET s == Stages[4][k]
      next == Stages[4][k + 1] IN
  /\ s.op \in {"shadow", "copy", "drop", "rename", "index", "unlink"} /\ s.table \in Core
  /\ s.op = "rename" <=> RenamedAt[s.table] = k
  /\ s.op # "rename" => \A t \in Core : RenamedAt[t] # k
  /\ s.op = "rename" => \A t \in Core : RenamedAt[t] = k => t = s.table
  /\ s.op \in {"shadow", "copy", "drop"} => RenamedAt[s.table] > k
  /\ k = 19 => s.op = "rename"
  /\ s.op = "shadow" => next.op = "copy" /\ next.table = s.table
  /\ s.op = "copy" => next.op = "drop" /\ next.table = s.table
  /\ s.op = "drop" => next.op = "rename" /\ next.table = s.table
  /\ s.op \in {"rename", "index", "unlink"} /\ k < 19 => next.op \in {"shadow", "index", "unlink"}
  /\ s.op = "unlink" <=> k = Unlinked
  /\ s.op = "unlink" => s.table = "events"
  /\ s.op = "copy" /\ s.table = "events" => k > Unlinked

LEMMA LastStage == \A k \in 1..19 : Following(k)
<1> SUFFICES ASSUME NEW k \in 1..19 PROVE Following(k)
  OBVIOUS
<1> DEFINE Is(i, o, t) == Stages[4][i].op = o /\ Stages[4][i].table = t
<1>0. RenamedAt["flows"] = 4 /\ RenamedAt["packets"] = 8 /\ RenamedAt["events"] = 14 /\ RenamedAt["raw_blocks"] = 19
  BY DEF RenamedAt
<1> USE <1>0 DEF Following, Core, Unlinked
<1>1. CASE k = 1
  <2>1. Is(k, "shadow", "flows")
    BY <1>1, LastStatements
  <2>2. Is(k + 1, "copy", "flows")
    BY <1>1, LastStatements
  <2> QED BY <1>1, <2>1, <2>2
<1>2. CASE k = 2
  <2>1. Is(k, "copy", "flows")
    BY <1>2, LastStatements
  <2>2. Is(k + 1, "drop", "flows")
    BY <1>2, LastStatements
  <2> QED BY <1>2, <2>1, <2>2
<1>3. CASE k = 3
  <2>1. Is(k, "drop", "flows")
    BY <1>3, LastStatements
  <2>2. Is(k + 1, "rename", "flows")
    BY <1>3, LastStatements
  <2> QED BY <1>3, <2>1, <2>2
<1>4. CASE k = 4
  <2>1. Is(k, "rename", "flows")
    BY <1>4, LastStatements
  <2>2. Is(k + 1, "shadow", "packets")
    BY <1>4, LastStatements
  <2> QED BY <1>4, <2>1, <2>2
<1>5. CASE k = 5
  <2>1. Is(k, "shadow", "packets")
    BY <1>5, LastStatements
  <2>2. Is(k + 1, "copy", "packets")
    BY <1>5, LastStatements
  <2> QED BY <1>5, <2>1, <2>2
<1>6. CASE k = 6
  <2>1. Is(k, "copy", "packets")
    BY <1>6, LastStatements
  <2>2. Is(k + 1, "drop", "packets")
    BY <1>6, LastStatements
  <2> QED BY <1>6, <2>1, <2>2
<1>7. CASE k = 7
  <2>1. Is(k, "drop", "packets")
    BY <1>7, LastStatements
  <2>2. Is(k + 1, "rename", "packets")
    BY <1>7, LastStatements
  <2> QED BY <1>7, <2>1, <2>2
<1>8. CASE k = 8
  <2>1. Is(k, "rename", "packets")
    BY <1>8, LastStatements
  <2>2. Is(k + 1, "index", "packets")
    BY <1>8, LastStatements
  <2> QED BY <1>8, <2>1, <2>2
<1>9. CASE k = 9
  <2>1. Is(k, "index", "packets")
    BY <1>9, LastStatements
  <2>2. Is(k + 1, "unlink", "events")
    BY <1>9, LastStatements
  <2> QED BY <1>9, <2>1, <2>2
<1>10. CASE k = 10
  <2>1. Is(k, "unlink", "events")
    BY <1>10, LastStatements
  <2>2. Is(k + 1, "shadow", "events")
    BY <1>10, LastStatements
  <2> QED BY <1>10, <2>1, <2>2
<1>11. CASE k = 11
  <2>1. Is(k, "shadow", "events")
    BY <1>11, LastStatements
  <2>2. Is(k + 1, "copy", "events")
    BY <1>11, LastStatements
  <2> QED BY <1>11, <2>1, <2>2
<1>12. CASE k = 12
  <2>1. Is(k, "copy", "events")
    BY <1>12, LastStatements
  <2>2. Is(k + 1, "drop", "events")
    BY <1>12, LastStatements
  <2> QED BY <1>12, <2>1, <2>2
<1>13. CASE k = 13
  <2>1. Is(k, "drop", "events")
    BY <1>13, LastStatements
  <2>2. Is(k + 1, "rename", "events")
    BY <1>13, LastStatements
  <2> QED BY <1>13, <2>1, <2>2
<1>14. CASE k = 14
  <2>1. Is(k, "rename", "events")
    BY <1>14, LastStatements
  <2>2. Is(k + 1, "index", "events")
    BY <1>14, LastStatements
  <2> QED BY <1>14, <2>1, <2>2
<1>15. CASE k = 15
  <2>1. Is(k, "index", "events")
    BY <1>15, LastStatements
  <2>2. Is(k + 1, "shadow", "raw_blocks")
    BY <1>15, LastStatements
  <2> QED BY <1>15, <2>1, <2>2
<1>16. CASE k = 16
  <2>1. Is(k, "shadow", "raw_blocks")
    BY <1>16, LastStatements
  <2>2. Is(k + 1, "copy", "raw_blocks")
    BY <1>16, LastStatements
  <2> QED BY <1>16, <2>1, <2>2
<1>17. CASE k = 17
  <2>1. Is(k, "copy", "raw_blocks")
    BY <1>17, LastStatements
  <2>2. Is(k + 1, "drop", "raw_blocks")
    BY <1>17, LastStatements
  <2> QED BY <1>17, <2>1, <2>2
<1>18. CASE k = 18
  <2>1. Is(k, "drop", "raw_blocks")
    BY <1>18, LastStatements
  <2>2. Is(k + 1, "rename", "raw_blocks")
    BY <1>18, LastStatements
  <2> QED BY <1>18, <2>1, <2>2
<1>19. CASE k = 19
  <2>1. Is(k, "rename", "raw_blocks")
    BY <1>19, LastStatements
  <2> QED BY <1>19, <2>1
<1> HIDE <1>0 DEF Following, Core, Unlinked
<1>20. k \in 1..10 => Following(k)
  BY <1>1, <1>2, <1>3, <1>4, <1>5, <1>6, <1>7, <1>8, <1>9, <1>10
<1>21. k \in 11..19 => Following(k)
  BY <1>11, <1>12, <1>13, <1>14, <1>15, <1>16, <1>17, <1>18, <1>19
<1> QED BY <1>20, <1>21

----------------------------------------------------------------------------
\* What a statement does to the file, part by part.
SameHeader(d, e) ==
  /\ e.exists = d.exists /\ e.magic = d.magic /\ e.format = d.format /\ e.version = d.version
  /\ e.session = d.session /\ e.status = d.status

LEMMA IdsOfMerged == \A a, b : Ids(Merged(a, b)) = Ids(a) \cup Ids(b)
BY DEF Ids, Merged

LEMMA IdsOfNothing == Ids({}) = {}
BY DEF Ids

LEMMA EarlyStep ==
  ASSUME NEW d, NEW q, Good(d, q), NEW s, s.op \in {"column", "make", "index"}
  PROVE  Good(Executed(d, s), q) /\ SameHeader(d, Executed(d, s)) /\ Executed(d, s).gone = d.gone
         /\ Executed(d, s).shadow = d.shadow /\ Executed(d, s).rows = d.rows
<1>1. PICK c, x : Executed(d, s) =
        [exists |-> d.exists, magic |-> d.magic, format |-> d.format, version |-> d.version,
         stamped |-> d.stamped, session |-> d.session, status |-> d.status, rows |-> d.rows,
         gone |-> d.gone, shadow |-> d.shadow, columns |-> c, extra |-> x]
  <2>1. CASE s.op = "column"
    BY <2>1 DEF Executed, Good, Shaped
  <2>2. CASE s.op = "make"
    BY <2>2 DEF Executed, Good, Shaped
  <2>3. CASE s.op = "index"
    BY <2>3 DEF Executed, Good, Shaped
  <2> QED BY <2>1, <2>2, <2>3
<1> DEFINE e == Executed(d, s)
<1>2. SameHeader(d, e) /\ e.gone = d.gone /\ e.shadow = d.shadow /\ e.rows = d.rows
  BY <1>1 DEF SameHeader
<1>3. Shaped(e)
  BY <1>1 DEF Good, Shaped
<1> HIDE DEF e
<1>4. RowsTyped(e, q) /\ Safe(e, q) /\ Settled(e, q)
  BY <1>2 DEF Good, RowsTyped, Safe, Settled, SameHeader, ReadableFile
<1> QED BY <1>2, <1>3, <1>4 DEF Good, e

LEMMA ShadowStep ==
  ASSUME NEW d, NEW q, Good(d, q), NEW s, s.op = "shadow", s.table \in Core, d.version = 3
  PROVE  Good(Executed(d, s), q) /\ SameHeader(d, Executed(d, s)) /\ Executed(d, s).gone = d.gone
         /\ Executed(d, s).rows = d.rows
         /\ DOMAIN Executed(d, s).shadow = DOMAIN d.shadow \cup {s.table}
<1> DEFINE e == Executed(d, s)
<1>1. CASE s.table \in DOMAIN d.shadow
  <2>1. e = d
    BY <1>1 DEF Executed
  <2> QED BY <1>1, <2>1 DEF SameHeader
<1>2. CASE s.table \notin DOMAIN d.shadow
  <2>1. e = [exists |-> d.exists, magic |-> d.magic, format |-> d.format, version |-> d.version,
             stamped |-> d.stamped, session |-> d.session, status |-> d.status, rows |-> d.rows,
             gone |-> d.gone, shadow |-> With(d.shadow, s.table, {}), columns |-> d.columns, extra |-> d.extra]
    BY <1>2 DEF Executed, Good, Shaped
  <2>2. SameHeader(d, e) /\ e.gone = d.gone /\ e.shadow = With(d.shadow, s.table, {}) /\ e.rows = d.rows
    BY <2>1 DEF SameHeader
  <2>3. /\ DOMAIN e.shadow = DOMAIN d.shadow \cup {s.table}
        /\ e.shadow = [t \in DOMAIN e.shadow |-> e.shadow[t]]
        /\ e.shadow[s.table] = {}
        /\ \A t \in DOMAIN d.shadow : e.shadow[t] = d.shadow[t]
    BY <2>2, <1>2 DEF With
  <2>4. Shaped(e)
    <3>1. e = [exists |-> e.exists, magic |-> e.magic, format |-> e.format, version |-> e.version,
               stamped |-> e.stamped, session |-> e.session, status |-> e.status, rows |-> e.rows,
               gone |-> e.gone, shadow |-> e.shadow, columns |-> e.columns, extra |-> e.extra]
      BY <2>1
    <3> HIDE DEF e
    <3> QED BY <3>1, <2>2, <2>3 DEF Good, Shaped, SameHeader
  <2> HIDE DEF e
  <2>5. RowsTyped(e, q)
    BY <2>2, <2>3 DEF Good, RowsTyped
  <2>6. Safe(e, q)
    BY <2>2, <2>3, <1>2, IdsOfNothing DEF Good, Safe, PointsInto
  <2>7. Settled(e, q)
    BY <2>2 DEF Good, Settled, SameHeader, ReadableFile, SchemaVersion
  <2> QED BY <2>2, <2>3, <2>4, <2>5, <2>6, <2>7 DEF Good, e
<1> QED BY <1>1, <1>2

LEMMA CopyStep ==
  ASSUME NEW d, NEW q, Good(d, q), NEW s, s.op = "copy", s.table \in Core \ d.gone, d.version = 3,
         s.table \in DOMAIN d.shadow, s.table = "events" => PointsInto(d.rows["events"], q["packets"])
  PROVE  Good(Executed(d, s), q) /\ SameHeader(d, Executed(d, s)) /\ Executed(d, s).gone = d.gone
         /\ Executed(d, s).rows = d.rows
         /\ DOMAIN Executed(d, s).shadow = DOMAIN d.shadow
         /\ Ids(Executed(d, s).shadow[s.table]) = Ids(q[s.table])
<1> DEFINE e == Executed(d, s)
           m == Merged(d.shadow[s.table], d.rows[s.table])
<1>1. e = [exists |-> d.exists, magic |-> d.magic, format |-> d.format, version |-> d.version,
           stamped |-> d.stamped, session |-> d.session, status |-> d.status, rows |-> d.rows,
           gone |-> d.gone, shadow |-> [d.shadow EXCEPT ![s.table] = m], columns |-> d.columns, extra |-> d.extra]
  BY DEF Executed, Good, Shaped
<1> HIDE DEF m
<1>2. SameHeader(d, e) /\ e.gone = d.gone /\ e.shadow = [d.shadow EXCEPT ![s.table] = m] /\ e.rows = d.rows
  BY <1>1 DEF SameHeader
<1>3. /\ DOMAIN e.shadow = DOMAIN d.shadow
      /\ e.shadow = [t \in DOMAIN e.shadow |-> e.shadow[t]]
      /\ e.shadow[s.table] = m
      /\ \A t \in DOMAIN d.shadow \ {s.table} : e.shadow[t] = d.shadow[t]
  BY <1>2 DEF Good, Shaped
<1>4. Shaped(e)
  <2>1. e = [exists |-> e.exists, magic |-> e.magic, format |-> e.format, version |-> e.version,
             stamped |-> e.stamped, session |-> e.session, status |-> e.status, rows |-> e.rows,
             gone |-> e.gone, shadow |-> e.shadow, columns |-> e.columns, extra |-> e.extra]
    BY <1>1
  <2> HIDE DEF e
  <2> QED BY <2>1, <1>2, <1>3 DEF Good, Shaped, SameHeader
<1> HIDE DEF e
<1>5. /\ Ids(m) = Ids(q[s.table])
      /\ \A r \in m : IsRow(r)
      /\ s.table = "events" => PointsInto(m, q["packets"])
  <2>1. Ids(m) = Ids(d.shadow[s.table]) \cup Ids(d.rows[s.table])
    BY IdsOfMerged DEF m
  <2>2. m \subseteq d.shadow[s.table] \cup d.rows[s.table]
    BY DEF m, Merged
  <2>3. Ids(m) = Ids(q[s.table])
    BY <2>1 DEF Good, Safe
  <2>4. \A r \in m : IsRow(r)
    BY <2>2 DEF Good, RowsTyped
  <2>5. s.table = "events" => PointsInto(m, q["packets"])
    BY <2>2 DEF Good, Safe, PointsInto
  <2> QED BY <2>3, <2>4, <2>5
<1>6. RowsTyped(e, q)
  BY <1>2, <1>3, <1>5 DEF Good, RowsTyped
<1>7. Safe(e, q)
  BY <1>2, <1>3, <1>5 DEF Good, Safe
<1>8. Settled(e, q)
  BY <1>2 DEF Good, Settled, SameHeader, ReadableFile, SchemaVersion
<1> QED BY <1>2, <1>3, <1>4, <1>5, <1>6, <1>7, <1>8 DEF Good, e

LEMMA DropStep ==
  ASSUME NEW d, NEW q, Good(d, q), NEW s, s.op = "drop", s.table \in Core, d.version = 3,
         s.table \in DOMAIN d.shadow, Ids(d.shadow[s.table]) = Ids(q[s.table])
  PROVE  Good(Executed(d, s), q) /\ SameHeader(d, Executed(d, s))
         /\ Executed(d, s).gone = d.gone \cup {s.table}
         /\ Executed(d, s).shadow = d.shadow
         /\ Executed(d, s).rows = [d.rows EXCEPT ![s.table] = {}]
<1> DEFINE e == Executed(d, s)
<1>1. e = [exists |-> d.exists, magic |-> d.magic, format |-> d.format, version |-> d.version,
           stamped |-> d.stamped, session |-> d.session, status |-> d.status,
           rows |-> [d.rows EXCEPT ![s.table] = {}], gone |-> d.gone \cup {s.table},
           shadow |-> d.shadow, columns |-> d.columns, extra |-> d.extra]
  BY DEF Executed, Good, Shaped
<1>2. SameHeader(d, e) /\ e.gone = d.gone \cup {s.table} /\ e.shadow = d.shadow
      /\ e.rows = [d.rows EXCEPT ![s.table] = {}]
  BY <1>1 DEF SameHeader
<1>3. /\ e.rows = [t \in Core |-> e.rows[t]]
      /\ e.rows[s.table] = {}
      /\ \A t \in Core \ {s.table} : e.rows[t] = d.rows[t]
  BY <1>2 DEF Good, Shaped
<1>4. Shaped(e)
  <2>1. e = [exists |-> e.exists, magic |-> e.magic, format |-> e.format, version |-> e.version,
             stamped |-> e.stamped, session |-> e.session, status |-> e.status, rows |-> e.rows,
             gone |-> e.gone, shadow |-> e.shadow, columns |-> e.columns, extra |-> e.extra]
    BY <1>1
  <2> HIDE DEF e
  <2> QED BY <2>1, <1>2, <1>3 DEF Good, Shaped, SameHeader
<1> HIDE DEF e
<1>5. RowsTyped(e, q)
  BY <1>2, <1>3 DEF Good, RowsTyped
<1>6. Safe(e, q)
  BY <1>2, <1>3 DEF Good, Safe
<1>7. Settled(e, q)
  BY <1>2 DEF Good, Settled, SameHeader, ReadableFile, SchemaVersion
<1> QED BY <1>2, <1>4, <1>5, <1>6, <1>7 DEF Good, e

LEMMA RenameStep ==
  ASSUME NEW d, NEW q, Good(d, q), NEW s, s.op = "rename", s.table \in d.gone, d.version = 3
  PROVE  Good(Executed(d, s), q) /\ SameHeader(d, Executed(d, s))
         /\ Executed(d, s).gone = d.gone \ {s.table}
         /\ DOMAIN Executed(d, s).shadow = DOMAIN d.shadow \ {s.table}
         /\ Executed(d, s).rows = [d.rows EXCEPT ![s.table] = d.shadow[s.table]]
<1> DEFINE e == Executed(d, s)
<1>0. s.table \in Core /\ s.table \in DOMAIN d.shadow /\ Ids(d.shadow[s.table]) = Ids(q[s.table])
  BY DEF Good, Shaped, Safe
<1>1. e = [exists |-> d.exists, magic |-> d.magic, format |-> d.format, version |-> d.version,
           stamped |-> d.stamped, session |-> d.session, status |-> d.status,
           rows |-> [d.rows EXCEPT ![s.table] = d.shadow[s.table]], gone |-> d.gone \ {s.table},
           shadow |-> Without(d.shadow, s.table), columns |-> d.columns, extra |-> d.extra]
  BY DEF Executed, Good, Shaped
<1>2. SameHeader(d, e) /\ e.gone = d.gone \ {s.table} /\ e.shadow = Without(d.shadow, s.table)
      /\ e.rows = [d.rows EXCEPT ![s.table] = d.shadow[s.table]]
  BY <1>1 DEF SameHeader
<1>3. /\ e.rows = [t \in Core |-> e.rows[t]]
      /\ e.rows[s.table] = d.shadow[s.table]
      /\ \A t \in Core \ {s.table} : e.rows[t] = d.rows[t]
  BY <1>2, <1>0 DEF Good, Shaped
<1>4. /\ DOMAIN e.shadow = DOMAIN d.shadow \ {s.table}
      /\ e.shadow = [t \in DOMAIN e.shadow |-> e.shadow[t]]
      /\ \A t \in DOMAIN e.shadow : e.shadow[t] = d.shadow[t]
  BY <1>2 DEF Without
<1>5. Shaped(e)
  <2>1. e = [exists |-> e.exists, magic |-> e.magic, format |-> e.format, version |-> e.version,
             stamped |-> e.stamped, session |-> e.session, status |-> e.status, rows |-> e.rows,
             gone |-> e.gone, shadow |-> e.shadow, columns |-> e.columns, extra |-> e.extra]
    BY <1>1
  <2> HIDE DEF e
  <2> QED BY <2>1, <1>2, <1>3, <1>4 DEF Good, Shaped, SameHeader
<1> HIDE DEF e
<1>6. RowsTyped(e, q)
  BY <1>0, <1>2, <1>3, <1>4 DEF Good, RowsTyped
<1>7. Safe(e, q)
  BY <1>0, <1>2, <1>3, <1>4 DEF Good, Safe
<1>8. Settled(e, q)
  BY <1>2 DEF Good, Settled, SameHeader, ReadableFile, SchemaVersion
<1> QED BY <1>2, <1>4, <1>5, <1>6, <1>7, <1>8 DEF Good, e

LEMMA UnlinkStep ==
  ASSUME NEW d, NEW q, Good(d, q), NEW s, s.op = "unlink", d.version = 3, d.gone \cap {"events", "packets"} = {}
  PROVE  Good(Executed(d, s), q) /\ SameHeader(d, Executed(d, s)) /\ Executed(d, s).gone = d.gone
         /\ Executed(d, s).shadow = d.shadow
         /\ PointsInto(Executed(d, s).rows["events"], q["packets"])
<1> DEFINE e == Executed(d, s)
           Linked(r) == IF r.packet \in Ids(d.rows["packets"]) THEN r ELSE [r EXCEPT !.packet = NoRef]
           u == {Linked(r) : r \in d.rows["events"]}
<1>1. e = [exists |-> d.exists, magic |-> d.magic, format |-> d.format, version |-> d.version,
           stamped |-> d.stamped, session |-> d.session, status |-> d.status,
           rows |-> [d.rows EXCEPT !["events"] = u], gone |-> d.gone,
           shadow |-> d.shadow, columns |-> d.columns, extra |-> d.extra]
  BY DEF Executed, Good, Shaped
<1>2. \A r \in d.rows["events"] :
        /\ Linked(r).id = r.id /\ IsRow(Linked(r))
        /\ Linked(r).packet = NoRef \/ Linked(r).packet \in Ids(d.rows["packets"])
  BY DEF Good, RowsTyped, Core, IsRow
<1>3. Ids(d.rows["packets"]) = Ids(q["packets"]) /\ Ids(d.rows["events"]) = Ids(q["events"])
  BY DEF Good, Safe, Core
<1>4. Ids(u) = Ids(q["events"])
  <2> HIDE DEF Linked
  <2>1. Ids(u) = Ids(d.rows["events"])
    BY <1>2 DEF Ids
  <2> QED BY <2>1, <1>3
<1>5. \A r \in u : IsRow(r)
  BY <1>2
<1>6. PointsInto(u, q["packets"])
  BY <1>2, <1>3 DEF PointsInto
<1> HIDE DEF u
<1>7. SameHeader(d, e) /\ e.gone = d.gone /\ e.shadow = d.shadow /\ e.rows = [d.rows EXCEPT !["events"] = u]
  BY <1>1 DEF SameHeader
<1>8. /\ e.rows = [t \in Core |-> e.rows[t]]
      /\ e.rows["events"] = u
      /\ \A t \in Core \ {"events"} : e.rows[t] = d.rows[t]
  BY <1>7 DEF Good, Shaped, Core
<1>9. Shaped(e)
  <2>1. e = [exists |-> e.exists, magic |-> e.magic, format |-> e.format, version |-> e.version,
             stamped |-> e.stamped, session |-> e.session, status |-> e.status, rows |-> e.rows,
             gone |-> e.gone, shadow |-> e.shadow, columns |-> e.columns, extra |-> e.extra]
    BY <1>1
  <2> HIDE DEF e
  <2> QED BY <2>1, <1>7, <1>8 DEF Good, Shaped, SameHeader
<1> HIDE DEF e
<1>10. RowsTyped(e, q)
  BY <1>5, <1>7, <1>8 DEF Good, RowsTyped
<1>11. Safe(e, q)
  BY <1>4, <1>7, <1>8 DEF Good, Safe
<1>12. Settled(e, q)
  BY <1>7 DEF Good, Settled, SameHeader, ReadableFile, SchemaVersion
<1> QED BY <1>6, <1>7, <1>8, <1>9, <1>10, <1>11, <1>12 DEF Good, e

\* What the k-th statement of the last stage makes of a file: the next statement finds
\* what it needs, and only a drop takes a table out of sight, until its rename.
StatementDone(d, q, k, s, e) ==
  /\ Good(e, q) /\ SameHeader(d, e)
  /\ Progress(e, q, k + 1)
  /\ k < 19 => Ready(e, q, Stages[4][k + 1])
  /\ s.op = "drop" => /\ k < 19 /\ e.gone = d.gone \cup {s.table}
                      /\ Stages[4][k + 1].op = "rename" /\ Stages[4][k + 1].table = s.table
  /\ s.op = "rename" => e.gone = d.gone \ {s.table}
  /\ s.op \notin {"drop", "rename"} => e.gone = d.gone

\* A statement of the last stage leaves the next one what it needs.
LEMMA LastStageStep ==
  ASSUME NEW d, NEW q, Good(d, q), d.version = 3, NEW k \in 1..19, NEW s, s = Stages[4][k],
         Progress(d, q, k), Ready(d, q, s), ~Impossible(d, s), NEW e, e = Executed(d, s)
  PROVE  StatementDone(d, q, k, s, e)
<1> DEFINE n == Stages[4][k + 1]
<1>1. Following(k)
  BY LastStage
<1>2. /\ s.op \in {"shadow", "copy", "drop", "rename", "index", "unlink"} /\ s.table \in Core
      /\ s.op = "rename" <=> RenamedAt[s.table] = k
      /\ s.op # "rename" => \A t \in Core : RenamedAt[t] # k
      /\ s.op = "rename" => \A t \in Core : RenamedAt[t] = k => t = s.table
      /\ s.op \in {"shadow", "copy", "drop"} => RenamedAt[s.table] > k
      /\ k = 19 => s.op = "rename"
      /\ s.op = "shadow" => n.op = "copy" /\ n.table = s.table
      /\ s.op = "copy" => n.op = "drop" /\ n.table = s.table
      /\ s.op = "drop" => n.op = "rename" /\ n.table = s.table
      /\ s.op \in {"rename", "index", "unlink"} /\ k < 19 => n.op \in {"shadow", "index", "unlink"}
      /\ s.op = "unlink" <=> k = Unlinked
      /\ s.op = "unlink" => s.table = "events"
      /\ s.op = "copy" /\ s.table = "events" => k > Unlinked
  BY <1>1 DEF Following
<1> HIDE DEF n
<1>3. \A t \in Core : RenamedAt[t] \in Nat
  BY DEF RenamedAt, Core
<1>4. Unlinked = 10 /\ "events" \in Core /\ k \in Nat
  BY DEF Unlinked, Core
<1>5. /\ DOMAIN d.shadow \subseteq Core /\ \A t \in DOMAIN d.shadow : RenamedAt[t] >= k
      /\ k > 10 => PointsInto(d.rows["events"], q["packets"])
  BY <1>4 DEF Progress, Unrenamed
<1>6. ASSUME SameHeader(d, e), NEW D, DOMAIN e.shadow = D, D \subseteq Core,
             \A t \in D : RenamedAt[t] >= k /\ RenamedAt[t] # k,
             k >= 10 => PointsInto(e.rows["events"], q["packets"])
      PROVE  Progress(e, q, k + 1)
  <2>1. \A t \in D : RenamedAt[t] >= k + 1
    BY <1>3, <1>6
  <2>2. k + 1 > Unlinked => k >= 10
    BY <1>4
  <2> QED BY <1>6, <2>1, <2>2 DEF Progress, Unrenamed
<1>7. CASE s.op = "shadow"
  <2>1. Good(e, q) /\ SameHeader(d, e) /\ e.gone = d.gone /\ e.rows = d.rows
        /\ DOMAIN e.shadow = DOMAIN d.shadow \cup {s.table}
    BY <1>2, <1>7, ShadowStep
  <2>2. k # 10
    BY <1>2, <1>4, <1>7
  <2>3. Progress(e, q, k + 1)
    BY <1>2, <1>3, <1>4, <1>5, <1>6, <1>7, <2>1, <2>2
  <2>4. Ready(e, q, n)
    BY <1>2, <1>7, <2>1 DEF Ready
  <2> QED BY <1>7, <2>1, <2>3, <2>4 DEF n, StatementDone
<1>8. CASE s.op = "copy"
  <2>1. s.table \in DOMAIN d.shadow /\ s.table \in Core \ d.gone
    BY <1>2, <1>8 DEF Ready, Impossible
  <2>2. s.table = "events" => PointsInto(d.rows["events"], q["packets"])
    BY <1>2, <1>4, <1>5, <1>8
  <2>3. Good(e, q) /\ SameHeader(d, e) /\ e.gone = d.gone /\ e.rows = d.rows
        /\ DOMAIN e.shadow = DOMAIN d.shadow /\ Ids(e.shadow[s.table]) = Ids(q[s.table])
    BY <1>8, <2>1, <2>2, CopyStep
  <2>4. k # 10
    BY <1>2, <1>4, <1>8
  <2>5. Progress(e, q, k + 1)
    BY <1>2, <1>3, <1>4, <1>5, <1>6, <1>8, <2>3, <2>4
  <2>6. Ready(e, q, n)
    BY <1>2, <1>8, <2>1, <2>3 DEF Ready
  <2> QED BY <1>8, <2>3, <2>5, <2>6 DEF n, StatementDone
<1>9. CASE s.op = "drop"
  <2>1. s.table \in DOMAIN d.shadow /\ Ids(d.shadow[s.table]) = Ids(q[s.table])
    BY <1>9 DEF Ready
  <2>2. Good(e, q) /\ SameHeader(d, e) /\ e.gone = d.gone \cup {s.table} /\ e.shadow = d.shadow
        /\ e.rows = [d.rows EXCEPT ![s.table] = {}]
    BY <1>2, <1>9, <2>1, DropStep, SMTT(30)
  <2>3. k # 10 /\ k # 19
    BY <1>2, <1>4, <1>9
  <2>4. e.rows["events"] = IF s.table = "events" THEN {} ELSE d.rows["events"]
    BY <1>4, <2>2 DEF Good, Shaped
  <2>5. k >= 10 => PointsInto(e.rows["events"], q["packets"])
    BY <1>4, <1>5, <2>3, <2>4 DEF PointsInto
  <2>6. Progress(e, q, k + 1)
    BY <1>2, <1>5, <1>6, <1>9, <2>2, <2>5
  <2>7. Ready(e, q, n)
    BY <1>2, <1>9, <2>2 DEF Ready
  <2> QED BY <1>2, <1>9, <2>2, <2>3, <2>6, <2>7 DEF n, StatementDone
<1>10. CASE s.op = "rename"
  <2>1. s.table \in d.gone
    BY <1>10 DEF Ready
  <2>2. Good(e, q) /\ SameHeader(d, e) /\ e.gone = d.gone \ {s.table}
        /\ DOMAIN e.shadow = DOMAIN d.shadow \ {s.table}
        /\ e.rows = [d.rows EXCEPT ![s.table] = d.shadow[s.table]]
    BY <1>10, <2>1, RenameStep
  <2>3. k # 10
    BY <1>2, <1>4, <1>10, SMTT(30)
  <2>4. e.rows["events"] = IF s.table = "events" THEN d.shadow["events"] ELSE d.rows["events"]
    BY <1>4, <2>2 DEF Good, Shaped
  <2>5. s.table = "events" => PointsInto(d.shadow["events"], q["packets"])
    BY <2>1 DEF Good, Safe
  <2>6. k >= 10 => PointsInto(e.rows["events"], q["packets"])
    BY <1>4, <1>5, <2>3, <2>4, <2>5
  <2>7. \A t \in DOMAIN e.shadow : RenamedAt[t] # k
    BY <1>2, <1>5, <1>10, <2>2
  <2>8. Progress(e, q, k + 1)
    BY <1>5, <1>6, <2>2, <2>6, <2>7
  <2>9. k < 19 => Ready(e, q, n)
    BY <1>2, <1>10 DEF Ready
  <2> QED BY <1>10, <2>2, <2>8, <2>9 DEF n, StatementDone
<1>11. CASE s.op = "index"
  <2>1. Good(e, q) /\ SameHeader(d, e) /\ e.gone = d.gone /\ e.shadow = d.shadow /\ e.rows = d.rows
    BY <1>11, EarlyStep
  <2>2. k # 10
    BY <1>2, <1>4, <1>11
  <2>3. Progress(e, q, k + 1)
    BY <1>2, <1>4, <1>5, <1>6, <1>11, <2>1, <2>2
  <2>4. k < 19 => Ready(e, q, n)
    BY <1>2, <1>11 DEF Ready
  <2> QED BY <1>11, <2>1, <2>3, <2>4 DEF n, StatementDone
<1>12. CASE s.op = "unlink"
  <2>1. d.gone \cap {"events", "packets"} = {}
    BY <1>2, <1>12 DEF Impossible
  <2>2. Good(e, q) /\ SameHeader(d, e) /\ e.gone = d.gone /\ e.shadow = d.shadow
        /\ PointsInto(e.rows["events"], q["packets"])
    BY <1>12, <2>1, UnlinkStep
  <2>3. Progress(e, q, k + 1)
    BY <1>2, <1>5, <1>6, <1>12, <2>2
  <2>4. k < 19 => Ready(e, q, n)
    BY <1>2, <1>12 DEF Ready
  <2> QED BY <1>12, <2>2, <2>3, <2>4 DEF n, StatementDone
<1> QED BY <1>2, <1>7, <1>8, <1>9, <1>10, <1>11, <1>12

----------------------------------------------------------------------------
\* Where a process goes.
OpenersTyped == opener \in [Openers -> [pc : Positions, stage : Nat, at : Nat]]

At(o, pc, stage, at) ==
  /\ opener' \in [Openers -> [pc : Positions, stage : Nat, at : Nat]]
  /\ opener'[o].pc = pc /\ opener'[o].stage = stage /\ opener'[o].at = at
  /\ \A p \in Openers \ {o} : opener'[p] = opener[p]
  /\ ~overlapped
  /\ pc \in {"look", "run", "record"} => \A p \in Openers \ {o} : ~Migrating(p)

LEMMA GoMoves ==
  ASSUME OpenersTyped, overlapped \in BOOLEAN, NEW o \in Openers, NEW pc \in Positions, NEW stage \in Nat, NEW at \in Nat,
         Go(o, pc, stage, at), ~overlapped'
  PROVE  At(o, pc, stage, at)
BY DEF OpenersTyped, Go, At

LEMMA TakeMoves ==
  ASSUME OpenersTyped, overlapped \in BOOLEAN, NEW o \in Openers, NEW stage \in Nat, NEW at \in Nat,
         Take(o, stage, at), ~overlapped'
  PROVE  At(o, IF Stages[stage][at].op = "column" THEN "look" ELSE "run", stage, at)
<1> DEFINE pc == IF Stages[stage][at].op = "column" THEN "look" ELSE "run"
<1>1. pc \in Positions
  BY DEF Positions
<1>2. Go(o, pc, stage, at)
  BY DEF Take
<1> HIDE DEF pc
<1>3. At(o, pc, stage, at)
  BY <1>1, <1>2, GoMoves
<1> QED BY <1>3 DEF pc

LEMMA AfterMoves ==
  ASSUME OpenersTyped, overlapped \in BOOLEAN, NEW o \in Openers, NEW n \in Nat, n = Len(Stages[opener[o].stage]),
         AfterStatement(o), ~overlapped'
  PROVE  /\ opener[o].at < n =>
              At(o, IF Stages[opener[o].stage][opener[o].at + 1].op = "column" THEN "look" ELSE "run",
                 opener[o].stage, opener[o].at + 1)
         /\ ~(opener[o].at < n) => At(o, "record", opener[o].stage, 0)
<1>1. opener[o].stage \in Nat /\ opener[o].at \in Nat /\ opener[o].at + 1 \in Nat /\ "record" \in Positions
  BY DEF OpenersTyped, Positions
<1>2. CASE opener[o].at < n
  <2>1. Take(o, opener[o].stage, opener[o].at + 1)
    BY <1>2 DEF AfterStatement
  <2> QED BY <1>1, <1>2, <2>1, TakeMoves
<1>3. CASE ~(opener[o].at < n)
  <2>1. Go(o, "record", opener[o].stage, 0)
    BY <1>3 DEF AfterStatement
  <2> QED BY <1>1, <1>3, <2>1, GoMoves
<1> QED BY <1>2, <1>3

LEMMA BeginMoves ==
  ASSUME OpenersTyped, overlapped \in BOOLEAN, NEW o \in Openers, NEW stage \in 1..5, Begin(o, stage), ~overlapped'
  PROVE  /\ stage \in {1, 2} => At(o, "look", stage, 1)
         /\ stage \in {3, 4} => At(o, "run", stage, 1)
         /\ stage = 5 => At(o, "stamp", 5, 1)
<1>1. Stages[1][1].op = "column" /\ Stages[2][1].op = "column"
      /\ Stages[3][1].op # "column" /\ Stages[4][1].op # "column"
  BY EarlyStages, LastStatements
<1>2. CASE stage = 5
  <2>1. Go(o, "stamp", 5, 1) /\ "stamp" \in Positions
    BY <1>2 DEF Begin, SchemaVersion, Positions
  <2> QED BY <1>2, <2>1, GoMoves
<1>3. CASE stage \in 1..4
  <2>1. Take(o, stage, 1)
    BY <1>3 DEF Begin, SchemaVersion
  <2>2. At(o, IF Stages[stage][1].op = "column" THEN "look" ELSE "run", stage, 1)
    BY <2>1, TakeMoves
  <2>3. CASE stage = 1
    BY <1>1, <2>2, <2>3
  <2>4. CASE stage = 2
    BY <1>1, <2>2, <2>4
  <2>5. CASE stage = 3
    BY <1>1, <2>2, <2>5
  <2>6. CASE stage = 4
    BY <1>1, <2>2, <2>6
  <2> QED BY <1>3, <2>3, <2>4, <2>5, <2>6
<1> QED BY <1>2, <1>3

----------------------------------------------------------------------------
\* A process that is not migrating is not disturbed by one that does not change the version.
LEMMA OthersStay ==
  ASSUME NEW p \in Openers, PlaceOf(p), opener'[p] = opener[p], ~InStage(p), SameHeader(db, db'), cut => cut'
  PROVE  PlaceOf(p)'
BY DEF PlaceOf, InStage, SameHeader, Readable

\* A step of the process that migrates.
LEMMA StageStep ==
  ASSUME OpenersInv, NEW o \in Openers, InStage(o), SameHeader(db, db'), UNCHANGED <<kept, cut>>,
         NEW pc, NEW stage, NEW at, At(o, pc, stage, at), pc \in {"look", "run", "record", "broken"},
         PlaceOf(o)', NothingGone'
  PROVE  OpenersInv'
<1>1. \A p \in Openers \ {o} : ~Migrating(p) /\ ~InStage(p) /\ opener'[p] = opener[p] /\ opener[p].pc # "fill"
  BY DEF OpenersInv, Alone, PlaceOf, At, InStage, Migrating, Readable
<1>2. \A p \in Openers \ {o} : PlaceOf(p)'
  BY <1>1, OthersStay DEF OpenersInv
<1>3. Alone'
  BY <1>1 DEF Alone, At, InStage, Migrating
<1>4. (opener \in [Openers -> [pc : Positions, stage : Nat, at : Nat]])' /\ cut' \in BOOLEAN
  BY DEF At, OpenersInv
<1> QED BY <1>2, <1>3, <1>4 DEF OpenersInv

\* The file of an unfinished stage before the last.
LEMMA NothingGoneBefore ==
  ASSUME NEW d, NEW q, Good(d, q), d.version # 3
  PROVE  d.gone = {} /\ DOMAIN d.shadow = {}
BY DEF Good, Settled, Safe

\* Only a RENAME of the process that migrates finds a table gone.
LEMMA GoneTable ==
  ASSUME OpenersInv, NEW o \in Openers, InStage(o), ~cut, NEW t \in db.gone
  PROVE  opener[o].pc = "run" /\ Statement(o).op = "rename" /\ Statement(o).table = t
<1>1. PICK p \in Openers : opener[p].pc = "run" /\ Statement(p).op = "rename" /\ Statement(p).table = t
  BY DEF OpenersInv, NothingGone
<1>2. p = o
  BY <1>1 DEF OpenersInv, Alone, InStage, Migrating
<1> QED BY <1>1, <1>2

LEMMA StageOf ==
  ASSUME FileInv, OpenersInv, NEW o \in Openers, InStage(o)
  PROVE  /\ opener[o].stage \in 1..4 /\ opener[o].stage = db.version + 1 /\ db.version \in 0..3
         /\ Readable /\ PlaceOf(o) /\ OpenersTyped
BY DEF FileInv, Good, Shaped, OpenersInv, PlaceOf, OpenersTyped, SchemaVersion, InStage

LEMMA LookStep ==
  ASSUME MigrationInv, ~overlapped', NEW o \in Openers, LookAtColumns(o)
  PROVE  FileInv' /\ OpenersInv'
<1>1. opener[o].pc = "look" /\ UNCHANGED <<db, kept, cut>> /\ InStage(o)
  BY DEF LookAtColumns, InStage
<1>2. ~overlapped /\ overlapped \in BOOLEAN
  BY DEF LookAtColumns, AfterStatement, Take, Go, MigrationInv
<1>3. FileInv /\ OpenersInv
  BY <1>2 DEF MigrationInv
<1>4. FileInv'
  BY <1>1, <1>3 DEF FileInv
<1>5. /\ opener[o].stage \in 1..4 /\ opener[o].stage = db.version + 1 /\ db.version \in 0..3
      /\ Readable /\ PlaceOf(o) /\ OpenersTyped
  BY <1>1, <1>3, StageOf
<1> DEFINE n == Len(Stages[opener[o].stage])
<1>6. n \in Nat /\ opener[o].at \in 1..n /\ Statement(o).op = "column"
  BY <1>1, <1>5, StageLengths DEF PlaceOf
<1>7. opener[o].stage # 4
  <2>1. SUFFICES ASSUME opener[o].stage = 4 PROVE FALSE
    OBVIOUS
  <2>2. opener[o].at \in 1..19
    BY <1>6, <2>1, StageLengths
  <2>3. Following(opener[o].at)
    BY <2>2, LastStage
  <2> QED BY <1>6, <2>1, <2>3 DEF Following, Statement
<1>8. db.gone = {} /\ db'.gone = {}
  BY <1>1, <1>3, <1>5, <1>7, NothingGoneBefore DEF FileInv
<1>9. NothingGone'
  BY <1>8 DEF NothingGone
<1>10. SameHeader(db, db')
  BY <1>1 DEF SameHeader
<1>11. CASE <<Statement(o).table, Statement(o).arg>> \in db.columns
  <2>1. AfterStatement(o)
    BY <1>11 DEF LookAtColumns
  <2>2. CASE opener[o].at < n
    <3> DEFINE pc == IF Stages[opener[o].stage][opener[o].at + 1].op = "column" THEN "look" ELSE "run"
    <3>1. At(o, pc, opener[o].stage, opener[o].at + 1)
      BY <1>2, <1>5, <1>6, <2>1, <2>2, AfterMoves
    <3>2. opener[o].at + 1 \in 1..n
      BY <1>6, <2>2
    <3>3. Stages[opener[o].stage][opener[o].at + 1].op \in {"column", "make", "index"}
      BY <1>5, <1>7, <3>2, EarlyStages, SMTT(30)
    <3>4. PlaceOf(o)'
      BY <1>1, <1>5, <1>7, <3>1, <3>2, <3>3, ZenonT(60) DEF PlaceOf, At, InStage, Statement, Ready, Readable
    <3>5. pc \in {"look", "run", "record", "broken"}
      OBVIOUS
    <3> HIDE DEF pc
    <3> QED BY <1>1, <1>3, <1>4, <1>9, <1>10, <3>1, <3>4, <3>5, StageStep
  <2>3. CASE ~(opener[o].at < n)
    <3>1. At(o, "record", opener[o].stage, 0)
      BY <1>2, <1>5, <1>6, <2>1, <2>3, AfterMoves
    <3>2. PlaceOf(o)'
      BY <1>1, <1>5, <1>7, <3>1 DEF PlaceOf, At, InStage, Readable
    <3> QED BY <1>1, <1>3, <1>4, <1>9, <1>10, <3>1, <3>2, StageStep
  <2> QED BY <2>2, <2>3
<1>12. CASE <<Statement(o).table, Statement(o).arg>> \notin db.columns
  <2>1. Go(o, "run", opener[o].stage, opener[o].at) /\ "run" \in Positions
    BY <1>12 DEF LookAtColumns, Positions
  <2>5. opener[o].stage \in Nat /\ opener[o].at \in Nat
    BY <1>5 DEF OpenersTyped
  <2>2. At(o, "run", opener[o].stage, opener[o].at)
    BY <1>2, <1>5, <2>1, <2>5, GoMoves
  <2>3. Statement(o)' = Statement(o)
    BY <2>2 DEF At, Statement
  <2>4. PlaceOf(o)'
    BY <1>1, <1>5, <1>6, <1>7, <1>12, <2>2, <2>3 DEF PlaceOf, At, InStage, Ready, Readable
  <2> QED BY <1>1, <1>3, <1>4, <1>9, <1>10, <2>2, <2>4, StageStep
<1> QED BY <1>11, <1>12

LEMMA ExecuteStep ==
  ASSUME MigrationInv, ~overlapped', NEW o \in Openers, Execute(o)
  PROVE  FileInv' /\ OpenersInv'
<1>1. opener[o].pc = "run" /\ UNCHANGED <<kept, cut>> /\ InStage(o) /\ AfterStatement(o)
      /\ ~Impossible(db, Statement(o)) /\ db' = Executed(db, Statement(o))
  BY DEF Execute, InStage
<1>2. ~overlapped /\ overlapped \in BOOLEAN
  BY <1>1 DEF AfterStatement, Take, Go, MigrationInv
<1>3. FileInv /\ OpenersInv /\ Good(db, kept)
  BY <1>2 DEF MigrationInv, FileInv
<1>4. /\ opener[o].stage \in 1..4 /\ opener[o].stage = db.version + 1 /\ db.version \in 0..3
      /\ Readable /\ PlaceOf(o) /\ OpenersTyped
  BY <1>1, <1>3, StageOf
<1>5. opener[o].stage \in Nat /\ opener[o].at \in Nat
  BY <1>4 DEF OpenersTyped
<1> DEFINE n == Len(Stages[opener[o].stage])
           s == Statement(o)
           next == Stages[opener[o].stage][opener[o].at + 1]
           pc == IF next.op = "column" THEN "look" ELSE "run"
<1>6. n \in Nat /\ opener[o].at \in 1..n /\ s = Stages[opener[o].stage][opener[o].at] /\ Ready(db, kept, s)
  BY <1>1, <1>4, StageLengths DEF PlaceOf, Statement
<1>7. /\ opener[o].at < n => At(o, pc, opener[o].stage, opener[o].at + 1)
      /\ ~(opener[o].at < n) => At(o, "record", opener[o].stage, 0)
  BY <1>1, <1>2, <1>4, <1>6, AfterMoves
<1>8. pc \in {"look", "run", "record", "broken"}
  OBVIOUS
<1> HIDE DEF s, pc, next
<1>9. CASE opener[o].stage # 4
  <2>1. s.op \in {"column", "make", "index"}
    <3>1. opener[o].stage \in 1..3
      BY <1>4, <1>9
    <3>2. opener[o].at \in 1..Len(Stages[opener[o].stage])
      BY <1>6
    <3> QED BY <1>6, <3>1, <3>2, EarlyStages
  <2>2. Good(db', kept) /\ SameHeader(db, db') /\ db'.gone = db.gone /\ db'.version = db.version
    BY <1>1, <1>3, <2>1, EarlyStep DEF SameHeader, s
  <2>3. FileInv'
    BY <1>1, <2>2 DEF FileInv
  <2>4. db.gone = {}
    BY <1>3, <1>4, <1>9, NothingGoneBefore
  <2>5. NothingGone'
    BY <2>2, <2>4 DEF NothingGone
  <2>6. CASE opener[o].at < n
    <3>1. At(o, pc, opener[o].stage, opener[o].at + 1)
      BY <1>7, <2>6
    <3>2. opener[o].at + 1 \in 1..n
      BY <1>6, <2>6
    <3>3. next.op \in {"column", "make", "index"}
      BY <1>4, <1>9, <3>2, EarlyStages, SMTT(30) DEF next
    <3>4. Statement(o)' = next
      BY <3>1 DEF At, Statement, next
    <3>5. Ready(db', kept', next) \/ next.op = "column"
      BY <3>3 DEF Ready
    <3>6. PlaceOf(o)'
      BY <1>1, <1>4, <1>9, <2>2, <3>1, <3>2, <3>3, <3>4 DEF PlaceOf, At, InStage, Ready, Readable, SameHeader, pc
    <3> QED BY <1>1, <1>3, <1>8, <2>2, <2>3, <2>5, <3>1, <3>6, StageStep
  <2>7. CASE ~(opener[o].at < n)
    <3>1. At(o, "record", opener[o].stage, 0)
      BY <1>7, <2>7
    <3>2. PlaceOf(o)'
      BY <1>1, <1>4, <1>9, <2>2, <3>1 DEF PlaceOf, At, InStage, Readable, SameHeader
    <3> QED BY <1>1, <1>3, <2>2, <2>3, <2>5, <3>1, <3>2, StageStep
  <2> QED BY <2>6, <2>7
<1>10. CASE opener[o].stage = 4
  <2>1. n = 19 /\ opener[o].at \in 1..19 /\ s = Stages[4][opener[o].at] /\ db.version = 3 /\ next = Stages[4][opener[o].at + 1]
    <3>1. n = 19 /\ db.version = 3
      BY <1>4, <1>10, StageLengths
    <3>2. opener[o].at \in 1..19
      BY <1>6, <3>1
    <3> QED BY <1>6, <1>10, <3>1, <3>2 DEF next
  <2>2. Progress(db, kept, opener[o].at)
    BY <1>1, <1>4, <1>10 DEF PlaceOf
  <2>3. ~Impossible(db, s) /\ db' = Executed(db, s)
    BY <1>1 DEF s
  <2>4. /\ Good(db', kept) /\ SameHeader(db, db')
        /\ Progress(db', kept, opener[o].at + 1)
        /\ opener[o].at < 19 => Ready(db', kept, next)
        /\ s.op = "drop" => opener[o].at < 19 /\ db'.gone = db.gone \cup {s.table}
                            /\ next.op = "rename" /\ next.table = s.table
        /\ s.op = "rename" => db'.gone = db.gone \ {s.table}
        /\ s.op \notin {"drop", "rename"} => db'.gone = db.gone
    <3> DEFINE k == opener[o].at
    <3>1. k \in 1..19 /\ s = Stages[4][k] /\ db.version = 3 /\ next = Stages[4][k + 1]
      BY <2>1
    <3>2. Good(db, kept) /\ Progress(db, kept, k) /\ Ready(db, kept, s)
      BY <1>3, <1>6, <2>2
    <3> HIDE DEF k
    <3>3. StatementDone(db, kept, k, s, db')
      BY <2>3, <3>1, <3>2, LastStageStep
    <3> QED BY <3>1, <3>3 DEF k, StatementDone
  <2>5. FileInv'
    BY <1>1, <2>4 DEF FileInv
  <2>6. CASE opener[o].at < 19
    <3>1. At(o, pc, 4, opener[o].at + 1)
      BY <1>7, <1>10, <2>1, <2>6
    <3>2. opener[o].at + 1 \in 1..19 /\ opener[o].at + 1 \in Nat
      BY <2>1, <2>6, SMTT(30)
    <3>3. next.op \in {"shadow", "copy", "drop", "rename", "index", "unlink"}
      BY <2>1, <3>2, LastStage DEF Following
    <3>4. pc = "run"
      BY <3>3 DEF pc
    <3>5. Statement(o)' = next
      BY <2>1, <3>1 DEF At, Statement
    <3>6. PlaceOf(o)'
      BY <1>1, <1>4, <1>10, <2>1, <2>4, <2>6, <3>1, <3>2, <3>4, <3>5, StageLengths
         DEF PlaceOf, At, InStage, Readable, SameHeader
    <3>7. NothingGone'
      <4>1. SUFFICES ASSUME ~cut, NEW t \in db'.gone
                     PROVE  opener'[o].pc = "run" /\ Statement(o)'.op = "rename" /\ Statement(o)'.table = t
        BY <1>1 DEF NothingGone
      <4>2. \A x \in db.gone : s.op = "rename" /\ s.table = x
        BY <1>1, <1>3, <4>1, GoneTable DEF s
      <4>3. s.op = "drop" /\ s.table = t
        BY <2>4, <4>1, <4>2
      <4> QED BY <2>4, <3>1, <3>4, <3>5, <4>3 DEF At
    <3> QED BY <1>1, <1>3, <1>8, <2>4, <2>5, <3>1, <3>6, <3>7, StageStep
  <2>7. CASE ~(opener[o].at < 19)
    <3>1. At(o, "record", 4, 0) /\ opener[o].at = 19
      BY <1>7, <1>10, <2>1, <2>7
    <3>2. Progress(db', kept, Finished)
      BY <2>4, <3>1 DEF Finished
    <3>3. PlaceOf(o)'
      BY <1>1, <1>4, <1>10, <2>4, <3>1, <3>2, SMTT(30) DEF PlaceOf, At, InStage, Readable, SameHeader
    <3>4. s.op = "rename"
      BY <2>1, <3>1, LastStage DEF Following
    <3>5. NothingGone'
      <4>1. SUFFICES ASSUME ~cut, NEW t \in db'.gone PROVE FALSE
        BY <1>1 DEF NothingGone
      <4>2. \A x \in db.gone : s.table = x
        BY <1>1, <1>3, <4>1, GoneTable DEF s
      <4> QED BY <2>4, <3>4, <4>1, <4>2
    <3> QED BY <1>1, <1>3, <2>4, <2>5, <3>1, <3>3, <3>5, StageStep
  <2> QED BY <2>6, <2>7
<1> QED BY <1>9, <1>10

LEMMA ExecuteFailsStep ==
  ASSUME MigrationInv, ~overlapped', NEW o \in Openers, ExecuteFails(o)
  PROVE  FileInv' /\ OpenersInv'
<1>1. opener[o].pc = "run" /\ UNCHANGED <<db, kept, cut>> /\ InStage(o) /\ Impossible(db, Statement(o))
      /\ Go(o, "broken", opener[o].stage, opener[o].at)
  BY DEF ExecuteFails, InStage
<1>2. ~overlapped /\ overlapped \in BOOLEAN
  BY <1>1 DEF Go, MigrationInv
<1>3. FileInv /\ OpenersInv /\ Good(db, kept)
  BY <1>2 DEF MigrationInv, FileInv
<1>4. /\ opener[o].stage \in 1..4 /\ opener[o].stage = db.version + 1 /\ db.version \in 0..3
      /\ Readable /\ PlaceOf(o) /\ OpenersTyped
  BY <1>1, <1>3, StageOf
<1>5. opener[o].stage \in Nat /\ opener[o].at \in Nat /\ "broken" \in Positions
  BY <1>4 DEF OpenersTyped, Positions
<1>6. At(o, "broken", opener[o].stage, opener[o].at)
  BY <1>1, <1>2, <1>4, <1>5, GoMoves
<1>7. cut
  <2>1. SUFFICES ASSUME ~cut PROVE FALSE
    OBVIOUS
  <2>2. \A t \in db.gone : Statement(o).op = "rename" /\ Statement(o).table = t
    BY <1>1, <1>3, <2>1, GoneTable
  <2>3. Ready(db, kept, Statement(o))
    BY <1>1, <1>4 DEF PlaceOf
  <2>4. Statement(o).op # "unlink" \/ "packets" \notin db.gone
    BY <2>2
  <2>5. Statement(o).op = "rename" => Statement(o).table \in DOMAIN db.shadow
    BY <1>3, <2>3 DEF Ready, Good, Safe
  <2> QED BY <1>1, <2>2, <2>3, <2>4, <2>5 DEF Impossible, Ready
<1>8. SameHeader(db, db') /\ FileInv'
  BY <1>1, <1>3 DEF SameHeader, FileInv
<1>9. PlaceOf(o)'
  BY <1>1, <1>4, <1>6, <1>7 DEF PlaceOf, At, InStage, Readable
<1>10. NothingGone'
  BY <1>1, <1>7 DEF NothingGone
<1> QED BY <1>1, <1>3, <1>6, <1>8, <1>9, <1>10, StageStep

LEMMA StartOfStage ==
  ASSUME NEW o \in Openers, NEW stage \in 1..4,
         At(o, IF stage \in {1, 2} THEN "look" ELSE "run", stage, 1),
         db'.version + 1 = stage, db'.version \in Nat, Readable', DOMAIN db'.shadow \subseteq Core
  PROVE  PlaceOf(o)'
<1>1. Statement(o)' = Stages[stage][1] /\ opener'[o].stage = stage /\ opener'[o].at = 1
  BY DEF At, Statement
<1>2. CASE stage = 1
  BY <1>1, <1>2, EarlyStages, StageLengths DEF At, PlaceOf, InStage, SchemaVersion
<1>3. CASE stage = 2
  BY <1>1, <1>3, EarlyStages, StageLengths DEF At, PlaceOf, InStage, SchemaVersion
<1>4. CASE stage = 3
  BY <1>1, <1>4, EarlyStages, StageLengths DEF At, PlaceOf, InStage, SchemaVersion, Ready
<1>5. CASE stage = 4
  <2>1. Stages[4][1].op = "shadow"
    BY LastStatements
  <2>2. Unrenamed(1) = Core
    BY DEF Unrenamed, RenamedAt, Core
  <2>3. Progress(db', kept', 1)
    BY <2>2 DEF Progress, Unlinked
  <2> QED BY <1>1, <1>5, <2>1, <2>3, StageLengths DEF At, PlaceOf, InStage, SchemaVersion, Ready
<1> QED BY <1>2, <1>3, <1>4, <1>5

LEMMA RecordStep ==
  ASSUME MigrationInv, ~overlapped', NEW o \in Openers, RecordVersion(o)
  PROVE  FileInv' /\ OpenersInv'
<1>1. opener[o].pc = "record" /\ UNCHANGED <<kept, cut>> /\ InStage(o)
      /\ db' = [db EXCEPT !.version = opener[o].stage] /\ Begin(o, opener[o].stage + 1)
  BY DEF RecordVersion, InStage
<1>2. ~overlapped /\ overlapped \in BOOLEAN
  BY <1>1 DEF Begin, Take, Go, MigrationInv
<1>3. FileInv /\ OpenersInv /\ Good(db, kept)
  BY <1>2 DEF MigrationInv, FileInv
<1>4. /\ opener[o].stage \in 1..4 /\ opener[o].stage = db.version + 1 /\ db.version \in 0..3
      /\ Readable /\ PlaceOf(o) /\ OpenersTyped
  BY <1>1, <1>3, StageOf
<1> DEFINE v == opener[o].stage
<1>5. db' = [exists |-> db.exists, magic |-> db.magic, format |-> db.format, version |-> v,
             stamped |-> db.stamped, session |-> db.session, status |-> db.status, rows |-> db.rows,
             gone |-> db.gone, shadow |-> db.shadow, columns |-> db.columns, extra |-> db.extra]
  BY <1>1, <1>3 DEF Good, Shaped
<1>6. /\ v + 1 \in {1, 2} => At(o, "look", v + 1, 1)
      /\ v + 1 \in {3, 4} => At(o, "run", v + 1, 1)
      /\ v + 1 = 5 => At(o, "stamp", 5, 1)
  <2>1. v + 1 \in 1..5
    BY <1>4
  <2> HIDE DEF v
  <2> QED BY <1>1, <1>2, <1>4, <2>1, BeginMoves DEF v
<1>7. v = 4 => DOMAIN db.shadow = {} /\ db.gone = {} /\ PointsInto(db.rows["events"], kept["packets"])
  <2>1. SUFFICES ASSUME v = 4 PROVE DOMAIN db.shadow = {} /\ db.gone = {} /\ PointsInto(db.rows["events"], kept["packets"])
    OBVIOUS
  <2>2. Progress(db, kept, Finished)
    BY <1>1, <1>4, <2>1 DEF PlaceOf
  <2>3. Unrenamed(Finished) = {}
    BY DEF Unrenamed, Finished, RenamedAt, Core
  <2>4. Finished > Unlinked
    BY DEF Finished, Unlinked
  <2> QED BY <1>3, <2>2, <2>3, <2>4 DEF Progress, Good, Safe
<1>8. v # 4 => DOMAIN db.shadow = {} /\ db.gone = {}
  BY <1>3, <1>4, NothingGoneBefore
<1> HIDE DEF v
<1>9. /\ db'.version = v /\ db'.exists = db.exists /\ db'.magic = db.magic /\ db'.format = db.format
      /\ db'.rows = db.rows /\ db'.gone = {} /\ db'.shadow = db.shadow /\ DOMAIN db.shadow = {}
  BY <1>5, <1>7, <1>8
<1>10. FileInv'
  <2>1. v \in 1..4
    BY <1>4 DEF v
  <2>2. Shaped(db')
    BY <1>3, <1>5, <1>7, <1>8, <2>1 DEF Good, Shaped
  <2>3. RowsTyped(db', kept)
    BY <1>3, <1>9 DEF Good, RowsTyped
  <2>4. Safe(db', kept)
    BY <1>3, <1>7, <1>8, <1>9 DEF Good, Safe
  <2>5. Settled(db', kept)
    <3>1. db'.magic
      BY <1>4, <1>9 DEF Readable
    <3>2. ReadableFile(db) /\ Ids(kept["raw_blocks"]) \subseteq Ids(kept["packets"])
      BY <1>3, <1>4 DEF Readable, ReadableFile, Good, Settled
    <3>3. db.exists
      BY <1>3, <3>2 DEF Good, Settled, ReadableFile
    <3> QED BY <1>7, <1>9, <2>1, <3>1, <3>2, <3>3 DEF Settled, SchemaVersion
  <2> QED BY <1>1, <2>2, <2>3, <2>4, <2>5 DEF FileInv, Good
<1>11. NothingGone'
  BY <1>9 DEF NothingGone
<1>12. \E pc \in {"look", "run", "stamp"} : At(o, pc, v + 1, 1)
          /\ (v = 4 <=> pc = "stamp") /\ (pc = "look" <=> v = 1)
  BY <1>4, <1>6 DEF v
<1>13. PICK pc \in {"look", "run", "stamp"} : At(o, pc, v + 1, 1)
          /\ (v = 4 <=> pc = "stamp") /\ (pc = "look" <=> v = 1)
  BY <1>12
<1>14. Readable'
  BY <1>4, <1>9 DEF Readable, SchemaVersion, v
<1>15. PlaceOf(o)'
  <2>1. CASE v = 4
    BY <1>9, <1>13, <1>14, <2>1 DEF At, PlaceOf, InStage, SchemaVersion
  <2>2. CASE v \in 1..3
    <3>1. v + 1 \in 1..4 /\ v \in Nat /\ pc = IF v + 1 \in {1, 2} THEN "look" ELSE "run"
      BY <1>13, <2>2
    <3>2. DOMAIN db'.shadow \subseteq Core
      BY <1>9
    <3> QED BY <1>9, <1>13, <1>14, <3>1, <3>2, StartOfStage
  <2> QED BY <1>4, <2>1, <2>2 DEF v
<1>16. \A p \in Openers \ {o} : opener[p].pc \in {"out", "broken"} /\ opener'[p] = opener[p]
  <2>1. \A p \in Openers \ {o} : ~Migrating(p) /\ opener'[p] = opener[p] /\ opener[p].pc \in Positions
    BY <1>1, <1>3, <1>13 DEF OpenersInv, Alone, At, InStage
  <2>2. \A p \in Openers : opener[p].pc \notin {"fill", "open"}
    BY <1>3, <1>4 DEF OpenersInv, PlaceOf, Readable, SchemaVersion
  <2> QED BY <2>1, <2>2 DEF Positions, Migrating
<1>17. \A p \in Openers \ {o} : PlaceOf(p)'
  BY <1>1, <1>3, <1>9, <1>16 DEF OpenersInv, PlaceOf, InStage
<1>18. Alone'
  BY <1>13, <1>16 DEF Alone, At, InStage, Migrating
<1> QED BY <1>1, <1>3, <1>10, <1>11, <1>13, <1>15, <1>17, <1>18 DEF OpenersInv, At

----------------------------------------------------------------------------
\* A step that leaves the file alone disturbs no other process.
LEMMA OthersSame ==
  ASSUME NEW p \in Openers, PlaceOf(p), opener'[p] = opener[p], UNCHANGED <<db, kept>>, cut => cut'
  PROVE  PlaceOf(p)'
BY DEF PlaceOf, InStage, Statement, Readable

LEMMA OpenStep ==
  ASSUME MigrationInv, ~overlapped', NEW o \in Openers, OpenFile(o)
  PROVE  FileInv' /\ OpenersInv'
<1>1. opener[o].pc = "out" /\ Readable /\ UNCHANGED <<db, kept, cut>>
  BY DEF OpenFile
<1>2. ~overlapped /\ overlapped \in BOOLEAN
  BY DEF OpenFile, Begin, Take, Go, MigrationInv
<1>3. FileInv /\ OpenersInv /\ Good(db, kept) /\ OpenersTyped
  BY <1>2 DEF MigrationInv, FileInv, OpenersInv, OpenersTyped
<1>4. FileInv'
  BY <1>1, <1>3 DEF FileInv
<1>5. db.version \in 0..4 /\ DOMAIN db.shadow \subseteq Core
  BY <1>1, <1>3 DEF Good, Shaped, Readable, SchemaVersion
<1>6. \A p \in Openers : opener[p].pc # "fill"
  BY <1>1, <1>3 DEF OpenersInv, PlaceOf, Readable
<1>7. ASSUME opener' \in [Openers -> [pc : Positions, stage : Nat, at : Nat]],
             \A p \in Openers \ {o} : opener'[p] = opener[p],
             \/ opener'[o].pc = "open"
             \/ opener'[o].pc \in {"look", "run"} /\ \A p \in Openers : ~Migrating(p),
             PlaceOf(o)', NothingGone'
      PROVE  OpenersInv'
  <2>1. \A p \in Openers \ {o} : PlaceOf(p)'
    BY <1>1, <1>3, <1>7, OthersSame DEF OpenersInv
  <2>2. Alone'
    BY <1>3, <1>6, <1>7 DEF OpenersInv, Alone, InStage, Migrating
  <2> QED BY <1>1, <1>3, <1>7, <2>1, <2>2 DEF OpenersInv
<1>8. CASE db.version = SchemaVersion
  <2>1. Go(o, "open", 0, 0) /\ "open" \in Positions
    BY <1>8 DEF OpenFile, Positions
  <2>2. At(o, "open", 0, 0)
    BY <1>2, <1>3, <2>1, GoMoves
  <2>3. PlaceOf(o)'
    BY <1>1, <1>8, <2>2 DEF PlaceOf, At, InStage, Readable
  <2>4. NothingGone'
    <3>1. db.gone = {}
      BY <1>3, <1>8, NothingGoneBefore DEF SchemaVersion
    <3> QED BY <1>1, <3>1 DEF NothingGone
  <2> QED BY <1>4, <1>7, <2>2, <2>3, <2>4 DEF At
<1>9. CASE db.version # SchemaVersion
  <2> DEFINE stage == db.version + 1
             pc == IF stage \in {1, 2} THEN "look" ELSE "run"
  <2>1. stage \in 1..4
    BY <1>5, <1>9 DEF SchemaVersion
  <2>2. Begin(o, stage)
    BY <1>9 DEF OpenFile
  <2>3. At(o, pc, stage, 1)
    <3> HIDE DEF stage
    <3>1. stage \in 1..5
      BY <2>1
    <3>2. /\ stage \in {1, 2} => At(o, "look", stage, 1)
          /\ stage \in {3, 4} => At(o, "run", stage, 1)
      BY <1>2, <1>3, <2>2, <3>1, BeginMoves
    <3> QED BY <2>1, <3>2
  <2>4. pc \in {"look", "run"}
    OBVIOUS
  <2>5. PlaceOf(o)'
    <3>1. db'.version + 1 = stage /\ db'.version \in Nat /\ Readable' /\ DOMAIN db'.shadow \subseteq Core
      BY <1>1, <1>5 DEF Readable
    <3> HIDE DEF stage
    <3> QED BY <2>1, <2>3, <3>1, StartOfStage
  <2> HIDE DEF pc, stage
  <2>6. \A p \in Openers : ~Migrating(p)
    BY <1>1, <2>3, <2>4 DEF At, Migrating
  <2>8. NothingGone'
    BY <1>1, <1>3, <2>6 DEF OpenersInv, NothingGone, Migrating
  <2> QED BY <1>4, <1>7, <2>3, <2>4, <2>5, <2>6, <2>8 DEF At
<1> QED BY <1>8, <1>9

LEMMA StampStep ==
  ASSUME MigrationInv, ~overlapped', NEW o \in Openers, StampHeader(o)
  PROVE  FileInv' /\ OpenersInv'
<1>1. opener[o].pc = "stamp" /\ UNCHANGED <<kept, cut>> /\ Go(o, "open", 0, 0) /\ "open" \in Positions
      /\ db' = [db EXCEPT !.stamped = SchemaVersion]
  BY DEF StampHeader, Positions
<1>2. ~overlapped /\ overlapped \in BOOLEAN
  BY <1>1 DEF Go, MigrationInv
<1>3. FileInv /\ OpenersInv /\ Good(db, kept) /\ OpenersTyped
  BY <1>2 DEF MigrationInv, FileInv, OpenersInv, OpenersTyped
<1>4. At(o, "open", 0, 0)
  BY <1>1, <1>2, <1>3, GoMoves
<1>5. db' = [exists |-> db.exists, magic |-> db.magic, format |-> db.format, version |-> db.version,
             stamped |-> SchemaVersion, session |-> db.session, status |-> db.status, rows |-> db.rows,
             gone |-> db.gone, shadow |-> db.shadow, columns |-> db.columns, extra |-> db.extra]
  BY <1>1, <1>3 DEF Good, Shaped
<1>6. SameHeader(db, db') /\ db'.rows = db.rows /\ db'.gone = db.gone /\ db'.shadow = db.shadow
  BY <1>5 DEF SameHeader
<1>7. FileInv'
  <2>1. Shaped(db')
    BY <1>3, <1>5 DEF Good, Shaped
  <2> QED BY <1>1, <1>3, <1>6, <2>1, SMTT(30) DEF FileInv, Good, RowsTyped, Safe, Settled, SameHeader, ReadableFile
<1>8. db.version = SchemaVersion /\ Readable
  BY <1>1, <1>3 DEF OpenersInv, PlaceOf
<1>9. \A p \in Openers : ~InStage(p) /\ opener[p].pc # "fill"
  BY <1>3, <1>8 DEF OpenersInv, PlaceOf, Readable, SchemaVersion
<1>10. PlaceOf(o)'
  BY <1>1, <1>4, <1>6, <1>8 DEF PlaceOf, At, InStage, Readable, SameHeader
<1>11. \A p \in Openers \ {o} : PlaceOf(p)'
  BY <1>1, <1>3, <1>4, <1>6, <1>9, OthersStay DEF OpenersInv, At
<1>12. Alone'
  BY <1>4, <1>9 DEF Alone, At, InStage, Migrating
<1>13. NothingGone'
  <2>1. db.gone = {}
    BY <1>3, <1>8, NothingGoneBefore DEF SchemaVersion
  <2> QED BY <1>6, <2>1 DEF NothingGone
<1> QED BY <1>1, <1>3, <1>4, <1>7, <1>10, <1>11, <1>12, <1>13 DEF OpenersInv, At

LEMMA CreateTablesStep ==
  ASSUME MigrationInv, ~overlapped', NEW o \in Openers, CreateTables(o)
  PROVE  FileInv' /\ OpenersInv'
<1>1. opener[o].pc = "out" /\ ~db.exists /\ UNCHANGED <<kept, cut>> /\ Go(o, "fill", 0, 0) /\ "fill" \in Positions
      /\ db' = [db EXCEPT !.exists = TRUE]
  BY DEF CreateTables, Positions
<1>2. ~overlapped /\ overlapped \in BOOLEAN
  BY <1>1 DEF Go, MigrationInv
<1>3. FileInv /\ OpenersInv /\ Good(db, kept) /\ OpenersTyped
  BY <1>2 DEF MigrationInv, FileInv, OpenersInv, OpenersTyped
<1>4. At(o, "fill", 0, 0)
  BY <1>1, <1>2, <1>3, GoMoves
<1>5. db' = [exists |-> TRUE, magic |-> db.magic, format |-> db.format, version |-> db.version,
             stamped |-> db.stamped, session |-> db.session, status |-> db.status, rows |-> db.rows,
             gone |-> db.gone, shadow |-> db.shadow, columns |-> db.columns, extra |-> db.extra]
  BY <1>1, <1>3 DEF Good, Shaped
<1>6. /\ db'.exists = TRUE /\ db'.magic = db.magic /\ db'.format = db.format /\ db'.version = db.version
      /\ db'.rows = db.rows /\ db'.gone = db.gone /\ db'.shadow = db.shadow
  BY <1>5
<1>7. ~db.magic
  BY <1>1, <1>3 DEF Good, Settled
<1>8. FileInv'
  <2>1. Shaped(db')
    BY <1>3, <1>5 DEF Good, Shaped
  <2> QED BY <1>1, <1>3, <1>6, <2>1 DEF FileInv, Good, RowsTyped, Safe, Settled, ReadableFile
<1>9. \A p \in Openers : opener[p].pc = "out"
  BY <1>1, <1>3, <1>7 DEF OpenersInv, PlaceOf, Readable, Positions
<1>10. PlaceOf(o)'
  BY <1>4, <1>6, <1>7 DEF PlaceOf, At, InStage
<1>11. \A p \in Openers \ {o} : PlaceOf(p)'
  BY <1>4, <1>9 DEF PlaceOf, At, InStage
<1>12. Alone'
  BY <1>4, <1>9 DEF Alone, At, InStage, Migrating
<1>13. NothingGone'
  BY <1>1, <1>3, <1>6, <1>9 DEF OpenersInv, NothingGone
<1> QED BY <1>1, <1>3, <1>4, <1>8, <1>10, <1>11, <1>12, <1>13 DEF OpenersInv, At

LEMMA CreateRowsStep ==
  ASSUME MigrationInv, ~overlapped', NEW o \in Openers, CreateRows(o)
  PROVE  FileInv' /\ OpenersInv'
<1>1. opener[o].pc = "fill" /\ UNCHANGED <<kept, cut>> /\ Begin(o, 1)
      /\ db' = [db EXCEPT !.magic = TRUE, !.session = TRUE, !.status = "created"]
  BY DEF CreateRows
<1>2. ~overlapped /\ overlapped \in BOOLEAN
  BY <1>1 DEF Begin, Take, Go, MigrationInv
<1>3. FileInv /\ OpenersInv /\ Good(db, kept) /\ OpenersTyped
  BY <1>2 DEF MigrationInv, FileInv, OpenersInv, OpenersTyped
<1>4. At(o, "look", 1, 1)
  BY <1>1, <1>2, <1>3, BeginMoves
<1>5. db' = [exists |-> db.exists, magic |-> TRUE, format |-> db.format, version |-> db.version,
             stamped |-> db.stamped, session |-> TRUE, status |-> "created", rows |-> db.rows,
             gone |-> db.gone, shadow |-> db.shadow, columns |-> db.columns, extra |-> db.extra]
  BY <1>1, <1>3 DEF Good, Shaped
<1>6. /\ db'.exists = db.exists /\ db'.magic = TRUE /\ db'.format = db.format /\ db'.version = db.version
      /\ db'.rows = db.rows /\ db'.gone = db.gone /\ db'.shadow = db.shadow
  BY <1>5
<1>7. ~db.magic /\ db.exists /\ db.version = 0 /\ db.format = FormatVersion /\ \A t \in Core : kept[t] = {}
  BY <1>1, <1>3 DEF OpenersInv, PlaceOf, Good, Settled
<1>8. FileInv'
  <2>1. Shaped(db')
    BY <1>3, <1>5 DEF Good, Shaped
  <2>2. Settled(db', kept)
    <3>1. Ids(kept["raw_blocks"]) \subseteq Ids(kept["packets"])
      BY <1>7 DEF Core
    <3> QED BY <1>3, <1>6, <1>7, <3>1 DEF Good, Settled, SchemaVersion
  <2> QED BY <1>1, <1>3, <1>6, <2>1, <2>2 DEF FileInv, Good, RowsTyped, Safe
<1>9. \A p \in Openers \ {o} : opener[p].pc = "out"
  BY <1>1, <1>3, <1>7 DEF OpenersInv, PlaceOf, Readable, Positions, Alone
<1>10. PlaceOf(o)'
  <2>1. db'.version + 1 = 1 /\ db'.version \in Nat /\ Readable'
    BY <1>6, <1>7 DEF Readable, FormatVersion, SchemaVersion
  <2>2. DOMAIN db'.shadow \subseteq Core
    BY <1>3, <1>6 DEF Good, Shaped
  <2> QED BY <1>4, <2>1, <2>2, StartOfStage
<1>11. \A p \in Openers \ {o} : PlaceOf(p)'
  BY <1>4, <1>9 DEF PlaceOf, At, InStage
<1>12. Alone'
  BY <1>4, <1>9 DEF Alone, At, InStage, Migrating
<1>13. NothingGone'
  BY <1>1, <1>3, <1>6, <1>9 DEF OpenersInv, NothingGone
<1> QED BY <1>1, <1>3, <1>4, <1>8, <1>10, <1>11, <1>12, <1>13 DEF OpenersInv, At

\* What a session may do once the file is open: the version is the last, so nobody migrates.
LEMMA OpenSession ==
  ASSUME FileInv, OpenersInv, NEW o \in Openers, opener[o].pc = "open"
  PROVE  /\ db.version = SchemaVersion /\ Readable /\ DOMAIN db.shadow = {} /\ db.gone = {}
         /\ \A p \in Openers : ~InStage(p)
         /\ \A t \in Core : Ids(db.rows[t]) = Ids(kept[t])
         /\ Ids(kept["raw_blocks"]) \subseteq Ids(kept["packets"])
         /\ PointsInto(db.rows["events"], kept["packets"])
<1>1. db.version = SchemaVersion /\ Readable
  BY DEF OpenersInv, PlaceOf
<1>2. \A p \in Openers : ~InStage(p)
  BY <1>1 DEF OpenersInv, PlaceOf, SchemaVersion
<1>3. DOMAIN db.shadow = {} /\ db.gone = {}
  BY <1>1, NothingGoneBefore DEF FileInv, SchemaVersion
<1>4. \A t \in Core : Ids(db.rows[t]) = Ids(kept[t])
  BY <1>3 DEF FileInv, Good, Safe
<1>5. ReadableFile(db)
  BY <1>1 DEF Readable, ReadableFile
<1>6. Ids(kept["raw_blocks"]) \subseteq Ids(kept["packets"]) /\ PointsInto(db.rows["events"], kept["packets"])
  BY <1>1, <1>5 DEF FileInv, Good, Settled
<1> QED BY <1>1, <1>2, <1>3, <1>4, <1>6

\* A session changes rows and the session itself, and leaves the rest as it is.
LEMMA SessionStep ==
  ASSUME FileInv, OpenersInv, NEW o \in Openers, opener[o].pc = "open", UNCHANGED <<opener, cut>>,
         NEW held, NEW session \in BOOLEAN, NEW stated, held = [t \in Core |-> held[t]],
         db' = [exists |-> db.exists, magic |-> db.magic, format |-> db.format, version |-> db.version,
                stamped |-> db.stamped, session |-> session, status |-> stated, rows |-> held,
                gone |-> db.gone, shadow |-> db.shadow, columns |-> db.columns, extra |-> db.extra],
         kept' = [t \in Core |-> kept'[t]],
         \A t \in Core : \A r \in held[t] : IsRow(r),
         \A t \in Core : Ids(held[t]) = Ids(kept'[t]),
         Ids(kept'["raw_blocks"]) \subseteq Ids(kept'["packets"]),
         PointsInto(held["events"], kept'["packets"])
  PROVE  FileInv' /\ OpenersInv'
<1>1. /\ db.version = SchemaVersion /\ Readable /\ DOMAIN db.shadow = {} /\ db.gone = {}
      /\ \A p \in Openers : ~InStage(p)
  BY OpenSession
<1>2. /\ db'.exists = db.exists /\ db'.magic = db.magic /\ db'.format = db.format /\ db'.version = db.version
      /\ db'.rows = held /\ db'.gone = {} /\ db'.shadow = db.shadow
  BY <1>1
<1>3. Shaped(db')
  BY DEF FileInv, Good, Shaped
<1>4. RowsTyped(db', kept')
  BY <1>1, <1>2 DEF RowsTyped
<1>5. Safe(db', kept')
  BY <1>1, <1>2 DEF Safe
<1>6. Settled(db', kept')
  <2>1. db.magic /\ db.exists
    BY <1>1 DEF Readable, FileInv, Good, Settled
  <2> QED BY <1>1, <1>2, <2>1 DEF Settled
<1>7. FileInv'
  BY <1>3, <1>4, <1>5, <1>6 DEF FileInv, Good
<1>8. \A p \in Openers : PlaceOf(p)'
  BY <1>1, <1>2 DEF OpenersInv, PlaceOf, InStage, Readable
<1>9. Alone' /\ NothingGone'
  BY <1>2 DEF OpenersInv, Alone, NothingGone, InStage, Migrating
<1> QED BY <1>7, <1>8, <1>9 DEF OpenersInv

LEMMA AddPacketStep ==
  ASSUME FileInv, OpenersInv, NEW o \in Openers, NEW id, AddPacket(o, id)
  PROVE  FileInv' /\ OpenersInv'
<1> DEFINE row == [id |-> id, packet |-> NoRef]
           into(f) == [f EXCEPT !["packets"] = @ \cup {row}, !["raw_blocks"] = @ \cup {row}]
           held == into(db.rows)
<1>1. opener[o].pc = "open" /\ UNCHANGED <<opener, cut>> /\ kept' = into(kept)
      /\ db' = [db EXCEPT !.rows = into(@), !.status = "capturing"]
  BY DEF AddPacket
<1>2. db' = [exists |-> db.exists, magic |-> db.magic, format |-> db.format, version |-> db.version,
             stamped |-> db.stamped, session |-> db.session, status |-> "capturing", rows |-> held,
             gone |-> db.gone, shadow |-> db.shadow, columns |-> db.columns, extra |-> db.extra]
  BY <1>1 DEF FileInv, Good, Shaped
<1>3. db.rows = [t \in Core |-> db.rows[t]] /\ kept = [t \in Core |-> kept[t]] /\ db.session \in BOOLEAN
  BY DEF FileInv, Good, Shaped, RowsTyped
<1>4. /\ held = [t \in Core |-> held[t]]
      /\ held["packets"] = db.rows["packets"] \cup {row} /\ held["raw_blocks"] = db.rows["raw_blocks"] \cup {row}
      /\ held["flows"] = db.rows["flows"] /\ held["events"] = db.rows["events"]
  <2> HIDE DEF row
  <2> QED BY <1>3 DEF Core
<1>5. /\ kept' = [t \in Core |-> kept'[t]]
      /\ kept'["packets"] = kept["packets"] \cup {row} /\ kept'["raw_blocks"] = kept["raw_blocks"] \cup {row}
      /\ kept'["flows"] = kept["flows"] /\ kept'["events"] = kept["events"]
  <2> HIDE DEF row
  <2> QED BY <1>1, <1>3 DEF Core
<1>6. IsRow(row) /\ \A a : Ids(a \cup {row}) = Ids(a) \cup {id}
  <2>1. row.id = id /\ IsRow(row)
    BY DEF IsRow
  <2> HIDE DEF row
  <2> QED BY <2>1 DEF Ids
<1> HIDE DEF row, into, held
<1>7. /\ \A t \in Core : Ids(db.rows[t]) = Ids(kept[t])
      /\ Ids(kept["raw_blocks"]) \subseteq Ids(kept["packets"])
      /\ PointsInto(db.rows["events"], kept["packets"])
  BY <1>1, OpenSession
<1>8. \A t \in Core : \A r \in held[t] : IsRow(r)
  <2>1. \A t \in Core : \A r \in db.rows[t] : IsRow(r)
    BY DEF FileInv, Good, RowsTyped
  <2> QED BY <1>4, <1>6, <2>1 DEF Core
<1>9. /\ Ids(held["packets"]) = Ids(kept'["packets"]) /\ Ids(held["raw_blocks"]) = Ids(kept'["raw_blocks"])
      /\ Ids(held["flows"]) = Ids(kept'["flows"]) /\ Ids(held["events"]) = Ids(kept'["events"])
  <2>1. /\ Ids(db.rows["packets"]) = Ids(kept["packets"]) /\ Ids(db.rows["raw_blocks"]) = Ids(kept["raw_blocks"])
        /\ Ids(db.rows["flows"]) = Ids(kept["flows"]) /\ Ids(db.rows["events"]) = Ids(kept["events"])
    BY <1>7 DEF Core
  <2>2. /\ Ids(held["packets"]) = Ids(db.rows["packets"]) \cup {id}
        /\ Ids(held["raw_blocks"]) = Ids(db.rows["raw_blocks"]) \cup {id}
        /\ Ids(kept'["packets"]) = Ids(kept["packets"]) \cup {id}
        /\ Ids(kept'["raw_blocks"]) = Ids(kept["raw_blocks"]) \cup {id}
    BY <1>4, <1>5, <1>6
  <2> QED BY <1>4, <1>5, <2>1, <2>2
<1>10. \A t \in Core : Ids(held[t]) = Ids(kept'[t])
  BY <1>9 DEF Core
<1>11. Ids(kept'["raw_blocks"]) \subseteq Ids(kept'["packets"]) /\ PointsInto(held["events"], kept'["packets"])
  BY <1>4, <1>5, <1>6, <1>7 DEF PointsInto
<1>12. opener[o].pc = "open" /\ UNCHANGED <<opener, cut>> /\ db.session \in BOOLEAN
  BY <1>1, <1>3
<1>13. held = [t \in Core |-> held[t]] /\ kept' = [t \in Core |-> kept'[t]]
  BY <1>4, <1>5
<1> QED BY <1>2, <1>8, <1>10, <1>11, <1>12, <1>13, SessionStep

LEMMA SetStatusStep ==
  ASSUME FileInv, OpenersInv, NEW o \in Openers, NEW stated, SetStatus(o, stated)
  PROVE  FileInv' /\ OpenersInv'
<1>1. opener[o].pc = "open" /\ UNCHANGED <<opener, cut, kept>> /\ db' = [db EXCEPT !.status = stated]
  BY DEF SetStatus
<1>2. db' = [exists |-> db.exists, magic |-> db.magic, format |-> db.format, version |-> db.version,
             stamped |-> db.stamped, session |-> db.session, status |-> stated, rows |-> db.rows,
             gone |-> db.gone, shadow |-> db.shadow, columns |-> db.columns, extra |-> db.extra]
  BY <1>1 DEF FileInv, Good, Shaped
<1>3. /\ db.rows = [t \in Core |-> db.rows[t]] /\ kept = [t \in Core |-> kept[t]] /\ db.session \in BOOLEAN
      /\ \A t \in Core : \A r \in db.rows[t] : IsRow(r)
  BY DEF FileInv, Good, Shaped, RowsTyped
<1>4. /\ \A t \in Core : Ids(db.rows[t]) = Ids(kept[t])
      /\ Ids(kept["raw_blocks"]) \subseteq Ids(kept["packets"])
      /\ PointsInto(db.rows["events"], kept["packets"])
  BY <1>1, OpenSession
<1> QED BY <1>1, <1>2, <1>3, <1>4, SessionStep, ZenonT(60)

LEMMA DeleteStep ==
  ASSUME FileInv, OpenersInv, NEW o \in Openers, DeleteSession(o)
  PROVE  FileInv' /\ OpenersInv'
<1> DEFINE held == [t \in Core |-> IF t = "raw_blocks"
                                   THEN {r \in db.rows[t] : r.id \notin Ids(db.rows["packets"])} ELSE {}]
<1>1. opener[o].pc = "open" /\ UNCHANGED <<opener, cut>> /\ kept' = [t \in Core |-> {}]
      /\ db' = [db EXCEPT !.session = FALSE, !.status = "none", !.rows = held]
  BY DEF DeleteSession
<1>2. db' = [exists |-> db.exists, magic |-> db.magic, format |-> db.format, version |-> db.version,
             stamped |-> db.stamped, session |-> FALSE, status |-> "none", rows |-> held,
             gone |-> db.gone, shadow |-> db.shadow, columns |-> db.columns, extra |-> db.extra]
  <2> HIDE DEF held
  <2> QED BY <1>1 DEF FileInv, Good, Shaped
<1>3. /\ \A t \in Core : Ids(db.rows[t]) = Ids(kept[t])
      /\ Ids(kept["raw_blocks"]) \subseteq Ids(kept["packets"])
  BY <1>1, OpenSession
<1>4. \A t \in Core : held[t] = {}
  <2>1. Ids(db.rows["raw_blocks"]) \subseteq Ids(db.rows["packets"])
    BY <1>3 DEF Core
  <2> QED BY <2>1 DEF Ids
<1>5. held = [t \in Core |-> held[t]] /\ kept' = [t \in Core |-> kept'[t]] /\ \A t \in Core : kept'[t] = {}
  BY <1>1
<1> HIDE DEF held
<1>6. PointsInto(held["events"], kept'["packets"]) /\ Ids(kept'["raw_blocks"]) \subseteq Ids(kept'["packets"])
  BY <1>4, <1>5 DEF PointsInto, Core
<1>7. (\A t \in Core : \A r \in held[t] : IsRow(r)) /\ \A t \in Core : Ids(held[t]) = Ids(kept'[t])
  BY <1>4, <1>5
<1> QED BY <1>1, <1>2, <1>5, <1>6, <1>7, SessionStep

LEMMA CloseStep ==
  ASSUME FileInv, OpenersInv, NEW o \in Openers, CloseSession(o)
  PROVE  FileInv' /\ OpenersInv'
<1>1. opener[o].pc \in {"open", "broken"} /\ UNCHANGED <<db, kept, cut>> /\ opener' = [opener EXCEPT ![o] = Away]
  BY DEF CloseSession
<1>2. /\ opener' \in [Openers -> [pc : Positions, stage : Nat, at : Nat]]
      /\ opener'[o].pc = "out" /\ \A p \in Openers \ {o} : opener'[p] = opener[p]
  BY <1>1 DEF OpenersInv, Away, Positions
<1>3. FileInv'
  BY <1>1 DEF FileInv
<1>4. \A p \in Openers \ {o} : PlaceOf(p)'
  BY <1>1, <1>2, OthersSame DEF OpenersInv
<1>5. PlaceOf(o)'
  BY <1>2 DEF PlaceOf, InStage
<1>6. Alone'
  BY <1>2 DEF OpenersInv, Alone, InStage, Migrating
<1>7. NothingGone'
  <2>1. SUFFICES ASSUME ~cut, NEW t \in db.gone
                 PROVE  \E p \in Openers : opener'[p].pc = "run" /\ Statement(p)'.op = "rename" /\ Statement(p)'.table = t
    BY <1>1 DEF NothingGone
  <2>2. PICK p \in Openers : opener[p].pc = "run" /\ Statement(p).op = "rename" /\ Statement(p).table = t
    BY <2>1 DEF OpenersInv, NothingGone
  <2> QED BY <1>1, <1>2, <2>2 DEF Statement
<1> QED BY <1>1, <1>2, <1>3, <1>4, <1>5, <1>6, <1>7 DEF OpenersInv

LEMMA KillStep ==
  ASSUME FileInv, OpenersInv, NEW o \in Openers, Kill(o)
  PROVE  FileInv' /\ OpenersInv'
<1>1. UNCHANGED <<db, kept>> /\ opener' = [opener EXCEPT ![o] = Away] /\ cut' = (cut \/ db.gone # {})
  BY DEF Kill
<1>2. /\ opener' \in [Openers -> [pc : Positions, stage : Nat, at : Nat]] /\ cut' \in BOOLEAN
      /\ opener'[o].pc = "out" /\ \A p \in Openers \ {o} : opener'[p] = opener[p]
  BY <1>1 DEF OpenersInv, Away, Positions
<1>3. FileInv'
  BY <1>1 DEF FileInv
<1>4. \A p \in Openers \ {o} : PlaceOf(p)'
  BY <1>1, <1>2, OthersSame DEF OpenersInv
<1>5. PlaceOf(o)'
  BY <1>2 DEF PlaceOf, InStage
<1>6. Alone'
  BY <1>2 DEF OpenersInv, Alone, InStage, Migrating
<1>7. NothingGone'
  BY <1>1 DEF NothingGone
<1> QED BY <1>2, <1>3, <1>4, <1>5, <1>6, <1>7 DEF OpenersInv

----------------------------------------------------------------------------
LEMMA FileInitially ==
  ASSUME FileInit
  PROVE  MigrationInv
<1>1. PICK f \in OldFiles \cup {NoFile} :
        /\ db = IF f = NoFile THEN Blank
                ELSE [Blank EXCEPT !.exists = TRUE, !.magic = TRUE, !.format = f.format,
                                   !.version = f.version, !.session = TRUE, !.status = "complete",
                                   !.rows = f.rows, !.columns = Layout(f.version).columns,
                                   !.extra = Layout(f.version).extra]
        /\ kept = f.rows
        /\ opener = [o \in Openers |-> Away]
        /\ overlapped = FALSE /\ cut = FALSE
  BY DEF FileInit
<1>2. OpenersInv /\ overlapped \in BOOLEAN
  <2>1. \A o \in Openers : opener[o].pc = "out"
    BY <1>1 DEF Away
  <2>2. opener \in [Openers -> [pc : Positions, stage : Nat, at : Nat]] /\ cut \in BOOLEAN
    BY <1>1 DEF Away, Positions
  <2>3. db.gone = {}
    BY <1>1 DEF Blank
  <2> QED BY <1>1, <2>1, <2>2, <2>3 DEF OpenersInv, PlaceOf, InStage, Alone, Migrating, NothingGone
<1>3. ASSUME NEW held, held = [t \in Core |-> held[t]], db.rows = held, kept = held,
             \A t \in Core : \A r \in held[t] : IsRow(r), db.gone = {}, DOMAIN db.shadow = {}
      PROVE  RowsTyped(db, kept) /\ Safe(db, kept)
  BY <1>3 DEF RowsTyped, Safe
<1>4. CASE f = NoFile
  <2>1. /\ db = Blank /\ kept = [t \in Core |-> {}]
    BY <1>1, <1>4 DEF NoFile
  <2>2. Shaped(db)
    BY <2>1 DEF Shaped, Blank, FormatVersion
  <2>3. RowsTyped(db, kept) /\ Safe(db, kept)
    <3>1. db.rows = kept /\ db.gone = {} /\ DOMAIN db.shadow = {}
      BY <2>1 DEF Blank
    <3>2. kept = [t \in Core |-> kept[t]] /\ \A t \in Core : kept[t] = {}
      BY <2>1
    <3> QED BY <1>3, <3>1, <3>2
  <2>4. Settled(db, kept)
    BY <2>1 DEF Settled, Blank, ReadableFile
  <2> QED BY <1>2, <2>2, <2>3, <2>4 DEF MigrationInv, FileInv, Good
<1>5. CASE f # NoFile
  <2>1. /\ f.version \in Nat /\ f.format \in Nat /\ f.rows = [t \in Core |-> f.rows[t]]
        /\ \A t \in Core : \A r \in f.rows[t] : IsRow(r)
        /\ f.format <= FormatVersion /\ f.version <= SchemaVersion =>
             /\ Ids(f.rows["raw_blocks"]) \subseteq Ids(f.rows["packets"])
             /\ f.version = SchemaVersion => PointsInto(f.rows["events"], f.rows["packets"])
    BY <1>5, FileAssumption
  <2> DEFINE l == Layout(f.version)
  <2> HIDE DEF l
  <2>2. db = [exists |-> TRUE, magic |-> TRUE, format |-> f.format, version |-> f.version, stamped |-> 0,
              session |-> TRUE, status |-> "complete", rows |-> f.rows, gone |-> {},
              shadow |-> [t \in {} |-> {}], columns |-> l.columns, extra |-> l.extra]
    BY <1>1, <1>5 DEF Blank, l
  <2>3. Shaped(db)
    BY <2>1, <2>2 DEF Shaped
  <2>4. /\ db.version = f.version /\ db.format = f.format /\ db.rows = f.rows /\ db.gone = {}
        /\ DOMAIN db.shadow = {} /\ db.magic = TRUE /\ db.exists = TRUE
    BY <2>2
  <2>5. RowsTyped(db, kept) /\ Safe(db, kept)
    BY <1>1, <1>3, <2>1, <2>4
  <2>6. Settled(db, kept)
    BY <1>1, <2>1, <2>4, SMTT(30) DEF Settled, ReadableFile
  <2> QED BY <1>2, <2>3, <2>5, <2>6 DEF MigrationInv, FileInv, Good
<1> QED BY <1>4, <1>5

LEMMA FileStep ==
  ASSUME MigrationInv, [FileNext]_fileVars
  PROVE  MigrationInv'
<1>1. overlapped' \in BOOLEAN /\ (overlapped => overlapped')
  BY ZenonT(60) DEF MigrationInv, FileNext, fileVars, CreateTables, CreateRows, Refuse, MigrationStep, OpenFile, LookAtColumns,
         Execute, ExecuteFails, RecordVersion, StampHeader, Begin, AfterStatement, Take, Go, Kill, AddPacket,
         SetStatus, DeleteSession, CloseSession
<1>2. SUFFICES ASSUME ~overlapped' PROVE FileInv' /\ OpenersInv'
  BY <1>1 DEF MigrationInv
<1>3. FileInv /\ OpenersInv
  BY <1>1, <1>2 DEF MigrationInv
<1>4. ASSUME UNCHANGED <<db, opener, kept, cut>> PROVE FileInv' /\ OpenersInv'
  BY <1>3, <1>4 DEF FileInv, OpenersInv, PlaceOf, Alone, NothingGone, InStage, Migrating, Statement, Readable
<1>5. CASE UNCHANGED fileVars
  BY <1>4, <1>5 DEF fileVars
<1>6. ASSUME NEW o \in Openers, CreateTables(o) PROVE FileInv' /\ OpenersInv'
  BY <1>2, <1>6, CreateTablesStep
<1>7. ASSUME NEW o \in Openers, CreateRows(o) PROVE FileInv' /\ OpenersInv'
  BY <1>2, <1>7, CreateRowsStep
<1>8. ASSUME NEW o \in Openers, NEW create \in BOOLEAN, Refuse(o, create) PROVE FileInv' /\ OpenersInv'
  BY <1>4, <1>8 DEF Refuse
<1>9. ASSUME NEW o \in Openers, MigrationStep(o) PROVE FileInv' /\ OpenersInv'
  BY <1>2, <1>9, OpenStep, LookStep, ExecuteStep, ExecuteFailsStep, RecordStep, StampStep DEF MigrationStep
<1>10. ASSUME NEW o \in Openers, Kill(o) PROVE FileInv' /\ OpenersInv'
  BY <1>3, <1>10, KillStep
<1>11. ASSUME NEW o \in Openers, NEW id \in {9}, AddPacket(o, id) PROVE FileInv' /\ OpenersInv'
  BY <1>3, <1>11, AddPacketStep
<1>12. ASSUME NEW o \in Openers, SetStatus(o, "archived") PROVE FileInv' /\ OpenersInv'
  BY <1>3, <1>12, SetStatusStep
<1>13. ASSUME NEW o \in Openers, DeleteSession(o) \/ CloseSession(o) PROVE FileInv' /\ OpenersInv'
  BY <1>3, <1>13, DeleteStep, CloseStep
<1> QED BY <1>5, <1>6, <1>7, <1>8, <1>9, <1>10, <1>11, <1>12, <1>13 DEF FileNext

LEMMA MigrationInvHolds == FileSpec => []MigrationInv
<1>1. FileInit => MigrationInv
  BY FileInitially
<1>2. MigrationInv /\ [FileNext]_fileVars => MigrationInv'
  BY FileStep
<1> QED BY <1>1, <1>2, PTL DEF FileSpec

\* FileSurvives: whatever is killed or closed at whatever statement, and however many processes open the
\* file one after another, no row leaves it, a session that could be opened has all its tables and no
\* event that points nowhere, and a migration that fails was cut off between a DROP and its RENAME
\* before, or shares the file with another (database.py 135-238, 533-565).
THEOREM NoRowIsLost == FileSpec => []FileSurvives
<1>1. MigrationInv => RowsSurvive
  <2>1. SUFFICES ASSUME MigrationInv, ~overlapped
                 PROVE  /\ \A t \in Core : Ids(kept[t]) \subseteq Found(t)
                        /\ \A o \in Openers : opener[o].pc = "open" /\ Readable =>
                             /\ db.gone = {} /\ \A t \in Core : Ids(kept[t]) = Ids(db.rows[t])
                             /\ PointsInto(db.rows["events"], db.rows["packets"])
    BY DEF RowsSurvive
  <2>2. FileInv /\ OpenersInv
    BY <2>1 DEF MigrationInv
  <2>3. \A t \in Core : Ids(kept[t]) \subseteq Found(t)
    BY <2>2 DEF FileInv, Good, Safe, Found
  <2>4. ASSUME NEW o \in Openers, opener[o].pc = "open"
        PROVE  /\ db.gone = {} /\ \A t \in Core : Ids(kept[t]) = Ids(db.rows[t])
               /\ PointsInto(db.rows["events"], db.rows["packets"])
    <3>1. /\ db.gone = {} /\ \A t \in Core : Ids(db.rows[t]) = Ids(kept[t])
          /\ PointsInto(db.rows["events"], kept["packets"])
      BY <2>2, <2>4, OpenSession
    <3> QED BY <3>1 DEF PointsInto, Core
  <2> QED BY <2>3, <2>4
<1>2. MigrationInv => StuckOnlyWhenCut
  BY DEF MigrationInv, OpenersInv, PlaceOf, StuckOnlyWhenCut
<1>3. MigrationInv => FileSurvives
  BY <1>1, <1>2 DEF FileSurvives
<1> QED BY <1>3, MigrationInvHolds, PTL



RowIds == ScenarioIds \cup RunIds

(***************************************************************************)
(* Types.  A request has a row in hand from its read to its write; by then *)
(* the row was written at least once, which is why its id is not given     *)
(* again, whatever was deleted.                                            *)
(***************************************************************************)
Rowed(h) == h.pc \in {"patch", "begin", "running", "ended"}

HandTyped(h) ==
  /\ h = [pc |-> h.pc, id |-> h.id, row |-> h.row, seen |-> h.seen,
          change |-> h.change]
  /\ h.pc \in {"idle", "patch", "create", "replay", "begin", "running", "ended"}
  /\ h.pc \in {"create", "replay"} => h.id \in ScenarioIds
  /\ h.pc \in {"begin", "running", "ended"} => h.id \in RunIds
  /\ Rowed(h) => /\ h.id \in RowIds /\ h.row \in RowsOf(h.id)
                 /\ h.seen \in Nat /\ version[h.id] > 0 /\ h.seen <= version[h.id]
  /\ h.pc = "patch" =>
       /\ h.change \in Changes(h.id)
       /\ "status" \in DOMAIN h.change => h.change.status \in Known(h.id)
  /\ h.pc = "ended" => h.row.result \in [error : BOOLEAN, artifact : Artifacts]

CaptureTyped ==
  capture \in [session : {"this"}, count : Nat, hash : Nat \cup {None}, content : Nat]

TablesTyped ==
  /\ DOMAIN rows = RowIds /\ DOMAIN wanted = RowIds /\ version \in [RowIds -> Nat]
  /\ \A i \in RowIds : rows[i] # None => rows[i] \in RowsOf(i) /\ version[i] > 0
  /\ \A i \in RowIds : version[i] > 0 => wanted[i] \in RowsOf(i)

HandsTyped == DOMAIN hand = Workers /\ \A w \in Workers : HandTyped(hand[w])

NotesTyped ==
  /\ requests \in 0..MaxRequests
  /\ notes = [last |-> notes.last, rows |-> notes.rows] /\ notes.last \in Nat
  /\ \A n \in notes.rows : n.id \in 1..notes.last

TypeInv == CaptureTyped /\ TablesTyped /\ HandsTyped /\ NotesTyped

----------------------------------------------------------------------------
(* What a change of some fields makes of a row.                            *)
LEMMA ChangedStatus ==
  ASSUME NEW i \in RowIds, NEW row \in RowsOf(i), NEW x
  PROVE  Changed(row, [status |-> x]) = [row EXCEPT !.status = x]
BY DEF Changed, RowsOf

LEMMA ChangedResult ==
  ASSUME NEW i \in RowIds, NEW row \in RowsOf(i), NEW x
  PROVE  Changed(row, [result |-> x]) = [row EXCEPT !.result = x]
BY DEF Changed, RowsOf

Started(row, x, y) == [[row EXCEPT !.status = x] EXCEPT !.started = y]
RunEnded(row, x, y, z) ==
  [[[row EXCEPT !.status = x] EXCEPT !.finished = y] EXCEPT !.result = z]

LEMMA ChangedBegun ==
  ASSUME NEW i \in RowIds, NEW row \in RowsOf(i), NEW x, NEW y
  PROVE  Changed(row, [status |-> x, started |-> y]) = Started(row, x, y)
<1> DEFINE c == [status |-> x, started |-> y]
           new == [[row EXCEPT !.status = x] EXCEPT !.started = y]
<1> SUFFICES Changed(row, c) = new
  BY DEF Started
<1>1. DOMAIN c = {"status", "started"} /\ c["status"] = x /\ c["started"] = y
  OBVIOUS
<1>2. \A f \in DOMAIN row : Changed(row, c)[f] = new[f]
  <2> HIDE DEF c
  <2> QED
    BY <1>1 DEF Changed
<1>3. Changed(row, c) = [f \in DOMAIN row |-> Changed(row, c)[f]]
  <2> HIDE DEF c
  <2> QED
    BY DEF Changed
<1>4. new = [f \in DOMAIN row |-> new[f]]
  BY DEF RowsOf
<1> HIDE DEF c, new
<1> QED
  BY <1>2, <1>3, <1>4

LEMMA ChangedEnded ==
  ASSUME NEW i \in RowIds, NEW row \in RowsOf(i), NEW x, NEW y, NEW z
  PROVE  Changed(row, [status |-> x, finished |-> y, result |-> z])
           = RunEnded(row, x, y, z)
<1> DEFINE c == [status |-> x, finished |-> y, result |-> z]
           new == [[[row EXCEPT !.status = x] EXCEPT !.finished = y] EXCEPT !.result = z]
<1> SUFFICES Changed(row, c) = new
  BY DEF RunEnded
<1>1. /\ DOMAIN c = {"status", "finished", "result"}
      /\ c["status"] = x /\ c["finished"] = y /\ c["result"] = z
  OBVIOUS
<1>2. \A f \in DOMAIN row : Changed(row, c)[f] = new[f]
  <2> HIDE DEF c
  <2> QED
    BY <1>1 DEF Changed
<1>3. Changed(row, c) = [f \in DOMAIN row |-> Changed(row, c)[f]]
  <2> HIDE DEF c
  <2> QED
    BY DEF Changed
<1>4. new = [f \in DOMAIN row |-> new[f]]
  BY DEF RowsOf
<1> HIDE DEF c, new
<1> QED
  BY <1>2, <1>3, <1>4

(* A row as read is a row of the same id.                                  *)
LEMMA ReadRow ==
  ASSUME NEW i \in RowIds, NEW row \in RowsOf(i)
  PROVE  /\ Read(row) \in RowsOf(i)
         /\ Read(row).scenario = row.scenario
         /\ Read(row).status = row.status /\ Read(row).result = row.result
         /\ Read(row).started = Divided(row.started)
         /\ Read(row).finished = Divided(row.finished)
<1>1. \A t \in Times : Divided(t) \in Times
  BY DEF Divided, Times
<1> QED
  BY <1>1 DEF Read, RowsOf

(* The fields of a new run and of a new scenario.                          *)
LEMMA NewRows ==
  /\ \A s \in ScenarioIds, r \in RunIds : NewRun(s) \in RowsOf(r)
  /\ \A sel \in Selections, i \in ScenarioIds :
       NewScenario(ToScenarioSelection(sel)) \in RowsOf(i)
BY CaseAssumption DEF NewRun, NewScenario, RowsOf, Known, RunStatuses,
   ScenarioStatuses, Results, Times

----------------------------------------------------------------------------
(* What the statements of the storage do to the tables, row by row.        *)
LEMMA InsertEffect ==
  ASSUME TablesTyped, NEW i \in RowIds, NEW row \in RowsOf(i), Insert(i, row)
  PROVE  /\ TablesTyped'
         /\ \A j \in RowIds : /\ rows'[j] = IF j = i THEN row ELSE rows[j]
                              /\ wanted'[j] = IF j = i THEN row ELSE wanted[j]
                              /\ version'[j] = IF j = i THEN 1 ELSE version[j]
         /\ raced' = raced
BY DEF TablesTyped, Insert

LEMMA UpdateEffect ==
  ASSUME TablesTyped, NEW i \in RowIds, NEW row \in RowsOf(i), NEW change,
         NEW seen, Update(i, row, change, seen),
         version[i] > 0 => Changed(wanted[i], change) \in RowsOf(i)
  PROVE  /\ TablesTyped'
         /\ \A j \in RowIds :
              /\ j = i /\ rows[i] # None =>
                   /\ rows'[j] = row /\ version'[j] = version[i] + 1
                   /\ wanted'[j] = Changed(wanted[i], change)
              /\ ~(j = i /\ rows[i] # None) =>
                   /\ rows'[j] = rows[j] /\ version'[j] = version[j]
                   /\ wanted'[j] = wanted[j]
         /\ raced' = IF rows[i] = None \/ seen = version[i] THEN raced ELSE raced \cup {i}
<1>1. CASE rows[i] = None
  BY <1>1 DEF Update, tables, TablesTyped
<1>2. CASE rows[i] # None
  BY <1>2 DEF Update, TablesTyped
<1> QED
  BY <1>1, <1>2

LEMMA DeleteEffect ==
  ASSUME TablesTyped, NEW S,
         rows' = [i \in DOMAIN rows |-> IF i \in S THEN None ELSE rows[i]],
         UNCHANGED <<version, wanted>>
  PROVE  /\ TablesTyped'
         /\ \A j \in RowIds : rows'[j] = IF j \in S THEN None ELSE rows[j]
BY DEF TablesTyped

(* A step that takes no row back to a lower version leaves every request   *)
(* but its own as it was.                                                  *)
Later == version' \in [RowIds -> Nat] /\ \A i \in RowIds : version'[i] >= version[i]

LEMMA HandsKept ==
  ASSUME TablesTyped, HandsTyped, Later, UNCHANGED hand
  PROVE  HandsTyped'
<1> SUFFICES ASSUME NEW w \in Workers
             PROVE  HandTyped(hand[w])'
  BY DEF HandsTyped
<1> QED
  BY DEF HandsTyped, HandTyped, Later, TablesTyped, Rowed

LEMMA HandMoves ==
  ASSUME TablesTyped, HandsTyped, Later, NEW w \in Workers, NEW h,
         hand' = [hand EXCEPT ![w] = h], HandTyped(hand[w])'
  PROVE  HandsTyped'
<1> SUFFICES ASSUME NEW v \in Workers, v # w
             PROVE  HandTyped(hand[v])'
  BY DEF HandsTyped
<1>1. hand'[v] = hand[v]
  BY DEF HandsTyped
<1> QED
  BY <1>1 DEF HandsTyped, HandTyped, Later, TablesTyped, Rowed

LEMMA IdleTyped == HandTyped(Idle)'
BY DEF HandTyped, Idle, InHand, Rowed

----------------------------------------------------------------------------
LEMMA TypeInit == CaseInit => TypeInv
<1> SUFFICES ASSUME CaseInit
             PROVE  TypeInv
  OBVIOUS
<1>1. CaptureTyped
  BY DEF CaseInit, CaptureTyped
<1>2. TablesTyped
  BY DEF CaseInit, TablesTyped, RowIds
<1>3. HandsTyped
  <2> SUFFICES ASSUME NEW w \in Workers
               PROVE  HandTyped(hand[w])
    BY DEF CaseInit, HandsTyped
  <2> QED
    BY DEF CaseInit, HandTyped, Idle, InHand, Rowed
<1>4. NotesTyped
  BY CaseAssumption DEF CaseInit, NotesTyped
<1> QED
  BY <1>1, <1>2, <1>3, <1>4 DEF TypeInv

(* What a PATCH may change, and that the row it makes is one of the id.    *)
LEMMA ChangesAre ==
  ASSUME NEW i \in RowIds, NEW change \in Changes(i)
  PROVE  \/ \E x : change = [status |-> x]
         \/ \E x \in Results : change = [result |-> x]
<1>1. [error |-> TRUE, artifact |-> [format |-> ResultFormat + 1]] \in Results
  BY DEF Results
<1>2. None \in Results
  BY DEF Results
<1> QED
  BY <1>1, <1>2 DEF Changes

LEMMA RowWith ==
  ASSUME NEW i \in RowIds, NEW row \in RowsOf(i)
  PROVE  /\ \A x \in Known(i) : [row EXCEPT !.status = x] \in RowsOf(i)
         /\ \A x \in Results : [row EXCEPT !.result = x] \in RowsOf(i)
         /\ \A x \in Times : [row EXCEPT !.started = x] \in RowsOf(i)
         /\ \A x \in Times : [row EXCEPT !.finished = x] \in RowsOf(i)
<1>1. \A x \in Known(i) : [row EXCEPT !.status = x] \in RowsOf(i)
  BY DEF RowsOf
<1>2. \A x \in Results : [row EXCEPT !.result = x] \in RowsOf(i)
  BY DEF RowsOf
<1>3. \A x \in Times : [row EXCEPT !.started = x] \in RowsOf(i)
  BY DEF RowsOf
<1>4. \A x \in Times : [row EXCEPT !.finished = x] \in RowsOf(i)
  BY DEF RowsOf
<1> QED
  BY <1>1, <1>2, <1>3, <1>4

LEMMA PatchedRow ==
  ASSUME NEW i \in RowIds, NEW row \in RowsOf(i), NEW change \in Changes(i),
         "status" \in DOMAIN change => change.status \in Known(i)
  PROVE  Changed(row, change) \in RowsOf(i)
<1>1. CASE \E x : change = [status |-> x]
  <2> PICK x : change = [status |-> x]
    BY <1>1
  <2>1. x \in Known(i)
    OBVIOUS
  <2>2. [row EXCEPT !.status = x] \in RowsOf(i)
    BY <2>1, RowWith
  <2> QED
    BY <2>2, ChangedStatus
<1>2. CASE \E x \in Results : change = [result |-> x]
  <2> PICK x \in Results : change = [result |-> x]
    BY <1>2
  <2>1. [row EXCEPT !.result = x] \in RowsOf(i)
    BY RowWith
  <2> QED
    BY <2>1, ChangedResult
<1> QED
  BY <1>1, <1>2, ChangesAre

(* The row of a run that begins, ends, or gets its artefact.               *)
LEMMA RunRows ==
  ASSUME NEW r \in RunIds, NEW row \in RowsOf(r)
  PROVE  /\ Changed(row, [status |-> "running", started |-> 0]) \in RowsOf(r)
         /\ \A o \in RunStatuses, x \in Results :
              Changed(row, [status |-> o, finished |-> 0, result |-> x]) \in RowsOf(r)
         /\ \A x \in Results : Changed(row, [result |-> x]) \in RowsOf(r)
         /\ \A o \in RunStatuses : [row EXCEPT !.status = o] \in RowsOf(r)
<1>1. r \in RowIds /\ Known(r) = RunStatuses /\ "running" \in RunStatuses /\ 0 \in Times
  BY DEF RowIds, Known, RunStatuses, Times
<1>2. Changed(row, [status |-> "running", started |-> 0]) \in RowsOf(r)
  <2>1. [row EXCEPT !.status = "running"] \in RowsOf(r)
    BY <1>1, RowWith
  <2>2. [[row EXCEPT !.status = "running"] EXCEPT !.started = 0] \in RowsOf(r)
    BY <1>1, <2>1, RowWith
  <2>3. Started(row, "running", 0) \in RowsOf(r)
    BY <2>2 DEF Started
  <2> QED
    BY <1>1, <2>3, ChangedBegun
<1>3. ASSUME NEW o \in RunStatuses, NEW x \in Results
      PROVE  Changed(row, [status |-> o, finished |-> 0, result |-> x]) \in RowsOf(r)
  <2>1. [row EXCEPT !.status = o] \in RowsOf(r)
    BY <1>1, RowWith
  <2>2. [[row EXCEPT !.status = o] EXCEPT !.finished = 0] \in RowsOf(r)
    BY <1>1, <2>1, RowWith
  <2>3. [[[row EXCEPT !.status = o] EXCEPT !.finished = 0] EXCEPT !.result = x]
          \in RowsOf(r)
    BY <1>1, <2>2, RowWith
  <2>4. RunEnded(row, o, 0, x) \in RowsOf(r)
    BY <2>3 DEF RunEnded
  <2> QED
    BY <1>1, <2>4, ChangedEnded
<1>4. ASSUME NEW x \in Results
      PROVE  Changed(row, [result |-> x]) \in RowsOf(r)
  <2>1. [row EXCEPT !.result = x] \in RowsOf(r)
    BY <1>1, RowWith
  <2> QED
    BY <1>1, <2>1, ChangedResult
<1>5. \A o \in RunStatuses : [row EXCEPT !.status = o] \in RowsOf(r)
  BY <1>1, RowWith
<1> QED
  BY <1>2, <1>3, <1>4, <1>5

(* The artefact built for a run, and the result it is put into.            *)
LEMMA BuiltResult ==
  ASSUME CaptureTyped, NEW r \in RunIds, NEW run \in RowsOf(r)
  PROVE  /\ BuildResult(run, r, capture) \in Artifacts
         /\ \A e \in BOOLEAN :
              /\ [error |-> e, artifact |-> BuildResult(run, r, capture)] \in Results
              /\ [error |-> e, artifact |-> BuildResult(run, r, capture)]
                   \in [error : BOOLEAN, artifact : Artifacts]
         /\ run.result \in [error : BOOLEAN, artifact : Artifacts] =>
              /\ [run.result EXCEPT !.artifact = BuildResult(run, r, capture)] \in Results
              /\ [run.result EXCEPT !.artifact = BuildResult(run, r, capture)].artifact
                   = BuildResult(run, r, capture)
<1>1. run.scenario \in ScenarioIds /\ run.status \in RunStatuses /\ run.result \in Results
  BY DEF RowsOf, Known
<1>2. /\ capture.session \in {"this"} /\ capture.count \in Nat
      /\ capture.hash \in Nat \cup {None} /\ capture.content \in Nat
  BY DEF CaptureTyped
<1>3. BuildResult(run, r, capture) \in Artifacts
  BY <1>1, <1>2 DEF BuildResult, SourceLink, Artifacts
<1> HIDE DEF BuildResult
<1> QED
  BY <1>1, <1>3 DEF Results

----------------------------------------------------------------------------
(* Each half of a request, and its row, is well formed after a step.       *)
LEMMA RequestTypes ==
  ASSUME TypeInv, NEW w \in Workers, Request(w)
  PROVE  TypeInv'
<1> USE DEF TypeInv
<1>a. Later /\ TablesTyped' /\ HandsTyped' /\ CaptureTyped' /\ NotesTyped' => TypeInv'
  OBVIOUS
<1>b. Arrive(w) => requests' \in 0..MaxRequests
  BY CaseAssumption DEF Arrive, NotesTyped
<1>1. ASSUME NEW i \in RowIds, NEW sel \in Selections, CreateScenario(w, i, sel)
      PROVE  TypeInv'
  <2>1. i \in ScenarioIds /\ NewScenario(ToScenarioSelection(sel)) \in RowsOf(i)
    BY <1>1, NewRows DEF CreateScenario
  <2>2. TablesTyped' /\ \A j \in RowIds : version'[j] = IF j = i THEN 1 ELSE version[j]
    BY <1>1, <2>1, InsertEffect DEF CreateScenario
  <2>3. Later
    BY <1>1, <2>2 DEF Later, CreateScenario, Unused, TablesTyped
  <2> QED
    BY <1>1, <1>b, <2>2, <2>3, HandsKept DEF CreateScenario, CaptureTyped, NotesTyped
<1>2. ASSUME NEW i \in RowIds, NEW c \in Changes(i), ReadForPatch(w, i, c)
      PROVE  TypeInv'
  <2>1. rows[i] \in RowsOf(i) /\ version[i] > 0 /\ version[i] \in Nat
    BY <1>2 DEF ReadForPatch, TablesTyped
  <2>2. Changed(Read(rows[i]), c) \in RowsOf(i)
    BY <1>2, <2>1, ReadRow, PatchedRow DEF ReadForPatch
  <2> DEFINE h == [pc |-> "patch", id |-> i, row |-> Changed(Read(rows[i]), c),
                   seen |-> version[i], change |-> c]
  <2>3. TablesTyped' /\ Later
    BY <1>2 DEF ReadForPatch, tables, TablesTyped, Later
  <2>4. hand' = [hand EXCEPT ![w] = h] /\ hand'[w] = h
    BY <1>2 DEF ReadForPatch, HandsTyped
  <2>5. HandTyped(hand[w])'
    BY <1>2, <2>1, <2>2, <2>4 DEF HandTyped, Rowed, ReadForPatch, tables
  <2>6. HandsTyped'
    <3> HIDE DEF h
    <3> QED
      BY <2>3, <2>4, <2>5, HandMoves
  <2> QED
    BY <1>2, <1>b, <2>3, <2>6 DEF ReadForPatch, CaptureTyped, NotesTyped
<1>3. ASSUME NEW i \in RowIds, DeleteScenario(w, i)
      PROVE  TypeInv'
  <2>1. TablesTyped' /\ Later
    BY <1>3, DeleteEffect DEF DeleteScenario, TablesTyped, Later
  <2> QED
    BY <1>3, <1>b, <2>1, HandsKept DEF DeleteScenario, CaptureTyped, NotesTyped
<1>4. ASSUME NEW i \in RowIds, DeleteRun(w, i)
      PROVE  TypeInv'
  <2>1. TablesTyped' /\ Later
    BY <1>4 DEF DeleteRun, TablesTyped, Later
  <2> QED
    BY <1>4, <1>b, <2>1, HandsKept DEF DeleteRun, CaptureTyped, NotesTyped
<1>5. ASSUME NEW i \in RowIds, NEW next \in {"create", "replay"}, ReadForRun(w, i, next)
      PROVE  TypeInv'
  <2> DEFINE h == InHand(next, i, None, 0)
  <2>1. TablesTyped' /\ Later
    BY <1>5 DEF ReadForRun, tables, TablesTyped, Later
  <2>2. hand' = [hand EXCEPT ![w] = h] /\ hand'[w] = h
    BY <1>5 DEF ReadForRun, HandsTyped
  <2>3. HandTyped(h)'
    BY <1>5 DEF HandTyped, Rowed, ReadForRun, InHand
  <2>4. HandsTyped'
    <3> HIDE DEF h
    <3> QED
      BY <2>1, <2>2, <2>3, HandMoves
  <2> QED
    BY <1>5, <1>b, <2>1, <2>4 DEF ReadForRun, CaptureTyped, NotesTyped
<1>6. ASSUME NEW t \in {"flow", "time-range"}, AddAnnotation(w, t)
      PROVE  TypeInv'
  <2>1. TablesTyped' /\ Later
    BY <1>6 DEF AddAnnotation, tables, TablesTyped, Later
  <2>2. NotesTyped'
    BY <1>6, <1>b DEF AddAnnotation, NotesTyped
  <2> QED
    BY <1>6, <2>1, <2>2, HandsKept DEF AddAnnotation, CaptureTyped
<1>7. ASSUME NEW id, DeleteAnnotation(w, id)
      PROVE  TypeInv'
  <2>1. TablesTyped' /\ Later
    BY <1>7 DEF DeleteAnnotation, tables, TablesTyped, Later
  <2>2. NotesTyped'
    BY <1>7, <1>b DEF DeleteAnnotation, NotesTyped
  <2> QED
    BY <1>7, <2>1, <2>2, HandsKept DEF DeleteAnnotation, CaptureTyped
<1> QED
  BY <1>1, <1>2, <1>3, <1>4, <1>5, <1>6, <1>7 DEF Request, RowIds, CreateScenario

(* The request whose turn it is has its row typed, and a later write of it *)
(* raises the version.                                                     *)
LEMMA UpdateLater ==
  ASSUME TablesTyped, NEW i \in RowIds, NEW row \in RowsOf(i), NEW change, NEW seen,
         Update(i, row, change, seen),
         version[i] > 0 => Changed(wanted[i], change) \in RowsOf(i)
  PROVE  TablesTyped' /\ Later
<1>1. /\ TablesTyped'
      /\ \A j \in RowIds : \/ version'[j] = version[j]
                           \/ j = i /\ version'[j] = version[i] + 1
  BY UpdateEffect
<1> QED
  BY <1>1 DEF Later, TablesTyped

LEMMA ProceedTypes ==
  ASSUME TypeInv, NEW w \in Workers, Proceed(w)
  PROVE  TypeInv'
<1> USE DEF TypeInv
<1> DEFINE i == hand[w].id
<1>a. Later /\ TablesTyped' /\ HandsTyped' /\ CaptureTyped' /\ NotesTyped' => TypeInv'
  OBVIOUS
<1>b. HandTyped(hand[w])
  BY DEF HandsTyped
<1>c. ASSUME TablesTyped', Later, hand' = [hand EXCEPT ![w] = Idle]
      PROVE  HandsTyped'
  <2>1. hand'[w] = Idle
    BY <1>c DEF HandsTyped
  <2>2. HandTyped(hand[w])'
    BY <2>1, IdleTyped DEF HandTyped, Rowed, Idle, InHand
  <2> QED
    BY <1>c, <2>2, HandMoves
<1>d. ASSUME Rowed(hand[w])
      PROVE  /\ i \in RowIds /\ hand[w].row \in RowsOf(i) /\ version[i] > 0
             /\ version[i] \in Nat /\ wanted[i] \in RowsOf(i)
  BY <1>b, <1>d DEF HandTyped, TablesTyped
<1>1. CASE WritePatch(w)
  <2>1. Rowed(hand[w]) /\ hand[w].change \in Changes(i)
        /\ ("status" \in DOMAIN hand[w].change => hand[w].change.status \in Known(i))
    BY <1>1, <1>b DEF WritePatch, HandTyped, Rowed
  <2>2. Changed(wanted[i], hand[w].change) \in RowsOf(i)
    BY <2>1, <1>d, PatchedRow
  <2>3. TablesTyped' /\ Later
    BY <1>1, <2>1, <2>2, <1>d, UpdateLater DEF WritePatch
  <2> QED
    BY <1>1, <1>c, <2>3 DEF WritePatch, CaptureTyped, NotesTyped
<1>2. CASE BeginRun(w)
  <2> DEFINE begun == [status |-> "running", started |-> 0]
             row == Changed(hand[w].row, begun)
  <2>1. Rowed(hand[w]) /\ i \in RunIds
    BY <1>2, <1>b DEF BeginRun, HandTyped, Rowed
  <2>2. row \in RowsOf(i) /\ Changed(wanted[i], begun) \in RowsOf(i)
    BY <2>1, <1>d, RunRows
  <2>3. Update(i, row, begun, hand[w].seen)
        /\ hand' = [hand EXCEPT ![w] = InHand("running", i, row, version'[i])]
    BY <1>2 DEF BeginRun
  <2> HIDE DEF row, begun
  <2>4. TablesTyped' /\ Later
    BY <2>1, <2>2, <2>3, <1>d, UpdateLater
  <2> DEFINE h == InHand("running", i, row, version'[i])
  <2>5. hand' = [hand EXCEPT ![w] = h]
    BY <2>3
  <2>6. version'[i] \in Nat /\ version'[i] > 0
    BY <2>1, <2>4, <1>d DEF Later
  <2>7. hand'[w] = h
    BY <2>5 DEF HandsTyped
  <2>8. HandTyped(hand[w])'
    BY <2>1, <2>2, <2>6, <2>7, <1>d DEF HandTyped, Rowed, InHand
  <2>9. HandsTyped'
    <3> HIDE DEF h
    <3> QED
      BY <2>4, <2>5, <2>8, HandMoves
  <2> QED
    BY <1>2, <2>4, <2>9 DEF BeginRun, CaptureTyped, NotesTyped
<1>3. ASSUME NEW outcome, FinishRun(w, outcome)
      PROVE  TypeInv'
  <2> DEFINE run == [hand[w].row EXCEPT !.status = outcome]
             res == [error |-> outcome = "failed", artifact |-> BuildResult(run, i, capture)]
             ended == [status |-> outcome, finished |-> 0, result |-> res]
             row == Changed(run, ended)
  <2>1. Rowed(hand[w]) /\ i \in RunIds /\ outcome \in RunStatuses
    BY <1>3, <1>b DEF FinishRun, HandTyped, Rowed, RunStatuses
  <2>2. run \in RowsOf(i)
    BY <2>1, <1>d, RunRows
  <2>3. Update(i, row, ended, hand[w].seen)
        /\ hand' = [hand EXCEPT ![w] = InHand("ended", i, row, version'[i])]
    BY <1>3 DEF FinishRun
  <2>4. res \in Results /\ res \in [error : BOOLEAN, artifact : Artifacts]
    BY <2>1, <2>2, BuiltResult
  <2>5. row \in RowsOf(i) /\ Changed(wanted[i], ended) \in RowsOf(i)
        /\ row.result = res
    <3> HIDE DEF run, res
    <3>1. row \in RowsOf(i) /\ Changed(wanted[i], ended) \in RowsOf(i)
      BY <2>1, <2>2, <2>4, <1>d, RunRows
    <3>2. row = RunEnded(run, outcome, 0, res)
      BY <2>1, <2>2, ChangedEnded DEF RowIds
    <3> QED
      BY <2>2, <3>1, <3>2 DEF RunEnded, RowsOf
  <2> HIDE DEF row, ended, run, res
  <2>6. TablesTyped' /\ Later
    BY <2>1, <2>3, <2>5, <1>d, UpdateLater
  <2> DEFINE h == InHand("ended", i, row, version'[i])
  <2>7. hand' = [hand EXCEPT ![w] = h]
    BY <2>3
  <2>8. version'[i] \in Nat /\ version'[i] > 0
    BY <2>1, <2>6, <1>d DEF Later
  <2>9. hand'[w] = h
    BY <2>7 DEF HandsTyped
  <2>10. HandTyped(hand[w])'
    BY <2>1, <2>4, <2>5, <2>8, <2>9, <1>d DEF HandTyped, Rowed, InHand
  <2>11. HandsTyped'
    <3> HIDE DEF h
    <3> QED
      BY <2>6, <2>7, <2>10, HandMoves
  <2> QED
    BY <1>3, <2>6, <2>11 DEF FinishRun, CaptureTyped, NotesTyped
<1>4. CASE SaveResult(w)
  <2> DEFINE run == hand[w].row
             res == [run.result EXCEPT !.artifact = BuildResult(run, i, capture)]
             left == [result |-> res]
  <2>1. Rowed(hand[w]) /\ i \in RunIds /\ run.result \in [error : BOOLEAN, artifact : Artifacts]
    BY <1>4, <1>b DEF SaveResult, HandTyped, Rowed
  <2>2. res \in Results
    BY <2>1, <1>d, BuiltResult
  <2>3. /\ Update(i, Changed(run, left), left, hand[w].seen)
        /\ hand' = [hand EXCEPT ![w] = Idle]
    BY <1>4 DEF SaveResult
  <2> HIDE DEF res
  <2>4. Changed(run, left) \in RowsOf(i) /\ Changed(wanted[i], left) \in RowsOf(i)
    BY <2>1, <2>2, <1>d, RunRows
  <2> HIDE DEF left
  <2>5. TablesTyped' /\ Later
    BY <2>1, <2>3, <2>4, <1>d, UpdateLater
  <2> QED
    BY <1>4, <1>c, <2>5 DEF SaveResult, CaptureTyped, NotesTyped
<1>5. CASE LeaveRun(w)
  <2>1. TablesTyped' /\ Later
    BY <1>5 DEF LeaveRun, tables, TablesTyped, Later
  <2> QED
    BY <1>5, <1>c, <2>1 DEF LeaveRun, CaptureTyped, NotesTyped
<1>6. ASSUME NEW r \in RunIds, InsertRun(w, r)
      PROVE  TypeInv'
  <2>1. i \in ScenarioIds /\ NewRun(i) \in RowsOf(r) /\ r \in RowIds
    BY <1>6, <1>b, NewRows DEF InsertRun, HandTyped, RowIds
  <2>2. Insert(r, NewRun(i)) /\ Unused(r)
        /\ hand' = [hand EXCEPT ![w] = IF hand[w].pc = "create" THEN Idle
                                       ELSE InHand("begin", r, NewRun(i), 1)]
    BY <1>6 DEF InsertRun
  <2>3. TablesTyped' /\ \A j \in RowIds : version'[j] = IF j = r THEN 1 ELSE version[j]
    BY <2>1, <2>2, InsertEffect
  <2>4. Later
    BY <2>1, <2>2, <2>3 DEF Later, Unused, TablesTyped
  <2>5. CASE hand[w].pc = "create"
    BY <1>6, <1>c, <2>2, <2>3, <2>4, <2>5 DEF InsertRun, CaptureTyped, NotesTyped
  <2>6. CASE hand[w].pc # "create"
    <3> DEFINE h == InHand("begin", r, NewRun(i), 1)
    <3>1. hand' = [hand EXCEPT ![w] = h]
      BY <2>2, <2>6
    <3>2. hand'[w] = h
      BY <3>1 DEF HandsTyped
    <3>3. HandTyped(hand[w])'
      BY <2>1, <2>3, <3>2 DEF HandTyped, Rowed, InHand
    <3>4. HandsTyped'
      <4> HIDE DEF h
      <4> QED
        BY <2>3, <2>4, <3>1, <3>3, HandMoves
    <3> QED
      BY <1>6, <2>3, <2>4, <3>4 DEF InsertRun, CaptureTyped, NotesTyped
  <2> QED
    BY <2>5, <2>6
<1> QED
  BY <1>1, <1>2, <1>3, <1>4, <1>5, <1>6 DEF Proceed

LEMMA CaptureTypes ==
  ASSUME TypeInv, CaptureGains \/ CaptureSealed \/ CaptureDeleted \/ UNCHANGED caseVars
  PROVE  TypeInv'
<1>1. CaptureTyped'
  <2>1. CASE CaptureGains
    <3> DEFINE more == capture.count + 1
               held == capture.content + 1
    <3>1. more \in Nat /\ held \in Nat
      BY DEF TypeInv, CaptureTyped
    <3>2. capture' = [capture EXCEPT !.count = more, !.content = held]
      BY <2>1 DEF CaptureGains
    <3> HIDE DEF more, held
    <3> QED
      BY <3>1, <3>2 DEF TypeInv, CaptureTyped
  <2>2. CASE CaptureSealed
    BY <2>2 DEF TypeInv, CaptureTyped, CaptureSealed
  <2>3. CASE CaptureDeleted
    BY <2>3 DEF TypeInv, CaptureTyped, CaptureDeleted
  <2>4. CASE UNCHANGED caseVars
    BY <2>4 DEF TypeInv, CaptureTyped, caseVars
  <2> QED
    BY <2>1, <2>2, <2>3, <2>4
<1>2. UNCHANGED <<tables, hand, notes, requests>>
  BY DEF CaptureGains, CaptureSealed, CaptureDeleted, caseVars, tables
<1>3. TablesTyped' /\ Later
  BY <1>2 DEF TypeInv, TablesTyped, Later, tables
<1> QED
  BY <1>1, <1>2, <1>3, HandsKept DEF TypeInv, NotesTyped

LEMMA TypeStep == TypeInv /\ [CaseNext]_caseVars => TypeInv'
BY RequestTypes, ProceedTypes, CaptureTypes DEF CaseNext

LEMMA Typing == CaseSpec => []TypeInv
BY TypeInit, TypeStep, PTL DEF CaseSpec

(* Every row in the tables has a status of its own enumeration, whatever   *)
(* PATCH was asked for (the 422 of update_scenario and update_run in       *)
(* api/routes/scenarios.py), no more requests are answered than came, and  *)
(* an annotation's id was given by the file.                               *)
THEOREM CaseTypes == CaseSpec => []CaseTypeOK
<1>1. TypeInv => CaseTypeOK
  <2> SUFFICES ASSUME TypeInv
               PROVE  CaseTypeOK
    OBVIOUS
  <2>1. \A i \in DOMAIN rows : rows[i] # None => rows[i].status \in Known(i)
    BY DEF TypeInv, TablesTyped, RowsOf
  <2> QED
    BY <2>1 DEF TypeInv, HandsTyped, HandTyped, NotesTyped, CaseTypeOK, Known
<1> QED
  BY <1>1, Typing, PTL

(***************************************************************************)
(* What an artefact pins.  The artefact of a run names the run and its     *)
(* scenario because it is built from the row it is written with, and a     *)
(* PATCH of the row keeps both; its count stands for its content because a *)
(* capture only grows, until it is emptied once.                           *)
(***************************************************************************)
Names(i, row) ==
  row.result # None /\ row.result.artifact \in Artifacts =>
    /\ row.result.artifact.run = i
    /\ row.result.artifact.scenario = row.scenario
    /\ row.result.artifact.status \in {"done", "aborted", "failed"}
    /\ row.result.artifact.link.count = row.result.artifact.content

PinInv ==
  /\ capture.count = capture.content
  /\ \A r \in RunIds : rows[r] # None => Names(r, rows[r])
  /\ \A w \in Workers :
       Rowed(hand[w]) /\ hand[w].id \in RunIds => Names(hand[w].id, hand[w].row)
  /\ \A w \in Workers : hand[w].pc = "ended" =>
       hand[w].row.status \in {"done", "aborted", "failed"}

(* The artefact of the newer format a PATCH may bring is read by nobody.   *)
LEMMA NewerFormat ==
  [format |-> ResultFormat + 1] \notin Artifacts
BY DEF Artifacts, ResultFormat

LEMMA PatchNames ==
  ASSUME NEW r \in RunIds, NEW row \in RowsOf(r), Names(r, row),
         NEW change \in Changes(r),
         "status" \in DOMAIN change => change.status \in Known(r)
  PROVE  Names(r, Changed(row, change))
<1>1. CASE \E x : change = [status |-> x]
  <2> PICK x : change = [status |-> x]
    BY <1>1
  <2>1. Changed(row, change) = [row EXCEPT !.status = x]
    BY ChangedStatus DEF RowIds
  <2> QED
    BY <2>1 DEF Names, RowsOf
<1>2. CASE \/ change = [result |-> None]
           \/ change = [result |-> [error |-> TRUE, artifact |-> [format |-> ResultFormat + 1]]]
  <2> PICK x : /\ change = [result |-> x]
               /\ x = None \/ x = [error |-> TRUE, artifact |-> [format |-> ResultFormat + 1]]
    BY <1>2
  <2>1. Changed(row, change) = [row EXCEPT !.result = x]
    BY ChangedResult DEF RowIds
  <2>2. Changed(row, change).result = x
    BY <2>1 DEF RowsOf
  <2>3. x = None \/ x.artifact = [format |-> ResultFormat + 1]
    OBVIOUS
  <2> QED
    BY <2>2, <2>3, NewerFormat DEF Names
<1> QED
  BY <1>1, <1>2, CaseAssumption DEF Changes

LEMMA BuiltNames ==
  ASSUME CaptureTyped, capture.count = capture.content,
         NEW r \in RunIds, NEW run \in RowsOf(r), run.status \in {"done", "aborted", "failed"},
         NEW row \in RowsOf(r), row.scenario = run.scenario,
         row.result.artifact = BuildResult(run, r, capture)
  PROVE  Names(r, row)
BY DEF Names, BuildResult, SourceLink

LEMMA PinInit == CaseInit => PinInv
BY DEF CaseInit, PinInv, Idle, InHand, Rowed, RowIds

(* The invariant is one about each row in a table or in hand, so a step    *)
(* owes it for the row it writes and for the one it takes in hand.         *)
HandNames(h) ==
  /\ Rowed(h) /\ h.id \in RunIds => Names(h.id, h.row)
  /\ h.pc = "ended" => h.row.status \in {"done", "aborted", "failed"}

WritesNamed(i, row) ==
  /\ i \in RunIds => Names(i, row)
  /\ \A j \in RowIds : rows'[j] = rows[j] \/ (j = i /\ rows'[j] = row)

TakesNamed(w, h) ==
  /\ w \in Workers /\ HandNames(h)
  /\ UNCHANGED hand \/ hand' = [hand EXCEPT ![w] = h]

LEMMA PinKept ==
  ASSUME TypeInv, PinInv, UNCHANGED capture,
         NEW i, NEW row, WritesNamed(i, row), NEW w, NEW h, TakesNamed(w, h)
  PROVE  PinInv'
<1>1. \A v \in Workers : hand'[v] = hand[v] \/ hand'[v] = h
  BY DEF TypeInv, HandsTyped, TakesNamed
<1>2. \A r \in RunIds : rows'[r] # None => Names(r, rows'[r])
  BY DEF PinInv, RowIds, WritesNamed
<1>3. \A v \in Workers : HandNames(hand'[v])
  BY <1>1 DEF PinInv, HandNames, TakesNamed
<1> QED
  BY <1>2, <1>3 DEF PinInv, HandNames, Rowed

LEMMA IdleNames == HandNames(Idle)
BY DEF HandNames, Idle, InHand, Rowed

LEMMA PinRequest ==
  ASSUME TypeInv, PinInv, NEW w \in Workers, Request(w)
  PROVE  PinInv'
<1>1. ASSUME NEW i \in ScenarioIds, NEW sel \in Selections, CreateScenario(w, i, sel)
      PROVE  PinInv'
  <2> DEFINE row == NewScenario(ToScenarioSelection(sel))
  <2>1. /\ UNCHANGED <<capture, hand>> /\ i \notin RunIds
        /\ rows' = [rows EXCEPT ![i] = row]
    BY <1>1, CaseAssumption DEF CreateScenario, Insert
  <2> HIDE DEF row
  <2>w. WritesNamed(i, row)
    BY <2>1 DEF WritesNamed, TypeInv, TablesTyped
  <2>t. TakesNamed(w, Idle)
    BY <2>1, IdleNames DEF TakesNamed
  <2> QED
    BY <2>1, <2>w, <2>t, PinKept
<1>2. ASSUME NEW i \in RowIds, NEW c \in Changes(i), ReadForPatch(w, i, c)
      PROVE  PinInv'
  <2>1. rows[i] # None /\ rows[i] \in RowsOf(i)
    BY <1>2 DEF ReadForPatch, TypeInv, TablesTyped
  <2> DEFINE row == Changed(Read(rows[i]), c)
             h == [pc |-> "patch", id |-> i, row |-> row, seen |-> version[i], change |-> c]
  <2>2. ASSUME i \in RunIds
        PROVE  Names(i, row)
    <3>1. Names(i, rows[i])
      BY <2>1, <2>2 DEF PinInv
    <3>2. Names(i, Read(rows[i])) /\ Read(rows[i]) \in RowsOf(i)
      BY <2>1, <3>1, ReadRow DEF Names
    <3> QED
      BY <1>2, <2>2, <3>2, PatchNames DEF ReadForPatch
  <2>3. UNCHANGED <<capture, rows>> /\ hand' = [hand EXCEPT ![w] = h]
    BY <1>2 DEF ReadForPatch, tables
  <2> HIDE DEF row
  <2>4. HandNames(h)
    BY <2>2 DEF HandNames
  <2> HIDE DEF h
  <2>w. WritesNamed(i, row)
    BY <2>2, <2>3 DEF WritesNamed
  <2>t. TakesNamed(w, h)
    BY <2>3, <2>4 DEF TakesNamed
  <2> QED
    BY <2>3, <2>w, <2>t, PinKept
<1>3. ASSUME NEW i, DeleteScenario(w, i) \/ DeleteRun(w, i)
      PROVE  PinInv'
  <2>1. /\ UNCHANGED <<capture, hand>>
        /\ \A j \in RowIds : rows'[j] = rows[j] \/ rows'[j] = None
    BY <1>3 DEF DeleteScenario, DeleteRun, TypeInv, TablesTyped
  <2>2. \A r \in RunIds : rows'[r] # None => Names(r, rows'[r])
    BY <2>1 DEF PinInv, RowIds
  <2> QED
    BY <2>1, <2>2 DEF PinInv, Rowed
<1>4. ASSUME NEW i, NEW next \in {"create", "replay"}, ReadForRun(w, i, next)
      PROVE  PinInv'
  <2> DEFINE h == InHand(next, i, None, 0)
  <2>1. UNCHANGED <<capture, rows>> /\ hand' = [hand EXCEPT ![w] = h]
    BY <1>4 DEF ReadForRun, tables
  <2>2. HandNames(h)
    BY DEF HandNames, InHand, Rowed
  <2> HIDE DEF h
  <2>3. \A v \in Workers : hand'[v] = hand[v] \/ hand'[v] = h
    BY <2>1 DEF TypeInv, HandsTyped
  <2> QED
    BY <2>1, <2>2, <2>3 DEF PinInv, HandNames, Rowed
<1>5. ASSUME UNCHANGED <<capture, rows, hand>>
      PROVE  PinInv'
  BY <1>5 DEF PinInv, Rowed
<1> QED
  BY <1>1, <1>2, <1>3, <1>4, <1>5
     DEF Request, RowIds, CreateScenario, AddAnnotation, DeleteAnnotation, tables

LEMMA PinProceed ==
  ASSUME TypeInv, PinInv, NEW w \in Workers, Proceed(w)
  PROVE  PinInv'
<1> DEFINE i == hand[w].id
<1>a. HandTyped(hand[w]) /\ HandNames(hand[w]) /\ TablesTyped /\ CaptureTyped
  BY DEF TypeInv, HandsTyped, PinInv, HandNames
<1>b. ASSUME NEW row, NEW change, NEW seen, i \in RowIds, Update(i, row, change, seen)
      PROVE  \A j \in RowIds : rows'[j] = rows[j] \/ (j = i /\ rows'[j] = row)
  BY <1>a, <1>b DEF Update, tables, TablesTyped
<1>1. CASE WritePatch(w)
  <2>1. Rowed(hand[w]) /\ i \in RowIds
    BY <1>1, <1>a DEF WritePatch, HandTyped, Rowed
  <2>2. \A j \in RowIds : rows'[j] = rows[j] \/ (j = i /\ rows'[j] = hand[w].row)
    BY <1>1, <1>b, <2>1 DEF WritePatch
  <2>3. UNCHANGED capture /\ hand' = [hand EXCEPT ![w] = Idle]
    BY <1>1 DEF WritePatch
  <2>4. i \in RunIds => Names(i, hand[w].row)
    BY <2>1, <1>a DEF HandNames
  <2>w. WritesNamed(i, hand[w].row)
    BY <2>2, <2>4 DEF WritesNamed
  <2>t. TakesNamed(w, Idle)
    BY <2>3, IdleNames DEF TakesNamed
  <2> QED
    BY <2>3, <2>w, <2>t, PinKept
<1>2. CASE BeginRun(w)
  <2> DEFINE begun == [status |-> "running", started |-> 0]
             row == Changed(hand[w].row, begun)
             h == InHand("running", i, row, version'[i])
  <2>1. Rowed(hand[w]) /\ i \in RunIds /\ i \in RowIds /\ hand[w].row \in RowsOf(i)
    BY <1>2, <1>a DEF BeginRun, HandTyped, Rowed
  <2>2. Names(i, hand[w].row)
    BY <2>1, <1>a DEF HandNames
  <2>3. Names(i, row)
    <3>1. row = Started(hand[w].row, "running", 0)
      BY <2>1, ChangedBegun
    <3>2. row.result = hand[w].row.result /\ row.scenario = hand[w].row.scenario
      BY <2>1, <3>1 DEF Started, RowsOf
    <3> QED
      BY <2>2, <3>2 DEF Names
  <2>4. UNCHANGED capture /\ Update(i, row, begun, hand[w].seen)
        /\ hand' = [hand EXCEPT ![w] = h]
    BY <1>2 DEF BeginRun
  <2> HIDE DEF row, begun
  <2>5. \A j \in RowIds : rows'[j] = rows[j] \/ (j = i /\ rows'[j] = row)
    BY <1>b, <2>1, <2>4
  <2>6. HandNames(h)
    BY <2>3 DEF HandNames, InHand
  <2> HIDE DEF h
  <2>w. WritesNamed(i, row)
    BY <2>3, <2>5 DEF WritesNamed
  <2>t. TakesNamed(w, h)
    BY <2>4, <2>6 DEF TakesNamed
  <2> QED
    BY <2>4, <2>w, <2>t, PinKept
<1>3. ASSUME NEW outcome, FinishRun(w, outcome)
      PROVE  PinInv'
  <2> DEFINE run == [hand[w].row EXCEPT !.status = outcome]
             res == [error |-> outcome = "failed", artifact |-> BuildResult(run, i, capture)]
             ended == [status |-> outcome, finished |-> 0, result |-> res]
             row == Changed(run, ended)
             h == InHand("ended", i, row, version'[i])
  <2>1. /\ Rowed(hand[w]) /\ i \in RunIds /\ i \in RowIds /\ hand[w].row \in RowsOf(i)
        /\ outcome \in RunStatuses /\ outcome \in {"done", "aborted", "failed"}
    BY <1>3, <1>a DEF FinishRun, HandTyped, Rowed, RunStatuses
  <2>2. run \in RowsOf(i) /\ run.status = outcome /\ run.scenario = hand[w].row.scenario
    <3>1. run \in RowsOf(i)
      BY <2>1, RunRows
    <3> QED
      BY <2>1, <3>1 DEF RowsOf
  <2>3. UNCHANGED capture /\ Update(i, row, ended, hand[w].seen)
        /\ hand' = [hand EXCEPT ![w] = h]
    BY <1>3 DEF FinishRun
  <2>4. res \in Results /\ res.artifact = BuildResult(run, i, capture)
    BY <2>1, <2>2, <1>a, BuiltResult
  <2>5. /\ row \in RowsOf(i) /\ row.scenario = run.scenario
        /\ row.result = res /\ row.status = outcome
    <3> HIDE DEF run, res
    <3>1. row = RunEnded(run, outcome, 0, res)
      BY <2>2, <2>1, ChangedEnded
    <3>2. row \in RowsOf(i)
      BY <2>1, <2>2, <2>4, RunRows
    <3> QED
      BY <2>2, <3>1, <3>2 DEF RunEnded, RowsOf
  <2> HIDE DEF run, res, ended, row
  <2>6. Names(i, row)
    BY <2>1, <2>2, <2>4, <2>5, <1>a, BuiltNames DEF PinInv
  <2>7. \A j \in RowIds : rows'[j] = rows[j] \/ (j = i /\ rows'[j] = row)
    BY <1>b, <2>1, <2>3
  <2>8. HandNames(h)
    BY <2>1, <2>5, <2>6 DEF HandNames, InHand
  <2> HIDE DEF h
  <2>w. WritesNamed(i, row)
    BY <2>6, <2>7 DEF WritesNamed
  <2>t. TakesNamed(w, h)
    BY <2>3, <2>8 DEF TakesNamed
  <2> QED
    BY <2>3, <2>w, <2>t, PinKept
<1>4. CASE SaveResult(w)
  <2> DEFINE run == hand[w].row
             res == [run.result EXCEPT !.artifact = BuildResult(run, i, capture)]
             left == [result |-> res]
             row == Changed(run, left)
  <2>1. /\ Rowed(hand[w]) /\ i \in RunIds /\ i \in RowIds /\ run \in RowsOf(i)
        /\ run.result \in [error : BOOLEAN, artifact : Artifacts]
        /\ run.status \in {"done", "aborted", "failed"}
    BY <1>4, <1>a DEF SaveResult, HandTyped, HandNames, Rowed
  <2>2. res \in Results /\ res.artifact = BuildResult(run, i, capture)
    BY <2>1, <1>a, BuiltResult
  <2>3. /\ Update(i, row, left, hand[w].seen) /\ UNCHANGED capture
        /\ hand' = [hand EXCEPT ![w] = Idle]
    BY <1>4 DEF SaveResult
  <2>4. row \in RowsOf(i) /\ row.scenario = run.scenario /\ row.result = res
    <3> HIDE DEF res, run
    <3>1. row = [run EXCEPT !.result = res] /\ row \in RowsOf(i)
      BY <2>1, <2>2, ChangedResult, RunRows
    <3> QED
      BY <2>1, <3>1 DEF RowsOf
  <2> HIDE DEF run, res, left, row
  <2>5. Names(i, row)
    BY <2>1, <2>2, <2>4, <1>a, BuiltNames DEF PinInv
  <2>6. \A j \in RowIds : rows'[j] = rows[j] \/ (j = i /\ rows'[j] = row)
    BY <1>b, <2>1, <2>3
  <2>w. WritesNamed(i, row)
    BY <2>5, <2>6 DEF WritesNamed
  <2>t. TakesNamed(w, Idle)
    BY <2>3, IdleNames DEF TakesNamed
  <2> QED
    BY <2>3, <2>w, <2>t, PinKept
<1>5. CASE LeaveRun(w)
  <2>1. UNCHANGED <<capture, rows>> /\ hand' = [hand EXCEPT ![w] = Idle]
    BY <1>5 DEF LeaveRun, tables
  <2>2. \A v \in Workers : hand'[v] = hand[v] \/ hand'[v] = Idle
    BY <2>1 DEF TypeInv, HandsTyped
  <2> QED
    BY <2>1, <2>2, IdleNames DEF PinInv, HandNames, Rowed
<1>6. ASSUME NEW r \in RunIds, InsertRun(w, r)
      PROVE  PinInv'
  <2> DEFINE row == NewRun(i)
             h == IF hand[w].pc = "create" THEN Idle ELSE InHand("begin", r, row, 1)
  <2>1. /\ UNCHANGED capture /\ hand' = [hand EXCEPT ![w] = h]
        /\ rows' = [rows EXCEPT ![r] = row]
    BY <1>6 DEF InsertRun, Insert
  <2>2. Names(r, row)
    BY DEF Names, NewRun
  <2> HIDE DEF row
  <2>3. HandNames(h)
    BY <2>2, IdleNames DEF HandNames, InHand
  <2> HIDE DEF h
  <2>4. \A j \in RowIds : rows'[j] = rows[j] \/ (j = r /\ rows'[j] = row)
    BY <2>1, <1>a DEF TablesTyped
  <2>w. WritesNamed(r, row)
    BY <2>2, <2>4 DEF WritesNamed
  <2>t. TakesNamed(w, h)
    BY <2>1, <2>3 DEF TakesNamed
  <2> QED
    BY <2>1, <2>w, <2>t, PinKept
<1> QED
  BY <1>1, <1>2, <1>3, <1>4, <1>5, <1>6 DEF Proceed

LEMMA PinStep == TypeInv /\ PinInv /\ [CaseNext]_caseVars => PinInv'
<1> SUFFICES ASSUME TypeInv, PinInv, [CaseNext]_caseVars
             PROVE  PinInv'
  OBVIOUS
<1>1. ASSUME CaptureGains \/ CaptureSealed \/ CaptureDeleted \/ UNCHANGED caseVars
      PROVE  PinInv'
  <2>1. UNCHANGED <<rows, hand>>
    BY <1>1 DEF CaptureGains, CaptureSealed, CaptureDeleted, caseVars, tables
  <2>2. capture'.count = capture'.content
    <3>1. CASE CaptureGains
      BY <3>1 DEF CaptureGains, PinInv, TypeInv, CaptureTyped
    <3>2. CASE CaptureSealed
      BY <3>2 DEF CaptureSealed, PinInv, TypeInv, CaptureTyped
    <3>3. CASE CaptureDeleted
      BY <3>3 DEF CaptureDeleted, PinInv, TypeInv, CaptureTyped
    <3>4. CASE UNCHANGED caseVars
      BY <3>4 DEF caseVars, PinInv
    <3> QED
      BY <1>1, <3>1, <3>2, <3>3, <3>4
  <2> QED
    BY <2>1, <2>2 DEF PinInv, Rowed
<1> QED
  BY <1>1, PinRequest, PinProceed DEF CaseNext

LEMMA PinInvariant == CaseSpec => [](TypeInv /\ PinInv)
BY Typing, PinInit, PinStep, PTL DEF CaseSpec

(* The artefact of a run is refused for a capture that holds anything else *)
(* than it was taken from and accepted for the same, and it tells its own  *)
(* run, scenario and outcome, for any number of replays and edits.         *)
THEOREM ArtefactIsPinned == CaseSpec => []ResultPinned
<1>1. TypeInv /\ PinInv => ResultPinned
  <2> SUFFICES ASSUME TypeInv, PinInv, NEW r \in RunIds, rows[r] # None,
                      Recovered(rows[r]) # None
               PROVE  LET a == Recovered(rows[r]) IN
                 /\ MatchesSource(a.link, capture) /\ a.link.count # 0 => a.content = capture.content
                 /\ a.content = capture.content /\ a.link.hash \in {None, capture.hash}
                      => MatchesSource(a.link, capture)
                 /\ ~MatchesSource(a.link, [capture EXCEPT !.session = "other"])
                 /\ a.run = r /\ a.scenario = rows[r].scenario
                 /\ a.status \in {"done", "aborted", "failed"}
    BY DEF ResultPinned
  <2> DEFINE a == rows[r].result.artifact
  <2>1. rows[r] \in RowsOf(r) /\ Names(r, rows[r])
    BY DEF TypeInv, TablesTyped, PinInv, RowIds
  <2>2. rows[r].result # None /\ Recovered(rows[r]) = a /\ a.format <= ResultFormat
    BY <2>1 DEF Recovered, RowsOf, Results, Artifacts, ResultFormat
  <2>3. a \in Artifacts
    BY <2>1, <2>2 DEF RowsOf, Results, ResultFormat
  <2>4. /\ a.run = r /\ a.scenario = rows[r].scenario
        /\ a.status \in {"done", "aborted", "failed"} /\ a.link.count = a.content
    BY <2>1, <2>2, <2>3 DEF Names
  <2>5. /\ a.link.session = "this" /\ a.link.count \in Nat
        /\ capture.session = "this" /\ capture.count = capture.content
        /\ [capture EXCEPT !.session = "other"].session = "other"
    BY <2>3 DEF Artifacts, TypeInv, CaptureTyped, PinInv
  <2> HIDE DEF a
  <2> QED
    BY <2>2, <2>4, <2>5 DEF MatchesSource
<1> QED
  BY <1>1, PinInvariant, PTL

(***************************************************************************)
(* Requests that do not overlap.  A row is written whole from a copy; the  *)
(* copy is current as long as the row has the version it was read at, and  *)
(* every write by another request raises the version, so what is written   *)
(* from a current copy is what the requests would have left one after      *)
(* another.                                                                *)
(***************************************************************************)
Agrees(a, b) == a.status = b.status /\ a.result = b.result
OneUnit(row) == row.finished # None => row.started = row.finished

SerialTables ==
  /\ \A i \in RowIds : rows[i] # None /\ i \notin raced => Agrees(rows[i], wanted[i])
  /\ \A i \in RowIds : rows[i] # None => OneUnit(rows[i])
  /\ \A r \in RunIds \ orphans : rows[r] # None => rows[rows[r].scenario] # None

Current(h) == rows[h.id] # None /\ h.seen = version[h.id] /\ h.id \notin raced

HandSerial(h) ==
  /\ h.pc = "patch" /\ Current(h) => Agrees(h.row, Changed(wanted[h.id], h.change))
  /\ h.pc \in {"begin", "running", "ended"} /\ Current(h) => Agrees(h.row, wanted[h.id])
  /\ Rowed(h) /\ rows[h.id] # None => h.row.scenario = rows[h.id].scenario
  /\ Rowed(h) => OneUnit(h.row)
  /\ h.pc \in {"begin", "running"} => h.row.finished = None
  /\ h.pc = "running" => h.row.started = 0

SerialInv == SerialTables /\ \A w \in Workers : HandSerial(hand[w])

LEMMA SerialInit == CaseInit => SerialInv
BY DEF CaseInit, SerialInv, SerialTables, HandSerial, Idle, InHand, Rowed, RowIds

(* What a table step may do to the copies others have in hand: a row is    *)
(* left or deleted, or written at a higher version.                        *)
TableMoves ==
  /\ raced \subseteq raced'
  /\ \A j \in RowIds :
       \/ /\ rows'[j] = rows[j] \/ rows'[j] = None
          /\ version'[j] = version[j] /\ wanted'[j] = wanted[j]
       \/ /\ version'[j] \in Nat /\ version'[j] > version[j]
          /\ version[j] = 0 \/ (rows[j] # None /\ rows'[j].scenario = rows[j].scenario)

LEMMA CopiesKept ==
  ASSUME TypeInv, SerialInv, TableMoves, NEW w \in Workers, hand'[w] = hand[w]
  PROVE  HandSerial(hand[w])'
<1> DEFINE h == hand[w]
<1>1. HandSerial(h) /\ HandTyped(h) /\ TablesTyped
  BY DEF SerialInv, TypeInv, HandsTyped
<1>2. CASE ~Rowed(h)
  BY <1>2 DEF HandSerial, Rowed
<1>3. CASE Rowed(h)
  <2>1. h.id \in RowIds /\ h.seen \in Nat /\ h.seen <= version[h.id]
        /\ version[h.id] \in Nat /\ version[h.id] > 0
    BY <1>1, <1>3 DEF HandTyped, TablesTyped
  <2>2. CASE /\ rows'[h.id] = rows[h.id] \/ rows'[h.id] = None
             /\ version'[h.id] = version[h.id] /\ wanted'[h.id] = wanted[h.id]
    BY <1>1, <1>3, <2>1, <2>2 DEF HandSerial, Current, TableMoves, Rowed
  <2>3. CASE /\ version'[h.id] \in Nat /\ version'[h.id] > version[h.id]
             /\ rows[h.id] # None /\ rows'[h.id].scenario = rows[h.id].scenario
    <3>1. h.seen # version'[h.id]
      BY <2>1, <2>3
    <3> QED
      BY <1>1, <1>3, <2>1, <2>3, <3>1 DEF HandSerial, Current, Rowed
  <2> QED
    BY <2>1, <2>2, <2>3 DEF TableMoves
<1> QED
  BY <1>2, <1>3

(* The step of one worker, who keeps a copy fit for the row or none.       *)
LEMMA SerialKept ==
  ASSUME TypeInv, SerialInv, TableMoves, SerialTables', NEW w \in Workers,
         \A v \in Workers : v # w => hand'[v] = hand[v],
         HandSerial(hand[w])'
  PROVE  SerialInv'
BY CopiesKept DEF SerialInv

LEMMA SerialUpdate ==
  ASSUME TypeInv, SerialInv, NEW i \in RowIds, NEW row \in RowsOf(i), NEW change, NEW seen,
         Update(i, row, change, seen), UNCHANGED orphans,
         version[i] > 0 => Changed(wanted[i], change) \in RowsOf(i),
         rows[i] # None => row.scenario = rows[i].scenario,
         OneUnit(row),
         rows[i] # None /\ seen = version[i] /\ i \notin raced =>
           Agrees(row, Changed(wanted[i], change))
  PROVE  SerialTables' /\ TableMoves
<1>1. /\ \A j \in RowIds :
           /\ j = i /\ rows[i] # None =>
                /\ rows'[j] = row /\ version'[j] = version[i] + 1
                /\ wanted'[j] = Changed(wanted[i], change)
           /\ ~(j = i /\ rows[i] # None) =>
                /\ rows'[j] = rows[j] /\ version'[j] = version[j]
                /\ wanted'[j] = wanted[j]
      /\ raced' = IF rows[i] = None \/ seen = version[i] THEN raced ELSE raced \cup {i}
  BY UpdateEffect DEF TypeInv
<1>2. \A j \in RowIds : version[j] \in Nat
  BY DEF TypeInv, TablesTyped
<1>3. TableMoves
  BY <1>1, <1>2 DEF TableMoves
<1>4. row # None
  BY NullAssumption DEF RowIds
<1>5. \A j \in RowIds : rows'[j] # None /\ j \notin raced' => Agrees(rows'[j], wanted'[j])
  BY <1>1 DEF SerialInv, SerialTables
<1>6. \A j \in RowIds : rows'[j] # None => OneUnit(rows'[j])
  BY <1>1 DEF SerialInv, SerialTables
<1>7. ASSUME NEW r \in RunIds \ orphans, rows'[r] # None
      PROVE  rows'[rows'[r].scenario] # None
  <2>1. r \in RowIds /\ rows[r] # None /\ rows'[r].scenario = rows[r].scenario
    BY <1>1, <1>7 DEF RowIds
  <2>2. rows[r].scenario \in RowIds /\ rows[rows[r].scenario] # None
    BY <2>1, <1>7 DEF SerialInv, SerialTables, TypeInv, TablesTyped, RowsOf, RowIds
  <2> QED
    BY <1>1, <1>4, <2>1, <2>2
<1> QED
  BY <1>3, <1>5, <1>6, <1>7 DEF SerialTables

LEMMA SerialInsert ==
  ASSUME TypeInv, SerialInv, NEW i \in RowIds, NEW row \in RowsOf(i),
         Insert(i, row), Unused(i), OneUnit(row), orphans \subseteq orphans',
         i \in RunIds /\ i \notin orphans' => rows[row.scenario] # None
  PROVE  SerialTables' /\ TableMoves
<1>1. /\ \A j \in RowIds : /\ rows'[j] = IF j = i THEN row ELSE rows[j]
                           /\ wanted'[j] = IF j = i THEN row ELSE wanted[j]
                           /\ version'[j] = IF j = i THEN 1 ELSE version[j]
      /\ raced' = raced
  BY InsertEffect DEF TypeInv
<1>2. version[i] = 0 /\ rows[i] = None
  BY DEF Unused
<1>3. TableMoves
  BY <1>1, <1>2 DEF TableMoves
<1>4. row # None
  BY NullAssumption DEF RowIds
<1>5. \A j \in RowIds : rows'[j] # None /\ j \notin raced' => Agrees(rows'[j], wanted'[j])
  BY <1>1 DEF SerialInv, SerialTables, Agrees
<1>6. \A j \in RowIds : rows'[j] # None => OneUnit(rows'[j])
  BY <1>1 DEF SerialInv, SerialTables
<1>7. ASSUME NEW r \in RunIds \ orphans', rows'[r] # None
      PROVE  rows'[rows'[r].scenario] # None
  <2>1. CASE r = i
    <3>1. rows'[r] = row /\ row.scenario \in RowIds /\ rows[row.scenario] # None
      BY <1>1, <1>7, <2>1 DEF RowsOf, RowIds
    <3> QED
      BY <1>1, <1>2, <3>1
  <2>2. CASE r # i
    <3>1. rows'[r] = rows[r] /\ rows[r] \in RowsOf(r) /\ r \notin orphans
      BY <1>1, <1>7, <2>2 DEF TypeInv, TablesTyped, RowIds
    <3>2. rows[r].scenario \in RowIds /\ rows[rows[r].scenario] # None
      BY <1>7, <3>1 DEF SerialInv, SerialTables, RowsOf, RowIds
    <3> QED
      BY <1>1, <1>2, <3>1, <3>2
  <2> QED
    BY <2>1, <2>2
<1> QED
  BY <1>3, <1>5, <1>6, <1>7 DEF SerialTables

(* Copies that agree still do after the same change.                       *)
LEMMA ChangedAgrees ==
  ASSUME NEW i \in RowIds, NEW a \in RowsOf(i), NEW b \in RowsOf(i), Agrees(a, b),
         NEW change \in Changes(i)
  PROVE  /\ Agrees(Changed(a, change), Changed(b, change))
         /\ Changed(a, change).scenario = a.scenario
         /\ Changed(a, change).started = a.started
         /\ Changed(a, change).finished = a.finished
<1>1. CASE \E x : change = [status |-> x]
  <2> PICK x : change = [status |-> x]
    BY <1>1
  <2>1. /\ Changed(a, change) = [a EXCEPT !.status = x]
        /\ Changed(b, change) = [b EXCEPT !.status = x]
    BY ChangedStatus
  <2> QED
    BY <2>1 DEF Agrees, RowsOf
<1>2. CASE \E x \in Results : change = [result |-> x]
  <2> PICK x \in Results : change = [result |-> x]
    BY <1>2
  <2>1. /\ Changed(a, change) = [a EXCEPT !.result = x]
        /\ Changed(b, change) = [b EXCEPT !.result = x]
    BY ChangedResult
  <2> QED
    BY <2>1 DEF Agrees, RowsOf
<1> QED
  BY <1>1, <1>2, ChangesAre

LEMMA SerialRequest ==
  ASSUME TypeInv, SerialInv, NEW w \in Workers, Request(w)
  PROVE  SerialInv'
<1>1. ASSUME NEW i \in ScenarioIds, NEW sel \in Selections, CreateScenario(w, i, sel)
      PROVE  SerialInv'
  <2> DEFINE row == NewScenario(ToScenarioSelection(sel))
  <2>1. row \in RowsOf(i) /\ i \in RowIds /\ i \notin RunIds /\ OneUnit(row)
    BY NewRows, CaseAssumption DEF RowIds, OneUnit, NewScenario
  <2>2. Insert(i, row) /\ Unused(i) /\ UNCHANGED <<orphans, hand>>
    BY <1>1 DEF CreateScenario
  <2> HIDE DEF row
  <2>3. SerialTables' /\ TableMoves
    BY <2>1, <2>2, SerialInsert
  <2> QED
    BY <2>2, <2>3, CopiesKept DEF SerialInv
<1>2. ASSUME NEW i \in RowIds, NEW c \in Changes(i), ReadForPatch(w, i, c)
      PROVE  SerialInv'
  <2> DEFINE row == Changed(Read(rows[i]), c)
             h == [pc |-> "patch", id |-> i, row |-> row, seen |-> version[i], change |-> c]
  <2>1. rows[i] # None /\ rows[i] \in RowsOf(i) /\ wanted[i] \in RowsOf(i)
    BY <1>2 DEF ReadForPatch, TypeInv, TablesTyped
  <2>2. /\ UNCHANGED <<rows, version, wanted, raced, orphans>>
        /\ hand' = [hand EXCEPT ![w] = h]
    BY <1>2 DEF ReadForPatch, tables
  <2>3. Read(rows[i]) \in RowsOf(i) /\ Agrees(Read(rows[i]), Read(rows[i]))
    BY <2>1, ReadRow DEF Agrees
  <2>4. /\ row.scenario = rows[i].scenario
        /\ row.started = Divided(rows[i].started)
        /\ row.finished = Divided(rows[i].finished)
    BY <2>1, <2>3, ReadRow, ChangedAgrees
  <2>5. OneUnit(row)
    BY <2>1, <2>4 DEF OneUnit, Divided, SerialInv, SerialTables
  <2>6. i \notin raced => Agrees(row, Changed(wanted[i], c))
    <3>1. i \notin raced => Agrees(Read(rows[i]), wanted[i])
      BY <2>1, ReadRow DEF Agrees, SerialInv, SerialTables
    <3> QED
      BY <2>1, <2>3, <3>1, ChangedAgrees
  <2> HIDE DEF row
  <2>7. SerialTables' /\ TableMoves
    BY <2>2 DEF SerialInv, SerialTables, TableMoves
  <2>8. hand'[w] = h /\ \A v \in Workers : v # w => hand'[v] = hand[v]
    BY <2>2 DEF TypeInv, HandsTyped
  <2>9. HandSerial(hand[w])'
    BY <2>2, <2>4, <2>5, <2>6, <2>8 DEF HandSerial, Current
  <2> QED
    BY <2>7, <2>8, <2>9, SerialKept
<1>3. ASSUME NEW i, DeleteScenario(w, i) \/ DeleteRun(w, i)
      PROVE  SerialInv'
  <2>1. /\ UNCHANGED <<version, wanted, raced, orphans, hand>>
        /\ \A j \in RowIds : rows'[j] = rows[j] \/ rows'[j] = None
    BY <1>3 DEF DeleteScenario, DeleteRun, TypeInv, TablesTyped
  <2>2. TableMoves
    BY <2>1 DEF TableMoves
  <2>3. ASSUME NEW r \in RunIds \ orphans, rows'[r] # None
        PROVE  rows'[rows'[r].scenario] # None
    <3>1. r \in RowIds /\ rows'[r] = rows[r] /\ rows[r] # None
      BY <2>1, <2>3 DEF RowIds
    <3>2. rows[r].scenario \in ScenarioIds /\ rows[r].scenario \in RowIds
          /\ rows[rows[r].scenario] # None /\ rows[r].scenario \notin RunIds
      BY <2>3, <3>1, CaseAssumption DEF SerialInv, SerialTables, TypeInv, TablesTyped, RowsOf, RowIds
    <3>3. CASE DeleteScenario(w, i)
      <4>1. rows' = [j \in DOMAIN rows |-> IF j \in GoesWith(i) THEN None ELSE rows[j]]
        BY <3>3 DEF DeleteScenario
      <4>2. r \notin GoesWith(i)
        BY <3>1, <2>3, <4>1 DEF TypeInv, TablesTyped
      <4>3. rows[r].scenario \notin GoesWith(i)
        BY <2>3, <3>1, <3>2, <4>2 DEF GoesWith
      <4> QED
        BY <3>1, <3>2, <4>1, <4>3 DEF TypeInv, TablesTyped
    <3>4. CASE DeleteRun(w, i)
      BY <3>1, <3>2, <3>4 DEF DeleteRun, TypeInv, TablesTyped
    <3> QED
      BY <1>3, <3>3, <3>4
  <2>4. SerialTables'
    BY <2>1, <2>3 DEF SerialInv, SerialTables
  <2> QED
    BY <2>1, <2>2, <2>4, CopiesKept DEF SerialInv
<1>4. ASSUME NEW i, NEW next \in {"create", "replay"}, ReadForRun(w, i, next)
      PROVE  SerialInv'
  <2>1. /\ UNCHANGED <<rows, version, wanted, raced, orphans>>
        /\ hand' = [hand EXCEPT ![w] = InHand(next, i, None, 0)]
    BY <1>4 DEF ReadForRun, tables
  <2>2. SerialTables' /\ TableMoves
    BY <2>1 DEF SerialInv, SerialTables, TableMoves
  <2>3. /\ hand'[w] = InHand(next, i, None, 0)
        /\ \A v \in Workers : v # w => hand'[v] = hand[v]
    BY <2>1 DEF TypeInv, HandsTyped
  <2>4. HandSerial(hand[w])'
    BY <2>3 DEF HandSerial, InHand, Rowed
  <2> QED
    BY <2>2, <2>3, <2>4, SerialKept
<1>5. ASSUME UNCHANGED <<tables, orphans, hand>>
      PROVE  SerialInv'
  <2>1. SerialTables' /\ TableMoves
    BY <1>5 DEF SerialInv, SerialTables, TableMoves, tables
  <2> QED
    BY <1>5, <2>1, CopiesKept DEF SerialInv
<1> QED
  BY <1>1, <1>2, <1>3, <1>4, <1>5
     DEF Request, RowIds, CreateScenario, AddAnnotation, DeleteAnnotation

LEMMA IdleSerial ==
  ASSUME NEW w \in Workers, hand'[w] = Idle
  PROVE  HandSerial(hand[w])'
BY DEF HandSerial, Idle, InHand, Rowed

LEMMA SerialProceed ==
  ASSUME TypeInv, SerialInv, NEW w \in Workers, Proceed(w)
  PROVE  SerialInv'
<1> DEFINE i == hand[w].id
<1>a. HandTyped(hand[w]) /\ HandSerial(hand[w]) /\ TablesTyped /\ CaptureTyped
  BY DEF TypeInv, HandsTyped, SerialInv
<1>b. ASSUME Rowed(hand[w])
      PROVE  /\ i \in RowIds /\ hand[w].row \in RowsOf(i) /\ wanted[i] \in RowsOf(i)
             /\ rows[i] # None => hand[w].row.scenario = rows[i].scenario
             /\ OneUnit(hand[w].row)
  BY <1>a, <1>b DEF HandTyped, HandSerial, TablesTyped
<1>c. ASSUME NEW h, hand' = [hand EXCEPT ![w] = h]
      PROVE  hand'[w] = h /\ \A v \in Workers : v # w => hand'[v] = hand[v]
  BY <1>c DEF TypeInv, HandsTyped
(* The copy of a run that was just written.                                *)
<1>d. ASSUME NEW row, NEW change, NEW seen, i \in RowIds, Update(i, row, change, seen),
             SerialTables'
      PROVE  /\ rows'[i] # None /\ i \notin raced' => Agrees(row, wanted'[i])
             /\ rows'[i] # None => row.scenario = rows'[i].scenario
  <2>1. rows'[i] # None => rows'[i] = row
    BY <1>a, <1>d DEF Update, tables, TablesTyped
  <2> QED
    BY <1>d, <2>1 DEF SerialTables
<1>1. CASE WritePatch(w)
  <2> DEFINE row == hand[w].row
             c == hand[w].change
  <2>1. /\ Rowed(hand[w]) /\ hand[w].pc = "patch" /\ c \in Changes(i)
        /\ ("status" \in DOMAIN c => c.status \in Known(i))
    BY <1>1, <1>a DEF WritePatch, HandTyped, Rowed
  <2>2. Changed(wanted[i], c) \in RowsOf(i)
    BY <2>1, <1>b, PatchedRow
  <2>3. /\ Update(i, row, c, hand[w].seen) /\ UNCHANGED orphans
        /\ hand' = [hand EXCEPT ![w] = Idle]
    BY <1>1 DEF WritePatch
  <2>4. rows[i] # None /\ hand[w].seen = version[i] /\ i \notin raced =>
          Agrees(row, Changed(wanted[i], c))
    BY <2>1, <1>a DEF HandSerial, Current
  <2> HIDE DEF row, c
  <2>5. SerialTables' /\ TableMoves
    <3>1. /\ i \in RowIds /\ row \in RowsOf(i) /\ OneUnit(row)
          /\ rows[i] # None => row.scenario = rows[i].scenario
      BY <2>1, <1>b DEF row
    <3> QED
      BY <2>2, <2>3, <2>4, <3>1, SerialUpdate
  <2> QED
    BY <2>3, <2>5, <1>c, IdleSerial, SerialKept
<1>2. CASE BeginRun(w)
  <2> DEFINE begun == [status |-> "running", started |-> 0]
             row == Changed(hand[w].row, begun)
             h == InHand("running", i, row, version'[i])
  <2>1. /\ Rowed(hand[w]) /\ hand[w].pc = "begin" /\ i \in RunIds
        /\ hand[w].row.finished = None
    BY <1>2, <1>a DEF BeginRun, HandTyped, HandSerial, Rowed
  <2>2. row \in RowsOf(i) /\ Changed(wanted[i], begun) \in RowsOf(i)
    BY <2>1, <1>b, RunRows
  <2>3. /\ row = Started(hand[w].row, "running", 0)
        /\ Changed(wanted[i], begun) = Started(wanted[i], "running", 0)
    BY <2>1, <1>b, ChangedBegun
  <2>4. /\ row.status = "running" /\ row.result = hand[w].row.result
        /\ row.scenario = hand[w].row.scenario
        /\ row.started = 0 /\ row.finished = None
    BY <2>1, <2>3, <1>b DEF Started, RowsOf
  <2>5. /\ Changed(wanted[i], begun).status = "running"
        /\ Changed(wanted[i], begun).result = wanted[i].result
    BY <2>1, <2>3, <1>b DEF Started, RowsOf
  <2>6. /\ Update(i, row, begun, hand[w].seen) /\ UNCHANGED orphans
        /\ hand' = [hand EXCEPT ![w] = h]
    BY <1>2 DEF BeginRun
  <2> HIDE DEF row, begun
  <2>7. rows[i] # None /\ hand[w].seen = version[i] /\ i \notin raced =>
          Agrees(row, Changed(wanted[i], begun))
    BY <2>1, <2>4, <2>5, <1>a DEF HandSerial, Current, Agrees
  <2>8. SerialTables' /\ TableMoves
    BY <2>1, <2>2, <2>4, <2>6, <2>7, <1>b, SerialUpdate DEF OneUnit
  <2>9. /\ hand'[w].pc = "running" /\ hand'[w].id = i /\ hand'[w].row = row
        /\ \A v \in Workers : v # w => hand'[v] = hand[v]
    <3>1. hand'[w] = h /\ \A v \in Workers : v # w => hand'[v] = hand[v]
      <4> HIDE DEF h
      <4> QED
        BY <2>6, <1>c
    <3> QED
      BY <3>1 DEF InHand
  <2>10. /\ rows'[i] # None /\ i \notin raced' => Agrees(row, wanted'[i])
         /\ rows'[i] # None => row.scenario = rows'[i].scenario
    BY <2>1, <2>6, <2>8, <1>b, <1>d
  <2>11. HandSerial(hand[w])'
    BY <2>4, <2>9, <2>10 DEF HandSerial, Current, OneUnit, Rowed
  <2> QED
    BY <2>8, <2>9, <2>11, SerialKept
<1>3. ASSUME NEW outcome, FinishRun(w, outcome)
      PROVE  SerialInv'
  <2> DEFINE run == [hand[w].row EXCEPT !.status = outcome]
             res == [error |-> outcome = "failed", artifact |-> BuildResult(run, i, capture)]
             ended == [status |-> outcome, finished |-> 0, result |-> res]
             row == Changed(run, ended)
             h == InHand("ended", i, row, version'[i])
  <2>1. /\ Rowed(hand[w]) /\ hand[w].pc = "running" /\ i \in RunIds
        /\ hand[w].row.started = 0 /\ outcome \in RunStatuses
    BY <1>3, <1>a DEF FinishRun, HandTyped, HandSerial, Rowed, RunStatuses
  <2>2. /\ run \in RowsOf(i) /\ run.scenario = hand[w].row.scenario
        /\ run.started = 0
    <3>1. run \in RowsOf(i)
      BY <2>1, <1>b, RunRows
    <3> QED
      BY <2>1, <3>1, <1>b DEF RowsOf
  <2>3. res \in Results
    BY <2>1, <2>2, <1>a, BuiltResult
  <2>4. /\ Update(i, row, ended, hand[w].seen) /\ UNCHANGED orphans
        /\ hand' = [hand EXCEPT ![w] = h]
    BY <1>3 DEF FinishRun
  <2> HIDE DEF run, res
  <2>5. row \in RowsOf(i) /\ Changed(wanted[i], ended) \in RowsOf(i)
    BY <2>1, <2>2, <2>3, <1>b, RunRows
  <2>6. /\ row = RunEnded(run, outcome, 0, res)
        /\ Changed(wanted[i], ended) = RunEnded(wanted[i], outcome, 0, res)
    BY <2>1, <2>2, <1>b, ChangedEnded
  <2>7. /\ row.status = outcome /\ row.result = res
        /\ row.scenario = run.scenario /\ row.started = 0 /\ row.finished = 0
    BY <2>2, <2>6 DEF RunEnded, RowsOf
  <2>8. /\ Changed(wanted[i], ended).status = outcome
        /\ Changed(wanted[i], ended).result = res
    BY <2>1, <2>6, <1>b DEF RunEnded, RowsOf
  <2> HIDE DEF row, ended
  <2>9. Agrees(row, Changed(wanted[i], ended)) /\ OneUnit(row)
    BY <2>7, <2>8 DEF Agrees, OneUnit
  <2>10. SerialTables' /\ TableMoves
    BY <2>1, <2>2, <2>4, <2>5, <2>7, <2>9, <1>b, SerialUpdate
  <2>11. /\ hand'[w].pc = "ended" /\ hand'[w].id = i /\ hand'[w].row = row
         /\ \A v \in Workers : v # w => hand'[v] = hand[v]
    <3>1. hand'[w] = h /\ \A v \in Workers : v # w => hand'[v] = hand[v]
      <4> HIDE DEF h
      <4> QED
        BY <2>4, <1>c
    <3> QED
      BY <3>1 DEF InHand
  <2>12. /\ rows'[i] # None /\ i \notin raced' => Agrees(row, wanted'[i])
         /\ rows'[i] # None => row.scenario = rows'[i].scenario
    BY <2>1, <2>4, <2>10, <1>b, <1>d
  <2>13. HandSerial(hand[w])'
    BY <2>9, <2>11, <2>12 DEF HandSerial, Current, Rowed
  <2> QED
    BY <2>10, <2>11, <2>13, SerialKept
<1>4. CASE SaveResult(w)
  <2> DEFINE run == hand[w].row
             res == [run.result EXCEPT !.artifact = BuildResult(run, i, capture)]
             left == [result |-> res]
             row == Changed(run, left)
  <2>1. /\ Rowed(hand[w]) /\ hand[w].pc = "ended" /\ i \in RunIds
        /\ run.result \in [error : BOOLEAN, artifact : Artifacts]
    BY <1>4, <1>a DEF SaveResult, HandTyped, Rowed
  <2>2. res \in Results
    BY <2>1, <1>a, <1>b, BuiltResult
  <2>3. /\ Update(i, row, left, hand[w].seen) /\ UNCHANGED orphans
        /\ hand' = [hand EXCEPT ![w] = Idle]
    BY <1>4 DEF SaveResult
  <2>4. run \in RowsOf(i)
    BY <2>1, <1>b
  <2> HIDE DEF res
  <2>5. /\ row = [run EXCEPT !.result = res] /\ row \in RowsOf(i)
        /\ Changed(wanted[i], left) = [wanted[i] EXCEPT !.result = res]
        /\ Changed(wanted[i], left) \in RowsOf(i)
    BY <2>1, <2>2, <2>4, <1>b, ChangedResult, RunRows
  <2>6. /\ row.result = res /\ row.status = run.status /\ row.scenario = run.scenario
        /\ row.started = run.started /\ row.finished = run.finished
    BY <2>4, <2>5 DEF RowsOf
  <2>7. /\ Changed(wanted[i], left).result = res
        /\ Changed(wanted[i], left).status = wanted[i].status
    BY <2>1, <2>5, <1>b DEF RowsOf
  <2>8. rows[i] # None /\ hand[w].seen = version[i] /\ i \notin raced =>
          run.status = wanted[i].status
    BY <2>1, <1>a DEF HandSerial, Current, Agrees
  <2>9. /\ OneUnit(row) /\ (rows[i] # None => row.scenario = rows[i].scenario)
    BY <2>1, <2>6, <1>b DEF OneUnit
  <2> HIDE DEF row, left, run
  <2>10. rows[i] # None /\ hand[w].seen = version[i] /\ i \notin raced =>
           Agrees(row, Changed(wanted[i], left))
    BY <2>6, <2>7, <2>8 DEF Agrees
  <2>11. SerialTables' /\ TableMoves
    BY <2>1, <2>3, <2>5, <2>9, <2>10, <1>b, SerialUpdate
  <2> QED
    BY <2>3, <2>11, <1>c, IdleSerial, SerialKept
<1>5. CASE LeaveRun(w)
  <2>1. UNCHANGED <<rows, version, wanted, raced, orphans>>
        /\ hand' = [hand EXCEPT ![w] = Idle]
    BY <1>5 DEF LeaveRun, tables
  <2>2. SerialTables' /\ TableMoves
    BY <2>1 DEF SerialInv, SerialTables, TableMoves
  <2> QED
    BY <2>1, <2>2, <1>c, IdleSerial, SerialKept
<1>6. ASSUME NEW r \in RunIds, InsertRun(w, r)
      PROVE  SerialInv'
  <2> DEFINE row == NewRun(i)
             h == InHand("begin", r, row, 1)
  <2>1. /\ r \in RowIds /\ i \in ScenarioIds /\ row \in RowsOf(r)
        /\ row.scenario = i /\ row.finished = None
    BY <1>6, <1>a, NewRows DEF InsertRun, HandTyped, RowIds, NewRun
  <2>2. /\ Insert(r, row) /\ Unused(r)
        /\ orphans' = IF rows[i] = None THEN orphans \cup {r} ELSE orphans
        /\ hand' = [hand EXCEPT ![w] = IF hand[w].pc = "create" THEN Idle ELSE h]
    BY <1>6 DEF InsertRun
  <2> HIDE DEF row
  <2>3. SerialTables' /\ TableMoves
    BY <2>1, <2>2, SerialInsert DEF OneUnit
  <2>4. rows'[r] = row /\ wanted'[r] = row /\ version'[r] = 1
    BY <2>1, <2>2, <1>a, InsertEffect
  <2>5. \A v \in Workers : v # w => hand'[v] = hand[v]
    BY <2>2 DEF TypeInv, HandsTyped
  <2>6. hand'[w] = IF hand[w].pc = "create" THEN Idle ELSE h
    BY <2>2 DEF TypeInv, HandsTyped
  <2>7. ASSUME hand'[w] = h
        PROVE  HandSerial(hand[w])'
    BY <2>1, <2>4, <2>7 DEF HandSerial, InHand, OneUnit, Agrees
  <2>8. HandSerial(hand[w])'
    BY <2>6, <2>7, IdleSerial
  <2> QED
    BY <2>3, <2>5, <2>8, SerialKept
<1> QED
  BY <1>1, <1>2, <1>3, <1>4, <1>5, <1>6 DEF Proceed

LEMMA SerialStep == TypeInv /\ SerialInv /\ [CaseNext]_caseVars => SerialInv'
<1> SUFFICES ASSUME TypeInv, SerialInv, [CaseNext]_caseVars
             PROVE  SerialInv'
  OBVIOUS
<1>1. ASSUME CaptureGains \/ CaptureSealed \/ CaptureDeleted \/ UNCHANGED caseVars
      PROVE  SerialInv'
  <2>1. UNCHANGED <<rows, version, wanted, raced, orphans, hand>>
    BY <1>1 DEF CaptureGains, CaptureSealed, CaptureDeleted, caseVars, tables
  <2>2. SerialTables' /\ TableMoves
    BY <2>1 DEF SerialInv, SerialTables, TableMoves
  <2> QED
    BY <2>1, <2>2, CopiesKept DEF SerialInv
<1> QED
  BY <1>1, SerialRequest, SerialProceed DEF CaseNext

(* A scenario made from a replay covers all that the replay sent, whatever *)
(* was selected: its one loss, the packet ids, only widens it.             *)
LEMMA ScenarioCovers ==
  ASSUME NEW sel, NEW p, ReplayMatches(sel, p)
  PROVE  MatchesPacket(Restored(ToScenarioSelection(sel)), p)
BY DEF ReplayMatches, MatchesPacket, Restored, ToScenarioSelection, InWindow

(* For any number of requests: those that do not overlap on a row lose     *)
(* nothing of each other, a run outlives its scenario only if it was       *)
(* inserted after the deletion, and its two times are in one unit.         *)
THEOREM SerialRequestsStick == CaseSpec => []SerialUpdatesStick
<1>1. TypeInv /\ SerialInv => SerialUpdatesStick
  <2> SUFFICES ASSUME TypeInv, SerialInv
               PROVE  SerialUpdatesStick
    OBVIOUS
  <2>1. DOMAIN rows = RowIds /\ RunIds \subseteq RowIds
    BY DEF TypeInv, TablesTyped, RowIds
  <2> QED
    BY <2>1, ScenarioCovers
       DEF SerialInv, SerialTables, SerialUpdatesStick, Agrees, OneUnit
<1>2. CaseSpec => [](TypeInv /\ SerialInv)
  BY Typing, SerialInit, SerialStep, PTL DEF CaseSpec
<1> QED
  BY <1>1, <1>2, PTL


----------------------------------------------------------------------------
(***************************************************************************)
(* The job registry, for any number of jobs and of cancel() calls.         *)
(***************************************************************************)

(* What the status of a job can be while its thread is where it is, and that *)
(* a job that comes to work has no answer yet, whatever was cancelled on the *)
(* way; between its two assignments the thread has set the answer alone.     *)
JobInv(j) ==
  /\ thread[j] = "none" => status[j] = "absent"
  /\ thread[j] \in {"poll", "drop", "claim"} =>
       status[j] \in {"pending", "running", "cancelled"}
  /\ thread[j] = "drop" => cancel[j]
  /\ thread[j] = "work" => status[j] \in {"running", "cancelled"}
  /\ thread[j] \in Halfway =>
       /\ status[j] \in {"running", "cancelled"}
       /\ answer[j] = {IF thread[j] = "returned" THEN "result" ELSE "error"}
  /\ thread[j] = "stamp" => status[j] \in {"succeeded", "failed"}
  /\ status[j] = "cancelled" => finished[j]
  /\ (/\ status[j] \in {"absent", "pending", "running", "cancelled"}
      /\ thread[j] \notin Halfway) => answer[j] = {}
  /\ status[j] = "succeeded" => answer[j] = {"result"}
  /\ status[j] = "failed" => answer[j] = {"error"}
  /\ thread[j] = "gone" =>
       \/ status[j] \in Terminal /\ finished[j]
       \/ status[j] = "running" /\ cancel[j]

(* What a client has read so far: an outcome it read first is still that of  *)
(* the job, and the answers it has looked for since are those of the job.    *)
ViewInv ==
  view.at # "idle" =>
    /\ view.job \in JobIds
    /\ view.answer \subseteq answer[view.job]
    /\ view.status \in {"succeeded", "failed"} =>
         status[view.job] = view.status
    /\ view.at = "result" => view.answer = {}
    /\ (view.at \in {"error", "told"} /\ view.status = "succeeded") =>
         "result" \in view.answer
    /\ (view.at = "told" /\ view.status = "failed") => "error" \in view.answer

IInv == TypeOK /\ (\A j \in JobIds : JobInv(j)) /\ ViewInv

LEMMA JobsInit == Init => IInv
BY DEF Init, IInv, TypeOK, JobInv, ViewInv, Terminal, Statuses, Halfway

(* A step of one job leaves the others alone. *)
LEMMA OthersKept ==
  ASSUME IInv, NEW j \in JobIds, NEW k \in JobIds, k # j,
         Submit(j) \/ Cancel(j) \/ ThreadStep(j)
  PROVE  JobInv(k)'
<1>1. /\ status'[k] = status[k] /\ cancel'[k] = cancel[k]
      /\ finished'[k] = finished[k] /\ answer'[k] = answer[k]
      /\ thread'[k] = thread[k]
  BY DEF IInv, TypeOK, Submit, Cancel, ThreadStep, RequestCancel, Poll, Drop,
         Claim, Claimed, Succeed, Fail, Settle, Stamp, Assign, Answered,
         AfterAnswer
<1> QED
  BY <1>1 DEF IInv, JobInv

(* No step of a job's thread and no cancel() takes an answer or an outcome   *)
(* back: only a thread halfway sets an outcome, and it has none yet.         *)
LEMMA OnlyGains ==
  ASSUME IInv, NEW j \in JobIds, NEW k \in JobIds,
         Submit(j) \/ Cancel(j) \/ ThreadStep(j)
  PROVE  /\ answer[k] \subseteq answer'[k]
         /\ status[k] \in {"succeeded", "failed"} => status'[k] = status[k]
<1>1. /\ status \in [JobIds -> Statuses]
      /\ answer \in [JobIds -> SUBSET {"result", "error"}]
      /\ JobInv(k) /\ JobInv(j)
  BY DEF IInv, TypeOK
<1>2. CASE j # k
  BY <1>1, <1>2
  DEF Submit, Cancel, ThreadStep, RequestCancel, Poll, Drop, Claim, Succeed,
      Fail, Settle, Stamp, Assign, Answered
<1>3. CASE j = k
  <2>1. answer[k] \subseteq answer'[k]
    BY <1>1, <1>3
    DEF Submit, Cancel, ThreadStep, RequestCancel, Poll, Drop, Claim, Succeed,
        Fail, Settle, Stamp, Assign, Answered
  <2>2. ASSUME status[k] \in {"succeeded", "failed"}
        PROVE  thread[k] \notin {"none", "poll", "drop", "claim", "work"}
                                 \cup Halfway
    BY <1>1, <2>2 DEF JobInv
  <2>3. ASSUME status[k] \in {"succeeded", "failed"}
        PROVE  status'[k] = status[k]
    BY <1>1, <1>3, <2>2, <2>3
    DEF Submit, Cancel, ThreadStep, RequestCancel, Poll, Drop, Claim, Succeed,
        Fail, Settle, Stamp, Assign, Answered
  <2> QED
    BY <2>1, <2>3
<1> QED
  BY <1>2, <1>3

(* What a client has read stays true of the job it has read. *)
LEMMA ViewKept ==
  ASSUME IInv, NEW j \in JobIds, Submit(j) \/ Cancel(j) \/ ThreadStep(j)
  PROVE  ViewInv'
<1>1. view' = view
  BY DEF Submit, Cancel, ThreadStep, Poll, Drop, Claim, Succeed, Fail, Settle,
         Stamp
<1>2. \A k \in JobIds :
        /\ answer[k] \subseteq answer'[k]
        /\ status[k] \in {"succeeded", "failed"} => status'[k] = status[k]
  BY OnlyGains
<1> QED
  BY <1>1, <1>2 DEF IInv, ViewInv

(* A client reads what is there: with an outcome the answer is there too.    *)
LEMMA ViewRead ==
  ASSUME IInv, NEW j \in JobIds, ClientReads(j)
  PROVE  IInv'
<1>1. UNCHANGED <<status, cancel, finished, answer, thread>>
  BY DEF ClientReads, ReadStatus, ReadField
<1>2. \A k \in JobIds : JobInv(k)'
  BY <1>1 DEF IInv, JobInv
<1>3. TypeOK /\ JobInv(j) /\ ViewInv
  BY DEF IInv
<1>4. TypeOK'
  <2> DEFINE T == [at : {"idle", "result", "error", "told"},
                   job : JobIds \cup {"none"}, status : Statuses,
                   answer : SUBSET {"result", "error"}]
  <2>1. view \in T /\ status[j] \in Statuses
    BY <1>3 DEF TypeOK
  <2>2. CASE ReadStatus(j)
    BY <1>1, <1>3, <2>1, <2>2 DEF TypeOK, ReadStatus
  <2>3. ASSUME NEW field \in {"result", "error"}, NEW next \in {"error", "told"},
               ReadField(j, field, next)
        PROVE  view' \in T
    <3>1. view' = [at |-> next, job |-> view.job, status |-> view.status,
                   answer |-> view.answer \cup (answer[j] \cap {field})]
      BY <2>1, <2>3 DEF ReadField
    <3> QED
      BY <2>1, <3>1
  <2>4. CASE ReadField(j, "result", "error") \/ ReadField(j, "error", "told")
    <3>1. view' \in T
      BY <2>3, <2>4
    <3> QED
      BY <1>1, <1>3, <3>1 DEF TypeOK
  <2> QED
    BY <2>2, <2>4 DEF ClientReads
<1>5. ViewInv'
  <2>1. CASE ReadStatus(j)
    BY <2>1 DEF ReadStatus, ViewInv
  <2>2. CASE ReadField(j, "result", "error")
    <3>1. /\ view.at = "result" /\ view.job = j
          /\ view' = [view EXCEPT !.at = "error",
                        !.answer = @ \cup (answer[j] \cap {"result"})]
      BY <2>2 DEF ReadField
    <3>2. /\ view'.at = "error" /\ view'.job = j
          /\ view'.status = view.status
          /\ view'.answer = answer[j] \cap {"result"}
      BY <1>3, <3>1 DEF ViewInv, TypeOK
    <3> QED
      BY <1>1, <1>3, <3>1, <3>2 DEF ViewInv, JobInv
  <2>3. CASE ReadField(j, "error", "told")
    <3>1. /\ view.at = "error" /\ view.job = j
          /\ view' = [view EXCEPT !.at = "told",
                        !.answer = @ \cup (answer[j] \cap {"error"})]
      BY <2>3 DEF ReadField
    <3>2. /\ view'.at = "told" /\ view'.job = j
          /\ view'.status = view.status
          /\ view'.answer = view.answer \cup (answer[j] \cap {"error"})
      BY <1>3, <3>1 DEF TypeOK
    <3> QED
      BY <1>1, <1>3, <3>1, <3>2 DEF ViewInv, JobInv
  <2> QED
    BY <2>1, <2>2, <2>3 DEF ClientReads
<1> QED
  BY <1>2, <1>4, <1>5 DEF IInv

LEMMA JobsStep == IInv /\ [Next]_vars => IInv'
<1> SUFFICES ASSUME IInv, [Next]_vars
             PROVE  IInv'
  OBVIOUS
<1>1. CASE UNCHANGED vars
  BY <1>1 DEF IInv, TypeOK, JobInv, ViewInv, vars
<1>2. ASSUME NEW j \in JobIds, Submit(j) \/ Cancel(j) \/ ThreadStep(j)
      PROVE  IInv'
  <2> USE DEF TypeOK, JobInv, Terminal, Statuses, Halfway
  <2>1. JobInv(j) /\ TypeOK
    BY DEF IInv
  <2>2. ViewInv'
    BY <1>2, ViewKept
  <2>3. CASE Submit(j)
    <3>1. TypeOK' /\ JobInv(j)'
      BY <2>1, <2>3 DEF Submit
    <3> QED
      BY <1>2, <2>2, <3>1, OthersKept DEF IInv
  <2>4. CASE Cancel(j)
    <3>1. /\ cancel' = [cancel EXCEPT ![j] = TRUE]
          /\ thread[j] # "none" /\ UNCHANGED <<answer, thread, view>>
      BY <2>4 DEF Cancel, RequestCancel
    <3>2. thread[j] \notin Halfway
      BY <2>4 DEF Cancel, LockFree
    <3>3. ASSUME status[j] = "pending" PROVE TypeOK' /\ JobInv(j)'
      <4>1. /\ status' = [status EXCEPT ![j] = "cancelled"]
            /\ finished' = [finished EXCEPT ![j] = TRUE]
        BY <2>4, <3>3 DEF Cancel, RequestCancel
      <4> QED
        BY <2>1, <3>1, <3>2, <3>3, <4>1
    <3>4. ASSUME status[j] # "pending" PROVE TypeOK' /\ JobInv(j)'
      <4>1. UNCHANGED <<status, finished>>
        BY <2>4, <3>4 DEF Cancel, RequestCancel
      <4> QED
        BY <2>1, <3>1, <3>2, <3>4, <4>1
    <3>5. TypeOK' /\ JobInv(j)'
      BY <3>3, <3>4
    <3> QED
      BY <1>2, <2>2, <3>5, OthersKept DEF IInv
  <2>5. CASE Poll(j)
    <3>1. TypeOK' /\ JobInv(j)'
      BY <2>1, <2>5 DEF Poll
    <3> QED
      BY <1>2, <2>2, <3>1, OthersKept DEF IInv
  <2>6. CASE Drop(j)
    <3>1. TypeOK' /\ JobInv(j)'
      BY <2>1, <2>6 DEF Drop, RequestCancel
    <3> QED
      BY <1>2, <2>2, <3>1, OthersKept DEF IInv
  <2>7. CASE Claim(j)
    <3>1. TypeOK' /\ JobInv(j)'
      BY <2>1, <2>7 DEF Claim, Claimed
    <3> QED
      BY <1>2, <2>2, <3>1, OthersKept DEF IInv
  <2>8. CASE Succeed(j)
    <3>1. TypeOK' /\ JobInv(j)'
      BY <2>1, <2>8 DEF Succeed, Assign, Assigned, Answered
    <3> QED
      BY <1>2, <2>2, <3>1, OthersKept DEF IInv
  <2>9. CASE Fail(j)
    <3>1. TypeOK' /\ JobInv(j)'
      BY <2>1, <2>9 DEF Fail, Assign, Assigned, Answered
    <3> QED
      BY <1>2, <2>2, <3>1, OthersKept DEF IInv
  <2>10. CASE Settle(j)
    <3>1. TypeOK' /\ JobInv(j)'
      BY <2>1, <2>10 DEF Settle, Assign, Assigned, AfterAnswer
    <3> QED
      BY <1>2, <2>2, <3>1, OthersKept DEF IInv
  <2>11. CASE Stamp(j)
    <3>1. TypeOK' /\ JobInv(j)'
      BY <2>1, <2>11 DEF Stamp
    <3> QED
      BY <1>2, <2>2, <3>1, OthersKept DEF IInv
  <2> QED
    BY <1>2, <2>3, <2>4, <2>5, <2>6, <2>7, <2>8, <2>9, <2>10, <2>11 DEF ThreadStep
<1>3. ASSUME NEW j \in JobIds, ClientReads(j)
      PROVE  IInv'
  BY <1>3, ViewRead
<1> QED
  BY <1>1, <1>2, <1>3 DEF Next

LEMMA JobsInvariant == Spec => []IInv
BY JobsInit, JobsStep, PTL DEF Spec

(* Status, answer and thread of a job keep their types: in particular no job *)
(* has an answer other than a result or an error.                            *)
THEOREM JobTypes == Spec => []TypeOK
<1>1. IInv => TypeOK
  BY DEF IInv
<1> QED
  BY <1>1, JobsInvariant, PTL

(* However cancel() interleaves with the claim of the thread, no job ends    *)
(* half done: its thread leaves a final status and a finishing time behind,  *)
(* or a "running" job that somebody has cancelled.                           *)
THEOREM JobsSettle == Spec => []SettledOrAbandoned
<1>1. IInv => SettledOrAbandoned
  BY DEF IInv, JobInv, SettledOrAbandoned
<1> QED
  BY <1>1, JobsInvariant, PTL

(* A client that reads an outcome reads the answer that goes with it, and no *)
(* other; and only a thread halfway through its two assignments leaves an    *)
(* answer and a status that do not fit.                                      *)
THEOREM AnswersFit == Spec => []AnswerFitsStatus
<1>1. IInv => AnswerFitsStatus
  <2> SUFFICES ASSUME IInv
               PROVE  AnswerFitsStatus
    OBVIOUS
  <2>1. ASSUME NEW j \in JobIds, thread[j] \notin Halfway
        PROVE  /\ "result" \in answer[j] <=> status[j] = "succeeded"
               /\ "error" \in answer[j] <=> status[j] = "failed"
    <3>1. status[j] \in {"absent", "pending", "running"} \cup Terminal
      BY DEF IInv, TypeOK, Statuses
    <3> QED
      BY <2>1, <3>1 DEF IInv, JobInv, Terminal
  <2>2. ASSUME view.at = "told"
        PROVE  /\ view.status = "succeeded" => view.answer = {"result"}
               /\ view.status = "failed" => view.answer = {"error"}
               /\ view.answer # {"result", "error"}
    <3>1. /\ view.job \in JobIds /\ JobInv(view.job)
          /\ view.answer \subseteq answer[view.job]
          /\ status[view.job] \in {"absent", "pending", "running"} \cup Terminal
      BY <2>2 DEF IInv, ViewInv, TypeOK, Statuses
    <3>2. \/ answer[view.job] = {} \/ answer[view.job] = {"result"}
          \/ answer[view.job] = {"error"}
      BY <3>1 DEF JobInv, Terminal
    <3>3. view.answer # {"result", "error"}
      BY <3>1, <3>2
    <3>4. ASSUME view.status = "succeeded" PROVE view.answer = {"result"}
      BY <2>2, <3>1, <3>4 DEF IInv, ViewInv, JobInv
    <3>5. ASSUME view.status = "failed" PROVE view.answer = {"error"}
      BY <2>2, <3>1, <3>5 DEF IInv, ViewInv, JobInv
    <3> QED
      BY <3>3, <3>4, <3>5
  <2> QED
    BY <2>1, <2>2 DEF AnswerFitsStatus
<1> QED
  BY <1>1, JobsInvariant, PTL

(* Nothing changes the status of a job that has succeeded or failed: only a  *)
(* thread at work sets it, and a thread that comes to work finds its job     *)
(* running or cancelled.                                                     *)
THEOREM OutcomesStay == Spec => OutcomeIsFinal
<1>1. ASSUME IInv, [Next]_vars
      PROVE  [\A j \in JobIds :
                status[j] \in {"succeeded", "failed"} =>
                  status'[j] = status[j]]_status
  <2> SUFFICES ASSUME NEW k \in JobIds, status[k] \in {"succeeded", "failed"}
               PROVE  status'[k] = status[k]
    OBVIOUS
  <2>1. CASE UNCHANGED vars
    BY <2>1 DEF vars
  <2>2. ASSUME NEW j \in JobIds, Submit(j) \/ Cancel(j) \/ ThreadStep(j)
        PROVE  status'[k] = status[k]
    BY <1>1, <2>2, OnlyGains
  <2>3. ASSUME NEW j \in JobIds, ClientReads(j)
        PROVE  status'[k] = status[k]
    BY <2>3 DEF ClientReads, ReadStatus, ReadField
  <2> QED
    BY <1>1, <2>1, <2>2, <2>3 DEF Next
<1> QED
  BY <1>1, JobsInvariant, PTL DEF Spec, OutcomeIsFinal

=============================================================================
