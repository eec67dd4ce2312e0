---- MODULE CaseFile ----
(***************************************************************************)
(* Scenarios, runs and annotations kept in a session file, the requests    *)
(* that edit them (api/routes/scenarios.py, core/scenario/storage.py), and *)
(* a replay that records its run and pins the result to the capture it     *)
(* replayed (core/replay/artifact.py).  Every call of the storage is one   *)
(* transaction of its own connection; a PATCH is two of them, and a replay *)
(* keeps its run in memory from the first to the last.                     *)
(***************************************************************************)
EXTENDS Naturals, FiniteSets

CONSTANTS
  Workers,      \* API threads and replaying threads
  ScenarioIds, RunIds,
  Selections,   \* what a replay may be asked to cover: [ids, flows, start, end]
  Rows,         \* the packets a selection is tried on: [id, ts, flow, protocol]
  MaxRequests,  \* how many requests arrive
  MaxPackets,   \* how many packets the capture may gain
  None

ASSUME CaseAssumption ==
  /\ IsFiniteSet(Workers) /\ MaxRequests \in Nat /\ MaxPackets \in Nat
  /\ ScenarioIds \cap RunIds = {} /\ None \notin ScenarioIds \cup RunIds

VARIABLES
  capture,   \* the session: packets, the digest finalize left, what it holds now (a number per content)
  rows,      \* the rows of scenarios and scenario_runs by id
  hand,      \* each worker: the request it is in, the row it read and when
  version,   \* how many times a row was written
  wanted,    \* the row if the requests that wrote it had run one after another
  raced,     \* the rows written from a copy that was no longer the row
  orphans,   \* the runs inserted after their scenario was deleted
  notes,     \* the annotations, and the last id given
  requests

caseVars == <<capture, rows, hand, version, wanted, raced, orphans, notes, requests>>
tables == <<rows, version, wanted, raced>>

ScenarioStatuses == {"draft", "ready", "archived"}
RunStatuses == {"pending", "running", "done", "failed", "aborted"}
Targets == {"packet", "flow", "event", "time-range"}
ResultFormat == 1

----------------------------------------------------------------------------
\* A replay's selection kept as a scenario's: packet ids have no place there.
ToScenarioSelection(s) ==
  [flows |-> s.flows, all |-> s.flows = {}, start |-> s.start, end |-> s.end, protocols |-> {}]

\* _selection_json and back: every part comes out as it went in.
Restored(sel) ==
  [flows |-> IF sel.flows = {} THEN {} ELSE sel.flows, all |-> sel.all,
   start |-> sel.start, end |-> sel.end, protocols |-> sel.protocols]

InWindow(sel, ts) == (sel.start # None => ts >= sel.start) /\ (sel.end # None => ts <= sel.end)

MatchesPacket(sel, r) ==
  /\ InWindow(sel, r.ts)
  /\ sel.protocols # {} => r.protocol \in sel.protocols
  /\ r.flow # None => sel.all \/ r.flow \in sel.flows

ReplayMatches(s, r) ==
  /\ InWindow(s, r.ts)
  /\ s.ids # {} => r.id \in s.ids
  /\ s.flows # {} => r.flow \in s.flows

\* The link back to the capture, and when it still holds: what either side lacks is not compared.
SourceLink(source) == [session |-> source.session, count |-> source.count, hash |-> source.hash]

\* Mutant: only the digests are compared.
MatchesSourceByDigest(a, source) ==
  a.session = source.session /\ (a.hash # None /\ source.hash # None => a.hash = source.hash)
MatchesSource(a, source) ==
  /\ a.session = source.session
  /\ a.count # 0 => a.count = source.count
  /\ a.hash # None /\ source.hash # None => a.hash = source.hash

BuildResult(run, id, source) ==
  [link |-> SourceLink(source), run |-> id, scenario |-> run.scenario, status |-> run.status,
   format |-> ResultFormat, content |-> source.content]

\* replay_result_from_run: an artefact of a newer format is not read.
Recovered(run) ==
  IF run.result = None \/ run.result.artifact = None THEN None
  ELSE IF run.result.artifact.format > ResultFormat THEN None ELSE run.result.artifact

----------------------------------------------------------------------------
\* Where a worker is, with the row it keeps in memory.
InHand(pc, id, row, seen) == [pc |-> pc, id |-> id, row |-> row, seen |-> seen, change |-> <<>>]
Idle == InHand("idle", None, None, 0)

NewScenario(sel) ==
  [kind |-> "scenario", scenario |-> None, status |-> "draft", result |-> None,
   started |-> None, finished |-> None, selection |-> sel]
NewRun(s) ==
  [kind |-> "run", scenario |-> s, status |-> "pending", result |-> None,
   started |-> None, finished |-> None, selection |-> None]

\* Mutant: a status is accepted wherever it is a status of anything.
KnownAnywhere(i) == RunStatuses \cup ScenarioStatuses
\* The values the enumeration of a scenario's or a run's status has.
Known(i) == IF i \in RunIds THEN RunStatuses ELSE ScenarioStatuses

\* What the columns of a row of scenarios or scenario_runs hold; NULL is no row.
Times == Nat \cup {None}
Artifacts ==
  [link : [session : {"this"}, count : Nat, hash : Nat \cup {None}], run : RunIds, scenario : ScenarioIds,
   status : RunStatuses, format : {ResultFormat}, content : Nat]
Results == {None} \cup [error : BOOLEAN, artifact : Artifacts \cup [format : {ResultFormat + 1}]]
RowsOf(i) ==
  [kind : {"scenario", "run"}, scenario : IF i \in RunIds THEN ScenarioIds ELSE {None}, status : Known(i),
   result : Results, started : Times, finished : Times,
   selection : {None} \cup {ToScenarioSelection(sel) : sel \in Selections}]

ASSUME NullAssumption == \A i \in ScenarioIds \cup RunIds : None \notin RowsOf(i)

CaseInit ==
  /\ capture = [session |-> "this", count |-> 1, hash |-> None, content |-> 1]
  /\ rows = [i \in ScenarioIds \cup RunIds |-> None]
  /\ hand = [w \in Workers |-> Idle]
  /\ version = [i \in ScenarioIds \cup RunIds |-> 0]
  /\ wanted = rows /\ raced = {} /\ orphans = {}
  /\ notes = [last |-> 0, rows |-> {}]
  /\ requests = 0

Changed(row, change) == [f \in DOMAIN row |-> IF f \in DOMAIN change THEN change[f] ELSE row[f]]

\* A scenario or run as read: a run's times come back divided, and are written as they are.
Divided(t) == IF t = None THEN None ELSE t + 1
Read(row) == [row EXCEPT !.started = Divided(@), !.finished = Divided(@)]

Unused(i) == rows[i] = None /\ version[i] = 0

Insert(i, row) ==
  /\ rows' = [rows EXCEPT ![i] = row]
  /\ version' = [version EXCEPT ![i] = 1]
  /\ wanted' = [wanted EXCEPT ![i] = row]
  /\ raced' = raced

\* UPDATE ... WHERE id=?: the whole row is written, if there is one.
Update(i, row, change, seen) ==
  IF rows[i] = None THEN UNCHANGED tables
  ELSE /\ rows' = [rows EXCEPT ![i] = row]
       /\ version' = [version EXCEPT ![i] = @ + 1]
       /\ wanted' = [wanted EXCEPT ![i] = Changed(@, change)]
       /\ raced' = IF seen = version[i] THEN raced ELSE raced \cup {i}

Arrive(w) == hand[w].pc = "idle" /\ requests < MaxRequests /\ requests' = requests + 1

CreateScenario(w, i, sel) ==
  /\ Arrive(w) /\ i \in ScenarioIds /\ Unused(i)
  /\ Insert(i, NewScenario(ToScenarioSelection(sel)))
  /\ UNCHANGED <<capture, hand, orphans, notes>>

\* PATCH, first half: 404 when there is no row, 422 when the new status is none of the known.
ReadForPatch(w, i, change) ==
  /\ Arrive(w) /\ rows[i] # None
  /\ "status" \in DOMAIN change =>
       change.status \in Known(i)
  /\ hand' = [hand EXCEPT ![w] = [pc |-> "patch", id |-> i, row |-> Changed(Read(rows[i]), change),
                                  seen |-> version[i], change |-> change]]
  /\ UNCHANGED <<capture, tables, orphans, notes>>

WritePatch(w) ==
  /\ hand[w].pc = "patch"
  /\ Update(hand[w].id, hand[w].row, hand[w].change, hand[w].seen)
  /\ hand' = [hand EXCEPT ![w] = Idle]
  /\ UNCHANGED <<capture, orphans, notes, requests>>

\* Mutant: the runs of a scenario stay behind.
GoesAlone(s) == {s}
\* Its runs are deleted with a scenario, in one transaction.
GoesWith(s) == {s} \cup {r \in RunIds : rows[r] # None /\ rows[r].scenario = s}

DeleteScenario(w, s) ==
  /\ Arrive(w) /\ s \in ScenarioIds
  /\ rows' = [i \in DOMAIN rows |-> IF i \in GoesWith(s) THEN None ELSE rows[i]]
  /\ UNCHANGED <<capture, hand, version, wanted, raced, orphans, notes>>

DeleteRun(w, r) ==
  /\ Arrive(w) /\ r \in RunIds
  /\ rows' = [rows EXCEPT ![r] = None]
  /\ UNCHANGED <<capture, hand, version, wanted, raced, orphans, notes>>

\* create_run of the route and start_replay_run: the scenario is read, then a run inserted for it.
ReadForRun(w, s, next) ==
  /\ Arrive(w) /\ s \in ScenarioIds /\ rows[s] # None
  /\ hand' = [hand EXCEPT ![w] = InHand(next, s, None, 0)]
  /\ UNCHANGED <<capture, tables, orphans, notes>>

InsertRun(w, r) ==
  /\ hand[w].pc \in {"create", "replay"} /\ r \in RunIds /\ Unused(r)
  /\ LET s == hand[w].id IN
     /\ Insert(r, NewRun(s))
     /\ orphans' = IF rows[s] = None THEN orphans \cup {r} ELSE orphans
     /\ hand' = [hand EXCEPT ![w] = IF @.pc = "create" THEN Idle ELSE InHand("begin", r, NewRun(s), 1)]
  /\ UNCHANGED <<capture, notes, requests>>

BeginRun(w) ==
  LET begun == [status |-> "running", started |-> 0]
      row == Changed(hand[w].row, begun) IN
  /\ hand[w].pc = "begin"
  /\ Update(hand[w].id, row, begun, hand[w].seen)
  /\ hand' = [hand EXCEPT ![w] = InHand("running", @.id, row, version'[@.id])]
  /\ UNCHANGED <<capture, orphans, notes, requests>>

\* finish_replay_run, from the run start_replay_run returned.
FinishRun(w, outcome) ==
  LET run == [hand[w].row EXCEPT !.status = outcome]
      ended == [status |-> outcome, finished |-> 0,
                result |-> [error |-> outcome = "failed", artifact |-> BuildResult(run, hand[w].id, capture)]]
      row == Changed(run, ended) IN
  /\ hand[w].pc = "running" /\ outcome \in {"done", "aborted", "failed"}
  /\ Update(hand[w].id, row, ended, hand[w].seen)
  /\ hand' = [hand EXCEPT ![w] = InHand("ended", @.id, row, version'[@.id])]
  /\ UNCHANGED <<capture, orphans, notes, requests>>

\* save_replay_result: the result it has is kept and the artefact put in it.
SaveResult(w) ==
  LET run == hand[w].row
      kept == [result |-> [run.result EXCEPT !.artifact = BuildResult(run, hand[w].id, capture)]] IN
  /\ hand[w].pc = "ended"
  /\ Update(hand[w].id, Changed(run, kept), kept, hand[w].seen)
  /\ hand' = [hand EXCEPT ![w] = Idle]
  /\ UNCHANGED <<capture, orphans, notes, requests>>

LeaveRun(w) ==
  /\ hand[w].pc = "ended"
  /\ hand' = [hand EXCEPT ![w] = Idle]
  /\ UNCHANGED <<capture, tables, orphans, notes, requests>>

\* Nothing asks whether the target exists, and a window of time is not stored.
AddAnnotation(w, target) ==
  /\ Arrive(w) /\ target \in Targets
  /\ notes' = [last |-> notes.last + 1, rows |-> notes.rows \cup {[id |-> notes.last + 1, target |-> target]}]
  /\ UNCHANGED <<capture, tables, hand, orphans>>

DeleteAnnotation(w, id) ==
  /\ Arrive(w)
  /\ notes' = [notes EXCEPT !.rows = {n \in @ : n.id # id}]
  /\ UNCHANGED <<capture, tables, hand, orphans>>

\* The capture goes on, is sealed with a digest of what it holds, or loses its rows; the digest stays.
CaptureGains ==
  /\ capture.count \in 1..MaxPackets
  /\ capture' = [capture EXCEPT !.count = @ + 1, !.content = @ + 1]
  /\ UNCHANGED <<tables, hand, orphans, notes, requests>>
CaptureSealed ==
  /\ capture.hash # capture.content
  /\ capture' = [capture EXCEPT !.hash = capture.content]
  /\ UNCHANGED <<tables, hand, orphans, notes, requests>>
CaptureDeleted ==
  /\ capture.count # 0
  /\ capture' = [capture EXCEPT !.count = 0, !.content = 0]
  /\ UNCHANGED <<tables, hand, orphans, notes, requests>>

Changes(i) ==
  IF i \in ScenarioIds THEN {[status |-> "ready"], [status |-> "aborted"]}
  ELSE {[status |-> "aborted"], [result |-> None],
        [result |-> [error |-> TRUE, artifact |-> [format |-> ResultFormat + 1]]]}

Request(w) ==
  \/ \E i \in ScenarioIds, sel \in Selections : CreateScenario(w, i, sel)
  \/ \E i \in ScenarioIds \cup RunIds :
       (\E c \in Changes(i) : ReadForPatch(w, i, c))
         \/ DeleteScenario(w, i) \/ DeleteRun(w, i)
         \/ \E next \in {"create", "replay"} : ReadForRun(w, i, next)
  \/ \E t \in {"flow", "time-range"} : AddAnnotation(w, t)
  \/ \E n \in notes.rows : DeleteAnnotation(w, n.id)

Proceed(w) ==
  \/ WritePatch(w) \/ BeginRun(w) \/ SaveResult(w) \/ LeaveRun(w)
  \/ \E r \in RunIds : InsertRun(w, r)
  \/ \E outcome \in RunStatuses : FinishRun(w, outcome)

CaseNext ==
  \/ \E w \in Workers : Request(w) \/ Proceed(w)
  \/ CaptureGains \/ CaptureSealed \/ CaptureDeleted

CaseSpec == CaseInit /\ [][CaseNext]_caseVars

----------------------------------------------------------------------------
CaseTypeOK ==
  /\ \A i \in DOMAIN rows : rows[i] # None =>
       rows[i].status \in (IF i \in RunIds THEN RunStatuses ELSE ScenarioStatuses)
  /\ \A w \in Workers : hand[w].pc \in {"idle", "patch", "create", "replay", "begin", "running", "ended"}
  /\ requests \in 0..MaxRequests /\ \A n \in notes.rows : n.id \in 1..notes.last

\* ResultPinned: the artefact of a run on a capture with packets is refused once that capture holds
\* anything else, whatever was appended, sealed or deleted in between, and accepted while it holds the
\* same and its digest was not taken anew; it is refused for every other session, names its own run, and tells the status
\* the run had (matches_source 144-157, build_replay_result 227-269).
ResultPinned ==
  \A r \in RunIds :
    LET a == IF rows[r] = None THEN None ELSE Recovered(rows[r]) IN
    a # None =>
      /\ MatchesSource(a.link, capture) /\ a.link.count # 0 => a.content = capture.content
      /\ a.content = capture.content /\ a.link.hash \in {None, capture.hash} => MatchesSource(a.link, capture)
      /\ ~MatchesSource(a.link, [capture EXCEPT !.session = "other"])
      /\ a.run = r /\ a.scenario = rows[r].scenario /\ a.status \in {"done", "aborted", "failed"}

\* SerialUpdatesStick: requests that do not overlap on a row lose nothing of each other (PATCH and
\* replay write the whole row they read, update_run 320-334, update_scenario 242-256); a run outlives
\* its scenario only if it was inserted after the deletion; a run's two times are in one unit though
\* every PATCH divides them again; and a scenario made from a replay covers all the replay sent.
SerialUpdatesStick ==
  /\ \A i \in DOMAIN rows : rows[i] # None /\ i \notin raced =>
       rows[i].status = wanted[i].status /\ rows[i].result = wanted[i].result
  /\ \A r \in RunIds \ orphans : rows[r] # None => rows[rows[r].scenario] # None
  /\ \A r \in RunIds : rows[r] # None /\ rows[r].finished # None => rows[r].started = rows[r].finished
  /\ \A sel \in Selections, p \in Rows :
       ReplayMatches(sel, p) => MatchesPacket(Restored(ToScenarioSelection(sel)), p)
====
