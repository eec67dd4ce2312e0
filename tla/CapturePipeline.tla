--------------------------- MODULE CapturePipeline ---------------------------
(***************************************************************************)
(* One capture, from CaptureController.start() to the sealed .nrp file:    *)
(* the capture thread (CaptureController._run), the batch transaction of   *)
(* the SessionStorage it writes to, the backend it reads from, and the     *)
(* API threads that call CaptureController.stop().                         *)
(*                                                                         *)
(* Two threads run against each other without a common lock: stop() takes  *)
(* neither the controller's lock nor the storage's, and both threads       *)
(* consume the backend's pending error and write controller._error.  An    *)
(* action is the code between two points where the other thread, a reader  *)
(* of the file or a crash could see a difference.                          *)
(*                                                                         *)
(* A frame is either malformed (parse_packet raises) or belongs to one of  *)
(* FlowKeys; the timestamps, payloads and summaries carry no control and   *)
(* are left out.  The file is modelled twice: "db" is what another         *)
(* connection or a restart sees (committed), "tx" what the writer          *)
(* connection sees (committed plus the open transaction).                  *)
(***************************************************************************)
EXTENDS Naturals, Sequences, FiniteSets, SequencesExt

CONSTANTS
  FlowKeys,      \* the normalised 5-tuples the frames belong to
  Stoppers,      \* API threads, each of which calls stop() at most once
  Issues,        \* types of the events that do not announce a new flow
  MaxFrames,     \* bound: frames the backend hands over in one capture
  MaxDrops,      \* bound: frames the backend drops on a full queue
  FlushModes,    \* the values of FlushPolicy.mode to consider
  FlushPackets   \* FlushPolicy.packets

ASSUME PipelineAssumption ==
  /\ IsFiniteSet(FlowKeys)
  /\ "STREAM_GAP" \in Issues
  /\ "FLOW" \notin Issues
  /\ MaxFrames \in Nat
  /\ MaxDrops \in Nat
  /\ FlushModes \subseteq {"packets", "time", "never"}
  /\ FlushPackets \in Nat \ {0}      \* flush.validate

VARIABLES
  mode,      \* FlushPolicy.mode of this capture
  pc,        \* where CaptureController._run is
  source,    \* the backend: idle, live, stopping, ended, broken or taken
  drops,     \* backend.drops
  frames,    \* frames handed over by backend.packets()
  fed,       \* FlowTracker: the flow key of every well-formed frame, in order
  malformed, \* controller._malformed
  todo,      \* events of the current frame not stored yet
  depth,     \* SessionStorage._batch_depth
  pending,   \* packets since the last commit (a local of _run)
  tx, db,    \* the session file: writer's view, committed view
  pushed,    \* events handed to on_event
  stats,     \* controller._packets, _flows, _drops
  error,     \* controller._error is set
  opened,    \* controller._session_id is set
  outcome,   \* the status the finally block decided on
  stopper    \* where each API thread is in CaptureController.stop

file == <<tx, db>>
input == <<frames, fed>>
result == <<error, opened, outcome>>
counters == <<malformed, stats>>
batch == <<depth, pending>>
vars == <<mode, pc, source, drops, frames, fed, malformed, todo, depth,
          pending, tx, db, pushed, stats, error, opened, outcome, stopper>>

-----------------------------------------------------------------------------
(* The parts: the backend read from, the file written to *)

Source == INSTANCE CaptureSource
Lifecycle == INSTANCE SessionLifecycle WITH status <- db.status,
                                            rows <- db.packets

EventKinds == {"FLOW"} \cup Issues
Event(kind, flow, packet) == [kind |-> kind, flow |-> flow, packet |-> packet]

NoMeta == [integrity |-> "none", dropped |-> 0, malformed |-> 0, gaps |-> 0,
           written |-> 0, hash |-> <<>>]

NoCounts == [packets |-> 0, flows |-> 0, dropped |-> 0]

NoFile == [packets |-> <<>>, flows |-> [f \in FlowKeys |-> 0], events |-> <<>>,
           status |-> "absent", meta |-> NoMeta]
NewFile == [NoFile EXCEPT !.status = "created"]

Occurrences(f, s) == Cardinality({i \in DOMAIN s : s[i] = f})
Gaps(s) == Cardinality({i \in DOMAIN s : s[i].kind = "STREAM_GAP"})

\* Mutant: malformed frames do not degrade the capture.
IntegrityOfDropsOnly(dropped, bad) ==
  IF dropped = 0 THEN "complete" ELSE "degraded"

IntegrityOf(dropped, bad) ==
  IF dropped = 0 /\ bad = 0 THEN "complete" ELSE "degraded"

\* SessionStorage.finalize: integrity metadata over what is stored, and the
\* status.  The SHA-256 over raw_blocks is represented by what it covers.
Finalized(s, status, dropped, bad) ==
  [s EXCEPT !.status = status,
            !.meta = [integrity |-> IntegrityOf(dropped, bad),
                      dropped   |-> dropped,
                      malformed |-> bad,
                      gaps      |-> Gaps(s.events),
                      written   |-> Len(s.packets),
                      hash      |-> s.packets]]

-----------------------------------------------------------------------------
(* Capture thread *)

Init ==
  /\ mode \in FlushModes
  /\ Source!SourceInit
  /\ pc = "new" /\ frames = 0
  /\ fed = <<>> /\ malformed = 0 /\ todo = <<>>
  /\ depth = 0 /\ pending = 0
  /\ tx = NoFile /\ db = NoFile /\ pushed = <<>>
  /\ stats = NoCounts
  /\ error = FALSE /\ opened = FALSE /\ outcome = "none"
  /\ stopper = [s \in Stoppers |-> "idle"]

\* start(): the file exists, with its id, before the thread runs.
Start ==
  /\ pc = "new"
  /\ pc' = "setup"
  /\ opened' = TRUE
  /\ tx' = NewFile /\ db' = NewFile
  /\ UNCHANGED <<mode, source, drops, input, todo, counters, batch, pushed,
                 error, outcome, stopper>>

\* start() once the thread has ended: the counters are reset before
\* open_session(create=True) refuses the existing file.
StartAgain ==
  /\ pc = "done"
  /\ stats' = NoCounts
  /\ malformed' = 0
  /\ error' = FALSE
  /\ opened' = FALSE
  /\ UNCHANGED <<mode, pc, source, drops, input, todo, batch, file, pushed,
                 outcome, stopper>>

\* Mutants: the exception is swallowed and the loop goes on; or finally runs
\* but nothing is recorded.
RaiseSwallowed ==
  /\ error' = error
  /\ pc' = "read"

RaiseUnrecorded ==
  /\ error' = error
  /\ pc' = "cleanup"

\* An exception in the try block of _run: caught, recorded, on to finally.
Raise ==
  /\ error' = TRUE
  /\ pc' = "cleanup"

\* backend.start() succeeds and the first batch is opened.
SetUp ==
  /\ pc = "setup"
  /\ Source!Open
  /\ depth' = depth + 1
  /\ pending' = 0
  /\ pc' = "read"
  /\ UNCHANGED <<mode, input, todo, counters, file, pushed, result,
                 stopper>>

\* set_name_and_interface or backend.start() raises.
SetUpFails ==
  /\ pc = "setup"
  /\ Raise
  /\ UNCHANGED <<mode, source, drops, input, todo, counters, batch, file,
                 pushed, opened, outcome, stopper>>

\* Frames already queued are still handed over after the source has ended.
Deliver ==
  /\ pc = "read"
  /\ frames < MaxFrames
  /\ frames' = frames + 1

ReadMalformed ==
  /\ Deliver
  /\ malformed' = malformed + 1
  /\ UNCHANGED <<mode, pc, source, drops, fed, todo, stats, batch, file,
                 pushed, result, stopper>>

ReadFrame(f) ==
  /\ Deliver
  /\ fed' = Append(fed, f)
  /\ pc' = "packet"
  /\ UNCHANGED <<mode, source, drops, todo, counters, batch, file, pushed,
                 result, stopper>>

\* Mutant: the end marker is only queued when the sniffer ends well.
SourceOverOnlyWell == source = "ended"

\* The end marker is in the queue and no error is pending (any more).
SourceOver == source \in {"ended", "taken"}

\* backend.packets() is exhausted
ReadEnd ==
  /\ pc = "read"
  /\ SourceOver
  /\ pc' = "drain"
  /\ UNCHANGED <<mode, source, drops, input, todo, counters, batch, file,
                 pushed, result, stopper>>

\* packets() finds the error pending
ReadError ==
  /\ pc = "read"
  /\ source = "broken"
  /\ pc' = "found"
  /\ UNCHANGED <<mode, source, drops, input, todo, counters, batch, file,
                 pushed, result, stopper>>

\* Finding the error and clearing it are two steps of the caller: who found
\* it raises it, although another thread may have cleared it in between.
ClearError ==
  IF source = "broken" THEN Source!TakeError ELSE UNCHANGED <<source, drops>>

\* packets() raises
ReadRaises ==
  /\ pc = "found"
  /\ ClearError
  /\ Raise
  /\ UNCHANGED <<mode, input, todo, counters, batch, file, pushed, opened,
                 outcome, stopper>>

Current == fed[Len(fed)]
FlowStarted == \A i \in 1 .. Len(fed) - 1 : fed[i] # Current

\* Mutant: packet numbers start over with every batch.
StoredByBatch ==
  IF pending < Len(tx.packets)
  THEN [tx.packets EXCEPT ![pending + 1] = Current]
  ELSE Append(tx.packets, Current)

Stored == Append(tx.packets, Current)

\* storage.add_packet
StorePacket ==
  /\ pc = "packet"
  /\ tx' = [tx EXCEPT !.packets = Stored, !.status = "capturing"]
  /\ pc' = "flow"
  /\ UNCHANGED <<mode, source, drops, input, todo, counters, batch, db,
                 pushed, result, stopper>>

EventHere(kind) == Event(kind, Current, Len(tx.packets))

\* storage.upsert_flow; EventGenerator.feed and the reassembler decide which
\* events the frame gives rise to: "found" stands for what they find besides
\* a new flow.
StoreFlow(found) ==
  /\ pc = "flow"
  /\ tx' = [tx EXCEPT !.flows[Current] = Occurrences(Current, fed)]
  /\ todo' = (IF FlowStarted THEN <<EventHere("FLOW")>> ELSE <<>>)
             \o [i \in DOMAIN found |-> EventHere(found[i])]
  /\ pc' = "event"
  /\ UNCHANGED <<mode, source, drops, input, counters, batch, db, pushed,
                 result, stopper>>

\* Mutant: reassembly findings are stored but not handed to on_event.
PublishFlowsOnly(e) == IF e.kind = "FLOW" THEN Append(pushed, e) ELSE pushed

Publish(e) == Append(pushed, e)

\* storage.add_event, then on_event (whose exceptions are swallowed).
EmitEvent ==
  /\ pc = "event"
  /\ todo # <<>>
  /\ tx' = [tx EXCEPT !.events = Append(@, Head(todo))]
  /\ pushed' = Publish(Head(todo))
  /\ todo' = Tail(todo)
  /\ UNCHANGED <<mode, pc, source, drops, input, counters, batch, db, result,
                 stopper>>

\* Mutant: one packet late.
ShouldFlushLate(n) ==
  CASE mode = "never"   -> {FALSE}
    [] mode = "time"    -> BOOLEAN
    [] mode = "packets" -> {n > FlushPackets}

\* FlushPolicy.should_flush.  The clock is not modelled: in "time" mode the
\* interval may or may not have elapsed.
ShouldFlush(n) ==
  CASE mode = "never"   -> {FALSE}
    [] mode = "time"    -> BOOLEAN
    [] mode = "packets" -> {n >= FlushPackets}

\* Mutant: the flow counter lags behind the tracker.
CountedStale == [packets |-> stats.packets + 1,
                 flows   |-> Cardinality(Range(db.packets)),
                 dropped |-> stats.dropped]

Counted == [packets |-> stats.packets + 1,
            flows   |-> Cardinality(Range(fed)),
            dropped |-> stats.dropped]

CountPacket ==
  /\ pc = "event"
  /\ todo = <<>>
  /\ stats' = Counted
  /\ pending' = pending + 1
  /\ \E flush \in ShouldFlush(pending + 1) :
        pc' = IF flush THEN "commit" ELSE "read"
  /\ UNCHANGED <<mode, source, drops, input, malformed, todo, depth, file,
                 pushed, result, stopper>>

\* Mutant: commit_batch() forgets to close its level of the batch.
LevelClosedNot == depth

LevelClosed == depth - 1

\* commit_batch(); begin_batch()
Commit ==
  /\ pc = "commit"
  /\ db' = tx
  /\ depth' = LevelClosed + 1
  /\ pending' = 0
  /\ pc' = "read"
  /\ UNCHANGED <<mode, source, drops, input, todo, counters, tx, pushed,
                 result, stopper>>

\* The end-of-capture flush of a conversation reports a hole: an event
\* without a packet, which is not handed to on_event.  Bound: one per flow,
\* the holes of its two directions being told apart only by their summary.
DrainGap(f) ==
  /\ pc = "drain"
  /\ f \in Range(fed)
  /\ Event("STREAM_GAP", f, 0) \notin Range(tx.events)
  /\ tx' = [tx EXCEPT !.events = Append(@, Event("STREAM_GAP", f, 0))]
  /\ UNCHANGED <<mode, pc, source, drops, input, todo, counters, batch, db,
                 pushed, result, stopper>>

CommitLast ==
  /\ pc = "drain"
  /\ depth > 0
  /\ db' = tx
  /\ depth' = LevelClosed
  /\ pc' = "finalize"
  /\ UNCHANGED <<mode, source, drops, input, todo, counters, pending, tx,
                 pushed, result, stopper>>

\* The regular end of the try block: finalize() with its default status.
FinalizeReady ==
  /\ pc = "finalize"
  /\ stats' = [stats EXCEPT !.dropped = drops]
  /\ tx' = Finalized(tx, "ready", drops, malformed)
  /\ db' = Finalized(tx, "ready", drops, malformed)
  /\ pc' = "cleanup"
  /\ UNCHANGED <<mode, source, drops, input, malformed, todo, batch, pushed,
                 result, stopper>>

\* A storage call raises inside the batch (disk full, database locked).
StorageFails ==
  /\ pc \in {"packet", "flow", "event", "drain"}
  /\ Raise
  /\ UNCHANGED <<mode, source, drops, input, todo, counters, batch, file,
                 pushed, opened, outcome, stopper>>

\* commit_batch() lowers the depth before commit() raises; SQLite may or may
\* not have rolled the transaction back itself.
CommitFails ==
  /\ pc \in {"commit", "drain"}
  /\ depth' = LevelClosed
  /\ tx' \in {tx, db}
  /\ Raise
  /\ UNCHANGED <<mode, source, drops, input, todo, counters, pending, db,
                 pushed, opened, outcome, stopper>>

\* finalize() raises: _drops is already assigned, nothing is sealed.
FinalizeFails ==
  /\ pc = "finalize"
  /\ stats' = [stats EXCEPT !.dropped = drops]
  /\ Raise
  /\ UNCHANGED <<mode, source, drops, input, malformed, todo, batch, file,
                 pushed, opened, outcome, stopper>>

\* finally: backend.stop(), whose exception is swallowed.
CleanUp ==
  /\ pc = "cleanup"
  /\ IF source = "broken" THEN Source!TakeError ELSE Source!AskToStop
  /\ pc' = "outcome"
  /\ UNCHANGED <<mode, input, todo, counters, batch, file, pushed, result,
                 stopper>>

\* Mutants: the open transaction is left for finalize() to commit; a crashed
\* pipeline is sealed like a finished one.
RolledBackNot == tx
VerdictAlwaysReady == "ready"

RolledBack == IF depth > 0 THEN db ELSE tx
Verdict == IF error THEN "failed" ELSE "ready"

\* finally: rollback_batch(), the drop count, and the decision on the status.
Decide ==
  /\ pc = "outcome"
  /\ tx' = RolledBack
  /\ depth' = 0
  /\ stats' = [stats EXCEPT !.dropped = IF @ # 0 THEN @ ELSE drops]
  /\ outcome' = Verdict
  /\ pc' = "seal"
  /\ UNCHANGED <<mode, source, drops, input, malformed, todo, pending, db,
                 pushed, error, opened, stopper>>

\* finally: finalize(status=outcome)
Seal ==
  /\ pc = "seal"
  /\ tx' = Finalized(tx, outcome, stats.dropped, malformed)
  /\ db' = Finalized(tx, outcome, stats.dropped, malformed)
  /\ pc' = "done"
  /\ UNCHANGED <<mode, source, drops, input, todo, counters, batch, pushed,
                 result, stopper>>

\* That finalize() raises, before or after its first commit(); logged only.
SealFails ==
  /\ pc = "seal"
  /\ db' \in {db, tx}
  /\ pc' = "done"
  /\ UNCHANGED <<mode, source, drops, input, todo, counters, batch, tx,
                 pushed, result, stopper>>

-----------------------------------------------------------------------------
(* API threads: CaptureController.stop *)

\* backend.stop() clears the running flag.
AskStop(s) ==
  /\ pc \notin {"new", "crashed"}
  /\ stopper[s] = "idle"
  /\ Source!AskToStop
  /\ stopper' = [stopper EXCEPT ![s] = "asked"]
  /\ UNCHANGED <<mode, pc, input, todo, counters, batch, file, pushed, result>>

\* backend.stop() has joined the sniffer, or given up, and looks for an error.
LookForError(s) ==
  /\ pc # "crashed"
  /\ stopper[s] = "asked"
  /\ stopper' = [stopper EXCEPT ![s] = IF source = "broken" THEN "found"
                                       ELSE "returned"]
  /\ UNCHANGED <<mode, pc, source, drops, input, todo, counters, batch, file,
                 pushed, result>>

\* backend.stop() raises
TakeError(s) ==
  /\ pc # "crashed"
  /\ stopper[s] = "found"
  /\ ClearError
  /\ stopper' = [stopper EXCEPT ![s] = "blame"]
  /\ UNCHANGED <<mode, pc, input, todo, counters, batch, file, pushed, result>>

\* The except clause of stop() stores the error; the join that follows
\* changes nothing whether the capture thread ends in time or not.
Blame(s) ==
  /\ pc # "crashed"
  /\ stopper[s] = "blame"
  /\ error' = TRUE
  /\ stopper' = [stopper EXCEPT ![s] = "returned"]
  /\ UNCHANGED <<mode, pc, source, drops, input, todo, counters, batch, file,
                 pushed, opened, outcome>>

-----------------------------------------------------------------------------
(* The backend's own thread, and the process *)

\* The source goes its own way.
SourceMoves ==
  /\ pc # "crashed"
  /\ Source!End \/ Source!Break \/ Source!Drop
  /\ UNCHANGED <<mode, pc, input, todo, counters, batch, file, pushed, result,
                 stopper>>

\* The process dies: its memory and the open transaction are gone, the file
\* is what it is.  fed, frames, drops and pushed record what happened outside.
Crash ==
  /\ pc \notin {"new", "done", "crashed"}
  /\ pc' = "crashed"
  /\ tx' = db
  /\ source' = "idle" /\ todo' = <<>> /\ depth' = 0 /\ pending' = 0
  /\ malformed' = 0 /\ stats' = NoCounts
  /\ error' = FALSE /\ opened' = FALSE /\ outcome' = "none"
  /\ stopper' = [s \in Stoppers |-> "idle"]
  /\ UNCHANGED <<mode, drops, input, db, pushed>>

\* A capture that is over stays over.
Finished ==
  /\ pc \in {"done", "crashed"}
  /\ UNCHANGED vars

-----------------------------------------------------------------------------
FoundIssues == {<<>>} \cup {<<k>> : k \in Issues}

\* What the capture thread does without waiting for a frame.
ThreadStep ==
  \/ SetUp \/ SetUpFails
  \/ ReadEnd \/ ReadError \/ ReadRaises
  \/ StorePacket \/ (\E found \in FoundIssues : StoreFlow(found))
  \/ EmitEvent \/ CountPacket \/ Commit
  \/ (\E f \in FlowKeys : DrainGap(f)) \/ CommitLast \/ FinalizeReady
  \/ StorageFails \/ CommitFails \/ FinalizeFails
  \/ CleanUp \/ Decide \/ Seal \/ SealFails

CaptureStep == ThreadStep \/ ReadMalformed \/ \E f \in FlowKeys : ReadFrame(f)

StopProceeds(s) == LookForError(s) \/ TakeError(s) \/ Blame(s)

Next ==
  \/ Start \/ StartAgain
  \/ CaptureStep
  \/ \E s \in Stoppers : AskStop(s) \/ StopProceeds(s)
  \/ SourceMoves
  \/ Crash \/ Finished

Spec == Init /\ [][Next]_vars

\* The capture thread and a stop() in progress are scheduled; whether a
\* frame arrives, the source ends or the process dies is up to the
\* environment.
ThreadFairness ==
  /\ WF_vars(ThreadStep)
  /\ \A s \in Stoppers : WF_vars(StopProceeds(s))

\* The contract of CaptureBackend.stop: a source asked to stop does end.
\* Mock and pcap sources re-read the flag before every frame; ScapyBackend
\* shows what the live source makes of it.
BackendObeysStop == WF_vars(SourceMoves /\ source = "stopping" /\ Source!End)

FairSpec == Spec /\ ThreadFairness /\ BackendObeysStop

-----------------------------------------------------------------------------
(* Properties *)

EventType == [kind : EventKinds, flow : FlowKeys, packet : Nat]

MetaType ==
  [integrity : {"none", "complete", "degraded"}, dropped : Nat,
   malformed : Nat, gaps : Nat, written : Nat, hash : Seq(FlowKeys)]

FileType ==
  [packets : Seq(FlowKeys), flows : [FlowKeys -> Nat],
   events : Seq(EventType),
   status : {"absent", "created", "capturing", "ready", "failed"},
   meta : MetaType]

PcValues == {"new", "setup", "read", "found", "packet", "flow", "event",
             "commit", "drain", "finalize", "cleanup", "outcome", "seal",
             "done", "crashed"}

\* Every variable has its type; in particular the batch depth never leaves
\* 0..1, so that a commit_batch() of the pipeline really commits.
TypeOK ==
  /\ mode \in FlushModes
  /\ pc \in PcValues
  /\ source \in Source!SourceStates
  /\ drops \in 0 .. MaxDrops
  /\ frames \in 0 .. MaxFrames
  /\ fed \in Seq(FlowKeys)
  /\ malformed \in Nat
  /\ todo \in Seq(EventType)
  /\ depth \in 0 .. 1
  /\ pending \in Nat
  /\ tx \in FileType
  /\ db \in FileType
  /\ pushed \in Seq(EventType)
  /\ stats \in [packets : Nat, flows : Nat, dropped : Nat]
  /\ error \in BOOLEAN
  /\ opened \in BOOLEAN
  /\ outcome \in {"none", "ready", "failed"}
  /\ stopper \in [Stoppers -> {"idle", "asked", "found", "blame",
                               "returned"}]

\* Packet n is the first of its flow.
StartsFlow(n, s) == \A m \in 1 .. n - 1 : s[m] # s[n]

\* What another connection reads is never half a packet: each flow row counts
\* exactly the stored packets of its flow, the first packet of a flow has its
\* one flow event and no other packet has one, and each event names a stored
\* packet of its flow, or none if it was found at the end of the capture -
\* whatever failed, was rolled back or crashed in between.
CommittedConsistent ==
  /\ \A f \in FlowKeys : db.flows[f] = Occurrences(f, db.packets)
  /\ \A n \in DOMAIN db.packets :
       Occurrences(Event("FLOW", db.packets[n], n), db.events)
         = (IF StartsFlow(n, db.packets) THEN 1 ELSE 0)
  /\ \A e \in Range(db.events) :
       IF e.packet = 0 THEN e.kind # "FLOW" /\ e.flow \in Range(db.packets)
       ELSE /\ e.packet \in DOMAIN db.packets
            /\ db.packets[e.packet] = e.flow

\* The stored packets are the well-formed frames in the order the tracker saw
\* them, without a hole: what is lost is lost at the end.
StoredPrefix ==
  /\ IsPrefix(db.packets, tx.packets)
  /\ IsPrefix(tx.packets, fed)

\* A session whose status is "ready" holds every well-formed frame, and its
\* metadata (count, gaps, hash) describes exactly what is stored.
ReadyIsWhole ==
  db.status = "ready" =>
    /\ db.packets = fed
    /\ db.meta.written = Len(db.packets)
    /\ db.meta.hash = db.packets
    /\ db.meta.gaps = Gaps(db.events)

\* A ready session that calls itself complete was: every frame the backend
\* handed over is a stored packet, and the backend dropped none.
CompleteIsHonest ==
  db.status = "ready" /\ db.meta.integrity = "complete" =>
    Len(db.packets) = frames /\ drops = 0

\* What a crash can cost is bounded by the flush policy: at most FlushPackets
\* stored packets wait for their commit.
AtRiskBounded ==
  mode = "packets" => Len(tx.packets) - Len(db.packets) <= FlushPackets

\* A subscriber of on_event has been told every stored event of a packet, in
\* the order of the event table; it may have been told more.
PushedCoversStored ==
  \A i \in DOMAIN db.events :
    db.events[i].packet # 0 => IsPrefix(SubSeq(db.events, 1, i), pushed)

\* The counters of a finished capture agree with a ready file.
CountersAgree ==
  pc = "done" /\ opened /\ db.status = "ready" =>
    /\ stats.packets = Len(db.packets)
    /\ stats.flows = Cardinality({f \in FlowKeys : db.flows[f] > 0})
    /\ stats.dropped = db.meta.dropped

\* An error of the backend, once consumed by either thread, is in
\* status().error or in the hands of the stop() call that will put it there.
FailureSurfaces ==
  source = "taken" /\ opened =>
    error \/ \E s \in Stoppers : stopper[s] = "blame"

\* A reader of the file sees SessionLifecycle: batches of packets appended,
\* never withdrawn, none after the session was sealed.
ImplementsLifecycle == Lifecycle!LifeSpec

\* A running source that is asked to stop brings the capture to its end.
StopTakesEffect == source = "stopping" ~> pc \in {"done", "crashed"}

\* ARCHITECTURE.md section 5: the only way out of "ready" is "archived".
ReadyIsFinal == [][db.status = "ready" => db'.status = "ready"]_db

\* The capture-integrity summary of section 3 and CaptureIntegrity.is_complete
\* count gaps: a file that says "complete" has none.
CompleteMeansNoGaps == db.meta.integrity = "complete" => db.meta.gaps = 0

\* A batch that is due is written out: with --flush-time, a capture that goes
\* on commits a stored packet after a while, whether or not another follows.
FlushedInTime ==
  mode = "time" /\ pc = "read" /\ Len(db.packets) < Len(tx.packets)
    ~> Len(db.packets) = Len(tx.packets) \/ pc \in {"cleanup", "crashed"}
=============================================================================
