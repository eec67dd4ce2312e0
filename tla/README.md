# TLA+ verification of NetReplay

NetReplay captures network traffic into a session file (`.nrp`, a SQLite
database), analyses it and plays it back.  This directory holds TLA+ models of
its threads and their queues, of the session file, and of the algorithms that
turn packets into streams, events and answers, the TLC configurations that
check them, and proofs for TLAPS.
Paths below are relative to `src/netreplay/core/` unless they start with `src/`.

    tlc -workers 2 -config CapturePipeline.cfg MC_CapturePipeline
    tlc -workers 2 -config Control.cfg MC_Control
    tlc -workers 2 -config Analysis.cfg MC_Analysis
    tlapm ControlProofs.tla

`PROJECT.json` lists the runs, maps every definition to the lines it models,
and names for each property a mutant of the code that violates it.

## 1. Inventory

| Component | State | Operations | Hard because |
|---|---|---|---|
| `CaptureController` (`service.py:55`) | thread, counters, `_error`, `_session` | `start`, `stop`, `status`, `_run` | `stop()` of any thread runs against `_run` without a lock; errors in every phase; two `finalize()` calls |
| `SessionStorage` (`storage/database.py:475`) | the file, the writer connection, `_batch_depth` | begin/commit/rollback batch, `add_*`, `upsert_*`, `finalize`, `set_status`, `archive`, `delete_session`, migrations, queries | crash and failure inside a batch; readers see commits only; statement-wise migrations |
| `FlushPolicy` (`storage/flush.py`) | mode, limits | `should_flush` | boundary; asked only when a frame arrives |
| Capture backends (`capture/`) | running flag, queue, pending error, drops | `start`, `packets`, `stop` | own thread, bounded queue, end marker, error taken by either of two threads |
| `NetReplayService` (`service.py:438`) | `_capture`, `_replay`, `_bridge` | start/stop of each, `import_pcap` | check-then-act on the API's thread pool; join timeouts |
| Replay-out (`replay/`) | stop flag, status, position in the session | `run`, `stop`, transform, validate | stop during a sleep; offset, limit, selection and validation count different things; the session may grow |
| Bridge (`proxy/bridge.py`) | stop flag, two sniffers, counters | `run`, `stop` | two directions in one loop; sentinels, errors and full queues |
| `JobManager` (`jobs.py`) | registry, per job: status, cancel flag, answer | `submit`, `cancel`, `_run` | cancel against claim and completion |
| Live events (`src/netreplay/api/app.py`, `websocket.py`) | queue, set of connections | connect, disconnect, `broadcast` | the set changes across an `await` |
| TCP reassembly, states, metrics (`flows/`) | next byte, buffer, flags, outstanding segments | `feed`, `flush`, `add`, `on_segment` | any order of segments, repetition, holes, modulo-2^32 comparison |
| Stream parsers (`protocols/streams.py`) | buffer, base | `feed`, `flush` | the stream is cut anywhere |
| TLS decryption (`protocols/decrypt.py`) | keys, record numbers, transcript | `decrypt_flow` | the capture lost, repeated or altered records |
| Cases (`scenario/storage.py`, `replay/artifact.py`) | scenarios, runs, annotations, artefacts | CRUD, PATCH, recording a replay | read-modify-write over several transactions, no foreign keys |
| Display filters (`display_filter.py`) | none | parse, evaluate | precedence, comparisons of numbers and strings |
| Analyses (`compare.py`, `search.py`, `incidents.py`, `regression.py`, `stats.py`) | none | reports over the files of a workspace | the same figures come from different queries |

How they interact: the API (thread pool) and the CLI call `NetReplayService`,
which owns at most one controller of each kind.  The capture controller's thread
pulls frames from `backend.packets()`, feeds tracker, event generator and
reassembler, writes to the one `SessionStorage` and calls `on_event`, which the
API puts on the event loop's queue for the WebSocket clients.  `stop()` goes
from an API thread through the controller to the backend, and comes back to
the capture thread only as the end (or the error) of `packets()`.  Readers open
the file on connections of their own and see committed data; a replay reads it
page by page.  Case rows live in the same file and are edited by request
threads.  Opening a file migrates it.

What makes each correct is stated per hazard in `PROJECT.json`.  In short: the
file is never half-written for a reader and says truly whether it is complete;
every frame is stored, sent, or counted as lost; no error vanishes between two
threads; stop ends what it stops; an answer of success is true; what is
computed from a capture is in the capture.

## 2. Modules

| Module | Models | Role |
|---|---|---|
| `SessionLifecycle` | what a reader of the file may see | abstract specification |
| `CaptureSource` | what the pipeline assumes of a backend | abstract specification, and part of `CapturePipeline` |
| `CapturePipeline` | controller, storage transaction, flush policy, source, `stop()` callers | detailed; implements `SessionLifecycle` |
| `ScapyBackend` | sniffer thread, queue, `packets()`, `stop()` | detailed; implements `CaptureSource` |
| `Jobs` | job threads and `cancel()` | detailed |
| `ServiceControl` | request threads, slots, controllers, joins | detailed |
| `FrameTransform`, `ReplayOut` | mutation, remapping, validation of a frame; the replay thread and its controller | functions; detailed |
| `Bridge` | bridge thread, sniffers, senders | detailed |
| `LiveEvents` | broadcast task and clients on an event loop | detailed |
| `SessionFile` | one file and the processes that create, open, migrate, fill and delete it | detailed |
| `CaseFile` | scenarios, runs, annotations, artefacts | detailed |
| `TcpStreams`, `StreamEngine` | reassembly, states, metrics as functions; packets arriving in any order | functions; composition |
| `StreamParsers` | the incremental parsers | detailed |
| `TlsDecrypt` | two peers, a lossy capture, decryption of it | detailed |
| `DisplayFilter` | parser and evaluator, against the meaning of an expression | functions |
| `CaptureAnalysis` | queries, comparison, rankings, regression checks over growing captures | functions |
| `MC_CapturePipeline`, `MC_Control`, `MC_SessionFile`, `MC_StreamEngine`, `MC_Analysis` | instances | model checking |
| `CapturePipelineProofs`, `ScapyBackendProofs`, `StorageProofs` (of `SessionFile`, `CaseFile`, `Jobs`), `ReplayProofs`, `ControlProofs` (also of `Bridge`, `LiveEvents`), `StreamEngineProofs`, `StreamFaithfulProofs` (both of `StreamEngine`), `StreamProofs` | theorems | proofs |

`MC_Control` and `MC_Analysis` put several independent components into one run: a
variable `part`, chosen in the initial state, says which of them a behaviour is
about, and the others stay as they are.  Nothing is composed that the code does
not compose; the components share one state graph only to share one check.

### CapturePipeline

`pc` is the position of the capture thread in `_run`:
`new` - (`start`) - `setup` - `read` - `packet` (`add_packet`) - `flow`
(`upsert_flow`) - `event` (`add_event`, `on_event`, counters) - `commit` - back
to `read`; at the end `drain` (conversation flush) - `finalize` - `cleanup`
(`backend.stop()` in `finally`) - `outcome` - `seal` - `done`.  `found` stands
between finding the pending error and clearing it.  An action is the code
between two points where another thread, a reader or a crash could see a
difference: each storage call, each look at shared state, each commit.

* The file is kept twice: `db` (committed, what other connections and a restart
  see) and `tx` (committed plus open transaction).  `Commit` copies one to the
  other, `RolledBack` the other way, `Crash` throws `tx` away.  `depth` is
  `_batch_depth`; `CommitFails` lowers it before the failure, as the code does,
  so that the later rollback does nothing and `finalize()` may commit what
  SQLite has kept.
* A frame is malformed or belongs to a member of `FlowKeys`.  `fed` is the
  sequence of well-formed frames the tracker saw; a flow's packet count and
  "first frame of its flow" are computed from it.  Packet contents, addresses,
  timestamps and summaries are left out.  The integrity hash is represented by
  the sequence of packets it was computed over.
* A frame causes the flow event if it starts a flow, and at most one further
  event out of `Issues` (a reassembly finding; protocol events behave alike).
  The end-of-capture flush reports at most one hole per flow.
* `source` and `drops` follow `CaptureSource`.  `stopper` is the position of
  each API thread in `stop()`: asked, found an error, has it in hand
  (`blame`), returned.
* `StartAgain` is a second `start()` of a finished controller: the counters are
  reset, then the existing file is refused.

### ScapyBackend

One variable per shared object (`running`, `err`, `queue`, `drops`) and one
program counter per thread.  `sniff()` itself is Scapy's; the code relies on it
calling `prn` and then `stop_filter` for each frame and neither without one.
`arrived`, `delivered` and `failed` are history.  The refinement mapping
`SourceState` reads the `CaptureSource` state off the sniffer's position, the
flag and the pending error.

### Jobs

`thread` is the position in `JobManager._run`; `cancel()` holds both locks and
is one step; the look at the cancel flag takes none and is a step of its own.
Result or error and the status are assigned one after the other (`Assigned`);
between the two the thread is `Halfway` and holds the manager's lock, which
keeps out other threads and `cancel()` but not a client: `view` is what
`_job_out` has read so far, one field a step.

### ServiceControl

`kind` says which slot a behaviour is about (captures, replays, bridges, or
`import_pcap`, which has none).  `req[c].at` is the position of a request thread
in `start_capture`, `stop_capture` and their siblings: each read or write of the
slot, each `join` and each call of a controller is a step.  `thread[i]` is the
controller's own thread; between `opening` and `running` a capture calls
`backend.start()`, which forgets a stop that came before it, while a replay or
a bridge keeps its flag.  `expired` remembers the joins that timed out, and
`overlapped` whether two requests were ever in progress together; both only
appear in properties.

### FrameTransform and ReplayOut

A frame is a record of the header fields the code reads or writes, its length
(which decides which fields exist) and what a receiver would find of its
checksums.  `Prepare` is mutation, remapping, checksum repair and validation in
the order of `inject.py`.  The replay thread takes a row off its page, skips or
stops, waits, prepares, sends; `stop()` may come between any two of these, and a
capture may commit a row to the file being read.  `Planned` and `BuildSchedule`
say without the loop what should be sent and when; the plan puts each row where
its rank says, the number of rows in front of it by (timestamp, id).  `wire`,
`waits`, `grew`, `owed` are history.  `OutAssumption` says what a session and a
request are: rows numbered as SQLite numbers them, non-negative times and
options in their ranges.

### Bridge

`bpc` is the position in `run()`: draining `left` or `right`, the bottom of the
loop, `closing`, `ended`.  `polling` separates the look at the stop flag from the
`get()` behind it.  Each side's first `Tracked` frames carry a number; traffic
goes on for ever with unnumbered ones.

### LiveEvents

Only one coroutine runs at a time, so a step is what happens between two
awaits.  A `turn` is one `for` loop over the set of connections.  CPython checks
at each step of it that the size has not changed, and nothing else: an `add`
may rebuild the table under the iteration, after which any member may lie ahead
of it, visited or not (`Connect` chooses what is left).  `joined` and `parted`
are history: the events during whose broadcast a client came or left.

### SessionFile, CaseFile

A migration is a sequence of statements in autocommit; `opener` says at which
stage and statement a process is, and `Kill` may strike before each.  `shadow` holds
a table's copy under its temporary name, `gone` the tables dropped and not yet
renamed.  In `CaseFile` each storage call is one transaction; a PATCH reads the
whole row in one and writes it in another.  `wanted` is the row had the requests run one
after another, `raced` the rows for which they did not.

### TcpStreams, StreamEngine

A byte is its place in what the peer sent, so order, loss and repetition show.
`SeqSpace` stands for 2^32 and the traffic crosses its end.  Every subset of a
traffic may be captured in every order with repetition; each packet goes through
tracker, state machine, conversation and event generator as in `_run`.
`TrafficAssumption` is what TCP says of traffic: a segment is a run of consecutive
bytes, and what one peer sends another is numbered from one start and shorter than
half the sequence space.  Serial arithmetic (RFC 1982) cannot order more than that,
so a connection of 2^31 bytes or more is outside the assumption, and so is a port
pair used again with data in both connections.  Loss, repetition, reordering and
segments split anew are inside it.  Sorting is by rank: the n-th of a list is the element with
n - 1 in front of it, which is what Python's stable sort yields.  The
metrics keep their RTT samples and the segments waiting for an ACK as sets where
the code has lists: a time belongs to one packet, so nothing is in a list twice,
and only numbers and values are read from it.

### StreamParsers, TlsDecrypt

The stream a peer wrote is fed in pieces cut at any byte; one iteration of a
parser's loop is a step.  `ParserAssumption` ties the kinds of units to the
protocol of the stream, and an HTTP/2 stream begins with the preface.  A byte
that ends a run reading `0\r\n\r\n` says so (`ends`), wherever it stands: in a
chunked message, in the head of another (`Content-Length: 0`) or in a body;
`_find_chunk_end` takes the last one in its buffer.  `MaxMessage` is the limit
behind which a feed drops the front of the HTTP/1 buffer.

Cryptography is symbolic: a record opens under the key and number it was sealed
with, and a Finished message covers what its sender had seen.  What peers and
the network do (`passed`) is external; what `decrypt_flow` makes of it is the
code's.  A message may be captured altered in what it says (`body`) or, a
hello, in what the keys follow from (`keys`), so that no key is found or one
that opens nothing.  `framed` is application data of TLS 1.2 that reads as a
handshake message: `_tls12_handshake_messages` takes it for one.

### DisplayFilter, CaptureAnalysis

Filters are token sequences; the recursive-descent parser and the evaluator
are compared with a meaning that needs neither.  The analyses are functions
of the stored tables, recomputed in every state while captures grow and files
spoil.

## 3. Runs

| Run | Question | Instance | Result |
|---|---|---|---|
| `capture_pipeline` | all properties of the pipeline | 3 frames, 2 flows, 1 drop, 1 caller of `stop()`, flush every 2 packets or by time | holds, 868 770 states |
| `scapy_backend` | all properties of the live source | queue of 2, 3 frames and one more after stop, 2 callers | holds, 5 058 states |
| `jobs` | all properties of jobs | 2 jobs, unlimited cancels, a client reading | holds, 17 428 states |
| `control` | all properties of what runs beside a capture | 2 request threads, 2 controllers, 3 requests; 3 rows and 1 late one, pages of 2; 2 frames a side, queues of 2; 3 clients, 2 events | holds, 329 259 states |
| `analysis` | all properties of what is kept and computed | 2 processes, 1 kill; 2 workers, 3 requests; 5 packets; 4 units; 2 writes, 1 fault; 5 tokens; 3 files, 3 packets | holds, 673 122 states |
| `ready_then_failed` | does `ready` stay? | 2 frames | violated |
| `complete_with_gaps` | does `complete` exclude gaps? | 2 frames | violated |
| `flush_time` | does the interval commit? | 1 flow, 2 frames | violated |
| `scapy_quiet_link` | does `stop()` release the reader without traffic? | queue of 1, 1 frame | violated |
| `job_cancelled` | is `cancelled` final? | 2 jobs | violated |
| `migration_rerun` | can an interrupted migration be run again? | 1 kill | violated |
| `ack_covers` | does an acknowledgement settle what it covers? | 3 packets suffice | violated |

Of the pipeline: committed rows belong together after any failure, rollback or
crash (`CommittedConsistent`); what is stored is a prefix of what arrived
(`StoredPrefix`); a ready session is whole and its metadata true
(`ReadyIsWhole`, `CompleteIsHonest`); the flush policy bounds the loss
(`AtRiskBounded`); subscribers have heard of every stored event
(`PushedCoversStored`); counters agree with the file (`CountersAgree`); a
backend error is reported whoever takes it (`FailureSurfaces`); `stop()` ends a
capture (`StopTakesEffect`).  Of the live source: every frame is accounted for,
in order, drained before the end; an error is raised by someone; it implements
`CaptureSource`, and on a link with traffic `stop()` ends `packets()`.  Of jobs:
a finished thread leaves a settled job or an abandoned cancelled one; outcomes
stay; a job nobody cancels ends.  `AnswerFitsStatus` says of a client that reads
without the lock: told `succeeded`, it is told the result, told `failed`, the
error, because the answer is assigned before the status and read after it.  The
converse is false and not claimed: `running` or `cancelled` may come with an
answer, read while the thread was between its two assignments or after both.

Of `control`:

* `ReplayAsAsked`: the wire is at all times the beginning of the plan and, when
  the replay ends by itself, all of it; the order holds even if the session
  grows; validated frames are valid after their transformation; the waits are
  those of the schedule where the two agree by design (faithful mode, or story
  mode at speed 1); the final counters are those `stop()` reports.
* `StopIsPrompt`: after `stop()` only the frame already being prepared goes out.
* `BridgeAccounts`, `BridgeStopEnds`: each direction is a FIFO that loses frames
  only where a counter says so, the bridge ends by itself only for a reason
  that shows, and `stop()` ends it under any traffic.
* `AnswersAreTrue`: a start or an import answered 200 is true however requests
  interleave.  The stronger statements - one thread of a kind, none out of
  reach, "running: false" means ended - are claimed only of requests that do not
  overlap and joins that do not time out: the slot is not locked, and
  `stop_capture` forgets a controller whose join timed out, so without
  these conditions they are false.
* `StopIsNotLost`: a stopped replay or bridge ends even if the stop came before
  its thread reached the loop.  For a capture this is false: `backend.start()`
  sets the running flag after the stop cleared it.
* `LiveFeedHolds`: a client's feed is in the order of capture.  It has a gap or a
  repetition only at an event during whose broadcast one client came and one
  left (`Swapped`): the set then has its size, the iteration goes on, and in a
  rebuilt table it may pass a member over or visit it twice.  Otherwise a
  connection that comes or goes during a broadcast ends the task, and nothing
  else does.  That it then ends for good is what the code does (`RuntimeError`
  from the iteration).

Of `analysis`:

* `FileSurvives`: no interruption takes a row out of the file; a session that
  could be opened has its tables under their names and no event that points
  nowhere; a file whose migration fails was cut between DROP and RENAME, or
  migrated twice at once.  Two processes that migrate the same file together can
  lose rows, and the property excludes them.
* `ResultPinned`: an artefact is refused for a capture with different content
  and accepted for the same; `matches_source` skips fields that are empty.
* `SerialUpdatesStick`: edits of a row that do not race lose nothing of each
  other.  PATCH and replay write back the whole row they read, so of two that
  race the last wins.
* `StreamFaithful`: each direction yields captured bytes, in order, once, and
  all of them except those in a hole that was reported.  The text of a
  conversation, unlike the bytes, misses what the final flush yields
  (`conversation.py:97`).
* `StateWasEarned`: no phase without the segments that justify it.  A port pair
  that is used again keeps the flags of its first connection, and RST is left by
  a later SYN.
* `SplitIrrelevant`: what a parser returns does not depend on how the stream was
  cut, unless a unit or a cut of `Trap` occurs: an unknown record type; a frame
  over the limit; a body without a length; a chunked message that is cut behind
  an end mark of its own head or body, or whose end comes in one feed with an
  end mark behind it, in a second chunked message, a head that ends in
  `Content-Length: 0` or a body; a message of which a feed leaves more than
  `MaxMessage` in the buffer.  `Trap` is not wider than needed: on the instance
  each of its cases ends with something other than the units written.
* `DecryptionTruthful`: decrypted data is what that peer wrote, in order; a
  Finished that verifies covers messages captured as sent, and both Finished of
  a full handshake that was captured whole verify once the keys are known.  Not
  claimed, because the code does otherwise: trailing zeros of a TLS 1.3 write
  are taken for padding; the Finished of a resumption or of a handshake with a
  client certificate does not verify; and TLS 1.2 data that reads as a handshake
  message (a SETTINGS frame of HTTP/2 does) enters the transcript, so that both
  Finished of an intact handshake are reported as MISMATCH (`decrypt.py:658-663`
  against `decrypt.py:726-727`).
* `AnalysisAgrees`: comparison mirrors and agrees with regression checks, pages
  add up to the capture, rankings are cosines in order, a filter selects what it
  says.

The violations are disagreements of code and documentation:

1. A session is finalized `ready`, then again with the verdict of `finally`.
   A `stop()` that raises in between turns `ready` into `failed`.
2. `capture_integrity` ignores gaps; `is_complete` does not.
3. `--flush-time` commits "every N seconds" only while frames arrive.
4. `packets()` "blocks until a packet or stop", but on a silent link `stop()`
   does not reach the sniffer.
5. A job cancelled between the thread's look at the flag and its claim is
   reported `cancelled`, then runs and is reported `succeeded`.
6. A stage "can be safely re-run (e.g. after an interrupted migration"
   (`database.py:275`), but a kill between DROP and RENAME in stage 4 leaves a
   file on which the next attempt copies from a table that is gone.  The
   `sqlite3.OperationalError` is not the `InvalidNrpError` that listing a
   workspace expects, so one such file makes the listing fail.
7. `_ack_covers` compares the wrong way round: a cumulative acknowledgement
   does not settle segments before its number, and settles those behind it.

**Bounds.** Two flows and three frames put a flow's first, second and
interleaved frame on either side of a commit at two packets, with a batch left
over; one caller of `stop()` already races with the capture thread for the
error and the verdict, and a second adds only the race among callers, which
`scapy_backend` has.  A queue of two with three frames fills, overflows and
drains; the frame after `stop()` is the one that lets `stop_filter` see the flag.
Two request threads and three requests give start against start, start against
stop and stop against stop with a controller left over.  Pages of two over three rows
make a replay continue from a key, with a clock that stepped back in one session, and a late
row may sort in front of the key or behind it.  Two numbered frames a side fill a queue of two behind
an unread one.  A third WebSocket client is the one that comes or goes while the
other two are served.  One kill suffices for a stuck migration, and two openers
for a duel.  Five packets of six give reordering over two holes, overlap and
repetition; a unit of three bytes behind a header of two can be cut within
header and body, and the messages with end marks inside and behind them meet each
case of `Trap`.  `MaxMessage` is six, so a message of seven is trimmed.  `MaxFrames`, `MaxDrops`, `MaxArrivals`, `MaxRows`, `MaxStarts`,
`MaxRequests`, `MaxEvents`, `MaxPackets`, `MaxKills`, `MaxRefused`, `MaxWrites`,
`MaxFaults`, `MaxChunks`, `MaxObserved` and `MaxSpoiled` cap counters and are in the
guards of the actions they limit.

**Symmetry.** `Analysis.cfg` permutes openers and workers: both kinds are
interchangeable in the code, no initial state or property names one of them, and the run checks
invariants only.

**Fairness.** `FairSpec` of the pipeline: the capture thread goes on when it can
without a new frame, and a `stop()` in progress goes on (threads are
scheduled); a source that was asked to stop ends, which mock and pcap sources
do by reading the flag before every frame.  No fairness on arriving frames,
drops, failures or crashes.  For the live source the last assumption is not
for free: `scapy_backend` checks it under `BusySpec`, where frames keep
arriving, and `scapy_quiet_link` shows that without traffic it fails.  `Jobs`:
threads are scheduled and job functions return.  `ControlFairness`: a
controller's thread that was started reaches its loop, and one that has seen a
request to stop ends; the second is what `BridgeStopEnds` shows of the bridge
and `StopIsPrompt` makes plausible of a replay, whose waits are finite.  The bridge
thread is scheduled (`WF` of `BridgeThread`); sniffers, link and callers are free.

**Deadlock** is checked in the pipeline runs, where a finished capture stutters
explicitly.  It is off for `ScapyBackend` (all threads may wait: for a frame, for
room, for a caller), `Jobs` (all threads through, nobody cancels), `control`
(requests run out, a replay that was stopped has nothing left to do) and
`analysis` with its two violation runs (arrivals, requests and faults run out).

## 4. Proofs

In `CapturePipelineProofs`, for every value of the constants that satisfies
`PipelineAssumption`:

* `TypeCorrect` - `Spec => []TypeOK`.  `TypeOK` alone is not inductive: that
  the batch depth stays in 0..1 needs the position of the thread, and that a
  frame can be stored needs that there is one (`TypeInv`).
* `FailureIsReported` - `FailureSurfaces`.  The `finally` block swallows what
  `backend.stop()` raises; this loses nothing because the thread gets there
  either with an error recorded or after `packets()` ended without one, when
  the source cannot break any more (`FailureInv`).
* `StoredIsPrefix` - `StoredPrefix`, and `ReadyIsComplete` - `ReadyIsWhole`, from
  one invariant, `StoredInv`: a frame is stored before the next is read; `ready`
  is first given when nothing is missing; the second `finalize()` repeats it
  only for a file that has it already and has no transaction open.
* `PipelineRefinesLifecycle` - `ImplementsLifecycle`.  `LifeInv` bounds the
  status of both views of the file by the position of the thread; with it and
  `StoredInv` each action maps to a step of `SessionLifecycle` or to a stutter.

On top of these, what the rows of the file say:

* `FileIsConsistent` - `CommittedConsistent`.  `RowsInv` compares the open
  transaction, not the file, with the frames the tracker has seen, and allows
  for the half-stored frame between `add_packet` and the last event; a commit
  publishes it only at positions where nothing is half-stored, and `finalize()`
  after a failed commit is the one exception the property leaves out.
* `SubscribersKnow` - `PushedCoversStored`.  `ToldInv`: what is in the
  transaction was either pushed or is the event in the thread's hand.
* `CrashCostBounded` - `AtRiskBounded`.  `RiskInv`: the uncommitted count is the
  length of the difference of the two views, and the flush policy is asked after
  every frame, before the next read.
* `CompleteIsTrue` - `CompleteIsHonest`, and `StatusAgreesWithFile` -
  `CountersAgree`, from `CountInv` and `ReadyInv`: the drop counter the verdict
  was taken from cannot grow after the source ended, and the counters of the
  status are those of the frames stored.

In `ScapyBackendProofs`, for any number of frames and any `QueueSize`:

* `BackendTypes` - `TypeOK`; `FramesInOrder` - `InOrder`; `EndIsDrained` -
  `EndMeansDrained`; `DropsAreTheLoss` - `EveryFrameAccounted`; `ErrorIsRaised` -
  `ErrorRaised`.  `OrderInv` orders what was delivered, what is queued and what
  is in the sniffer's hand; `AccountInv` counts each arrived frame in exactly one
  of delivered, queued, dropped and in hand, with the queue read as the set
  `QueuedFrames`; `ErrorInv` follows the one error from the sniffer's `except` to
  the raise in `packets()`.
* `BackendRefinesSource` - `ImplementsSource`.  `CapturePipeline` is proved over
  the source `CaptureSource` allows; this theorem says that live capture is such
  a source, so the theorems of the pipeline are about it too.

In `StorageProofs`, of a file, for any number of processes and kills, from
`FileAssumption`: files found on disk were written by this program or an older
version of it, so a raw block has its packet, and in a file that has schema 4
already an event points at a packet or nowhere (a foreign key).

* `NoRowIsLost` - `FileSurvives`, from `MigrationInv`, which speaks of files no two
  processes migrated at once.  `Safe`
  says where each table's rows are: under its name unless it is gone, and then
  complete in its copy; a copy holds nothing else, whichever attempt it is from.
  `Progress` says which copies can be left when stage 4 is at statement k and
  that no event dangles past the UPDATE that unlinks them; `Ready` what the next
  statement finds; `NothingGone` that, before any cut, a table is gone only in
  front of its own RENAME.  `LastStage` lists what follows what among the 19
  statements of stage 4, so that `LastStageStep` argues by the kind of statement
  and not by its number.

In the same module, for any sets of scenarios, requests and content, from
`NullAssumption` (SQL `NULL` is no row id):

* `CaseTypes` - `CaseTypeOK`.  What a request has in hand depends on how far it
  got; `TypeInv` adds that the ids it read are ids of rows.
* `ArtefactIsPinned` - `ResultPinned`.  `PinInv`: a finished run is in no
  request's hand any more except one that read it before, and such a request
  writes the run back with the result it read.
* `SerialRequestsStick` - `SerialUpdatesStick`.  `SerialInv`: if no two requests
  were ever in progress together, the row a request read is still the row of the
  file when it writes.

It also has the theorems of `Jobs`, for any `JobIds`: `JobTypes`,
`JobsSettle`, `AnswersFit`, `OutcomesStay`.  `JobInv` says what a job can be at
each place of its thread, `Halfway` included; `ViewInv` that an outcome a client
has read first is still the job's, so that the fields read after it are set.

In `ControlProofs`, for any number of request threads, controllers, rows,
clients and events, from `ControlAssumption`:

* `StopPrompt` - `StopIsPrompt`.  `PromptInv`: a frame under preparation while
  the flag is up is the one `stop()` found there, because the thread looks at
  the flag between the wait and the preparation.
* `LiveFeed` - `LiveFeedHolds`, for any way a table may be rebuilt.  Outside the
  events of `Swapped` a feed has no gap only because a client that got an event
  of an earlier broadcast is in the set of the present one and is visited once:
  `MembersInv` says who is in the set, `SetInv` that its size tells whether
  somebody came or went unless both happened, `OneSendInv` that one send is awaited at a time, `FeedInv` where a feed ends, and `ShareInv`
  what a client that joined between two broadcasts has.
* `AnswersTrue` - `AnswersAreTrue`.  `PlaceInv` says what is known of the
  controller a request is about at each of its positions, `OwnerInv` that a
  controller is started by one request only, and `SequentialInv` that without
  overlap every thread that runs is in the slot or about to be.

* `BridgeIsAccountable` - `BridgeAccounts`, from `BridgeAssumption`, for any
  `Tracked` and `QueueSize`.  Per side, `OrderInv` (what is queued came after
  everything sent), `CountInv` (every frame is in one place; it needs the lemmas
  `IndicesAppend` and `IndicesTail` on the cardinality of the numbered frames of
  a queue) and `SentinelInv` (the sentinel is last in the queue of a sniffer that
  ended, so a side that is done left nothing); `EndInv` keeps the reason of the
  end stable, since sniffers are never restarted.
* `ControlTyped` - `ControlTypes`, every component with its bounds.  The bounds
  do not follow from the shape of the actions: that a queue of the bridge never
  exceeds `QueueSize` is in `BridgeBounds`, that nothing is delivered before it
  is taken in `LiveBounds`, and the types of a replay are part of the invariant
  below.

In `ReplayProofs`, from `OutAssumption`, for any session, request, page size and
rows that a capture commits while the replay runs:

* `ReplayFaithful` - `ReplayAsAsked`, the six statements together.  A row is
  identified by its rank in capture order, so the sorted plan never has to be
  built in the proof: `OrderedPlace` says which row is at which place,
  `CountNext` how many chosen rows are below the next rank.  `PagesInv` says that
  wire, page and key are in capture order and the key's page is the rows behind
  it, also after late rows; the rest holds while the session did not grow.
  `PlanInv` puts the page at the number of rows looked at, which is what the
  counters of the answer add up to; `ProgressInv` says the wire has the chosen
  rows of smaller rank, and why the loop ended; `PaceInv` that each wait so far
  is the schedule's for that row, which compares the previous row the thread
  remembers with the previous selected row.

In `StreamEngineProofs`, for any traffic, arrival order and sequence space:

* `FlowStatesEarned` - `StateWasEarned`.  `EngineShape` gives every packet a flow
  and every flow an id of its own, so an event belongs to one flow; `CountedInv`
  counts a flow's packets and finds its first.  `PhaseInv` says of the state
  machine that whatever it remembers of SYN, ACK, FIN and RST was seen, in that
  direction and in the order the phase needs (`PhaseMoves` follows one packet
  through it); `StatesTold` that the last state told is the present one.
  `TimesInv` says of the metrics that no two segments wait with the same time,
  so that one is either waiting or sampled, that every sample ends at an ACK of
  the other side, and that a SYN time is the client's; without the last two the
  handshake time would not be inductive.

In `StreamFaithfulProofs`, which builds on `EngineInv` of the module before, from
`TrafficAssumption` and `StreamAssumption`, for any traffic, arrival order,
number of packets and sequence space:

* `StreamsAreFaithful` - `StreamFaithful`.  The proof leaves modular arithmetic
  behind early: `Compared` and `Distance` say that the numbers of two places less
  than half the space apart compare as the places do, and a segment becomes a
  `Piece`, the places from a to b.  `Sound` is what is true of one stream
  between two segments: it waits for the number of a place n, has yielded in
  order everything that came from its first byte up to n but the holes it told,
  and holds back at most one piece, beyond n, that is everything else that came.
  At most one, because `_drain` waits only while a single segment is held and
  otherwise skips the hole in front of the nearer one.  Therefore the fold over
  the sorted buffer is over one or two segments and is computed by `DrainFold`
  without an induction.  `FeedSteps`, `FirstSteps` and `FlushSteps` say that each
  operation of `TcpStream` keeps its stream sound and counts one finding exactly
  when it returns one.  `Dir` says the same of a direction, with what came read
  from the log and the holes from the timeline; `Sincere` of both directions, the
  text and the number of findings told.  `FaithInv` is that every conversation is
  sincere, with what `EngineInv` says of flows and ids; that a finding is told
  under the id of its flow (`IssueMoves`) keeps the conversations apart.  At the
  end `LostIsPlaced` shows that the list of gaps has each direction with one
  exactly once, by the ranks of a finite, totally ordered set.

In `StreamProofs`, from `ParserAssumption`, for any units, header length, limit
and cuts:

* `SplitsDoNotMatter` - `SplitIrrelevant`, and `ParserTypes` - `ParserTypeOK`.
  The lemmas up to `EndMarked` say where each unit lies in the flattened stream,
  that its bytes can be told from those of its neighbours and where end marks
  stand; they are inductions over the number of units, done with `SetInduction`
  because the property is a set there and not an operator.  `ParserInv` is a
  disjunction: a unit or a cut of `Trap` occurred (`Lost`, which later feeds
  cannot undo: `LossStays`), or for some p the first p units are behind, returned
  as they were written, and the buffer is what was fed of the rest (`Clean`).
  `ChunkCutRight` is the step that needs `Misread`: without it the last end mark
  in the buffer is the message's own.  In either case the buffer is, byte for
  byte, the end of what was fed, which is all `ParserTypes` claims past a trap.

Each inductive invariant was first checked by TLC on the instance of the run,
its quantifiers bounded where TLC needs it.  Model-checked only:

* `DecryptionTruthful`: `decrypt_flow` is a fold over everything captured, run
  anew in each state; the statement is about the result of the fold and not
  about steps of the model.
* `AnalysisTypes`, `AnalysisAgrees`: sums and pages are folds over the stored
  rows, and `DisplayFilter` is recursive, which no module with a theorem may reach.
* everything with fairness (`StopTakesEffect`, `StopReleasesReader`, `JobsEnd`,
  `BridgeStopEnds`, `StopIsNotLost`): liveness is outside what the provers can do.

## 5. Not modelled

The packet parsers (`packets/parser.py`, DNS, HTTP and TLS messages): pure
functions over bytes, in front of every model.  Sanitizing, export, viewers, the
story graph, CLI and GUI: rendering and rewriting of finished files without
state that others depend on.  The read-only API.  In the pipeline:
`rollback_batch()` raising (it ends as `SealFails` does), the name and interface
rows, and the clock.  In the bridge: byte counters and durations.  In the
service: that two concurrent stops of a slot may end in an `AttributeError`
shows as an answer 500 and nothing more.  `job_manager()` creates its
singleton without a lock; nothing in the repository submits jobs from two
threads.  `integrity_report()` calls a file without a verdict complete.

What a module leaves out of the code it is about:

* `CapturePipeline.Finalize`: after a second commit that failed
  (`storage/database.py:907-911`) the status may stay in the open transaction
  and be published by the next `finalize()`; here it is gone.
* `ScapyBackend.SniffFails`: an exception out of `prn` itself
  (`capture/scapy_backend.py:89-91`) loses a frame that nothing counts.
* `ReplayOut.SenderRaises`: only a send fails, not `session.packet()` or the
  reading of a page (`replay/inject.py:208-225`).
* `FrameTransform.Replace`: bytes are replaced in the payload;
  `replay/mutation.py:45` finds them anywhere in the frame.
* `CaseFile.FinishRun`: a run always has a source (`replay/artifact.py:353`), and
  the content of a capture is its number of packets, so that `ResultPinned`
  does not see a capture replaced by another of equal count.
* `CaptureAnalysis`: scores are exact, while `search.py:189-197` is floating
  point and may exceed one by rounding; of a flow's state only RST is told
  apart; captures do not grow between two pages of one read (a replay's do).
* `TlsDecrypt`: a fault keeps the type and the length of a message; data that
  reads as a message reads as one that is neither hello, ticket nor Finished.
* `AnswersAreTrue` and `StopIsNotLost` claim nothing of overlapping requests for
  captures, of joins that timed out, and of a `stop()` that reaches a capture's
  backend before `start()`; `FileSurvives` nothing of rows lost while two
  processes migrate one file.

## 6. Plan

1. `ReplayOut` composed with `CapturePipeline` on one file, in place of the free
   commits of `LateRows`.
2. `SequentialUseIsSafe` with more than one kind of slot in use at a time.
