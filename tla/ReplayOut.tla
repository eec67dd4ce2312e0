------------------------------ MODULE ReplayOut ------------------------------
(***************************************************************************)
(* Replay-out: one ReplayOutController (service.py) running one            *)
(* ReplayOutService (replay/inject.py) over the frames of a session.       *)
(*                                                                         *)
(* The replay thread reads the session page by page, (ts, id) being the    *)
(* key it continues from, and for every row decides: skip, stop, or wait   *)
(* the recorded gap, prepare the frame and send it.  Two other actors      *)
(* interfere: whoever calls stop(), at any point, and a capture that is    *)
(* still committing rows to the same session file.                         *)
(*                                                                         *)
(* Time is counted in units of the recorded timestamps, which the          *)
(* configurations choose so that every scaled gap is whole; the speed      *)
(* factor is Speed/2.  `wire', `waits', `grew' and `owed' are history variables.   *)
(***************************************************************************)
EXTENDS FrameTransform, Integers, SequencesExt

CONSTANTS
    Options,        \* the replay requests explored, records of ReplayStartIn
    Sessions,       \* the sessions replayed: sequences of rows, row i with id i
    LateRows,       \* rows a running capture may still commit
    MaxRows,        \* bound on the rows of a session
    PageSize,       \* rows fetched by one query
    ProgressEvery,  \* progress is published at least every so many frames
    DefaultMaxGap,  \* max_gap when the caller gives none
    MaxStarts,      \* bound on start() calls
    None

(* A row as the packets table stores it, and the request as the route       *)
(* parsed it.                                                               *)
IsRow(r) == r # None /\ r \in [id : Nat, ts : Nat, flow : {r.flow}, frame : {r.frame}, length : Nat]
IsRequest(o) ==
    o \in [mode : {o.mode}, speed : Nat, maxGap : Nat, dryRun : BOOLEAN, offset : Int,
           limit : Nat \cup {None}, selection : {o.selection}, validate : BOOLEAN,
           remap : {o.remap}, pipeline : {o.pipeline}]

ASSUME OutAssumption ==
    /\ PageSize \in Nat \ {0}
    /\ ProgressEvery \in Nat \ {0}
    /\ {DefaultMaxGap, MaxRows, MaxStarts} \subseteq Nat
    /\ None \notin Nat
    /\ \A o \in Options : IsRequest(o)
    /\ \A s \in Sessions : s \in Seq(ToSet(s)) /\ \A i \in DOMAIN s : IsRow(s[i]) /\ s[i].id = i
    /\ \A late \in LateRows, n \in 1..MaxRows : IsRow(late) /\ IsRow([late EXCEPT !.id = n])

VARIABLES
    opts,       \* the request
    rows,       \* rows committed in the session file
    page,       \* rows fetched and not yet looked at
    key,        \* the last row of the page fetched last
    pc,         \* where the replay thread is
    prev,       \* prev_ts
    sent,       \* the local `sent': rows dropped by offset, and frames sent
    gap,        \* the wait the thread is in
    status,     \* the status object of run()
    published,  \* the status the controller shows
    stopFlag,   \* _stop_flag, set once and never cleared
    caller,     \* the thread that calls stop(): idle, joining, joined, timedout
    starts,     \* start() calls so far
    wire,       \* frames on the wire: [row, frame]
    waits,      \* the wait in front of each row that got one
    grew,       \* the session grew while the replay ran
    owed        \* the frame that was being prepared when stop() was called

replayVars == <<opts, rows, page, key, pc, prev, sent, gap, status, published,
                stopFlag, caller, starts, wire, waits, grew, owed>>

-----------------------------------------------------------------------------
(* Timing (replay/timing.py): two implementations of the same waits.        *)

AtMost(a, b) == IF a <= b THEN a ELSE b

Scale(speed, seconds) == (2 * seconds) \div speed

SpeedAccepted(speed) == speed > 0

PositiveGap(from, to) == IF to > from THEN to - from ELSE 0

(* GapPolicy.apply: only story replay caps a gap.                           *)
GapPolicyApply(mode, cap, recorded) ==
    IF mode = "story" THEN AtMost(recorded, cap) ELSE recorded

(* build_schedule, the schedule that play() waits: cap first, then scale.   *)
BuildSchedule(timestamps, mode, speed) ==
    [i \in 1..Len(timestamps) |->
        IF i = 1 THEN 0
        ELSE Scale(speed, GapPolicyApply(mode, DefaultMaxGap,
                             PositiveGap(timestamps[i - 1], timestamps[i])))]

(* The wait run() computes: scale first, then cap.                          *)
RunGap(row) ==
    LET scaled == Scale(opts.speed, PositiveGap(prev, row.ts))
    IN  IF prev = None THEN 0
        ELSE IF opts.mode = "story" THEN AtMost(scaled, opts.maxGap) ELSE scaled

-----------------------------------------------------------------------------
(* Selection (replay/selection.py).                                         *)

(* An empty list of ids means no restriction.                               *)
SelectionFrom(request) ==
    [request EXCEPT !.ids = IF @ = {} THEN None ELSE @,
                    !.flows = IF @ = {} THEN None ELSE @]

SelectionAccepted(request) ==
    request.start # None /\ request.end # None => request.end >= request.start

Matches(selection, row) ==
    /\ selection.ids # None => row.id \in selection.ids
    /\ selection.flows # None => row.flow \in selection.flows
    /\ selection.start # None => row.ts >= selection.start
    /\ selection.end # None => row.ts <= selection.end

(* What the route turns down with 422 before a controller exists.           *)
RequestAccepted(o) ==
    /\ SelectionAccepted(o.selection)
    /\ SpeedAccepted(o.speed)
    /\ o.mode \in {"story", "faithful"}
    /\ RemapAccepted(o.remap)
    /\ \A i \in DOMAIN o.pipeline : MutationAccepted(o.pipeline[i])

-----------------------------------------------------------------------------
(* Reading the session: keyset pages in (ts, id) order (database.packets).  *)

Before(a, b) == a.ts < b.ts \/ (a.ts = b.ts /\ a.id < b.id)

After(k, row) == k = None \/ Before(k, row)

(* The rows of a set in that order: a row has as many before it as its rank.*)
Rank(set, row) == Cardinality({x \in set : Before(x, row)})

Ordered(set) == [i \in 1..Cardinality(set) |-> CHOOSE row \in set : Rank(set, row) = i - 1]

NextPage(k) ==
    LET left == Ordered({row \in ToSet(rows) : After(k, row)})
    IN  SubSeq(left, 1, AtMost(PageSize, Len(left)))

-----------------------------------------------------------------------------
(* _prepare: mutation, then remapping, then validation of the result.       *)

Transformed(frame) ==
    LET mutated == ApplyPipeline(opts.pipeline, frame)
    IN  RemapFrame(mutated, opts.remap)

Prepare(frame) ==
    IF opts.validate /\ ~FrameValid(Transformed(frame)) THEN None
    ELSE Transformed(frame)

NewStatus == [packets |-> 0, skipped |-> 0, failed |-> 0, bytes |-> 0,
              stopped |-> FALSE, error |-> FALSE]

Request(o) == [o EXCEPT !.selection = SelectionFrom(@),
                        !.offset = IF @ < 0 THEN 0 ELSE @]

-----------------------------------------------------------------------------
ReplayInit ==
    /\ \E o \in Options : RequestAccepted(o) /\ opts = Request(o)
    /\ rows \in Sessions
    /\ page = <<>> /\ key = None /\ pc = "idle"
    /\ prev = None /\ sent = 0 /\ gap = 0
    /\ status = NewStatus /\ published = NewStatus
    /\ stopFlag = FALSE /\ caller = "idle" /\ starts = 0
    /\ wire = <<>> /\ waits = <<>> /\ grew = FALSE /\ owed = FALSE

Alive == pc \notin {"idle", "dead"}

(* start(): a new thread, a new run, the same stop flag.                    *)
Start ==
    /\ ~Alive /\ starts < MaxStarts
    /\ starts' = starts + 1
    /\ published' = NewStatus /\ status' = NewStatus
    /\ pc' = "next"
    /\ page' = <<>> /\ key' = None /\ prev' = None /\ sent' = 0 /\ gap' = 0
    /\ wire' = <<>> /\ waits' = <<>> /\ grew' = FALSE /\ owed' = FALSE
    /\ UNCHANGED <<opts, rows, stopFlag, caller>>

(* The generator runs the next query when its page is used up; an empty     *)
(* page ends the loop, whether or not a stop was requested.                 *)
FetchPage ==
    /\ pc = "next" /\ page = <<>>
    /\ page' = NextPage(key)
    /\ key' = IF page' = <<>> THEN key ELSE Last(page')
    /\ pc' = IF page' = <<>> THEN "finish" ELSE "next"
    /\ UNCHANGED <<opts, rows, prev, sent, gap, status, published, stopFlag,
                   caller, starts, wire, waits, grew, owed>>

Row == Head(page)

StopSeen ==
    /\ pc = "next" /\ page # <<>> /\ stopFlag
    /\ status' = [status EXCEPT !.stopped = TRUE]
    /\ pc' = "finish"
    /\ UNCHANGED <<opts, rows, page, key, prev, sent, gap, published, stopFlag,
                   caller, starts, wire, waits, grew, owed>>

(* Mutant: rows dropped by the offset count against the limit.              *)
LimitReachedByLooked == opts.limit # None /\ sent >= opts.limit
LimitReached == opts.limit # None /\ status.packets >= opts.limit

StopAtLimit ==
    /\ pc = "next" /\ page # <<>> /\ ~stopFlag
    /\ sent >= opts.offset /\ LimitReached
    /\ pc' = "finish"
    /\ UNCHANGED <<opts, rows, page, key, prev, sent, gap, status, published,
                   stopFlag, caller, starts, wire, waits, grew, owed>>

(* Rows in front of the offset count in `sent', unselected rows do not.     *)
SkipRow ==
    /\ pc = "next" /\ page # <<>> /\ ~stopFlag
    /\ \/ /\ sent < opts.offset
          /\ sent' = sent + 1
       \/ /\ sent >= opts.offset /\ ~LimitReached
          /\ ~Matches(opts.selection, Row)
          /\ sent' = sent
    /\ status' = [status EXCEPT !.skipped = @ + 1]
    /\ page' = Tail(page)
    /\ UNCHANGED <<opts, rows, key, pc, prev, gap, published, stopFlag, caller,
                   starts, wire, waits, grew, owed>>

PaceRow ==
    /\ pc = "next" /\ page # <<>> /\ ~stopFlag
    /\ sent >= opts.offset /\ ~LimitReached
    /\ Matches(opts.selection, Row)
    /\ gap' = RunGap(Row)
    /\ waits' = Append(waits, gap')
    /\ prev' = Row.ts
    /\ pc' = IF gap' > 0 THEN "asleep" ELSE "prepare"
    /\ UNCHANGED <<opts, rows, page, key, sent, status, published, stopFlag,
                   caller, starts, wire, grew, owed>>

(* Mutant: the sleep is followed by the frame whatever came meanwhile.      *)
AfterSleepBlind == "prepare"
(* The stop flag is looked at once more after the sleep, not during it.     *)
AfterSleep == IF stopFlag THEN "finish" ELSE "prepare"
Wake ==
    /\ pc = "asleep"
    /\ pc' = AfterSleep
    /\ status' = [status EXCEPT !.stopped = stopFlag]
    /\ gap' = 0
    /\ UNCHANGED <<opts, rows, page, key, prev, sent, published, stopFlag,
                   caller, starts, wire, waits, grew, owed>>

(* A frame that does not validate counts as failed and for nothing else.    *)
FailRow ==
    /\ pc = "prepare" /\ Prepare(Row.frame) = None
    /\ status' = [status EXCEPT !.failed = @ + 1]
    /\ page' = Tail(page) /\ pc' = "next"
    /\ UNCHANGED <<opts, rows, key, prev, sent, gap, published, stopFlag, caller,
                   starts, wire, waits, grew, owed>>

(* A sender that raises ends the run with the error in the status; a dry    *)
(* run has no sender, so nothing reaches the wire and nothing can raise.    *)
SendRow ==
    /\ pc = "prepare" /\ Prepare(Row.frame) # None
    /\ status' = [status EXCEPT !.packets = @ + 1, !.bytes = @ + Row.length]
    /\ sent' = sent + 1
    /\ wire' = IF opts.dryRun THEN wire
               ELSE Append(wire, [row |-> Row, frame |-> Prepare(Row.frame)])
    /\ \/ published' = status'
       \/ status'.packets % ProgressEvery # 0 /\ published' = published
    /\ page' = Tail(page) /\ pc' = "next"
    /\ owed' = FALSE
    /\ UNCHANGED <<opts, rows, key, prev, gap, stopFlag, caller, starts, waits, grew>>

(* So does one that cannot be opened in front of the first row.             *)
SenderRaises ==
    /\ ~opts.dryRun
    /\ \/ pc = "prepare" /\ Prepare(Row.frame) # None
       \/ pc = "next" /\ page = <<>> /\ key = None
    /\ status' = [status EXCEPT !.error = TRUE]
    /\ pc' = "finish"
    /\ UNCHANGED <<opts, rows, page, key, prev, sent, gap, published, stopFlag,
                   caller, starts, wire, waits, grew, owed>>

(* run() returns, _run publishes its status and the thread ends.            *)
Finish ==
    /\ pc = "finish"
    /\ published' = status
    /\ pc' = "dead"
    /\ UNCHANGED <<opts, rows, page, key, prev, sent, gap, status, stopFlag,
                   caller, starts, wire, waits, grew, owed>>

(* stop(timeout): raise the flag, join the thread, give up at the timeout.  *)
StopCall ==
    /\ caller = "idle" /\ starts > 0
    /\ stopFlag' = TRUE
    /\ caller' = "joining"
    /\ owed' = (pc = "prepare")
    /\ UNCHANGED <<opts, rows, page, key, pc, prev, sent, gap, status, published,
                   starts, wire, waits, grew>>

StopReturns ==
    /\ caller = "joining"
    /\ caller' = IF Alive THEN "timedout" ELSE "joined"
    /\ UNCHANGED <<opts, rows, page, key, pc, prev, sent, gap, status, published,
                   stopFlag, starts, wire, waits, grew, owed>>

(* A capture commits one more row to the session being replayed.            *)
CaptureCommits ==
    /\ Len(rows) < MaxRows /\ Alive
    /\ \E late \in LateRows :
          rows' = Append(rows, [late EXCEPT !.id = Len(rows) + 1])
    /\ grew' = TRUE
    /\ UNCHANGED <<opts, page, key, pc, prev, sent, gap, status, published,
                   stopFlag, caller, starts, wire, waits, owed>>

ReplayThread ==
    \/ FetchPage \/ StopSeen \/ StopAtLimit \/ SkipRow \/ PaceRow \/ Wake
    \/ FailRow \/ SendRow \/ SenderRaises \/ Finish

ReplayNext == Start \/ ReplayThread \/ StopCall \/ StopReturns \/ CaptureCommits

ReplaySpec == ReplayInit /\ [][ReplayNext]_replayVars

-----------------------------------------------------------------------------
(* Properties.                                                              *)

ReplayTypeOK ==
    /\ page \in Seq(ToSet(rows)) /\ key \in ToSet(rows) \cup {None}
    /\ pc \in {"idle", "next", "asleep", "prepare", "finish", "dead"}
    /\ status \in [packets : Nat, skipped : Nat, failed : Nat, bytes : Nat,
                   stopped : BOOLEAN, error : BOOLEAN]
    /\ caller \in {"idle", "joining", "joined", "timedout"}
    /\ sent \in Nat /\ gap \in Nat /\ starts \in 0..MaxStarts
    /\ {stopFlag, grew, owed} \subseteq BOOLEAN

CleanEnd == pc = "dead" /\ ~status.stopped /\ ~status.error

(* What a replay of a finished session is meant to send, said without its   *)
(* loop: the rows behind the offset in capture order, those selected,       *)
(* transformed, those that validate, and of these the first `limit'.        *)
Behind == {row \in ToSet(rows) : Rank(ToSet(rows), row) >= opts.offset}
Selected == {row \in Behind : Matches(opts.selection, row)}
Chosen == {row \in Selected : Prepare(row.frame) # None}

Planned ==
    LET chosen == Ordered(Chosen)
        count == IF opts.limit = None THEN Len(chosen) ELSE AtMost(opts.limit, Len(chosen))
    IN  [i \in 1..count |-> [row |-> chosen[i], frame |-> Prepare(chosen[i].frame)]]

(* The frames on the wire are at all times the beginning of the plan, and   *)
(* all of it when the replay ended by itself (offset, limit, selection,     *)
(* validation and paging in inject.py 153-187 interact: one of them counted *)
(* in the wrong place sends the wrong frames).                              *)
WireMatchesPlan ==
    ~grew /\ ~opts.dryRun =>
        /\ IsPrefix(wire, Planned)
        /\ CleanEnd => wire = Planned

(* When the replay ended by itself every row of the session was sent,       *)
(* skipped or failed, unless the limit ended it.                            *)
RowsAccounted ==
    CleanEnd /\ ~grew /\ ~LimitReached =>
        status.packets + status.skipped + status.failed = Len(rows)

(* Whatever a capture commits meanwhile, the replay keeps the capture order *)
(* and sends no row twice: each page continues behind the last (ts, id).    *)
WireInOrder ==
    \A i, j \in DOMAIN wire : i < j => Before(wire[i].row, wire[j].row)

(* The rows that were paced, in order: those selected behind the offset.    *)
PacedTimestamps == [i \in 1..Len(waits) |-> Ordered(Selected)[i].ts]

(* run() and build_schedule() compute the waits separately.  They agree in  *)
(* faithful mode at every speed, frames that failed validation included,    *)
(* and in story mode at speed 1 (there one caps before and one after        *)
(* scaling).                                                                *)
PaceMatchesSchedule ==
    /\ ~grew
    /\ opts.mode = "faithful" \/ (opts.speed = 2 /\ opts.maxGap = DefaultMaxGap)
    => waits = BuildSchedule(PacedTimestamps, opts.mode, opts.speed)

(* With validation on, what is on the wire is structurally sound after all  *)
(* transformations, not before them.                                        *)
SentFramesValid ==
    opts.validate => \A i \in DOMAIN wire : FrameValid(wire[i].frame)

(* A stop() whose join succeeded reports the final counters, not the last   *)
(* progress snapshot.                                                       *)
StopReportsFinal ==
    caller = "joined" /\ ~Alive => published = status

(* Once stop() was called only the frame being prepared at that moment may  *)
(* still go out: not the one the thread was sleeping in front of.           *)
StopIsPrompt ==
    [][stopFlag /\ Len(wire') > Len(wire) => owed]_replayVars
=============================================================================
