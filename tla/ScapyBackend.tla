----------------------------- MODULE ScapyBackend -----------------------------
(***************************************************************************)
(* The live capture source: Scapy's sniff() on a thread of its own feeds a *)
(* bounded queue, packets() drains it on the capture thread, stop() is     *)
(* called from any thread.  The threads share the running flag, the queue  *)
(* and the pending error, and no lock but the queue's.                     *)
(*                                                                         *)
(* sniff() is not part of the repository.  Of it the code uses that prn    *)
(* and then stop_filter are called for every frame, that neither is called *)
(* without a frame, and that it raises when the interface fails.  Frames   *)
(* are numbered in the order they arrive; None ends the stream.  start()   *)
(* is called once per backend, as its callers do.                          *)
(***************************************************************************)
EXTENDS Naturals, Sequences, FiniteSets

CONSTANTS
  Capacity,    \* _QUEUE_SIZE
  Stoppers,    \* threads that call stop(), each at most once
  MaxArrivals  \* bound: frames that arrive before stop() clears the flag

ASSUME BackendAssumption ==
  /\ Capacity \in Nat \ {0}
  /\ MaxArrivals \in Nat

VARIABLES
  running,    \* _running
  err,        \* _error is set
  queue,      \* _queue
  drops,      \* _drops
  sniffer,    \* where the sniffing thread is
  reader,     \* where the thread that iterates over packets() is
  stopper,    \* where each thread is in stop()
  arrived,    \* history: frames seen by sniff()
  delivered,  \* history: frames packets() has yielded
  failed      \* history: sniff() raised

seen == <<arrived, delivered, failed>>
vars == <<running, err, queue, drops, sniffer, reader, stopper, seen>>

None == 0
Frames == 1 .. MaxArrivals + 1

Init ==
  /\ running = FALSE /\ err = FALSE /\ queue = <<>> /\ drops = 0
  /\ sniffer = "none" /\ reader = "reading"
  /\ stopper = [s \in Stoppers |-> "idle"]
  /\ arrived = 0 /\ delivered = <<>> /\ failed = FALSE

-----------------------------------------------------------------------------
(* start() and the sniffing thread *)

Start ==
  /\ sniffer = "none"
  /\ running' = TRUE /\ err' = FALSE /\ drops' = 0
  /\ sniffer' = "sniffing"
  /\ UNCHANGED <<queue, reader, stopper, seen>>

\* A frame: prn is called with it.  One may still come after stop().
Arrive ==
  /\ sniffer = "sniffing"
  /\ arrived < IF running THEN MaxArrivals ELSE MaxArrivals + 1
  /\ arrived' = arrived + 1
  /\ sniffer' = "put"
  /\ UNCHANGED <<running, err, queue, drops, reader, stopper, delivered,
                 failed>>

\* Mutant: queue.Queue() without a maxsize.
HasRoomAlways == TRUE

HasRoom == Len(queue) < Capacity

\* Mutant: a stack instead of a queue.
QueuedFirst(item) == <<item>> \o queue

Queued(item) == Append(queue, item)

\* _enqueue finds room within its timeout
Put ==
  /\ sniffer = "put"
  /\ HasRoom
  /\ queue' = Queued(arrived)
  /\ sniffer' = "filter"
  /\ UNCHANGED <<running, err, drops, reader, stopper, seen>>

\* Mutant: the frame is dropped without being counted.
CountedDropNot == drops

CountedDrop == drops + 1

\* _enqueue gives up
Full ==
  /\ sniffer = "put"
  /\ ~HasRoom
  /\ drops' = CountedDrop
  /\ sniffer' = "filter"
  /\ UNCHANGED <<running, err, queue, reader, stopper, seen>>

StopFilter ==
  /\ sniffer = "filter"
  /\ sniffer' = IF running THEN "sniffing" ELSE "closing"
  /\ UNCHANGED <<running, err, queue, drops, reader, stopper, seen>>

\* Mutant: a failure after stop() is taken for the end of the capture.
RecordedUnlessStopped == running
Recorded == TRUE

SniffFails ==
  /\ sniffer = "sniffing"
  /\ failed' = TRUE
  /\ err' = Recorded
  /\ sniffer' = "closing"
  /\ UNCHANGED <<running, queue, drops, reader, stopper, arrived, delivered>>

\* finally: the flag, then the end marker, which waits for room.
Close ==
  /\ sniffer = "closing"
  /\ running' = FALSE
  /\ sniffer' = "marking"
  /\ UNCHANGED <<err, queue, drops, reader, stopper, seen>>

\* Mutant: put_nowait, its exception ignored.
PutEndNoWait ==
  /\ sniffer = "marking"
  /\ queue' = IF HasRoom THEN Append(queue, None) ELSE queue
  /\ sniffer' = "dead"
  /\ UNCHANGED <<running, err, drops, reader, stopper, seen>>

PutEnd ==
  /\ sniffer = "marking"
  /\ HasRoom
  /\ queue' = Append(queue, None)
  /\ sniffer' = "dead"
  /\ UNCHANGED <<running, err, drops, reader, stopper, seen>>

-----------------------------------------------------------------------------
(* packets() *)

Receive ==
  /\ reader = "reading"
  /\ queue # <<>>
  /\ Head(queue) # None
  /\ delivered' = Append(delivered, Head(queue))
  /\ queue' = Tail(queue)
  /\ UNCHANGED <<running, err, drops, sniffer, reader, stopper, arrived,
                 failed>>

\* Mutant: the loop also ends when the flag is down, whatever is queued.
ReceiveEndOrStopped ==
  /\ reader = "reading"
  /\ queue # <<>>
  /\ Head(queue) = None \/ ~running
  /\ queue' = Tail(queue)
  /\ reader' = "ended"
  /\ UNCHANGED <<running, err, drops, sniffer, stopper, seen>>

ReceiveEnd ==
  /\ reader = "reading"
  /\ queue # <<>>
  /\ Head(queue) = None
  /\ queue' = Tail(queue)
  /\ reader' = "ended"
  /\ UNCHANGED <<running, err, drops, sniffer, stopper, seen>>

\* Looking for the error and taking it are two steps: another thread that
\* looked in between raises it as well.
ReaderLooks ==
  /\ reader = "ended"
  /\ reader' = IF err THEN "found" ELSE "returned"
  /\ UNCHANGED <<running, err, queue, drops, sniffer, stopper, seen>>

ReaderRaises ==
  /\ reader = "found"
  /\ err' = FALSE
  /\ reader' = "raised"
  /\ UNCHANGED <<running, queue, drops, sniffer, stopper, seen>>

\* The capture thread failed elsewhere and does not come back for more.
ReaderLeaves ==
  /\ reader = "reading"
  /\ reader' = "gone"
  /\ UNCHANGED <<running, err, queue, drops, sniffer, stopper, seen>>

-----------------------------------------------------------------------------
(* stop() *)

ClearRunning(s) ==
  /\ stopper[s] = "idle"
  /\ running' = FALSE
  /\ stopper' = [stopper EXCEPT ![s] = "joining"]
  /\ UNCHANGED <<err, queue, drops, sniffer, reader, seen>>

\* join() returns, at the latest after its timeout, whatever the sniffer does.
StopLooks(s) ==
  /\ stopper[s] = "joining"
  /\ stopper' = [stopper EXCEPT ![s] = IF err THEN "found" ELSE "returned"]
  /\ UNCHANGED <<running, err, queue, drops, sniffer, reader, seen>>

StopRaises(s) ==
  /\ stopper[s] = "found"
  /\ err' = FALSE
  /\ stopper' = [stopper EXCEPT ![s] = "raised"]
  /\ UNCHANGED <<running, queue, drops, sniffer, reader, seen>>

-----------------------------------------------------------------------------
SnifferStep == Put \/ Full \/ StopFilter \/ Close \/ PutEnd
ReaderStep == Receive \/ ReceiveEnd \/ ReaderLooks \/ ReaderRaises
StopperStep(s) == StopLooks(s) \/ StopRaises(s)


Next ==
  \/ Start \/ Arrive \/ SniffFails \/ SnifferStep
  \/ ReaderStep \/ ReaderLeaves
  \/ \E s \in Stoppers : ClearRunning(s) \/ StopperStep(s)

Spec == Init /\ [][Next]_vars

\* The threads are scheduled.
FairSpec ==
  /\ Spec
  /\ WF_vars(SnifferStep) /\ WF_vars(ReaderStep)
  /\ \A s \in Stoppers : WF_vars(StopperStep(s))

\* And the link is never silent for ever.
BusySpec == FairSpec /\ WF_vars(Arrive)

-----------------------------------------------------------------------------
(* Properties *)

\* Every variable has its type.
TypeOK ==
  /\ running \in BOOLEAN /\ err \in BOOLEAN /\ failed \in BOOLEAN
  /\ queue \in Seq({None} \cup Frames) /\ Len(queue) <= Capacity
  /\ drops \in Nat
  /\ sniffer \in {"none", "sniffing", "put", "filter", "closing", "marking",
                  "dead"}
  /\ reader \in {"reading", "ended", "found", "returned", "raised", "gone"}
  /\ stopper \in [Stoppers -> {"idle", "joining", "found", "returned",
                               "raised"}]
  /\ arrived \in 0 .. MaxArrivals + 1
  /\ delivered \in Seq(Frames)

QueuedFrames == {i \in DOMAIN queue : queue[i] # None}
InHand == IF sniffer = "put" THEN 1 ELSE 0

\* backend.drops is the whole loss: every frame sniff() saw was delivered, is
\* queued, is in the hands of _enqueue, or was counted as dropped.
EveryFrameAccounted ==
  arrived = Len(delivered) + Cardinality(QueuedFrames) + InHand + drops

Increasing(s) == \A i, j \in DOMAIN s : i < j => s[i] < s[j]

\* Frames come out in the order they went in, none twice, and nothing is
\* queued behind the end marker.
InOrder ==
  /\ Increasing(delivered)
  /\ \A i, j \in QueuedFrames : i < j => queue[i] < queue[j]
  /\ \A i \in DOMAIN delivered, j \in QueuedFrames : delivered[i] < queue[j]
  /\ \A i \in DOMAIN queue : queue[i] = None => i = Len(queue)

\* packets() ends, with or without an error, only when the sniffer is through
\* and nothing it queued is left behind.
EndMeansDrained ==
  reader \in {"ended", "found", "returned", "raised"} =>
    sniffer = "dead" /\ queue = <<>>

\* The error of a failed sniff() is never lost: it is pending, or some call
\* of packets() or stop() raised it.
ErrorRaised ==
  failed =>
    err \/ reader = "raised" \/ \E s \in Stoppers : stopper[s] = "raised"

\* The state of the source as the capture pipeline models it.
SourceState ==
  CASE sniffer = "none" -> "idle"
    [] sniffer \in {"sniffing", "put", "filter"} ->
         IF running THEN "live" ELSE "stopping"
    [] OTHER -> IF ~failed THEN "ended" ELSE IF err THEN "broken" ELSE "taken"

Contract == INSTANCE CaptureSource WITH source <- SourceState,
                                        MaxDrops <- MaxArrivals + 1

\* ScapyBackend is a source as CapturePipeline assumes it.
ImplementsSource == Contract!SourceSpec

\* base.py: packets() "blocks until a packet or stop".
StopReleasesReader ==
  ~running /\ sniffer # "none" ~> reader # "reading"
=============================================================================
