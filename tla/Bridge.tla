------------------------------- MODULE Bridge -------------------------------
(***************************************************************************)
(* The live L2 bridge (proxy/bridge.py): one thread drains the queues of   *)
(* two sniffers in turn and sends every frame out of the other interface.  *)
(*                                                                         *)
(* Traffic never ends: each side delivers its first Tracked frames by      *)
(* number and unnumbered ones (0) after that, which the bridge treats      *)
(* alike but the counters and the wires of the model leave out.            *)
(* Three kinds of thread act: the bridge, the sniffers, the caller of      *)
(* stop().  A sniffer's queue drops a frame when it is full.               *)
(***************************************************************************)
EXTENDS Naturals, Sequences, FiniteSets

CONSTANTS
    Tracked,    \* frames per side that carry a number
    QueueSize   \* room in a sniffer's queue

ASSUME BridgeAssumption == Tracked \in Nat /\ QueueSize \in Nat \ {0}

VARIABLES
    bpc,        \* the bridge thread: idle, left, right, rest, closing, ended
    queue,      \* per side: what the sniffer has queued; End is the sentinel
    sniffing,   \* per side: the sniffer thread runs
    broken,     \* per side: the sniffer thread ended with an error
    arrived,    \* per side: numbered frames the link delivered
    dropped,    \* per side: numbered frames lost to a full queue
    done,       \* left_done, right_done
    polling,    \* past the look at the stop flag, in queue.get()
    counts,     \* per side: frames forwarded, and errors of the sender
    out,        \* per side: numbered frames sent out of the other interface
    bstop,      \* _stop_flag
    bstatus,    \* the status of the run: stopped, error
    senders     \* the senders are open

bridgeVars == <<bpc, queue, sniffing, broken, arrived, dropped, done, polling,
                counts, out, bstop, bstatus, senders>>

Sides == {"left", "right"}
End == Tracked + 1
AfterSide(side) == IF side = "left" THEN "right" ELSE "rest"

BridgeInit ==
    /\ bpc = "idle"
    /\ queue = [s \in Sides |-> <<>>]
    /\ sniffing = [s \in Sides |-> FALSE]
    /\ broken = [s \in Sides |-> FALSE]
    /\ arrived = [s \in Sides |-> 0]
    /\ dropped = [s \in Sides |-> {}]
    /\ done = [s \in Sides |-> FALSE]
    /\ polling = FALSE
    /\ counts = [s \in Sides |-> [forwarded |-> 0, errors |-> 0]]
    /\ out = [s \in Sides |-> <<>>]
    /\ bstop = FALSE
    /\ bstatus = [stopped |-> FALSE, error |-> FALSE]
    /\ senders = FALSE

(* Mutant: the sniffer's queue has no bound.                                *)
FullNever(side) == FALSE
(* put_nowait on a full queue.                                              *)
Full(side) == Len(queue[side]) >= QueueSize

(* Mutant: the stop flag is looked at between the directions only.          *)
LeavesWhenDone(side) == done[side]
(* _drain_queue skips a side that is done, and comes back at the stop flag. *)
Leaves(side) == done[side] \/ bstop

(* Mutant: the first direction that ends takes the bridge with it.          *)
EitherDone == \E s \in Sides : done[s]
BothDone == \A s \in Sides : done[s]

(* run(): the senders open on the first frame, the sniffers start at once.  *)
BridgeStart ==
    /\ bpc = "idle"
    /\ bpc' = IF bstop THEN "closing" ELSE "left"
    /\ sniffing' = [s \in Sides |-> TRUE]
    /\ senders' = TRUE
    /\ UNCHANGED <<polling, queue, broken, arrived, dropped, done, counts, out,
                   bstop, bstatus>>

LeaveSide(side) ==
    /\ bpc = side /\ ~polling /\ Leaves(side)
    /\ bpc' = AfterSide(side)
    /\ UNCHANGED <<polling, queue, sniffing, broken, arrived, dropped, done,
                   counts, out, bstop, bstatus, senders>>

(* The flag is looked at in front of every get(), not behind it: a stop()   *)
(* that comes meanwhile still lets one frame through.                       *)
Poll(side) ==
    /\ bpc = side /\ ~polling /\ ~Leaves(side)
    /\ polling' = TRUE
    /\ UNCHANGED <<bpc, queue, sniffing, broken, arrived, dropped, done, counts,
                   out, bstop, bstatus, senders>>

Draining(side) == bpc = side /\ polling

(* queue.get(timeout=0.03) finds nothing.                                   *)
QueueEmpty(side) ==
    /\ Draining(side) /\ queue[side] = <<>>
    /\ bpc' = AfterSide(side)
    /\ polling' = FALSE
    /\ UNCHANGED <<queue, sniffing, broken, arrived, dropped, done,
                   counts, out, bstop, bstatus, senders>>

Numbered(frame) == frame \in 1..Tracked

Forward(side) ==
    /\ Draining(side) /\ queue[side] # <<>>
    /\ LET frame == Head(queue[side])
       IN  /\ frame # End
           /\ counts' = IF Numbered(frame)
                        THEN [counts EXCEPT ![side].forwarded = @ + 1] ELSE counts
           /\ out' = IF Numbered(frame)
                     THEN [out EXCEPT ![side] = Append(@, frame)] ELSE out
    /\ queue' = [queue EXCEPT ![side] = Tail(@)]
    /\ polling' = FALSE
    /\ UNCHANGED <<bpc, sniffing, broken, arrived, dropped, done, bstop, bstatus,
                   senders>>

(* A send that raises loses the frame and is counted; the drain goes on.    *)
(* (Of an unnumbered frame nothing is counted: it is like Forward.)         *)
SendFails(side) ==
    /\ Draining(side) /\ queue[side] # <<>>
    /\ LET frame == Head(queue[side])
       IN  /\ Numbered(frame)
           /\ counts' = [counts EXCEPT ![side].errors = @ + 1]
    /\ queue' = [queue EXCEPT ![side] = Tail(@)]
    /\ polling' = FALSE
    /\ UNCHANGED <<bpc, sniffing, broken, arrived, dropped, done, out,
                   bstop, bstatus, senders>>

(* The sentinel ends the side; with the sniffer's error it ends the bridge. *)
SideEnds(side) ==
    /\ Draining(side) /\ queue[side] # <<>> /\ Head(queue[side]) = End
    /\ queue' = [queue EXCEPT ![side] = Tail(@)]
    /\ IF broken[side]
       THEN /\ bstatus' = [bstatus EXCEPT !.error = TRUE]
            /\ bpc' = "closing"
            /\ UNCHANGED done
       ELSE /\ done' = [done EXCEPT ![side] = TRUE]
            /\ bpc' = AfterSide(side)
            /\ UNCHANGED bstatus
    /\ polling' = FALSE
    /\ UNCHANGED <<sniffing, broken, arrived, dropped, counts, out,
                   bstop, senders>>

(* The bottom of the loop: both sides done, or progress and the next turn,  *)
(* which begins by looking at the stop flag.                                *)
Rest ==
    /\ bpc = "rest"
    /\ bpc' = IF BothDone \/ bstop THEN "closing" ELSE "left"
    /\ UNCHANGED <<polling, queue, sniffing, broken, arrived, dropped, done, counts, out,
                   bstop, bstatus, senders>>

(* The finally block.  _close calls close() on all four: the senders close, *)
(* a ScapyBackend has no close() and goes on sniffing.                      *)
Close ==
    /\ bpc = "closing"
    /\ bstatus' = [bstatus EXCEPT !.stopped = bstop]
    /\ senders' = FALSE
    /\ bpc' = "ended"
    /\ UNCHANGED <<polling, queue, sniffing, broken, arrived, dropped, done,
                   counts, out, bstop>>

(* The link delivers a frame to a sniffer; a full queue drops it.           *)
Deliver(side) ==
    /\ sniffing[side]
    /\ LET number == IF arrived[side] < Tracked THEN arrived[side] + 1 ELSE 0
       IN  /\ arrived' = [arrived EXCEPT ![side] = IF number = 0 THEN @ ELSE number]
           /\ IF Full(side)
              THEN /\ dropped' = [dropped EXCEPT ![side] = @ \cup ({number} \ {0})]
                   /\ UNCHANGED queue
              ELSE /\ queue' = [queue EXCEPT ![side] = Append(@, number)]
                   /\ UNCHANGED dropped
    /\ UNCHANGED <<polling, bpc, sniffing, broken, done, counts, out, bstop,
                   bstatus, senders>>

(* A sniffer thread ends, by itself or with an error: the sentinel waits    *)
(* for room behind the frames.                                              *)
SnifferEnds(side) ==
    /\ sniffing[side] /\ ~Full(side)
    /\ sniffing' = [sniffing EXCEPT ![side] = FALSE]
    /\ \E error \in BOOLEAN : broken' = [broken EXCEPT ![side] = error]
    /\ queue' = [queue EXCEPT ![side] = Append(@, End)]
    /\ UNCHANGED <<polling, bpc, arrived, dropped, done, counts, out, bstop,
                   bstatus, senders>>

BridgeStop ==
    /\ ~bstop
    /\ bstop' = TRUE
    /\ UNCHANGED <<polling, bpc, queue, sniffing, broken, arrived, dropped, done,
                   counts, out, bstatus, senders>>

BridgeThread ==
    \/ Rest \/ Close
    \/ \E s \in Sides : LeaveSide(s) \/ Poll(s) \/ QueueEmpty(s) \/ Forward(s)
                        \/ SendFails(s) \/ SideEnds(s)

BridgeNext ==
    \/ BridgeStart \/ BridgeThread \/ BridgeStop
    \/ \E s \in Sides : Deliver(s) \/ SnifferEnds(s)

BridgeSpec == BridgeInit /\ [][BridgeNext]_bridgeVars /\ WF_bridgeVars(BridgeThread)

-----------------------------------------------------------------------------
(* Properties.                                                              *)

BridgeTypeOK ==
    /\ bpc \in {"idle", "left", "right", "rest", "closing", "ended"}
    /\ \A s \in Sides :
          /\ queue[s] \in Seq(0..End) /\ Len(queue[s]) <= QueueSize
          /\ arrived[s] \in 0..Tracked /\ dropped[s] \subseteq 1..Tracked
          /\ counts[s] \in [forwarded : 0..Tracked, errors : 0..Tracked]
    /\ {sniffing[s] : s \in Sides} \cup {broken[s] : s \in Sides}
         \cup {done[s] : s \in Sides} \cup {bstop, polling, senders} \subseteq BOOLEAN

Queued(side) == {i \in DOMAIN queue[side] : Numbered(queue[side][i])}

(* Each direction is a FIFO that loses frames only where a counter says so: *)
(* what left on the other side is in order of arrival without repetition,   *)
(* and every frame that arrived is forwarded, counted as an error, dropped  *)
(* by the sniffer or still queued.                                          *)
BothWaysAccounted ==
    \A s \in Sides :
        /\ \A i, j \in DOMAIN out[s] : i < j => out[s][i] < out[s][j]
        /\ Len(out[s]) = counts[s].forwarded
        /\ arrived[s] = counts[s].forwarded + counts[s].errors
                        + Cardinality(dropped[s]) + Cardinality(Queued(s))

(* A bridge that ends without having been stopped either shows an error, or *)
(* both its sniffers ended cleanly and nothing they captured was left over. *)
EndsWithReason ==
    bpc = "ended" /\ ~bstatus.stopped =>
        \/ bstatus.error /\ \E s \in Sides : broken[s]
        \/ ~bstatus.error /\ \A s \in Sides : ~sniffing[s] /\ ~broken[s] /\ queue[s] = <<>>

(* stop() ends the bridge however much traffic there is: the flag is looked *)
(* at before every frame, not only between the two directions.              *)
BridgeStopEnds == bstop /\ bpc # "idle" ~> bpc = "ended"
=============================================================================
