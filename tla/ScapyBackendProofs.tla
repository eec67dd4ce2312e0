-------------------------- MODULE ScapyBackendProofs --------------------------
(***************************************************************************)
(* Proofs about the live source, for every queue size, every number of     *)
(* frames and every number of stop() calls; and that it is a source as     *)
(* CapturePipeline assumes it.                                             *)
(***************************************************************************)
EXTENDS ScapyBackend, FiniteSetTheorems, SequenceTheorems, TLAPS

Items == {None} \cup Frames

(* The frames among the items of a queue.                                    *)
FramesIn(q) == {i \in DOMAIN q : q[i] # None}

LEMMA FramesInFinite ==
  ASSUME NEW q \in Seq(Items)
  PROVE  /\ FramesIn(q) = {i \in 1 .. Len(q) : q[i] # None}
         /\ IsFiniteSet(FramesIn(q)) /\ Cardinality(FramesIn(q)) \in Nat
<1>1. Len(q) \in Nat /\ DOMAIN q = 1 .. Len(q) /\ IsFiniteSet(1 .. Len(q))
  BY LenProperties, FS_Interval
<1>2. FramesIn(q) \in SUBSET (1 .. Len(q))
  BY <1>1 DEF FramesIn
<1> QED
  BY <1>1, <1>2, FS_Subset, FS_CardinalityType DEF FramesIn

(* A frame put into the queue is one more; the end marker is none.           *)
LEMMA FramesAppended ==
  ASSUME NEW q \in Seq(Items), NEW x \in Items
  PROVE  Cardinality(FramesIn(Append(q, x)))
           = Cardinality(FramesIn(q)) + (IF x = None THEN 0 ELSE 1)
<1>1. /\ Len(q) \in Nat /\ Append(q, x) \in Seq(Items)
      /\ Len(Append(q, x)) = Len(q) + 1
      /\ \A i \in 1 .. Len(q) : Append(q, x)[i] = q[i]
      /\ Append(q, x)[Len(q) + 1] = x
  BY LenProperties, AppendProperties
<1>2. FramesIn(Append(q, x)) = {i \in 1 .. Len(q) + 1 : Append(q, x)[i] # None}
  BY <1>1, FramesInFinite
<1>3. /\ FramesIn(q) = {i \in 1 .. Len(q) : q[i] # None}
      /\ IsFiniteSet(FramesIn(q)) /\ Cardinality(FramesIn(q)) \in Nat
  BY FramesInFinite
<1>4. CASE x = None
  <2>1. FramesIn(Append(q, x)) = FramesIn(q)
    BY <1>1, <1>2, <1>3, <1>4
  <2> QED
    BY <1>3, <1>4, <2>1
<1>5. CASE x # None
  <2>1. /\ FramesIn(Append(q, x)) = FramesIn(q) \cup {Len(q) + 1}
        /\ Len(q) + 1 \notin FramesIn(q)
    BY <1>1, <1>2, <1>3, <1>5
  <2> QED
    BY <1>3, <1>5, <2>1, FS_AddElement
<1> QED
  BY <1>4, <1>5

(* A frame taken from the queue is one less; the end marker is none.         *)
LEMMA FramesTaken ==
  ASSUME NEW q \in Seq(Items), q # <<>>
  PROVE  Cardinality(FramesIn(q))
           = Cardinality(FramesIn(Tail(q))) + (IF Head(q) = None THEN 0 ELSE 1)
<1> DEFINE S == FramesIn(Tail(q))
           T == FramesIn(q) \ {1}
           shift == [i \in S |-> i + 1]
<1>1. /\ Len(q) \in Nat \ {0} /\ Tail(q) \in Seq(Items) /\ Len(Tail(q)) = Len(q) - 1
      /\ \A i \in 1 .. Len(Tail(q)) : Tail(q)[i] = q[i + 1]
      /\ Head(q) = q[1]
  BY EmptySeq, HeadTailProperties
<1>2. /\ S = {i \in 1 .. Len(q) - 1 : q[i + 1] # None}
      /\ IsFiniteSet(S) /\ Cardinality(S) \in Nat
  BY <1>1, FramesInFinite
<1>3. /\ FramesIn(q) = {i \in 1 .. Len(q) : q[i] # None}
      /\ IsFiniteSet(FramesIn(q)) /\ Cardinality(FramesIn(q)) \in Nat
  BY FramesInFinite
<1>4. T = {i \in 2 .. Len(q) : q[i] # None}
  BY <1>1, <1>3
<1>5. shift \in Bijection(S, T)
  <2> HIDE DEF S, T
  <2>1. shift \in [S -> T]
    BY <1>1, <1>2, <1>4
  <2>2. \A i, j \in S : shift[i] = shift[j] => i = j
    BY <1>1, <1>2
  <2>3. \A t \in T : \E i \in S : shift[i] = t
    <3> SUFFICES ASSUME NEW t \in T PROVE \E i \in S : shift[i] = t
      OBVIOUS
    <3>1. t - 1 \in S /\ (t - 1) + 1 = t
      BY <1>1, <1>2, <1>4
    <3> QED
      BY <3>1
  <2> QED
    BY <2>1, <2>2, <2>3 DEF Bijection, Injection, Surjection, IsInjective
<1>6. Cardinality(T) = Cardinality(S)
  BY <1>2, <1>5, FS_Bijection DEF ExistsBijection
<1>7. CASE Head(q) = None
  <2>1. T = FramesIn(q)
    BY <1>1, <1>3, <1>7
  <2> HIDE DEF S, T
  <2> QED
    BY <1>2, <1>6, <1>7, <2>1 DEF S
<1>8. CASE Head(q) # None
  <2>1. 1 \in FramesIn(q)
    BY <1>1, <1>3, <1>8
  <2>2. Cardinality(T) = Cardinality(FramesIn(q)) - 1
    BY <1>3, <2>1, FS_RemoveElement
  <2> HIDE DEF S, T
  <2> QED
    BY <1>2, <1>3, <1>6, <1>8, <2>2 DEF S
<1> QED
  BY <1>7, <1>8

-----------------------------------------------------------------------------
(* What the threads rest on *)

(* Items before the one in the hands of _enqueue are older than it.          *)
Older ==
  /\ \A i \in QueuedFrames : queue[i] + InHand <= arrived
  /\ \A i \in DOMAIN delivered : delivered[i] + InHand <= arrived

(* The end marker is queued by a sniffer that is through, and packets() ends *)
(* only by taking it, so that nothing can be queued behind it or after it.   *)
OrderInv ==
  /\ \A i \in DOMAIN queue : queue[i] = None => sniffer = "dead"
  /\ Older
  /\ InOrder
  /\ EndMeansDrained

(* An error is pending or was raised; before start() there is none, and no   *)
(* thread that has failed goes on sniffing.                                  *)
ErrorInv ==
  /\ failed => sniffer \in {"closing", "marking", "dead"}
  /\ ErrorRaised

AccountInv ==
  /\ sniffer = "none" => drops = 0
  /\ EveryFrameAccounted

(* A frame in the hands of _enqueue has a number, and is not an end marker.  *)
TypeInv == TypeOK /\ (sniffer = "put" => arrived # None)

LEMMA TypeInit == Init => TypeInv
<1> SUFFICES ASSUME Init PROVE TypeInv
  OBVIOUS
<1>1. queue \in Seq({None} \cup Frames) /\ delivered \in Seq(Frames) /\ Len(queue) = 0
  BY EmptySeq DEF Init
<1>2. arrived \in 0 .. MaxArrivals + 1 /\ Len(queue) <= Capacity
  BY <1>1, BackendAssumption DEF Init, BackendAssumption
<1> QED
  BY <1>1, <1>2 DEF Init, TypeInv, TypeOK

LEMMA Typing ==
  ASSUME TypeInv
  PROVE  /\ queue \in Seq(Items) /\ Len(queue) \in Nat
         /\ DOMAIN queue = 1 .. Len(queue)
         /\ delivered \in Seq(Frames) /\ Len(delivered) \in Nat
         /\ DOMAIN delivered = 1 .. Len(delivered)
         /\ MaxArrivals \in Nat /\ Capacity \in Nat \ {0}
         /\ arrived \in 0 .. MaxArrivals + 1 /\ drops \in Nat
         /\ InHand \in {0, 1}
BY BackendAssumption, LenProperties
DEF TypeInv, TypeOK, Items, BackendAssumption, InHand

(* What an item put at the end, or taken from the front, makes of the queue. *)
LEMMA ItemQueued ==
  ASSUME TypeInv, NEW x \in Items, queue' = Append(queue, x), HasRoom
  PROVE  /\ queue' \in Seq({None} \cup Frames) /\ Len(queue') <= Capacity
         /\ Len(queue') = Len(queue) + 1 /\ DOMAIN queue' = 1 .. Len(queue) + 1
         /\ \A i \in 1 .. Len(queue) : queue'[i] = queue[i]
         /\ queue'[Len(queue) + 1] = x
<1>1. /\ queue' \in Seq(Items) /\ Len(queue') = Len(queue) + 1
      /\ \A i \in 1 .. Len(queue) : queue'[i] = queue[i]
      /\ queue'[Len(queue) + 1] = x
  BY Typing, AppendProperties
<1>2. DOMAIN queue' = 1 .. Len(queue) + 1
  BY <1>1, LenProperties
<1> QED
  BY <1>1, <1>2, Typing DEF HasRoom, Items

LEMMA ItemTaken ==
  ASSUME TypeInv, queue # <<>>, queue' = Tail(queue)
  PROVE  /\ queue' \in Seq({None} \cup Frames) /\ Len(queue') <= Capacity
         /\ Len(queue) \in Nat \ {0}
         /\ Len(queue') = Len(queue) - 1 /\ DOMAIN queue' = 1 .. Len(queue) - 1
         /\ \A i \in 1 .. Len(queue) - 1 : queue'[i] = queue[i + 1]
         /\ Head(queue) = queue[1] /\ Head(queue) \in Items
<1>1. /\ queue' \in Seq(Items) /\ Len(queue') = Len(queue) - 1
      /\ \A i \in 1 .. Len(queue') : queue'[i] = queue[i + 1]
      /\ Len(queue) \in Nat \ {0} /\ Head(queue) \in Items
  BY Typing, HeadTailProperties, EmptySeq
<1>2. DOMAIN queue' = 1 .. Len(queue) - 1
  BY <1>1, LenProperties
<1>3. Len(queue) <= Capacity
  BY DEF TypeInv, TypeOK
<1> QED
  BY <1>1, <1>2, <1>3, Typing DEF Items

(* The steps that touch neither the queue nor what packets() has yielded.    *)
QueueUntouched ==
  \/ Start \/ Full \/ StopFilter \/ SniffFails \/ Close
  \/ ReaderLooks \/ ReaderRaises \/ ReaderLeaves
  \/ (\E s \in Stoppers : ClearRunning(s) \/ StopperStep(s))
  \/ UNCHANGED vars

LEMMA UntouchedEffect ==
  ASSUME TypeInv, QueueUntouched
  PROVE  /\ UNCHANGED <<queue, arrived, delivered>>
         /\ sniffer' # "put" \/ sniffer = "put"
         /\ sniffer' = "dead" <=> sniffer = "dead"
         /\ sniffer' # sniffer => sniffer # "dead"
         /\ reader' \in {"ended", "found", "returned", "raised"} =>
              reader \in {"ended", "found", "returned", "raised"}
         /\ ~Full => InHand' = InHand
<1>1. CASE Start \/ Full \/ StopFilter \/ SniffFails \/ Close
  BY <1>1 DEF Start, Full, StopFilter, SniffFails, Close, seen, InHand
<1>2. CASE ReaderLooks \/ ReaderRaises \/ ReaderLeaves
  BY <1>2 DEF ReaderLooks, ReaderRaises, ReaderLeaves, seen, InHand
<1>3. CASE \E s \in Stoppers : ClearRunning(s) \/ StopperStep(s)
  BY <1>3 DEF ClearRunning, StopperStep, StopLooks, StopRaises, seen, InHand
<1>4. CASE UNCHANGED vars
  BY <1>4 DEF vars, seen, InHand
<1> QED
  BY <1>1, <1>2, <1>3, <1>4 DEF QueueUntouched

LEMMA TypeStep == TypeInv /\ [Next]_vars => TypeInv'
<1> SUFFICES ASSUME TypeInv, [Next]_vars
             PROVE  TypeInv'
  OBVIOUS
<1> USE DEF TypeInv, TypeOK, seen
<1>1. CASE Start \/ StopFilter \/ SniffFails \/ Close
  <2>1. CASE Start
    BY <2>1 DEF Start
  <2>2. CASE StopFilter \/ Close
    BY <2>2 DEF StopFilter, Close
  <2>3. CASE SniffFails
    BY <2>3 DEF SniffFails, Recorded
  <2> QED
    BY <1>1, <2>1, <2>2, <2>3
<1>2. CASE Full
  <2>1. drops' \in Nat
    BY <1>2 DEF Full, CountedDrop
  <2> QED
    BY <1>2, <2>1 DEF Full
<1>3. CASE Arrive
  <2>1. arrived' \in 0 .. MaxArrivals + 1 /\ arrived' # None
    <3> HIDE DEF TypeInv
    <3> QED
      BY <1>3, Typing DEF Arrive, None
  <2> QED
    BY <1>3, <2>1 DEF Arrive
<1>4. CASE Put \/ PutEnd
  <2>1. queue' \in Seq({None} \cup Frames) /\ Len(queue') <= Capacity
    <3> HIDE DEF TypeInv
    <3>1. arrived \in Items /\ None \in Items
      BY Typing DEF Items, Frames, None
    <3> QED
      BY <1>4, <3>1, ItemQueued DEF Put, PutEnd, Queued
  <2> QED
    BY <1>4, <2>1 DEF Put, PutEnd
<1>5. CASE Receive \/ ReceiveEnd
  <2>1. queue' \in Seq({None} \cup Frames) /\ Len(queue') <= Capacity
    <3> HIDE DEF TypeInv
    <3> QED
      BY <1>5, ItemTaken DEF Receive, ReceiveEnd
  <2>2. delivered' \in Seq(Frames)
    <3> HIDE DEF TypeInv
    <3>1. CASE Receive
      <4>1. Head(queue) \in Items /\ Head(queue) # None
        BY <3>1, Typing, HeadTailProperties DEF Receive
      <4>2. Head(queue) \in Frames
        BY <4>1 DEF Items
      <4> QED
        BY <3>1, <4>2, Typing, AppendProperties DEF Receive
    <3>2. CASE ReceiveEnd
      BY <3>2, Typing DEF ReceiveEnd, seen
    <3> QED
      BY <1>5, <3>1, <3>2
  <2> QED
    BY <1>5, <2>1, <2>2 DEF Receive, ReceiveEnd
<1>6. CASE ReaderLooks \/ ReaderRaises \/ ReaderLeaves
  BY <1>6 DEF ReaderLooks, ReaderRaises, ReaderLeaves
<1>7. CASE \E s \in Stoppers : ClearRunning(s) \/ StopperStep(s)
  BY <1>7 DEF ClearRunning, StopperStep, StopLooks, StopRaises
<1>8. CASE UNCHANGED vars
  BY <1>8 DEF vars
<1> QED
  BY <1>1, <1>2, <1>3, <1>4, <1>5, <1>6, <1>7, <1>8
  DEF Next, SnifferStep, ReaderStep

(* Every variable of the backend keeps its type; the queue its bound.        *)
THEOREM BackendTypes == Spec => []TypeOK
<1>1. TypeInv => TypeOK
  BY DEF TypeInv
<1> QED
  BY <1>1, TypeInit, TypeStep, PTL DEF Spec

-----------------------------------------------------------------------------
(* The order of the frames, and the end of packets() *)

(* An item before the one in the hands of _enqueue is older than that one.   *)
LEMMA OrderPut ==
  ASSUME TypeInv, OrderInv, Put
  PROVE  OrderInv'
<1>1. /\ sniffer = "put" /\ sniffer' = "filter" /\ queue' = Append(queue, arrived)
      /\ UNCHANGED <<arrived, delivered, reader>> /\ HasRoom
  BY DEF Put, Queued, seen
<1>2. InHand = 1 /\ InHand' = 0 /\ arrived # None
  BY <1>1 DEF InHand, TypeInv
<1>3. arrived \in Items
  BY Typing DEF Items, Frames, None
<1>4. /\ DOMAIN queue' = 1 .. Len(queue) + 1 /\ Len(queue') = Len(queue) + 1
      /\ \A i \in 1 .. Len(queue) : queue'[i] = queue[i]
      /\ queue'[Len(queue) + 1] = arrived
  BY <1>1, <1>3, ItemQueued
<1>5. \A i \in 1 .. Len(queue) : queue[i] # None /\ queue[i] \in Nat /\ queue[i] < arrived
  <2>1. \A i \in 1 .. Len(queue) : queue[i] \in Nat
    BY Typing, ElementOfSeq DEF Items, Frames, None
  <2>2. \A i \in 1 .. Len(queue) : queue[i] # None
    BY <1>1, Typing DEF OrderInv
  <2>3. QueuedFrames = 1 .. Len(queue)
    BY <2>2, Typing DEF QueuedFrames
  <2>4. \A i \in 1 .. Len(queue) : queue[i] + 1 <= arrived
    BY <1>2, <2>3 DEF OrderInv, Older
  <2> QED
    BY <2>1, <2>2, <2>4, Typing
<1>6. \A i \in DOMAIN delivered : delivered[i] \in Nat /\ delivered[i] < arrived
  BY <1>2, Typing, ElementOfSeq DEF OrderInv, Older, Frames
<1>7. QueuedFrames' = 1 .. Len(queue) + 1
  BY <1>2, <1>4, <1>5, Typing DEF QueuedFrames
<1>8. Older'
  BY <1>1, <1>2, <1>4, <1>5, <1>6, <1>7, Typing DEF Older
<1>9. InOrder'
  <2>1. Increasing(delivered)'
    BY <1>1 DEF OrderInv, InOrder, Increasing
  <2>2. (\A i, j \in QueuedFrames : i < j => queue[i] < queue[j])'
    <3> SUFFICES ASSUME NEW i \in 1 .. Len(queue) + 1, NEW j \in 1 .. Len(queue) + 1, i < j
                 PROVE  queue'[i] < queue'[j]
      BY <1>7
    <3>1. i \in 1 .. Len(queue)
      BY Typing
    <3>2. CASE j = Len(queue) + 1
      BY <1>4, <1>5, <3>1, <3>2
    <3>3. CASE j \in 1 .. Len(queue)
      <4>1. i \in QueuedFrames /\ j \in QueuedFrames
        BY <1>5, <3>1, <3>3, Typing DEF QueuedFrames
      <4> QED
        BY <1>4, <3>1, <3>3, <4>1 DEF OrderInv, InOrder
    <3> QED
      BY <3>2, <3>3, Typing
  <2>3. (\A i \in DOMAIN delivered, j \in QueuedFrames : delivered[i] < queue[j])'
    <3> SUFFICES ASSUME NEW i \in DOMAIN delivered, NEW j \in 1 .. Len(queue) + 1
                 PROVE  delivered[i] < queue'[j]
      BY <1>1, <1>7
    <3>1. CASE j = Len(queue) + 1
      BY <1>4, <1>6, <3>1
    <3>2. CASE j \in 1 .. Len(queue)
      <4>1. j \in QueuedFrames
        BY <1>5, <3>2, Typing DEF QueuedFrames
      <4> QED
        BY <1>4, <3>2, <4>1 DEF OrderInv, InOrder
    <3> QED
      BY <3>1, <3>2, Typing
  <2>4. (\A i \in DOMAIN queue : queue[i] = None => i = Len(queue))'
    BY <1>2, <1>4, <1>5, Typing
  <2> QED
    BY <2>1, <2>2, <2>3, <2>4 DEF InOrder
<1>10. (\A i \in DOMAIN queue : queue[i] = None => sniffer = "dead")'
  BY <1>2, <1>4, <1>5, Typing
<1>11. EndMeansDrained'
  BY <1>1 DEF OrderInv, EndMeansDrained
<1> QED
  BY <1>8, <1>9, <1>10, <1>11 DEF OrderInv

LEMMA OrderPutEnd ==
  ASSUME TypeInv, OrderInv, PutEnd
  PROVE  OrderInv'
<1>1. /\ sniffer = "marking" /\ sniffer' = "dead" /\ queue' = Append(queue, None)
      /\ UNCHANGED <<arrived, delivered, reader>> /\ HasRoom
  BY DEF PutEnd, seen
<1>2. InHand = 0 /\ InHand' = 0
  BY <1>1 DEF InHand
<1>3. /\ DOMAIN queue' = 1 .. Len(queue) + 1 /\ Len(queue') = Len(queue) + 1
      /\ \A i \in 1 .. Len(queue) : queue'[i] = queue[i]
      /\ queue'[Len(queue) + 1] = None
  BY <1>1, ItemQueued DEF Items
<1>4. QueuedFrames' = QueuedFrames /\ QueuedFrames \subseteq 1 .. Len(queue)
  BY <1>3, Typing DEF QueuedFrames
<1>5. \A i \in 1 .. Len(queue) : queue[i] # None
  BY <1>1, Typing DEF OrderInv
<1>6. Older'
  BY <1>1, <1>2, <1>3, <1>4 DEF Older, OrderInv
<1>7. InOrder'
  <2>1. Increasing(delivered)'
    BY <1>1 DEF OrderInv, InOrder, Increasing
  <2>2. (\A i, j \in QueuedFrames : i < j => queue[i] < queue[j])'
    BY <1>3, <1>4 DEF OrderInv, InOrder
  <2>3. (\A i \in DOMAIN delivered, j \in QueuedFrames : delivered[i] < queue[j])'
    BY <1>1, <1>3, <1>4 DEF OrderInv, InOrder
  <2>4. (\A i \in DOMAIN queue : queue[i] = None => i = Len(queue))'
    BY <1>3, <1>5, Typing
  <2> QED
    BY <2>1, <2>2, <2>3, <2>4 DEF InOrder
<1> QED
  BY <1>1, <1>6, <1>7 DEF OrderInv, EndMeansDrained

LEMMA OrderReceive ==
  ASSUME TypeInv, OrderInv, Receive
  PROVE  OrderInv'
<1>1. /\ reader = "reading" /\ queue # <<>> /\ queue' = Tail(queue)
      /\ Head(queue) # None /\ delivered' = Append(delivered, Head(queue))
      /\ UNCHANGED <<arrived, reader, sniffer>> /\ InHand' = InHand
  BY DEF Receive, InHand
<1>2. /\ Len(queue) \in Nat \ {0} /\ Len(queue') = Len(queue) - 1
      /\ DOMAIN queue' = 1 .. Len(queue) - 1
      /\ \A i \in 1 .. Len(queue) - 1 : queue'[i] = queue[i + 1]
      /\ Head(queue) = queue[1] /\ Head(queue) \in Frames
  BY <1>1, ItemTaken DEF Items
<1>3. /\ DOMAIN delivered' = 1 .. Len(delivered) + 1
      /\ \A i \in 1 .. Len(delivered) : delivered'[i] = delivered[i]
      /\ delivered'[Len(delivered) + 1] = queue[1]
  BY <1>1, <1>2, Typing, AppendProperties, LenProperties
<1>4. 1 \in QueuedFrames /\ \A i \in QueuedFrames' : i + 1 \in QueuedFrames
  BY <1>1, <1>2, Typing DEF QueuedFrames
<1>5. QueuedFrames' \subseteq 1 .. Len(queue) - 1
  BY <1>2 DEF QueuedFrames
<1>6. Older'
  <2>1. \A i \in QueuedFrames' : queue'[i] + InHand' <= arrived'
    BY <1>1, <1>2, <1>4, <1>5 DEF OrderInv, Older
  <2>2. \A i \in DOMAIN delivered' : delivered'[i] + InHand' <= arrived'
    BY <1>1, <1>3, <1>4, Typing DEF OrderInv, Older
  <2> QED
    BY <2>1, <2>2 DEF Older
<1>7. InOrder'
  <2>1. Increasing(delivered)'
    <3>1. \A i \in 1 .. Len(delivered) : delivered[i] < queue[1]
      BY <1>4, Typing DEF OrderInv, InOrder
    <3>2. \A i, j \in 1 .. Len(delivered) : i < j => delivered[i] < delivered[j]
      BY Typing DEF OrderInv, InOrder, Increasing
    <3> QED
      BY <1>3, <3>1, <3>2, Typing DEF Increasing
  <2>2. (\A i, j \in QueuedFrames : i < j => queue[i] < queue[j])'
    <3> SUFFICES ASSUME NEW i \in QueuedFrames', NEW j \in QueuedFrames', i < j
                 PROVE  queue'[i] < queue'[j]
      OBVIOUS
    <3>1. i + 1 \in QueuedFrames /\ j + 1 \in QueuedFrames /\ i + 1 < j + 1
      BY <1>4, <1>5
    <3>2. queue[i + 1] < queue[j + 1]
      BY <3>1 DEF OrderInv, InOrder
    <3> QED
      BY <1>2, <1>5, <3>2
  <2>3. (\A i \in DOMAIN delivered, j \in QueuedFrames : delivered[i] < queue[j])'
    <3> SUFFICES ASSUME NEW i \in DOMAIN delivered', NEW j \in QueuedFrames'
                 PROVE  delivered'[i] < queue'[j]
      OBVIOUS
    <3>1. queue'[j] = queue[j + 1] /\ j + 1 \in QueuedFrames /\ 1 < j + 1
      BY <1>2, <1>4, <1>5
    <3>2. CASE i = Len(delivered) + 1
      BY <1>3, <1>4, <3>1, <3>2 DEF OrderInv, InOrder
    <3>3. CASE i \in 1 .. Len(delivered)
      BY <1>3, <3>1, <3>3, Typing DEF OrderInv, InOrder
    <3> QED
      BY <1>3, <3>2, <3>3, Typing
  <2>4. (\A i \in DOMAIN queue : queue[i] = None => i = Len(queue))'
    <3> SUFFICES ASSUME NEW i \in 1 .. Len(queue) - 1, queue'[i] = None
                 PROVE  i = Len(queue) - 1
      BY <1>2
    <3>1. i + 1 \in DOMAIN queue /\ queue[i + 1] = None
      BY <1>2, Typing
    <3> QED
      BY <1>2, <3>1 DEF OrderInv, InOrder
  <2> QED
    BY <2>1, <2>2, <2>3, <2>4 DEF InOrder
<1>8. (\A i \in DOMAIN queue : queue[i] = None => sniffer = "dead")'
  BY <1>1, <1>2, Typing DEF OrderInv
<1>9. EndMeansDrained'
  BY <1>1 DEF EndMeansDrained
<1> QED
  BY <1>6, <1>7, <1>8, <1>9 DEF OrderInv

LEMMA OrderStep == TypeInv /\ OrderInv /\ [Next]_vars => OrderInv'
<1> SUFFICES ASSUME TypeInv, OrderInv, [Next]_vars
             PROVE  OrderInv'
  OBVIOUS
<1>1. CASE QueueUntouched
  <2>1. /\ UNCHANGED <<queue, arrived, delivered>>
        /\ sniffer = "dead" <=> sniffer' = "dead"
        /\ reader' \in {"ended", "found", "returned", "raised"} =>
             reader \in {"ended", "found", "returned", "raised"}
    BY <1>1, UntouchedEffect
  <2>2. InHand' \in {0, 1} /\ InHand' <= InHand
    BY <1>1, UntouchedEffect, Typing DEF InHand
  <2>3. QueuedFrames' = QueuedFrames
    BY <2>1 DEF QueuedFrames
  <2>4. /\ \A i \in QueuedFrames : queue[i] \in Nat
        /\ \A i \in DOMAIN delivered : delivered[i] \in Nat
    BY Typing, ElementOfSeq DEF QueuedFrames, Items, Frames
  <2>5. Older'
    BY <2>1, <2>2, <2>3, <2>4, Typing DEF OrderInv, Older
  <2>6. InOrder'
    BY <2>1, <2>3 DEF OrderInv, InOrder, Increasing
  <2> QED
    BY <2>1, <2>5, <2>6 DEF OrderInv, EndMeansDrained
<1>2. CASE Arrive
  <2>1. /\ sniffer = "sniffing" /\ sniffer' = "put" /\ arrived' = arrived + 1
        /\ UNCHANGED <<queue, delivered, reader>>
    BY <1>2 DEF Arrive
  <2>2. InHand = 0 /\ InHand' = 1 /\ QueuedFrames' = QueuedFrames
    BY <2>1 DEF InHand, QueuedFrames
  <2>3. /\ \A i \in QueuedFrames : queue[i] \in Nat
        /\ \A i \in DOMAIN delivered : delivered[i] \in Nat
    BY Typing, ElementOfSeq DEF QueuedFrames, Items, Frames
  <2>4. Older'
    BY <2>1, <2>2, <2>3, Typing DEF OrderInv, Older
  <2>5. InOrder'
    BY <2>1, <2>2 DEF OrderInv, InOrder, Increasing
  <2> QED
    BY <2>1, <2>4, <2>5 DEF OrderInv, EndMeansDrained
<1>3. CASE Put
  BY <1>3, OrderPut
<1>4. CASE PutEnd
  BY <1>4, OrderPutEnd
<1>5. CASE Receive
  BY <1>5, OrderReceive
<1>6. CASE ReceiveEnd
  <2>1. /\ queue # <<>> /\ Head(queue) = None /\ queue' = Tail(queue)
        /\ UNCHANGED <<sniffer, arrived, delivered>> /\ InHand' = InHand
    BY <1>6 DEF ReceiveEnd, seen, InHand
  <2>2. /\ Len(queue) \in Nat \ {0} /\ Len(queue') = Len(queue) - 1
        /\ queue[1] = None
    BY <2>1, ItemTaken
  <2>3. Len(queue) = 1 /\ sniffer = "dead"
    BY <2>2, Typing DEF OrderInv, InOrder
  <2>4. queue' = <<>>
    <3>1. queue' \in Seq(Items) /\ Len(queue') = 0
      BY <2>1, <2>2, <2>3, Typing, HeadTailProperties
    <3> QED
      BY <3>1, EmptySeq
  <2>5. QueuedFrames' = {} /\ DOMAIN queue' = {}
    BY <2>4 DEF QueuedFrames
  <2> QED
    BY <2>1, <2>3, <2>4, <2>5
    DEF OrderInv, Older, InOrder, Increasing, EndMeansDrained
<1> QED
  BY <1>1, <1>2, <1>3, <1>4, <1>5, <1>6
  DEF Next, SnifferStep, ReaderStep, QueueUntouched

LEMMA OrderInit == Init => OrderInv
BY DEF Init, OrderInv, Older, InOrder, Increasing, EndMeansDrained, QueuedFrames

LEMMA OrderInvariant == Spec => [](TypeInv /\ OrderInv)
BY TypeInit, OrderInit, TypeStep, OrderStep, PTL DEF Spec

(* Frames come out of packets() in the order sniff() saw them, however       *)
(* enqueueing, draining and stop() interleave.                               *)
THEOREM FramesInOrder == Spec => []InOrder
<1>1. TypeInv /\ OrderInv => InOrder
  BY DEF OrderInv
<1> QED
  BY <1>1, OrderInvariant, PTL

(* packets() never ends early: its sniffer is through and its queue empty.   *)
THEOREM EndIsDrained == Spec => []EndMeansDrained
<1>1. TypeInv /\ OrderInv => EndMeansDrained
  BY DEF OrderInv
<1> QED
  BY <1>1, OrderInvariant, PTL

-----------------------------------------------------------------------------
(* No frame is lost without being counted, and no error without being raised *)

LEMMA AccountStep == TypeInv /\ OrderInv /\ AccountInv /\ [Next]_vars => AccountInv'
<1> SUFFICES ASSUME TypeInv, OrderInv, AccountInv, [Next]_vars
             PROVE  AccountInv'
  OBVIOUS
<1> DEFINE n == Cardinality(FramesIn(queue))
<1>t. /\ QueuedFrames = FramesIn(queue) /\ n \in Nat
      /\ QueuedFrames' = FramesIn(queue')
      /\ arrived = Len(delivered) + n + InHand + drops
  BY Typing, FramesInFinite
  DEF QueuedFrames, FramesIn, AccountInv, EveryFrameAccounted
<1>1. CASE Start
  <2>1. /\ sniffer = "none" /\ sniffer' = "sniffing" /\ drops' = 0
        /\ UNCHANGED <<queue, arrived, delivered>> /\ InHand' = InHand
    BY <1>1 DEF Start, seen, InHand
  <2>2. drops' = drops
    BY <2>1 DEF AccountInv
  <2> QED
    BY <2>1, <2>2 DEF AccountInv, EveryFrameAccounted, QueuedFrames
<1>2. CASE Full
  <2>1. /\ sniffer = "put" /\ sniffer' = "filter" /\ drops' = drops + 1
        /\ UNCHANGED <<queue, arrived, delivered>>
    BY <1>2 DEF Full, CountedDrop, seen
  <2>2. /\ InHand = 1 /\ InHand' = 0 /\ Cardinality(QueuedFrames') = n
        /\ Len(delivered') = Len(delivered)
    BY <1>t, <2>1 DEF InHand
  <2>3. arrived' = Len(delivered') + n + InHand' + drops'
    <3> HIDE DEF n
    <3> QED
      BY <1>t, <2>1, <2>2, Typing
  <2> QED
    BY <2>1, <2>2, <2>3 DEF AccountInv, EveryFrameAccounted
<1>3. CASE QueueUntouched /\ ~Start /\ ~Full
  <2>1. /\ UNCHANGED <<queue, arrived, delivered>> /\ InHand' = InHand
    BY <1>3, UntouchedEffect
  <2>2. /\ drops' = drops
        /\ sniffer' = "none" => sniffer = "none"
    BY <1>3
    DEF QueueUntouched, StopFilter, SniffFails, Close, ReaderLooks, ReaderRaises,
        ReaderLeaves, ClearRunning, StopperStep, StopLooks, StopRaises, vars
  <2> QED
    BY <2>1, <2>2 DEF AccountInv, EveryFrameAccounted, QueuedFrames
<1>4. CASE Arrive
  <2>1. /\ sniffer = "sniffing" /\ sniffer' = "put" /\ arrived' = arrived + 1
        /\ UNCHANGED <<queue, delivered, drops>>
    BY <1>4 DEF Arrive
  <2>2. /\ InHand = 0 /\ InHand' = 1 /\ Cardinality(QueuedFrames') = n
        /\ Len(delivered') = Len(delivered)
    BY <1>t, <2>1 DEF InHand
  <2>3. arrived' = Len(delivered') + n + InHand' + drops'
    <3> HIDE DEF n
    <3> QED
      BY <1>t, <2>1, <2>2, Typing
  <2> QED
    BY <2>1, <2>2, <2>3 DEF AccountInv, EveryFrameAccounted
<1>5. CASE Put
  <2>1. /\ sniffer = "put" /\ sniffer' = "filter" /\ queue' = Append(queue, arrived)
        /\ UNCHANGED <<arrived, delivered, drops>>
    BY <1>5 DEF Put, Queued, seen
  <2>2. arrived \in Items /\ arrived # None
    BY <2>1, Typing DEF TypeInv, Items, Frames, None
  <2>3. Cardinality(QueuedFrames') = n + 1
    BY <1>t, <2>1, <2>2, Typing, FramesAppended
  <2>4. InHand = 1 /\ InHand' = 0 /\ Len(delivered') = Len(delivered)
    BY <2>1 DEF InHand
  <2>5. arrived' = Len(delivered') + (n + 1) + InHand' + drops'
    <3> HIDE DEF n
    <3> QED
      BY <1>t, <2>1, <2>4, Typing
  <2> QED
    BY <2>1, <2>3, <2>5 DEF AccountInv, EveryFrameAccounted
<1>6. CASE PutEnd
  <2>1. /\ sniffer' = "dead" /\ queue' = Append(queue, None) /\ InHand' = InHand
        /\ UNCHANGED <<arrived, delivered, drops>>
    BY <1>6 DEF PutEnd, seen, InHand
  <2>2. Cardinality(QueuedFrames') = n
    <3>1. None \in Items /\ queue \in Seq(Items)
      BY Typing DEF Items
    <3>2. Cardinality(FramesIn(Append(queue, None))) = n + 0
      BY <3>1, FramesAppended
    <3> QED
      BY <1>t, <2>1, <3>2
  <2> QED
    BY <1>t, <2>1, <2>2 DEF AccountInv, EveryFrameAccounted
<1>7. CASE Receive
  <2>1. /\ queue # <<>> /\ Head(queue) # None /\ queue' = Tail(queue)
        /\ delivered' = Append(delivered, Head(queue)) /\ InHand' = InHand
        /\ UNCHANGED <<arrived, drops, sniffer>>
    BY <1>7 DEF Receive, InHand
  <2>2. Head(queue) \in Frames
    BY <2>1, ItemTaken DEF Items
  <2>3. n = Cardinality(QueuedFrames') + 1
    BY <1>t, <2>1, Typing, FramesTaken
  <2>4. Cardinality(QueuedFrames') \in Nat
    BY <1>t, <2>1, Typing, HeadTailProperties, FramesInFinite
  <2>5. Len(delivered') = Len(delivered) + 1
    BY <2>1, <2>2, Typing, AppendProperties
  <2>6. arrived' = Len(delivered') + Cardinality(QueuedFrames') + InHand' + drops'
    <3>1. arrived = Len(delivered) + (Cardinality(QueuedFrames') + 1) + InHand + drops
      BY <1>t, <2>3
    <3>2. /\ Len(delivered) \in Nat /\ InHand \in Nat /\ drops \in Nat
      BY Typing
    <3> HIDE DEF n
    <3> QED
      BY <2>1, <2>4, <2>5, <3>1, <3>2
  <2> QED
    BY <2>1, <2>6 DEF AccountInv, EveryFrameAccounted
<1>8. CASE ReceiveEnd
  <2>1. /\ queue # <<>> /\ Head(queue) = None /\ queue' = Tail(queue)
        /\ UNCHANGED <<arrived, delivered, drops, sniffer>> /\ InHand' = InHand
    BY <1>8 DEF ReceiveEnd, seen, InHand
  <2>2. n = Cardinality(QueuedFrames') + 0
    BY <1>t, <2>1, Typing, FramesTaken
  <2>3. Cardinality(QueuedFrames') \in Nat
    BY <1>t, <2>1, Typing, HeadTailProperties, FramesInFinite
  <2>4. Cardinality(QueuedFrames') = n
    <3> HIDE DEF n
    <3> QED
      BY <1>t, <2>2, <2>3
  <2> QED
    BY <1>t, <2>1, <2>4 DEF AccountInv, EveryFrameAccounted
<1> QED
  BY <1>1, <1>2, <1>3, <1>4, <1>5, <1>6, <1>7, <1>8
  DEF Next, SnifferStep, ReaderStep, QueueUntouched

LEMMA AccountInvariant == Spec => [](TypeInv /\ OrderInv /\ AccountInv)
<1>1. Init => AccountInv
  <2> SUFFICES ASSUME Init PROVE AccountInv
    OBVIOUS
  <2>1. Cardinality(QueuedFrames) = 0
    <3>1. QueuedFrames = {}
      BY DEF Init, QueuedFrames
    <3> QED
      BY <3>1, FS_EmptySet
  <2> QED
    BY <2>1 DEF Init, AccountInv, EveryFrameAccounted, InHand
<1>2. TypeInv /\ OrderInv /\ AccountInv /\ [Next]_vars => AccountInv'
  BY AccountStep
<1> QED
  BY <1>1, <1>2, OrderInvariant, PTL DEF Spec

(* backend.drops is the whole loss of the live source, for every queue size  *)
(* and every number of frames.                                               *)
THEOREM DropsAreTheLoss == Spec => []EveryFrameAccounted
<1>1. TypeInv /\ OrderInv /\ AccountInv => EveryFrameAccounted
  BY DEF AccountInv
<1> QED
  BY <1>1, AccountInvariant, PTL

LEMMA ErrorStep == TypeInv /\ ErrorInv /\ [Next]_vars => ErrorInv'
<1> SUFFICES ASSUME TypeInv, ErrorInv, [Next]_vars
             PROVE  ErrorInv'
  OBVIOUS
<1> USE DEF ErrorInv, ErrorRaised, seen
<1>1. CASE Start
  BY <1>1 DEF Start
<1>2. CASE Arrive \/ Put \/ Full \/ StopFilter \/ Close \/ PutEnd
  BY <1>2 DEF Arrive, Put, Full, StopFilter, Close, PutEnd
<1>3. CASE SniffFails
  BY <1>3 DEF SniffFails, Recorded
<1>4. CASE Receive \/ ReceiveEnd \/ ReaderLooks \/ ReaderRaises \/ ReaderLeaves
  BY <1>4 DEF Receive, ReceiveEnd, ReaderLooks, ReaderRaises, ReaderLeaves
<1>5. CASE \E s \in Stoppers : ClearRunning(s) \/ StopperStep(s)
  <2>1. PICK s \in Stoppers : ClearRunning(s) \/ StopperStep(s)
    BY <1>5
  <2>2. stopper \in [Stoppers -> {"idle", "joining", "found", "returned", "raised"}]
    BY DEF TypeInv, TypeOK
  <2>3. \A r \in Stoppers : stopper[r] = "raised" => stopper'[r] = "raised"
    BY <2>1, <2>2 DEF ClearRunning, StopperStep, StopLooks, StopRaises
  <2>4. /\ UNCHANGED <<failed, sniffer, reader>>
        /\ err' = err \/ stopper'[s] = "raised"
    BY <2>1, <2>2 DEF ClearRunning, StopperStep, StopLooks, StopRaises
  <2> QED
    BY <2>1, <2>3, <2>4
<1>6. CASE UNCHANGED vars
  BY <1>6 DEF vars
<1> QED
  BY <1>1, <1>2, <1>3, <1>4, <1>5, <1>6 DEF Next, SnifferStep, ReaderStep

LEMMA ErrorInit == Init => ErrorInv
BY DEF Init, ErrorInv, ErrorRaised

(* The error of a failed sniff() is raised by packets() or by a stop(), or   *)
(* still waits for one of them, whoever looked for it in between.            *)
THEOREM ErrorIsRaised == Spec => []ErrorRaised
<1>1. ErrorInv => ErrorRaised
  BY DEF ErrorInv
<1> QED
  BY <1>1, TypeInit, TypeStep, ErrorInit, ErrorStep, PTL DEF Spec

-----------------------------------------------------------------------------
(* The live source is a source as the pipeline assumes it *)

LEMMA SourceStateIs ==
  /\ sniffer = "none" => SourceState = "idle"
  /\ sniffer \in {"sniffing", "put", "filter"} =>
       SourceState = (IF running THEN "live" ELSE "stopping")
  /\ sniffer \in {"closing", "marking", "dead"} =>
       SourceState = (IF ~failed THEN "ended" ELSE IF err THEN "broken" ELSE "taken")
BY DEF SourceState

LEMMA StepIsSourceStep ==
  TypeInv /\ TypeInv' /\ OrderInv /\ AccountInv /\ ErrorInv /\ [Next]_vars =>
    [Contract!SourceNext]_(Contract!srcvars)
<1> SUFFICES ASSUME TypeInv, TypeInv', OrderInv, AccountInv, ErrorInv, [Next]_vars
             PROVE  [Contract!SourceNext]_(Contract!srcvars)
  OBVIOUS
<1> USE DEF Contract!SourceNext, Contract!srcvars, Contract!Active, seen
<1>p. /\ sniffer' = "none" => SourceState' = "idle"
      /\ sniffer' \in {"sniffing", "put", "filter"} =>
           SourceState' = (IF running' THEN "live" ELSE "stopping")
      /\ sniffer' \in {"closing", "marking", "dead"} =>
           SourceState' = (IF ~failed' THEN "ended"
                           ELSE IF err' THEN "broken" ELSE "taken")
  BY DEF SourceState
<1>s. sniffer \in {"none", "sniffing", "put", "filter", "closing", "marking", "dead"}
  BY DEF TypeInv, TypeOK
<1>1. CASE Start
  <2>1. /\ sniffer = "none" /\ sniffer' = "sniffing" /\ running' = TRUE /\ drops' = drops
    BY <1>1 DEF Start, AccountInv
  <2> QED
    BY <1>p, <2>1, SourceStateIs DEF Contract!Open
<1>2. CASE Arrive \/ Put \/ PutEnd \/ Close
  <2>1. UNCHANGED <<err, failed, drops>>
    BY <1>2 DEF Arrive, Put, PutEnd, Close
  <2>2. \/ /\ sniffer \in {"sniffing", "put"} /\ sniffer' \in {"put", "filter"}
           /\ running' = running
        \/ sniffer \in {"closing", "marking"} /\ sniffer' \in {"marking", "dead"}
    BY <1>2 DEF Arrive, Put, PutEnd, Close
  <2> QED
    BY <1>p, <2>1, <2>2, SourceStateIs
<1>3. CASE Full
  <2>1. /\ sniffer = "put" /\ sniffer' = "filter" /\ drops' = drops + 1
        /\ running' = running
    BY <1>3 DEF Full, CountedDrop
  <2>2. drops < MaxArrivals + 1
    <3>1. /\ InHand = 1 /\ Cardinality(QueuedFrames) \in Nat
          /\ arrived = Len(delivered) + Cardinality(QueuedFrames) + InHand + drops
      <4>1. QueuedFrames = FramesIn(queue)
        BY DEF QueuedFrames, FramesIn
      <4> QED
        BY <2>1, <4>1, Typing, FramesInFinite
        DEF InHand, AccountInv, EveryFrameAccounted
    <3> QED
      BY <3>1, Typing
  <2> QED
    BY <1>p, <2>1, <2>2, SourceStateIs DEF Contract!Drop
<1>4. CASE StopFilter
  <2>1. /\ sniffer = "filter" /\ sniffer' = (IF running THEN "sniffing" ELSE "closing")
        /\ UNCHANGED <<running, err, failed, drops>> /\ ~failed
    BY <1>4 DEF StopFilter, ErrorInv
  <2> QED
    BY <1>p, <2>1, SourceStateIs DEF Contract!End
<1>5. CASE SniffFails
  <2>1. /\ sniffer = "sniffing" /\ sniffer' = "closing" /\ err' = TRUE /\ failed' = TRUE
        /\ drops' = drops
    BY <1>5 DEF SniffFails, Recorded
  <2> QED
    BY <1>p, <2>1, SourceStateIs DEF Contract!Break
<1>6. CASE ReaderRaises \/ \E s \in Stoppers : StopRaises(s)
  <2>1. /\ err' = FALSE /\ UNCHANGED <<running, failed, sniffer, drops>>
    BY <1>6 DEF ReaderRaises, StopRaises
  <2>2. CASE sniffer \in {"closing", "marking", "dead"} /\ failed /\ err
    BY <1>p, <2>1, <2>2, SourceStateIs DEF Contract!TakeError
  <2>3. CASE ~(sniffer \in {"closing", "marking", "dead"} /\ failed /\ err)
    <3>1. SourceState' = SourceState
      BY <1>p, <1>s, <2>1, <2>3, SourceStateIs
    <3> QED
      BY <2>1, <3>1
  <2> QED
    BY <2>2, <2>3
<1>7. CASE \/ Receive \/ ReceiveEnd \/ ReaderLooks \/ ReaderLeaves \/ UNCHANGED vars
           \/ \E s \in Stoppers : StopLooks(s)
  <2>1. UNCHANGED <<running, err, failed, sniffer, drops>>
    BY <1>7 DEF Receive, ReceiveEnd, ReaderLooks, ReaderLeaves, StopLooks, vars
  <2> QED
    BY <2>1 DEF SourceState
<1>8. CASE \E s \in Stoppers : ClearRunning(s)
  <2>1. running' = FALSE /\ UNCHANGED <<err, failed, sniffer, drops>>
    BY <1>8 DEF ClearRunning
  <2> QED
    BY <1>p, <1>s, <2>1, SourceStateIs DEF Contract!AskToStop
<1> QED
  BY <1>1, <1>2, <1>3, <1>4, <1>5, <1>6, <1>7, <1>8
  DEF Next, SnifferStep, ReaderStep, StopperStep

(* ScapyBackend implements CaptureSource: what the capture pipeline is       *)
(* proved to do with a source, it does with the live one.                    *)
THEOREM BackendRefinesSource == Spec => ImplementsSource
<1>1. Init => Contract!SourceInit
  BY DEF Init, Contract!SourceInit, SourceState
<1>2. TypeInv /\ TypeInv' /\ OrderInv /\ AccountInv /\ ErrorInv /\ [Next]_vars =>
        [Contract!SourceNext]_(Contract!srcvars)
  BY StepIsSourceStep
<1> QED
  BY <1>1, <1>2, AccountInvariant, ErrorInit, ErrorStep, PTL
  DEF Spec, ImplementsSource, Contract!SourceSpec
===============================================================================
