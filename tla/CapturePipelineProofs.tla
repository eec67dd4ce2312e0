------------------------ MODULE CapturePipelineProofs ------------------------
(***************************************************************************)
(* Proofs about CapturePipeline, for every set of flows, every number of   *)
(* stop() calls and every bound.                                           *)
(***************************************************************************)
EXTENDS CapturePipeline, FiniteSetTheorems, SequenceTheorems, TLAPS

(* The counting operators of the model return numbers. *)
LEMMA CountsAreNumbers ==
  /\ \A S, f : \A s \in Seq(S) : Occurrences(f, s) \in Nat
  /\ \A S : \A s \in Seq(S) : Gaps(s) \in Nat
<1>1. ASSUME NEW S, NEW f, NEW s \in Seq(S)
      PROVE  Occurrences(f, s) \in Nat
  <2>1. IsFiniteSet(1 .. Len(s))
    BY <1>1, FS_Interval
  <2>2. {i \in DOMAIN s : s[i] = f} \in SUBSET (1 .. Len(s))
    BY <1>1
  <2> QED
    BY <2>1, <2>2, FS_Subset, FS_CardinalityType DEF Occurrences
<1>2. ASSUME NEW S, NEW s \in Seq(S)
      PROVE  Gaps(s) \in Nat
  <2>1. IsFiniteSet(1 .. Len(s))
    BY <1>2, FS_Interval
  <2>2. {i \in DOMAIN s : s[i].kind = "STREAM_GAP"} \in SUBSET (1 .. Len(s))
    BY <1>2
  <2> QED
    BY <2>1, <2>2, FS_Subset, FS_CardinalityType DEF Gaps
<1> QED
  BY <1>1, <1>2

(* The number of flows the tracker has seen is a number. *)
LEMMA FlowCount == \A s \in Seq(FlowKeys) : Cardinality(Range(s)) \in Nat
<1> SUFFICES ASSUME NEW s \in Seq(FlowKeys)
             PROVE  Cardinality(Range(s)) \in Nat
  OBVIOUS
<1>1. Range(s) \in SUBSET FlowKeys
  BY DEF Range
<1> QED
  BY <1>1, PipelineAssumption, FS_Subset, FS_CardinalityType
  DEF PipelineAssumption

(* finalize() leaves a well-formed file. *)
LEMMA FinalizedType ==
  ASSUME NEW s \in FileType, NEW st \in {"ready", "failed"},
         NEW dropped \in Nat, NEW bad \in Nat
  PROVE  Finalized(s, st, dropped, bad) \in FileType
<1> DEFINE meta == [integrity |-> IntegrityOf(dropped, bad),
                    dropped   |-> dropped,
                    malformed |-> bad,
                    gaps      |-> Gaps(s.events),
                    written   |-> Len(s.packets),
                    hash      |-> s.packets]
<1>1. Gaps(s.events) \in Nat
  BY CountsAreNumbers DEF FileType
<1>2. s.packets \in Seq(FlowKeys) /\ Len(s.packets) \in Nat
  BY LenProperties DEF FileType
<1>3. meta \in MetaType
  BY <1>1, <1>2 DEF MetaType, IntegrityOf
<1>4. Finalized(s, st, dropped, bad) = [s EXCEPT !.status = st, !.meta = meta]
  BY DEF Finalized
<1> HIDE DEF meta
<1> QED
  BY <1>3, <1>4 DEF FileType

(* So do the inserts and updates of the batch. *)
LEMMA PacketInserted ==
  \A s \in FileType : \A f \in FlowKeys :
    [s EXCEPT !.packets = Append(s.packets, f), !.status = "capturing"]
      \in FileType
<1> SUFFICES ASSUME NEW s \in FileType, NEW f \in FlowKeys
             PROVE  [s EXCEPT !.packets = Append(s.packets, f),
                              !.status = "capturing"] \in FileType
  OBVIOUS
<1>1. Append(s.packets, f) \in Seq(FlowKeys)
  BY AppendProperties DEF FileType
<1> QED
  BY <1>1 DEF FileType

LEMMA FlowUpdated ==
  \A s \in FileType : \A f \in FlowKeys : \A n \in Nat :
    [s EXCEPT !.flows[f] = n] \in FileType
<1> SUFFICES ASSUME NEW s \in FileType, NEW f \in FlowKeys, NEW n \in Nat
             PROVE  [s EXCEPT !.flows[f] = n] \in FileType
  OBVIOUS
<1>1. [s.flows EXCEPT ![f] = n] \in [FlowKeys -> Nat]
  BY DEF FileType
<1> QED
  BY <1>1 DEF FileType

LEMMA EventInserted ==
  \A s \in FileType : \A e \in EventType :
    [s EXCEPT !.events = Append(@, e)] \in FileType
<1> SUFFICES ASSUME NEW s \in FileType, NEW e \in EventType
             PROVE  [s EXCEPT !.events = Append(@, e)] \in FileType
  OBVIOUS
<1>1. Append(s.events, e) \in Seq(EventType)
  BY AppendProperties DEF FileType
<1> QED
  BY <1>1 DEF FileType

LEMMA NewFileType == NewFile \in FileType
<1>1. NoMeta \in MetaType
  BY EmptySeq DEF NoMeta, MetaType
<1>2. NoFile \in FileType
  BY <1>1, EmptySeq DEF NoFile, FileType
<1> QED
  BY <1>2 DEF NewFile, FileType

-----------------------------------------------------------------------------
(* Type correctness *)

InBatch == {"read", "found", "packet", "flow", "event", "commit", "drain"}

(* What TypeOK needs to be inductive: where the thread is decides whether a  *)
(* batch is open, and whether there is a current frame.                      *)
TypeInv ==
  /\ TypeOK
  /\ pc \in {"new", "setup", "finalize"} => depth = 0
  /\ pc \in InBatch => depth = 1
  /\ pc \in {"packet", "flow"} => fed # <<>>
  /\ pc = "seal" => outcome # "none"

LEMMA TypeInit == Init => TypeInv
<1> SUFFICES ASSUME Init PROVE TypeInv
  OBVIOUS
<1>1. NoMeta \in MetaType
  BY EmptySeq DEF NoMeta, MetaType
<1>2. NoFile \in FileType
  BY <1>1, EmptySeq DEF NoFile, FileType
<1>3. NoCounts \in [packets : Nat, flows : Nat, dropped : Nat]
  BY DEF NoCounts
<1>4. /\ fed \in Seq(FlowKeys) /\ todo \in Seq(EventType)
      /\ pushed \in Seq(EventType) /\ tx \in FileType /\ db \in FileType
      /\ stats \in [packets : Nat, flows : Nat, dropped : Nat]
  BY <1>2, <1>3, EmptySeq DEF Init
<1>5. stopper \in [Stoppers -> {"idle", "asked", "found", "blame", "returned"}]
  BY DEF Init
<1>6. /\ drops \in 0 .. MaxDrops /\ frames \in 0 .. MaxFrames
      /\ malformed \in Nat /\ depth \in 0 .. 1 /\ pending \in Nat
  BY PipelineAssumption DEF Init, PipelineAssumption, Source!SourceInit
<1>7. /\ mode \in FlushModes /\ pc \in PcValues
      /\ source \in Source!SourceStates /\ error \in BOOLEAN
      /\ opened \in BOOLEAN /\ outcome \in {"none", "ready", "failed"}
  BY DEF Init, PcValues, Source!SourceInit, Source!SourceStates
<1> QED
  BY <1>4, <1>5, <1>6, <1>7
  DEF Init, TypeInv, TypeOK, InBatch, Source!SourceInit

LEMMA CurrentIsFlow ==
  TypeInv /\ pc \in {"packet", "flow"} => Current \in FlowKeys
BY ElementOfSeq, EmptySeq DEF TypeInv, TypeOK, Current

LEMMA TodoType ==
  ASSUME TypeInv, Current \in FlowKeys, NEW found \in FoundIssues
  PROVE  (IF FlowStarted THEN <<EventHere("FLOW")>> ELSE <<>>)
         \o [i \in DOMAIN found |-> EventHere(found[i])] \in Seq(EventType)
<1>1. Len(tx.packets) \in Nat
  BY LenProperties DEF TypeInv, TypeOK, FileType
<1>2. \A k \in EventKinds : EventHere(k) \in EventType
  BY <1>1 DEF EventHere, Event, EventType
<1>3. (IF FlowStarted THEN <<EventHere("FLOW")>> ELSE <<>>) \in Seq(EventType)
  BY <1>2, EmptySeq DEF EventKinds
<1>4. [i \in DOMAIN found |-> EventHere(found[i])] \in Seq(EventType)
  <2>1. CASE found = <<>>
    BY <2>1, EmptySeq
  <2>2. CASE found # <<>>
    <3>1. PICK k \in Issues : found = <<k>>
      BY <2>2 DEF FoundIssues
    <3>2. [i \in DOMAIN found |-> EventHere(found[i])] = <<EventHere(k)>>
      BY <3>1
    <3>3. EventHere(k) \in EventType
      BY <1>2 DEF EventKinds
    <3> QED
      BY <3>2, <3>3
  <2> QED
    BY <2>1, <2>2
<1> QED
  BY <1>3, <1>4, ConcatProperties

(* Taking over the backend's drop count keeps the type of the counters. *)
LEMMA DropsTaken ==
  ASSUME TypeOK, stats' = [stats EXCEPT !.dropped = drops]
  PROVE  stats' \in [packets : Nat, flows : Nat, dropped : Nat]
<1>1. drops \in Nat
  BY PipelineAssumption DEF TypeOK, PipelineAssumption
<1>2. stats \in [packets : Nat, flows : Nat, dropped : Nat]
  BY DEF TypeOK
<1> QED
  BY <1>1, <1>2

(* Every step of the thread, of a stop() call and of the source. *)
LEMMA TypeStep == TypeInv /\ [Next]_vars => TypeInv'
<1> SUFFICES ASSUME TypeInv, [Next]_vars
             PROVE  TypeInv'
  OBVIOUS
<1> USE DEF TypeInv, TypeOK, PcValues, InBatch, input, result, counters, batch,
            file
<1>1. CASE Start
  BY <1>1, NewFileType DEF Start
<1>2. CASE StartAgain
  BY <1>2 DEF StartAgain, NoCounts
<1>3. CASE SetUp
  BY <1>3 DEF SetUp, Source!Open, Source!SourceStates
<1>4. CASE SetUpFails
  BY <1>4 DEF SetUpFails, Raise
<1>5. CASE ReadMalformed
  <2>1. malformed' \in Nat /\ frames' \in 0 .. MaxFrames
    BY <1>5, PipelineAssumption DEF ReadMalformed, Deliver, PipelineAssumption
  <2> QED
    BY <1>5, <2>1 DEF ReadMalformed
<1>6. CASE \E f \in FlowKeys : ReadFrame(f)
  <2>1. PICK f \in FlowKeys : ReadFrame(f)
    BY <1>6
  <2>2. frames' \in 0 .. MaxFrames
    BY <2>1, PipelineAssumption DEF ReadFrame, Deliver, PipelineAssumption
  <2>3. fed' \in Seq(FlowKeys) /\ fed' # <<>>
    BY <2>1, AppendProperties DEF ReadFrame
  <2> QED
    BY <2>1, <2>2, <2>3 DEF ReadFrame, Deliver
<1>7. CASE ReadEnd
  BY <1>7 DEF ReadEnd
<1>8. CASE ReadError
  BY <1>8 DEF ReadError
<1>9. CASE ReadRaises
  BY <1>9 DEF ReadRaises, Raise, ClearError, Source!TakeError,
              Source!SourceStates
<1>10. CASE StorePacket
  <2>1. tx' \in FileType
    <3>1. tx \in FileType /\ Current \in FlowKeys
      BY <1>10, CurrentIsFlow DEF StorePacket
    <3>2. tx' = [tx EXCEPT !.packets = Append(tx.packets, Current),
                           !.status = "capturing"]
      BY <1>10, Zenon DEF StorePacket, Stored
    <3> QED
      BY <3>1, <3>2, PacketInserted, Zenon
  <2> QED
    BY <1>10, <2>1 DEF StorePacket
<1>11. CASE \E found \in FoundIssues : StoreFlow(found)
  <2>1. PICK found \in FoundIssues : StoreFlow(found)
    BY <1>11
  <2>2. Current \in FlowKeys /\ Occurrences(Current, fed) \in Nat
    BY <2>1, CurrentIsFlow, CountsAreNumbers DEF StoreFlow
  <2>3. tx' \in FileType
    BY <2>1, <2>2, FlowUpdated, Zenon DEF StoreFlow
  <2>4. todo' \in Seq(EventType)
    BY <2>1, <2>2, TodoType DEF StoreFlow
  <2> QED
    BY <2>1, <2>3, <2>4 DEF StoreFlow
<1>12. CASE EmitEvent
  <2>1. Head(todo) \in EventType /\ Tail(todo) \in Seq(EventType)
    BY <1>12, HeadTailProperties DEF EmitEvent
  <2>2. tx' \in FileType
    BY <1>12, <2>1, EventInserted, Zenon DEF EmitEvent
  <2>3. pushed' \in Seq(EventType)
    BY <1>12, <2>1, AppendProperties DEF EmitEvent, Publish
  <2> QED
    BY <1>12, <2>1, <2>2, <2>3 DEF EmitEvent
<1>13. CASE CountPacket
  <2>1. stats' \in [packets : Nat, flows : Nat, dropped : Nat]
    BY <1>13, FlowCount DEF CountPacket, Counted
  <2> QED
    BY <1>13, <2>1 DEF CountPacket
<1>14. CASE Commit
  BY <1>14 DEF Commit, LevelClosed
<1>15. CASE \E f \in FlowKeys : DrainGap(f)
  <2>1. PICK f \in FlowKeys : DrainGap(f)
    BY <1>15
  <2>2. Event("STREAM_GAP", f, 0) \in EventType
    BY PipelineAssumption DEF PipelineAssumption, Event, EventType, EventKinds
  <2>3. tx' \in FileType
    BY <2>1, <2>2, EventInserted, Zenon DEF DrainGap
  <2> QED
    BY <2>1, <2>3 DEF DrainGap
<1>16. CASE CommitLast
  BY <1>16 DEF CommitLast, LevelClosed
<1>17. CASE FinalizeReady
  <2>1. stats' \in [packets : Nat, flows : Nat, dropped : Nat]
    <3> HIDE DEF TypeOK
    <3> QED
      BY <1>17, DropsTaken DEF FinalizeReady
  <2>2. tx' \in FileType /\ db' \in FileType
    BY <1>17, FinalizedType, PipelineAssumption
    DEF FinalizeReady, PipelineAssumption
  <2> QED
    BY <1>17, <2>1, <2>2 DEF FinalizeReady
<1>18. CASE StorageFails
  BY <1>18 DEF StorageFails, Raise
<1>19. CASE CommitFails
  BY <1>19 DEF CommitFails, Raise, LevelClosed
<1>20. CASE FinalizeFails
  <2>1. stats' \in [packets : Nat, flows : Nat, dropped : Nat]
    <3> HIDE DEF TypeOK
    <3> QED
      BY <1>20, DropsTaken DEF FinalizeFails
  <2> QED
    BY <1>20, <2>1 DEF FinalizeFails, Raise
<1>21. CASE CleanUp
  BY <1>21 DEF CleanUp, Source!TakeError, Source!AskToStop,
               Source!SourceStates
<1>22. CASE Decide
  BY <1>22 DEF Decide, RolledBack, Verdict
<1>23. CASE Seal
  BY <1>23, FinalizedType DEF Seal
<1>24. CASE SealFails
  BY <1>24 DEF SealFails
<1>25. CASE \E s \in Stoppers : AskStop(s)
  BY <1>25 DEF AskStop, Source!AskToStop, Source!SourceStates
<1>26. CASE \E s \in Stoppers : StopProceeds(s)
  <2>1. PICK s \in Stoppers : StopProceeds(s)
    BY <1>26
  <2>2. CASE LookForError(s)
    BY <2>2 DEF LookForError
  <2>3. CASE TakeError(s)
    BY <2>3 DEF TakeError, ClearError, Source!TakeError, Source!SourceStates
  <2>4. CASE Blame(s)
    BY <2>4 DEF Blame
  <2> QED
    BY <2>1, <2>2, <2>3, <2>4 DEF StopProceeds
<1>27. CASE SourceMoves
  BY <1>27, PipelineAssumption
  DEF SourceMoves, Source!End, Source!Break, Source!Drop, Source!Active,
      Source!SourceStates, PipelineAssumption
<1>28. CASE Crash
  <2>1. stats' \in [packets : Nat, flows : Nat, dropped : Nat]
    BY <1>28 DEF Crash, NoCounts
  <2>2. stopper' \in [Stoppers -> {"idle", "asked", "found", "blame",
                                   "returned"}]
    BY <1>28 DEF Crash
  <2>3. /\ pc' = "crashed" /\ tx' = db /\ source' = "idle" /\ todo' = <<>>
        /\ depth' = 0 /\ pending' = 0 /\ malformed' = 0
        /\ error' = FALSE /\ opened' = FALSE /\ outcome' = "none"
        /\ UNCHANGED <<mode, drops, frames, fed, db, pushed>>
    BY <1>28 DEF Crash
  <2>4. todo' \in Seq(EventType)
    BY <2>3, EmptySeq
  <2>5. /\ source' \in Source!SourceStates /\ tx' \in FileType
        /\ depth' \in 0 .. 1 /\ pending' \in Nat /\ malformed' \in Nat
    BY <2>3 DEF Source!SourceStates
  <2>6. error' \in BOOLEAN /\ opened' \in BOOLEAN
    BY <2>3
  <2>7. outcome' \in {"none", "ready", "failed"} /\ pc' \in PcValues
    BY <2>3
  <2>8. UNCHANGED <<mode, drops, frames, fed, db, pushed>>
    BY <2>3
  <2> QED
    BY <2>1, <2>2, <2>3, <2>4, <2>5, <2>6, <2>7, <2>8
<1>29. CASE UNCHANGED vars
  BY <1>29 DEF vars
<1> QED
  BY <1>1, <1>2, <1>3, <1>4, <1>5, <1>6, <1>7, <1>8, <1>9, <1>10, <1>11,
     <1>12, <1>13, <1>14, <1>15, <1>16, <1>17, <1>18, <1>19, <1>20, <1>21,
     <1>22, <1>23, <1>24, <1>25, <1>26, <1>27, <1>28, <1>29
  DEF Next, CaptureStep, ThreadStep, Finished

(* TypeOK holds in every reachable state: in particular the batch depth is   *)
(* never more than one, so that every commit_batch() commits.                *)
THEOREM TypeCorrect == Spec => []TypeOK
<1>1. Init => TypeInv
  BY TypeInit
<1>2. TypeInv /\ [Next]_vars => TypeInv'
  BY TypeStep
<1>3. TypeInv => TypeOK
  BY DEF TypeInv
<1> QED
  BY <1>1, <1>2, <1>3, PTL DEF Spec

-----------------------------------------------------------------------------
(* An error of the backend surfaces *)

(* FailureSurfaces is not inductive: that the finally block may swallow what *)
(* backend.stop() raises rests on where the thread can come from.  It leaves *)
(* the loop either with an error recorded, or after packets() has ended      *)
(* without one, and then the source cannot break any more.                   *)
FailureInv ==
  /\ pc \in {"new", "setup"} => source = "idle"
  /\ pc \in {"drain", "finalize"} => SourceOver
  /\ pc = "cleanup" => error \/ SourceOver
  /\ FailureSurfaces

LEMMA FailureStep == TypeOK /\ FailureInv /\ [Next]_vars => FailureInv'
<1> SUFFICES ASSUME TypeOK, FailureInv, [Next]_vars
             PROVE  FailureInv'
  OBVIOUS
<1> USE DEF FailureInv, FailureSurfaces, SourceOver
<1>1. CASE Start
  BY <1>1 DEF Start
<1>2. CASE StartAgain
  BY <1>2 DEF StartAgain
<1>3. CASE SetUp
  BY <1>3 DEF SetUp, Source!Open, result
<1>4. CASE SetUpFails
  BY <1>4 DEF SetUpFails, Raise
<1>5. CASE ReadMalformed \/ \E f \in FlowKeys : ReadFrame(f)
  BY <1>5 DEF ReadMalformed, ReadFrame, Deliver, result
<1>6. CASE ReadEnd \/ ReadError
  BY <1>6 DEF ReadEnd, ReadError, result
<1>7. CASE ReadRaises
  BY <1>7 DEF ReadRaises, Raise
<1>8. CASE \/ StorePacket \/ EmitEvent \/ CountPacket \/ Commit
           \/ \E found \in FoundIssues : StoreFlow(found)
           \/ \E f \in FlowKeys : DrainGap(f)
  <2>1. UNCHANGED <<source, error, opened, stopper>>
    BY <1>8, Zenon DEF StorePacket, StoreFlow, EmitEvent, CountPacket, Commit,
                       DrainGap, result
  <2>2. \/ pc' \in {"flow", "event", "commit", "read"}
        \/ pc = "drain" /\ pc' = "drain"
    BY <1>8 DEF StorePacket, StoreFlow, EmitEvent, CountPacket, Commit,
                DrainGap
  <2> QED
    BY <2>1, <2>2
<1>9. CASE CommitLast \/ FinalizeReady
  BY <1>9 DEF CommitLast, FinalizeReady, result
<1>10. CASE StorageFails \/ CommitFails \/ FinalizeFails
  <2>1. pc' = "cleanup" /\ error' = TRUE
    BY <1>10, Zenon DEF StorageFails, CommitFails, FinalizeFails, Raise
  <2> QED
    BY <2>1
<1>11. CASE CleanUp
  <2>1. CASE source = "broken"
    BY <1>11, <2>1 DEF CleanUp, Source!TakeError, result
  <2>2. CASE source # "broken"
    BY <1>11, <2>2 DEF CleanUp, Source!AskToStop, result
  <2> QED
    BY <2>1, <2>2
<1>12. CASE Decide \/ Seal \/ SealFails
  BY <1>12 DEF Decide, Seal, SealFails, result
<1>13. CASE \E s \in Stoppers : AskStop(s)
  BY <1>13 DEF AskStop, Source!AskToStop, result, TypeOK
<1>14. CASE \E s \in Stoppers : StopProceeds(s)
  <2>1. PICK s \in Stoppers : StopProceeds(s)
    BY <1>14
  <2>2. CASE LookForError(s)
    BY <2>2 DEF LookForError, result, TypeOK
  <2>3. CASE TakeError(s)
    BY <2>3 DEF TakeError, ClearError, Source!TakeError, result, TypeOK
  <2>4. CASE Blame(s)
    BY <2>4 DEF Blame
  <2> QED
    BY <2>1, <2>2, <2>3, <2>4 DEF StopProceeds
<1>15. CASE SourceMoves
  BY <1>15 DEF SourceMoves, Source!End, Source!Break, Source!Drop,
               Source!Active, result
<1>16. CASE Crash
  BY <1>16 DEF Crash
<1>17. CASE UNCHANGED vars
  BY <1>17 DEF vars
<1> QED
  BY <1>1, <1>2, <1>3, <1>4, <1>5, <1>6, <1>7, <1>8, <1>9, <1>10, <1>11,
     <1>12, <1>13, <1>14, <1>15, <1>16, <1>17
  DEF Next, CaptureStep, ThreadStep, Finished

(* Whichever thread consumes the backend's error, it is not lost: it reaches *)
(* status().error, or the stop() call that is about to put it there.         *)
THEOREM FailureIsReported == Spec => []FailureSurfaces
<1>1. Init => FailureInv
  BY DEF Init, FailureInv, FailureSurfaces, Source!SourceInit
<1>2. TypeOK /\ FailureInv /\ [Next]_vars => FailureInv'
  BY FailureStep
<1>3. FailureInv => FailureSurfaces
  BY DEF FailureInv
<1> QED
  BY <1>1, <1>2, <1>3, TypeCorrect, PTL DEF Spec

-----------------------------------------------------------------------------
(* What is stored is a prefix of what was read; what is ready is all of it *)

LEMMA PrefixReflexive == \A s \in Seq(FlowKeys) : IsPrefix(s, s)
BY LenProperties DEF IsPrefix

LEMMA PrefixTransitive ==
  \A s, t, u \in Seq(FlowKeys) :
    IsPrefix(s, t) /\ IsPrefix(t, u) => IsPrefix(s, u)
<1> SUFFICES ASSUME NEW s \in Seq(FlowKeys), NEW t \in Seq(FlowKeys),
                    NEW u \in Seq(FlowKeys), IsPrefix(s, t), IsPrefix(t, u)
             PROVE  IsPrefix(s, u)
  OBVIOUS
<1>1. /\ Len(s) \in Nat /\ Len(t) \in Nat /\ Len(u) \in Nat
      /\ Len(s) <= Len(t) /\ Len(t) <= Len(u)
  BY LenProperties DEF IsPrefix
<1>2. \A i \in 1 .. Len(s) : s[i] = t[i]
  BY <1>1 DEF IsPrefix
<1>3. \A i \in 1 .. Len(t) : t[i] = u[i]
  BY <1>1 DEF IsPrefix
<1> QED
  BY <1>1, <1>2, <1>3 DEF IsPrefix

LEMMA PrefixAppended ==
  \A s \in Seq(FlowKeys) : \A f \in FlowKeys : IsPrefix(s, Append(s, f))
<1> SUFFICES ASSUME NEW s \in Seq(FlowKeys), NEW f \in FlowKeys
             PROVE  IsPrefix(s, Append(s, f))
  OBVIOUS
<1> QED
  BY LenProperties, AppendProperties DEF IsPrefix

Looping == {"read", "found", "flow", "event", "commit", "drain", "finalize"}
Unsealed == {"new", "setup", "packet"} \cup Looping

(* What ReadyIsWhole says of a ready file. *)
Whole(s) ==
  /\ s.packets = fed
  /\ s.meta.written = Len(s.packets)
  /\ s.meta.hash = s.packets
  /\ s.meta.gaps = Gaps(s.events)

(* What StoredPrefix and ReadyIsWhole rest on: the thread stores a frame     *)
(* before it reads the next; the status "ready" is first given when nothing  *)
(* is missing; and the second finalize() repeats it only for a file that has *)
(* it already and that has no transaction open.                              *)
StoredInv ==
  /\ pc \in {"new", "setup"} => fed = <<>>
  /\ pc \in Looping => tx.packets = fed
  /\ pc = "packet" => fed = Append(tx.packets, Current)
  /\ pc \in Unsealed => db.status # "ready" /\ tx.status # "ready"
  /\ pc \in {"cleanup", "outcome"} /\ ~error =>
       db.status = "ready" /\ depth = 0
  /\ pc = "seal" /\ outcome = "ready" => db.status = "ready"
  /\ "ready" \in {tx.status, db.status} => tx = db /\ Whole(db)
  /\ StoredPrefix

LEMMA PrefixOfEmpty == \A s \in Seq(FlowKeys) : IsPrefix(s, <<>>) => s = <<>>
BY LenProperties, EmptySeq DEF IsPrefix

LEMMA FinalizedFields ==
  \A s \in FileType : \A t, st, dropped, bad :
    t = Finalized(s, st, dropped, bad) =>
      /\ t.packets = s.packets /\ t.status = st
      /\ t.meta.written = Len(t.packets) /\ t.meta.hash = t.packets
      /\ t.meta.gaps = Gaps(t.events)
BY DEF FileType, Finalized

LEMMA UpdatedFields ==
  \A s \in FileType : \A t :
    /\ \A f, n : t = [s EXCEPT !.flows[f] = n] =>
         t.packets = s.packets /\ t.status = s.status
    /\ \A e : t = [s EXCEPT !.events = Append(@, e)] =>
         t.packets = s.packets /\ t.status = s.status
BY DEF FileType

(* As long as the file and the frames stay, so does what relates them. *)
LEMMA FileKept ==
  ASSUME StoredInv, UNCHANGED <<tx, db, fed>>
  PROVE  /\ StoredPrefix'
         /\ ("ready" \in {tx.status, db.status} => tx = db /\ Whole(db))'
         /\ Current' = Current
BY DEF StoredInv, StoredPrefix, Whole, Current

(* The steps that leave the file alone, and the steps that write to the open *)
(* transaction but neither to the packets nor to the status.                 *)
FileUntouched ==
  \/ StartAgain \/ SetUp \/ SetUpFails \/ ReadMalformed \/ ReadEnd
  \/ ReadError \/ ReadRaises \/ CountPacket \/ StorageFails
  \/ FinalizeFails \/ CleanUp \/ SourceMoves \/ UNCHANGED vars
  \/ \E s \in Stoppers : AskStop(s) \/ StopProceeds(s)

RowsUntouched ==
  \/ EmitEvent
  \/ \E found \in FoundIssues : StoreFlow(found)
  \/ \E f \in FlowKeys : DrainGap(f)

LEMMA UntouchedEffect ==
  ASSUME FileUntouched
  PROVE  /\ UNCHANGED <<tx, db, fed, outcome>>
         /\ pc # "setup" => UNCHANGED depth
         /\ \/ pc' = pc /\ (error => error')
            \/ pc = "done" /\ pc' = "done"
            \/ pc \in {"setup", "packet"} \cup Looping /\ pc' = "cleanup"
                 /\ error'
            \/ pc = "setup" /\ pc' = "read"
            \/ pc \in Looping /\ pc' \in Looping
            \/ pc = "cleanup" /\ pc' = "outcome" /\ error' = error
<1>1. UNCHANGED <<tx, db, fed, outcome>>
  BY Zenon
  DEF FileUntouched, StartAgain, SetUp, SetUpFails, ReadMalformed, ReadEnd,
      ReadError, ReadRaises, CountPacket, StorageFails, FinalizeFails,
      CleanUp, SourceMoves, AskStop, StopProceeds, LookForError, TakeError,
      Blame, vars, file, input, result
<1>2. pc # "setup" => UNCHANGED depth
  BY Zenon
  DEF FileUntouched, StartAgain, SetUp, SetUpFails, ReadMalformed, ReadEnd,
      ReadError, ReadRaises, CountPacket, StorageFails, FinalizeFails,
      CleanUp, SourceMoves, AskStop, StopProceeds, LookForError, TakeError,
      Blame, vars, batch
<1>3. \/ pc' = pc /\ (error => error')
      \/ pc = "done" /\ pc' = "done"
      \/ pc \in {"setup", "packet"} \cup Looping /\ pc' = "cleanup" /\ error'
      \/ pc = "setup" /\ pc' = "read"
      \/ pc \in Looping /\ pc' \in Looping
      \/ pc = "cleanup" /\ pc' = "outcome" /\ error' = error
  BY DEF FileUntouched, StartAgain, SetUp, SetUpFails, ReadMalformed, Deliver,
         ReadEnd, ReadError, ReadRaises, CountPacket, StorageFails,
         FinalizeFails, CleanUp, SourceMoves, AskStop, StopProceeds,
         LookForError, TakeError, Blame, Raise, Looping, vars, result
<1> QED
  BY <1>1, <1>2, <1>3

LEMMA StorePacketEffect ==
  ASSUME TypeInv, StorePacket
  PROVE  /\ pc = "packet" /\ pc' = "flow" /\ fed' = fed /\ db' = db
         /\ tx'.packets = Append(tx.packets, Current)
         /\ tx'.status = "capturing"
<1>1. tx' = [tx EXCEPT !.packets = Append(tx.packets, Current),
                       !.status = "capturing"]
  BY Zenon DEF StorePacket, Stored
<1>2. tx \in FileType
  BY DEF TypeInv, TypeOK
<1>3. /\ tx'.packets = Append(tx.packets, Current)
      /\ tx'.status = "capturing"
  BY <1>1, <1>2 DEF FileType
<1> QED
  BY <1>3 DEF StorePacket, input

LEMMA RowsUntouchedEffect ==
  ASSUME TypeInv, RowsUntouched
  PROVE  /\ pc \in Looping /\ pc' \in Looping /\ fed' = fed /\ db' = db
         /\ tx'.packets = tx.packets /\ tx'.status = tx.status
<1>t. tx \in FileType
  BY DEF TypeInv, TypeOK
<1> USE DEF Looping
<1>1. CASE EmitEvent
  <2>1. tx'.packets = tx.packets /\ tx'.status = tx.status
    BY <1>t, <1>1, UpdatedFields, Zenon DEF EmitEvent
  <2> QED
    BY <1>1, <2>1 DEF EmitEvent, input
<1>2. CASE \E found \in FoundIssues : StoreFlow(found)
  <2>1. PICK found \in FoundIssues : StoreFlow(found)
    BY <1>2
  <2>2. tx'.packets = tx.packets /\ tx'.status = tx.status
    BY <1>t, <2>1, UpdatedFields, Zenon DEF StoreFlow
  <2> QED
    BY <2>1, <2>2, Zenon DEF StoreFlow, input
<1>3. CASE \E f \in FlowKeys : DrainGap(f)
  <2>1. PICK f \in FlowKeys : DrainGap(f)
    BY <1>3
  <2>2. tx'.packets = tx.packets /\ tx'.status = tx.status
    BY <1>t, <2>1, UpdatedFields, Zenon DEF DrainGap
  <2> QED
    BY <2>1, <2>2, Zenon DEF DrainGap, input
<1> QED
  BY <1>1, <1>2, <1>3 DEF RowsUntouched

LEMMA StoredStep == TypeInv /\ StoredInv /\ [Next]_vars => StoredInv'
<1> SUFFICES ASSUME TypeInv, StoredInv, [Next]_vars
             PROVE  StoredInv'
  OBVIOUS
<1> USE DEF Looping, Unsealed
<1>t. /\ tx \in FileType /\ db \in FileType /\ fed \in Seq(FlowKeys)
      /\ tx.packets \in Seq(FlowKeys) /\ db.packets \in Seq(FlowKeys)
      /\ TypeInv'
  BY TypeStep DEF TypeInv, TypeOK, FileType
<1>1. CASE Start
  <2>1. /\ pc' = "setup" /\ fed' = <<>> /\ tx' = NewFile /\ db' = NewFile
    BY <1>1 DEF Start, StoredInv, input
  <2>2. NewFile.packets = <<>> /\ NewFile.status = "created"
    BY DEF NewFile, NoFile
  <2>3. StoredPrefix'
    BY <2>1, <2>2, PrefixReflexive, EmptySeq DEF StoredPrefix
  <2> QED
    BY <2>1, <2>2, <2>3 DEF StoredInv
<1>2. CASE FileUntouched
  <2>1. pc = "setup" => tx.packets = fed
    BY <1>t, PrefixOfEmpty DEF StoredInv, StoredPrefix
  <2> QED
    BY <1>2, <2>1, UntouchedEffect, FileKept DEF StoredInv
<1>3. CASE \E f \in FlowKeys : ReadFrame(f)
  <2>1. PICK f \in FlowKeys : ReadFrame(f)
    BY <1>3
  <2>2. /\ pc = "read" /\ pc' = "packet" /\ fed' = Append(fed, f)
        /\ tx' = tx /\ db' = db
    BY <2>1 DEF ReadFrame, Deliver, file
  <2>3. Current' = f
    BY <1>t, <2>2, AppendProperties DEF Current
  <2>4. StoredPrefix'
    <3>1. tx.packets = fed /\ IsPrefix(db.packets, tx.packets)
      BY <2>2 DEF StoredInv, StoredPrefix
    <3> QED
      BY <1>t, <2>2, <3>1, PrefixAppended DEF StoredPrefix
  <2> QED
    BY <1>t, <2>2, <2>3, <2>4 DEF StoredInv
<1>4. CASE StorePacket
  <2>1. /\ pc = "packet" /\ pc' = "flow" /\ fed' = fed /\ db' = db
        /\ tx'.packets = Append(tx.packets, Current)
        /\ tx'.status = "capturing"
    BY <1>4, StorePacketEffect
  <2>2. tx'.packets = fed
    BY <2>1 DEF StoredInv
  <2>3. StoredPrefix'
    <3>1. Current \in FlowKeys /\ IsPrefix(db.packets, tx.packets)
      BY <2>1, CurrentIsFlow DEF StoredInv, StoredPrefix
    <3>2. tx'.packets \in Seq(FlowKeys) /\ IsPrefix(tx.packets, tx'.packets)
      BY <1>t, <2>1, <2>2, <3>1, PrefixAppended
    <3>3. IsPrefix(db.packets, tx'.packets)
      BY <1>t, <3>1, <3>2, PrefixTransitive
    <3> QED
      BY <1>t, <2>1, <2>2, <3>3, PrefixReflexive DEF StoredPrefix
  <2> QED
    BY <2>1, <2>2, <2>3 DEF StoredInv
<1>5. CASE RowsUntouched
  BY <1>5, RowsUntouchedEffect DEF StoredInv, StoredPrefix
<1>6. CASE Commit \/ CommitLast
  <2>1. pc \in Looping /\ pc' \in Looping /\ fed' = fed /\ db' = tx /\ tx' = tx
    BY <1>6 DEF Commit, CommitLast, input
  <2> QED
    BY <1>t, <2>1, PrefixReflexive DEF StoredInv, StoredPrefix
<1>7. CASE CommitFails
  <2>1. /\ pc' = "cleanup" /\ error' /\ fed' = fed /\ db' = db
        /\ tx' = tx \/ tx' = db
    BY <1>7 DEF CommitFails, Raise, input
  <2>2. db.status # "ready" /\ tx.status # "ready"
    BY <1>7 DEF CommitFails, StoredInv
  <2>3. StoredPrefix'
    BY <1>t, <2>1, PrefixReflexive, PrefixTransitive
    DEF StoredInv, StoredPrefix
  <2> QED
    BY <2>1, <2>2, <2>3 DEF StoredInv
<1>8. CASE FinalizeReady
  <2>1. /\ pc = "finalize" /\ pc' = "cleanup" /\ fed' = fed /\ depth' = depth
        /\ db' = tx' /\ tx' = Finalized(tx, "ready", drops, malformed)
    BY <1>8 DEF FinalizeReady, input, batch
  <2>2. /\ tx'.packets = fed /\ tx'.status = "ready"
        /\ Whole(db)' /\ depth = 0
    <3>1. /\ tx'.status = "ready"
          /\ tx'.packets = tx.packets /\ tx'.meta.written = Len(tx'.packets)
          /\ tx'.meta.hash = tx'.packets /\ tx'.meta.gaps = Gaps(tx'.events)
      BY <1>t, <2>1, FinalizedFields
    <3>2. tx.packets = fed /\ depth = 0
      BY <2>1 DEF StoredInv, TypeInv
    <3> QED
      BY <2>1, <3>1, <3>2 DEF Whole
  <2>3. StoredPrefix'
    BY <1>t, <2>1, <2>2, PrefixReflexive DEF StoredPrefix
  <2> QED
    BY <2>1, <2>2, <2>3 DEF StoredInv
<1>9. CASE Decide
  <2>1. /\ pc = "outcome" /\ pc' = "seal" /\ fed' = fed /\ db' = db
        /\ tx' = IF depth > 0 THEN db ELSE tx
        /\ outcome' = "ready" => ~error
    BY <1>9 DEF Decide, RolledBack, Verdict, input
  <2>2. StoredPrefix'
    BY <1>t, <2>1, PrefixReflexive, PrefixTransitive
    DEF StoredInv, StoredPrefix
  <2> QED
    BY <1>t, <2>1, <2>2 DEF StoredInv, Whole
<1>10. CASE Seal
  <2>1. /\ pc = "seal" /\ pc' = "done" /\ fed' = fed /\ db' = tx'
        /\ tx' = Finalized(tx, outcome, stats.dropped, malformed)
    BY <1>10 DEF Seal, input
  <2>2. /\ tx'.packets = tx.packets
        /\ tx'.status = "ready" => Whole(tx)'
    <3>1. /\ tx'.packets = tx.packets /\ tx'.meta.written = Len(tx'.packets)
          /\ tx'.meta.hash = tx'.packets /\ tx'.meta.gaps = Gaps(tx'.events)
          /\ tx'.status = outcome
      BY <1>t, <2>1, FinalizedFields
    <3>2. outcome = "ready" => tx.packets = fed
      BY <2>1 DEF StoredInv, Whole
    <3> QED
      BY <2>1, <3>1, <3>2 DEF Whole
  <2>3. StoredPrefix'
    BY <1>t, <2>1, <2>2, PrefixReflexive DEF StoredInv, StoredPrefix
  <2> QED
    BY <2>1, <2>2, <2>3 DEF StoredInv
<1>11. CASE SealFails
  <2>1. /\ pc' = "done" /\ fed' = fed /\ tx' = tx
        /\ db' = db \/ db' = tx
    BY <1>11 DEF SealFails, input
  <2>2. StoredPrefix'
    BY <1>t, <2>1, PrefixReflexive DEF StoredInv, StoredPrefix
  <2> QED
    BY <2>1, <2>2 DEF StoredInv, Whole
<1>12. CASE Crash
  <2>1. pc' = "crashed" /\ fed' = fed /\ tx' = db /\ db' = db
    BY <1>12 DEF Crash, input
  <2>2. StoredPrefix'
    BY <1>t, <2>1, PrefixReflexive, PrefixTransitive
    DEF StoredInv, StoredPrefix
  <2>3. (db.status = "ready" => Whole(db))'
    BY <2>1 DEF StoredInv, Whole
  <2> QED
    BY <2>1, <2>2, <2>3 DEF StoredInv
<1> QED
  BY <1>1, <1>2, <1>3, <1>4, <1>5, <1>6, <1>7, <1>8, <1>9, <1>10, <1>11,
     <1>12
  DEF Next, CaptureStep, ThreadStep, Finished, FileUntouched, RowsUntouched

LEMMA StoredInit == Init => StoredInv
<1> SUFFICES ASSUME Init PROVE StoredInv
  OBVIOUS
<1>1. NoFile.packets = <<>> /\ NoFile.status = "absent"
  BY DEF NoFile
<1>2. /\ pc = "new" /\ fed = <<>> /\ tx = NoFile /\ db = NoFile
  BY DEF Init
<1> QED
  BY <1>1, <1>2, PrefixReflexive, EmptySeq
  DEF StoredInv, StoredPrefix, Looping, Unsealed

LEMMA StoredInvariant == Spec => [](TypeInv /\ StoredInv)
<1>1. Init => TypeInv /\ StoredInv
  BY TypeInit, StoredInit
<1>2. TypeInv /\ StoredInv /\ [Next]_vars => (TypeInv /\ StoredInv)'
  BY TypeStep, StoredStep
<1> QED
  BY <1>1, <1>2, PTL DEF Spec

(* Committed packets are a prefix of the stored ones, and these a prefix of  *)
(* the frames the pipeline has read, through every failure, rollback and     *)
(* crash: nothing is stored twice, out of order, or behind a hole.           *)
THEOREM StoredIsPrefix == Spec => []StoredPrefix
<1>1. TypeInv /\ StoredInv => StoredPrefix
  BY DEF StoredInv
<1> QED
  BY <1>1, StoredInvariant, PTL

(* A session never becomes "ready" with a frame missing or with metadata     *)
(* that describe other packets than the stored ones.                         *)
THEOREM ReadyIsComplete == Spec => []ReadyIsWhole
<1>1. TypeInv /\ StoredInv => ReadyIsWhole
  BY DEF StoredInv, Whole, ReadyIsWhole
<1> QED
  BY <1>1, StoredInvariant, PTL

-----------------------------------------------------------------------------
(* The pipeline implements the lifecycle *)

Unfinished == {"created", "capturing"}

(* Where the thread is bounds what the status of the file can be; "created"  *)
(* is the status of a file without packets.                                  *)
LifeInv ==
  /\ pc = "new" => db.status = "absent" /\ tx.status = "absent"
  /\ pc \in Unsealed \ {"new"} =>
       db.status \in Unfinished /\ tx.status \in Unfinished
  /\ pc \in {"cleanup", "outcome", "seal"} =>
       /\ db.status \in Unfinished \cup {"ready"}
       /\ tx.status \in Unfinished \cup {"ready"}
  /\ tx.status = "created" => tx.packets = <<>> /\ db.status = "created"
  /\ db.status = "created" => db.packets = <<>>

LEMMA LifeStep == TypeInv /\ StoredInv /\ LifeInv /\ [Next]_vars => LifeInv'
<1> SUFFICES ASSUME TypeInv, StoredInv, LifeInv, [Next]_vars
             PROVE  LifeInv'
  OBVIOUS
<1> USE DEF Looping, Unsealed, Unfinished
<1>t. tx \in FileType /\ db \in FileType
  BY DEF TypeInv, TypeOK
<1>1. CASE Start
  <2>1. pc' = "setup" /\ tx' = NewFile /\ db' = NewFile
    BY <1>1 DEF Start
  <2>2. NewFile.packets = <<>> /\ NewFile.status = "created"
    BY DEF NewFile, NoFile
  <2> QED
    BY <2>1, <2>2 DEF LifeInv
<1>2. CASE FileUntouched
  BY <1>2, UntouchedEffect DEF LifeInv
<1>3. CASE \E f \in FlowKeys : ReadFrame(f)
  <2>1. pc = "read" /\ pc' = "packet" /\ tx' = tx /\ db' = db
    BY <1>3 DEF ReadFrame, Deliver, file
  <2> QED
    BY <2>1 DEF LifeInv
<1>4. CASE StorePacket
  BY <1>4, StorePacketEffect DEF LifeInv
<1>5. CASE RowsUntouched
  BY <1>5, RowsUntouchedEffect DEF LifeInv
<1>6. CASE Commit \/ CommitLast
  <2>1. pc \in Looping /\ pc' \in Looping /\ db' = tx /\ tx' = tx
    BY <1>6 DEF Commit, CommitLast
  <2> QED
    BY <2>1 DEF LifeInv
<1>7. CASE CommitFails
  <2>1. /\ pc \in Looping /\ pc' = "cleanup" /\ db' = db
        /\ tx' = tx \/ tx' = db
    BY <1>7 DEF CommitFails, Raise
  <2> QED
    BY <2>1 DEF LifeInv
<1>8. CASE FinalizeReady
  <2>1. /\ pc = "finalize" /\ pc' = "cleanup" /\ db' = tx'
        /\ tx' = Finalized(tx, "ready", drops, malformed)
    BY <1>8 DEF FinalizeReady
  <2>2. tx'.status = "ready"
    BY <1>t, <2>1, FinalizedFields
  <2> QED
    BY <2>1, <2>2 DEF LifeInv
<1>9. CASE Decide
  <2>1. /\ pc = "outcome" /\ pc' = "seal" /\ db' = db
        /\ tx' = db \/ tx' = tx
    BY <1>9 DEF Decide, RolledBack
  <2> QED
    BY <2>1 DEF LifeInv
<1>10. CASE Seal
  <2>1. /\ pc = "seal" /\ pc' = "done" /\ db' = tx'
        /\ tx' = Finalized(tx, outcome, stats.dropped, malformed)
    BY <1>10 DEF Seal
  <2>2. tx'.status \in {"ready", "failed"}
    BY <1>t, <2>1, FinalizedFields DEF TypeInv, TypeOK
  <2> QED
    BY <2>1, <2>2 DEF LifeInv
<1>11. CASE SealFails
  <2>1. pc' = "done" /\ tx' = tx /\ (db' = db \/ db' = tx)
    BY <1>11 DEF SealFails
  <2> QED
    BY <2>1 DEF LifeInv
<1>12. CASE Crash
  <2>1. pc' = "crashed" /\ tx' = db /\ db' = db
    BY <1>12 DEF Crash
  <2> QED
    BY <2>1 DEF LifeInv
<1> QED
  BY <1>1, <1>2, <1>3, <1>4, <1>5, <1>6, <1>7, <1>8, <1>9, <1>10, <1>11,
     <1>12
  DEF Next, CaptureStep, ThreadStep, Finished, FileUntouched, RowsUntouched

(* The abstract specification reads IsPrefix through its own instance.       *)
LEMMA SamePrefix == \A s, t : Lifecycle!IsPrefix(s, t) <=> IsPrefix(s, t)
BY DEF Lifecycle!IsPrefix, IsPrefix

(* Every step of the pipeline is a step of the lifecycle, or leaves what a   *)
(* reader of the file sees alone.                                            *)
LEMMA StepIsLifeStep ==
  TypeInv /\ StoredInv /\ LifeInv /\ [Next]_vars =>
    [Lifecycle!LifeNext]_(Lifecycle!view)
<1> SUFFICES ASSUME TypeInv, StoredInv, LifeInv, [Next]_vars
             PROVE  [Lifecycle!LifeNext]_(Lifecycle!view)
  OBVIOUS
<1> USE DEF Looping, Unsealed, Unfinished, Lifecycle!view, Lifecycle!Open,
            Lifecycle!Sealed
<1>t. /\ tx \in FileType /\ tx.packets \in Seq(FlowKeys)
      /\ db.packets \in Seq(FlowKeys) /\ IsPrefix(db.packets, tx.packets)
      /\ Lifecycle!IsPrefix(db.packets, tx.packets)
  BY SamePrefix DEF TypeInv, TypeOK, FileType, StoredInv, StoredPrefix
<1>1. CASE Start
  <2>1. pc = "new" /\ db' = NewFile
    BY <1>1 DEF Start
  <2>2. NewFile.packets = <<>> /\ NewFile.status = "created"
    BY DEF NewFile, NoFile
  <2>3. db.status = "absent" /\ db.packets = <<>>
    BY <1>t, <2>1, PrefixOfEmpty DEF LifeInv, StoredInv, StoredPrefix
  <2> QED
    BY <2>1, <2>2, <2>3 DEF Lifecycle!LifeNext, Lifecycle!Create
<1>2. CASE \/ FileUntouched \/ RowsUntouched \/ StorePacket
           \/ \E f \in FlowKeys : ReadFrame(f)
           \/ CommitFails \/ Decide \/ Crash
  <2>1. db' = db
    BY <1>2, UntouchedEffect, RowsUntouchedEffect, StorePacketEffect
    DEF ReadFrame, CommitFails, Decide, Crash, file
  <2> QED
    BY <2>1
<1>3. CASE Commit \/ CommitLast \/ SealFails
  <2>1. db' = db \/ (db' = tx /\ pc # "new")
    BY <1>3 DEF Commit, CommitLast, SealFails
  <2>2. CASE tx.status = "ready" \/ db.status = "ready"
    BY <2>1, <2>2 DEF StoredInv
  <2>3. CASE tx.status = "created"
    <3>1. db.packets = tx.packets /\ db.status = tx.status
      BY <2>3 DEF LifeInv
    <3> QED
      BY <2>1, <3>1
  <2>4. CASE tx.status = "capturing" /\ db.status \in Unfinished
    BY <1>t, <2>1, <2>4 DEF Lifecycle!LifeNext, Lifecycle!Store
  <2>5. /\ tx.status \in Unfinished \cup {"ready"}
        /\ db.status \in Unfinished \cup {"ready"}
    BY <1>3 DEF Commit, CommitLast, SealFails, LifeInv
  <2> QED
    BY <2>2, <2>3, <2>4, <2>5
<1>4. CASE FinalizeReady
  <2>1. pc = "finalize" /\ db' = Finalized(tx, "ready", drops, malformed)
    BY <1>4 DEF FinalizeReady
  <2>2. db'.packets = tx.packets /\ db'.status = "ready"
    BY <1>t, <2>1, FinalizedFields
  <2>3. db.status \in Unfinished
    BY <2>1 DEF LifeInv
  <2> QED
    BY <1>t, <2>2, <2>3 DEF Lifecycle!LifeNext, Lifecycle!Finish
<1>5. CASE Seal
  <2>1. /\ pc = "seal"
        /\ db' = Finalized(tx, outcome, stats.dropped, malformed)
    BY <1>5 DEF Seal
  <2>2. db'.packets = tx.packets /\ db'.status = outcome
    BY <1>t, <2>1, FinalizedFields
  <2>3. outcome \in {"ready", "failed"}
    BY <2>1 DEF TypeInv, TypeOK
  <2>4. CASE db.status \in Unfinished
    BY <1>t, <2>2, <2>3, <2>4 DEF Lifecycle!LifeNext, Lifecycle!Finish
  <2>5. CASE db.status = "ready"
    <3>1. db.packets = tx.packets
      BY <2>5 DEF StoredInv
    <3> QED
      BY <2>2, <2>3, <2>5, <3>1 DEF Lifecycle!LifeNext, Lifecycle!Revise
  <2> QED
    BY <2>1, <2>4, <2>5 DEF LifeInv
<1> QED
  BY <1>1, <1>2, <1>3, <1>4, <1>5
  DEF Next, CaptureStep, ThreadStep, Finished, FileUntouched, RowsUntouched

(* CapturePipeline implements SessionLifecycle: for every number of frames,  *)
(* flows and stop() calls a reader sees batches appended to an open session, *)
(* no packet withdrawn, and none added once the session is sealed.           *)
THEOREM PipelineRefinesLifecycle == Spec => ImplementsLifecycle
<1>1. Init => Lifecycle!LifeInit /\ LifeInv
  <2>1. NoFile.packets = <<>> /\ NoFile.status = "absent"
    BY DEF NoFile
  <2> QED
    BY <2>1 DEF Init, LifeInv, Lifecycle!LifeInit, Unsealed, Looping
<1>2. TypeInv /\ StoredInv /\ LifeInv /\ [Next]_vars => LifeInv'
  BY LifeStep
<1>3. TypeInv /\ StoredInv /\ LifeInv /\ [Next]_vars =>
        [Lifecycle!LifeNext]_(Lifecycle!view)
  BY StepIsLifeStep
<1> QED
  BY <1>1, <1>2, <1>3, StoredInvariant, PTL
  DEF Spec, ImplementsLifecycle, Lifecycle!LifeSpec

-----------------------------------------------------------------------------
(* What a captured file says: its rows, its events, its metadata and the    *)
(* counters of the capture.                                                 *)

(* One more element at the end is one more occurrence of it.                *)
LEMMA OccurrencesAppended ==
  ASSUME NEW S, NEW s \in Seq(S), NEW y \in S
  PROVE  \A x : /\ Occurrences(x, s) \in Nat
               /\ Occurrences(x, Append(s, y))
                    = Occurrences(x, s) + (IF x = y THEN 1 ELSE 0)
<1> SUFFICES ASSUME NEW x
             PROVE  /\ Occurrences(x, s) \in Nat
                    /\ Occurrences(x, Append(s, y))
                         = Occurrences(x, s) + (IF x = y THEN 1 ELSE 0)
  OBVIOUS
<1> DEFINE A == {i \in DOMAIN s : s[i] = x}
           B == {i \in DOMAIN Append(s, y) : Append(s, y)[i] = x}
<1>1. Len(s) \in Nat /\ DOMAIN s = 1 .. Len(s) /\ IsFiniteSet(1 .. Len(s))
  BY LenProperties, FS_Interval
<1>2. IsFiniteSet(A) /\ Cardinality(A) \in Nat
  <2>1. A \in SUBSET (1 .. Len(s))
    BY <1>1
  <2> QED
    BY <1>1, <2>1, FS_Subset, FS_CardinalityType
<1>3. /\ DOMAIN Append(s, y) = 1 .. Len(s) + 1
      /\ \A i \in 1 .. Len(s) : Append(s, y)[i] = s[i]
      /\ Append(s, y)[Len(s) + 1] = y
  BY <1>1, AppendProperties, LenProperties
<1>4. CASE x = y
  <2>1. B = A \cup {Len(s) + 1} /\ Len(s) + 1 \notin A
    BY <1>1, <1>3, <1>4
  <2>2. Cardinality(B) = Cardinality(A) + 1
    BY <1>2, <2>1, FS_AddElement
  <2> QED
    BY <1>2, <1>4, <2>2 DEF Occurrences
<1>5. CASE x # y
  <2>1. B = A
    BY <1>1, <1>3, <1>5
  <2>2. Cardinality(B) = Cardinality(A)
    BY <2>1, Zenon
  <2>3. Occurrences(x, s) = Cardinality(A) /\ Occurrences(x, Append(s, y)) = Cardinality(B)
    BY Zenon DEF Occurrences
  <2> HIDE DEF A, B
  <2> QED
    BY <1>2, <1>5, <2>2, <2>3
<1> QED
  BY <1>4, <1>5

(* What is not there occurs no times, and what is does at least once.       *)
LEMMA OccurrencesWhere ==
  ASSUME NEW S, NEW s \in Seq(S), NEW x
  PROVE  /\ Occurrences(x, s) \in Nat
         /\ Occurrences(x, s) = 0 <=> \A i \in 1 .. Len(s) : s[i] # x
<1> DEFINE A == {i \in DOMAIN s : s[i] = x}
<1>1. Len(s) \in Nat /\ DOMAIN s = 1 .. Len(s) /\ IsFiniteSet(1 .. Len(s))
  BY LenProperties, FS_Interval
<1>2. A \in SUBSET (1 .. Len(s))
  BY <1>1
<1>3. IsFiniteSet(A) /\ Cardinality(A) \in Nat
  BY <1>1, <1>2, FS_Subset, FS_CardinalityType
<1>4. Cardinality(A) = 0 <=> A = {}
  BY <1>3, FS_EmptySet
<1>5. A = {} <=> \A i \in 1 .. Len(s) : s[i] # x
  BY <1>1
<1> QED
  BY <1>3, <1>4, <1>5 DEF Occurrences

(* The flow rows count the packets.                                          *)
Counting(s) == \A f \in FlowKeys : s.flows[f] = Occurrences(f, s.packets)

(* The events ev are those of the first k packets of p: the first packet of  *)
(* a flow has its flow event, and each event names its packet or none.       *)
EventsOf(k, p, ev) ==
  /\ \A n \in 1 .. k :
       Occurrences(Event("FLOW", p[n], n), ev) = (IF StartsFlow(n, p) THEN 1 ELSE 0)
  /\ \A i \in 1 .. Len(ev) :
       IF ev[i].packet = 0
       THEN ev[i].kind # "FLOW" /\ \E n \in 1 .. Len(p) : p[n] = ev[i].flow
       ELSE ev[i].packet \in 1 .. k /\ p[ev[i].packet] = ev[i].flow

Consistent(s) == Counting(s) /\ EventsOf(Len(s.packets), s.packets, s.events)

(* A stored packet leaves the events before it what they were.               *)
LEMMA EventsAfterPacket ==
  ASSUME NEW p \in Seq(FlowKeys), NEW f \in FlowKeys, NEW ev \in Seq(EventType),
         EventsOf(Len(p), p, ev)
  PROVE  EventsOf(Len(p), Append(p, f), ev)
<1>1. /\ Len(p) \in Nat /\ Len(Append(p, f)) = Len(p) + 1
      /\ \A i \in 1 .. Len(p) : Append(p, f)[i] = p[i]
  BY LenProperties, AppendProperties
<1>2. \A n \in 1 .. Len(p) : StartsFlow(n, Append(p, f)) <=> StartsFlow(n, p)
  BY <1>1 DEF StartsFlow
<1>3. \A n \in 1 .. Len(p) :
         Occurrences(Event("FLOW", Append(p, f)[n], n), ev)
           = (IF StartsFlow(n, Append(p, f)) THEN 1 ELSE 0)
  BY <1>1, <1>2 DEF EventsOf
<1>4. \A i \in 1 .. Len(ev) :
         IF ev[i].packet = 0
         THEN ev[i].kind # "FLOW"
              /\ \E n \in 1 .. Len(Append(p, f)) : Append(p, f)[n] = ev[i].flow
         ELSE ev[i].packet \in 1 .. Len(p)
              /\ Append(p, f)[ev[i].packet] = ev[i].flow
  <2> SUFFICES ASSUME NEW i \in 1 .. Len(ev)
               PROVE  IF ev[i].packet = 0
                      THEN ev[i].kind # "FLOW"
                           /\ \E n \in 1 .. Len(Append(p, f)) :
                                 Append(p, f)[n] = ev[i].flow
                      ELSE ev[i].packet \in 1 .. Len(p)
                           /\ Append(p, f)[ev[i].packet] = ev[i].flow
    OBVIOUS
  <2> QED
    BY <1>1 DEF EventsOf
<1> QED
  BY <1>3, <1>4 DEF EventsOf

(* An event of another kind leaves the flow events what they were.           *)
LEMMA EventsAfterIssue ==
  ASSUME NEW p \in Seq(FlowKeys), NEW k \in 0 .. Len(p), NEW ev \in Seq(EventType),
         NEW e \in EventType, EventsOf(k, p, ev), e.kind # "FLOW",
         IF e.packet = 0 THEN \E n \in 1 .. Len(p) : p[n] = e.flow
         ELSE e.packet \in 1 .. k /\ p[e.packet] = e.flow
  PROVE  EventsOf(k, p, Append(ev, e))
<1>1. /\ Len(ev) \in Nat /\ Len(Append(ev, e)) = Len(ev) + 1
      /\ \A i \in 1 .. Len(ev) : Append(ev, e)[i] = ev[i]
      /\ Append(ev, e)[Len(ev) + 1] = e
  BY LenProperties, AppendProperties
<1>2. \A x : x # e => Occurrences(x, Append(ev, e)) = Occurrences(x, ev)
  BY OccurrencesAppended
<1>3. \A n \in 1 .. k : Event("FLOW", p[n], n) # e
  BY DEF Event
<1>4. \A n \in 1 .. k : Occurrences(Event("FLOW", p[n], n), Append(ev, e))
                          = (IF StartsFlow(n, p) THEN 1 ELSE 0)
  BY <1>2, <1>3 DEF EventsOf
<1>5. \A i \in 1 .. Len(Append(ev, e)) :
         LET a == Append(ev, e)[i]
         IN  IF a.packet = 0
             THEN a.kind # "FLOW" /\ \E n \in 1 .. Len(p) : p[n] = a.flow
             ELSE a.packet \in 1 .. k /\ p[a.packet] = a.flow
  BY <1>1 DEF EventsOf
<1> QED
  BY <1>4, <1>5 DEF EventsOf

(* The last packet adds its flow event when it is the first of its flow, and *)
(* needs none otherwise.                                                     *)
LEMMA EventsAfterFlow ==
  ASSUME NEW p \in Seq(FlowKeys), p # <<>>, NEW ev \in Seq(EventType),
         EventsOf(Len(p) - 1, p, ev), NEW e \in EventType,
         e = Event("FLOW", p[Len(p)], Len(p))
  PROVE  EventsOf(Len(p), p, IF StartsFlow(Len(p), p) THEN Append(ev, e) ELSE ev)
<1> DEFINE k == Len(p)
<1>1. k \in Nat \ {0} /\ Len(ev) \in Nat
  BY LenProperties, EmptySeq
<1>2. Occurrences(e, ev) = 0
  <2>1. \A i \in 1 .. Len(ev) : ev[i] # e
    BY <1>1 DEF EventsOf, Event
  <2> QED
    BY <2>1, OccurrencesWhere
<1>3. \A n \in 1 .. k - 1 : Event("FLOW", p[n], n) # e
  BY <1>1 DEF Event
<1>4. CASE StartsFlow(k, p)
  <2>1. /\ Len(Append(ev, e)) = Len(ev) + 1
        /\ \A i \in 1 .. Len(ev) : Append(ev, e)[i] = ev[i]
        /\ Append(ev, e)[Len(ev) + 1] = e
    BY AppendProperties
  <2>2. \A x : Occurrences(x, Append(ev, e))
                 = Occurrences(x, ev) + (IF x = e THEN 1 ELSE 0)
               /\ Occurrences(x, ev) \in Nat
    BY OccurrencesAppended
  <2>3. \A n \in 1 .. k : Occurrences(Event("FLOW", p[n], n), Append(ev, e))
                            = (IF StartsFlow(n, p) THEN 1 ELSE 0)
    <3>1. Occurrences(Event("FLOW", p[k], k), Append(ev, e)) = 1
      BY <1>2, <2>2
    <3>2. \A n \in 1 .. k - 1 :
             Occurrences(Event("FLOW", p[n], n), Append(ev, e))
               = (IF StartsFlow(n, p) THEN 1 ELSE 0)
      BY <1>3, <2>2 DEF EventsOf
    <3> QED
      BY <1>1, <1>4, <3>1, <3>2
  <2>4. \A i \in 1 .. Len(Append(ev, e)) :
           LET a == Append(ev, e)[i]
           IN  IF a.packet = 0
               THEN a.kind # "FLOW" /\ \E n \in 1 .. Len(p) : p[n] = a.flow
               ELSE a.packet \in 1 .. k /\ p[a.packet] = a.flow
    <3>1. e.packet = k /\ e.flow = p[k]
      BY DEF Event
    <3>2. \A i \in 1 .. Len(ev) :
             IF ev[i].packet = 0
             THEN ev[i].kind # "FLOW" /\ \E n \in 1 .. Len(p) : p[n] = ev[i].flow
             ELSE ev[i].packet \in 1 .. k /\ p[ev[i].packet] = ev[i].flow
      BY <1>1 DEF EventsOf
    <3> HIDE DEF k
    <3> QED
      BY <1>1, <2>1, <3>1, <3>2, SMTT(30)
  <2> QED
    BY <1>4, <2>3, <2>4 DEF EventsOf
<1>5. CASE ~StartsFlow(k, p)
  <2>1. \A n \in 1 .. k : Occurrences(Event("FLOW", p[n], n), ev)
                            = (IF StartsFlow(n, p) THEN 1 ELSE 0)
    <3>1. Occurrences(Event("FLOW", p[k], k), ev) = 0
      BY <1>2
    <3>2. \A n \in 1 .. k - 1 : Occurrences(Event("FLOW", p[n], n), ev)
                                  = (IF StartsFlow(n, p) THEN 1 ELSE 0)
      BY DEF EventsOf
    <3> QED
      BY <1>1, <1>5, <3>1, <3>2
  <2>2. \A i \in 1 .. Len(ev) :
           IF ev[i].packet = 0
           THEN ev[i].kind # "FLOW" /\ \E n \in 1 .. Len(p) : p[n] = ev[i].flow
           ELSE ev[i].packet \in 1 .. k /\ p[ev[i].packet] = ev[i].flow
    BY <1>1 DEF EventsOf
  <2> QED
    BY <1>5, <2>1, <2>2 DEF EventsOf
<1> QED
  BY <1>4, <1>5

(* Where the writer's view is whole: everywhere but between a packet and its *)
(* last event, and there in a precise sense only that packet is unfinished.  *)
RowsInv ==
  /\ Consistent(db)
  /\ pc \notin {"flow", "event", "cleanup", "outcome"} => Consistent(tx)
  /\ pc = "flow" =>
       /\ \A f \in FlowKeys : f # Current => tx.flows[f] = Occurrences(f, tx.packets)
       /\ EventsOf(Len(tx.packets) - 1, tx.packets, tx.events)
  /\ pc = "event" =>
       Counting(tx) /\ EventsOf(Len(tx.packets), tx.packets, tx.events \o todo)
  /\ pc \in {"cleanup", "outcome"} /\ depth = 0 => Consistent(tx)

-----------------------------------------------------------------------------
(* Rows *)

LEMMA SameRows ==
  \A s, t : /\ s.packets = t.packets /\ s.flows = t.flows /\ s.events = t.events
            /\ Consistent(s)
            => Consistent(t)
BY DEF Consistent, Counting

LEMMA FinalizedRows ==
  \A s \in FileType : \A t, st, dropped, bad :
    t = Finalized(s, st, dropped, bad) /\ Consistent(s) => Consistent(t)
<1> SUFFICES ASSUME NEW s \in FileType, NEW t, NEW st, NEW dropped, NEW bad,
                    t = Finalized(s, st, dropped, bad), Consistent(s)
             PROVE  Consistent(t)
  OBVIOUS
<1>1. t.packets = s.packets /\ t.flows = s.flows /\ t.events = s.events
  BY DEF FileType, Finalized
<1> QED
  BY <1>1, SameRows, Zenon

LEMMA EmptyRows ==
  ASSUME NEW s, s.packets = <<>>, s.flows = [f \in FlowKeys |-> 0], s.events = <<>>
  PROVE  Consistent(s)
<1>1. \A x : Occurrences(x, <<>>) = 0
  <2> TAKE x
  <2>1. <<>> \in Seq(FlowKeys) /\ Len(<<>>) = 0
    BY EmptySeq
  <2>2. \A i \in 1 .. Len(<<>>) : <<>>[i] # x
    BY <2>1
  <2> QED
    BY <2>1, <2>2, OccurrencesWhere, Zenon
<1>2. Counting(s)
  BY <1>1 DEF Counting
<1>3. EventsOf(Len(s.packets), s.packets, s.events)
  BY DEF EventsOf
<1> QED
  BY <1>2, <1>3 DEF Consistent

(* What the steps that leave the file alone do to the thread and its batch.  *)
LEMMA UntouchedPlaces ==
  ASSUME TypeInv, FileUntouched
  PROVE  \/ pc' = pc /\ UNCHANGED <<todo, depth>>
         \/ pc \in {"setup", "read", "found"}
              /\ pc' \in {"read", "found", "drain", "cleanup"}
         \/ pc = "finalize" /\ pc' = "cleanup"
         \/ pc = "event" /\ todo = <<>> /\ pc' \in {"read", "commit"}
         \/ depth = 1 /\ depth' = 1 /\ pc' = "cleanup"
         \/ pc = "cleanup" /\ pc' = "outcome" /\ UNCHANGED depth
<1>1. CASE StorageFails
  BY <1>1 DEF StorageFails, Raise, TypeInv, InBatch, batch
<1>2. CASE CountPacket
  BY <1>2 DEF CountPacket
<1>3. CASE \/ SetUp \/ SetUpFails \/ ReadEnd \/ ReadError \/ ReadRaises
           \/ FinalizeFails \/ CleanUp
  BY <1>3 DEF SetUp, SetUpFails, ReadEnd, ReadError, ReadRaises, FinalizeFails,
              CleanUp, Raise, batch
<1>4. CASE \/ StartAgain \/ ReadMalformed \/ SourceMoves \/ UNCHANGED vars
           \/ \E s \in Stoppers : AskStop(s) \/ StopProceeds(s)
  BY <1>4 DEF StartAgain, ReadMalformed, Deliver, SourceMoves, AskStop, StopProceeds,
              LookForError, TakeError, Blame, vars, batch
<1> QED
  BY <1>1, <1>2, <1>3, <1>4 DEF FileUntouched

(* StorePacket: the new packet is in no flow row and in no event yet.        *)
LEMMA RowsAfterPacket ==
  ASSUME TypeInv, StoredInv, RowsInv, StorePacket
  PROVE  RowsInv'
<1>1. /\ pc = "packet" /\ pc' = "flow" /\ fed' = fed /\ db' = db
      /\ tx'.packets = Append(tx.packets, Current)
  BY StorePacketEffect
<1>2. /\ tx \in FileType /\ tx.packets \in Seq(FlowKeys) /\ tx.events \in Seq(EventType)
      /\ Len(tx.packets) \in Nat /\ Current \in FlowKeys
  BY <1>1, CurrentIsFlow, LenProperties DEF TypeInv, TypeOK, FileType
<1>3. tx'.flows = tx.flows /\ tx'.events = tx.events
  BY <1>2, Zenon DEF StorePacket, FileType
<1>4. Current' = Current
  BY <1>1 DEF Current
<1>5. Consistent(tx)
  BY <1>1 DEF RowsInv
<1>6. \A f \in FlowKeys : f # Current => tx'.flows[f] = Occurrences(f, tx'.packets)
  BY <1>1, <1>2, <1>3, <1>5, OccurrencesAppended DEF Consistent, Counting
<1>7. EventsOf(Len(tx'.packets) - 1, tx'.packets, tx'.events)
  <2>1. EventsOf(Len(tx.packets), Append(tx.packets, Current), tx.events)
    BY <1>2, <1>5, EventsAfterPacket DEF Consistent
  <2>2. Len(Append(tx.packets, Current)) - 1 = Len(tx.packets)
    BY <1>2, AppendProperties
  <2> QED
    BY <1>1, <1>3, <2>1, <2>2
<1> QED
  BY <1>1, <1>4, <1>6, <1>7 DEF RowsInv

(* StoreFlow: with what is still to do, the events are whole again.          *)
LEMMA RowsAfterFlow ==
  ASSUME TypeInv, StoredInv, RowsInv, NEW found \in FoundIssues, StoreFlow(found)
  PROVE  RowsInv'
<1> DEFINE p == tx.packets
           ev == tx.events
           k == Len(p)
           flow == EventHere("FLOW")
<1>1. /\ pc = "flow" /\ pc' = "event" /\ fed' = fed /\ db' = db
      /\ tx' = [tx EXCEPT !.flows[Current] = Occurrences(Current, fed)]
      /\ todo' = (IF FlowStarted THEN <<EventHere("FLOW")>> ELSE <<>>)
                 \o [i \in DOMAIN found |-> EventHere(found[i])]
  BY Zenon DEF StoreFlow, input
<1>2. /\ tx \in FileType /\ p \in Seq(FlowKeys) /\ ev \in Seq(EventType)
      /\ tx.flows \in [FlowKeys -> Nat]
      /\ Current \in FlowKeys /\ fed # <<>> /\ p = fed
  BY <1>1, CurrentIsFlow DEF TypeInv, TypeOK, FileType, StoredInv, Looping
<1>3. k \in Nat \ {0} /\ p[k] = Current
  BY <1>2, EmptySeq DEF Current
<1>4. Occurrences(Current, fed) \in Nat
  BY <1>2, OccurrencesWhere
<1>5. /\ tx'.packets = p /\ tx'.events = ev
      /\ tx'.flows = [tx.flows EXCEPT ![Current] = Occurrences(Current, fed)]
  BY <1>1, <1>2, Zenon DEF FileType
<1>6. Counting(tx')
  BY <1>1, <1>2, <1>5 DEF Counting, RowsInv
<1>7. \A kind \in EventKinds : /\ EventHere(kind) \in EventType
                               /\ EventHere(kind) = [kind |-> kind, flow |-> p[k], packet |-> k]
  BY <1>2, <1>3 DEF EventHere, Event, EventType
<1>8. flow \in EventType /\ flow = Event("FLOW", p[k], k)
  BY <1>3, <1>7 DEF EventKinds, EventHere
<1>9. FlowStarted <=> StartsFlow(k, p)
  BY <1>2, <1>3 DEF FlowStarted, StartsFlow
<1> DEFINE begun == IF FlowStarted THEN Append(ev, flow) ELSE ev
           head == IF FlowStarted THEN <<flow>> ELSE <<>>
           rest == [i \in DOMAIN found |-> EventHere(found[i])]
<1>10. EventsOf(k, p, begun)
  BY <1>1, <1>2, <1>3, <1>8, <1>9, EventsAfterFlow DEF RowsInv
<1>11. begun \in Seq(EventType) /\ head \in Seq(EventType) /\ ev \o head = begun
  <2>1. CASE FlowStarted
    BY <1>2, <1>8, <2>1, AppendProperties, AppendIsConcat
  <2>2. CASE ~FlowStarted
    BY <1>2, <2>2, EmptySeq, ConcatEmptySeq
  <2> QED
    BY <2>1, <2>2
<1>12. ev \o todo' \in Seq(EventType) /\ EventsOf(k, p, ev \o todo')
  <2> HIDE DEF begun, head, flow, ev, p, k
  <2>1. CASE found = <<>>
    <3>1. rest = <<>>
      BY <2>1
    <3>2. todo' = head
      BY <1>1, <1>11, <3>1, ConcatEmptySeq DEF head, flow
    <3> QED
      BY <1>10, <1>11, <3>2
  <2>2. CASE found # <<>>
    <3>1. PICK issue \in Issues : found = <<issue>>
      BY <2>2 DEF FoundIssues
    <3> DEFINE e == EventHere(issue)
    <3>2. rest = <<e>>
      BY <3>1
    <3>3. /\ e \in EventType /\ e.kind # "FLOW" /\ e.packet = k /\ e.flow = p[k]
      <4>1. issue \in EventKinds /\ issue # "FLOW"
        BY PipelineAssumption DEF EventKinds, PipelineAssumption
      <4>2. e \in EventType /\ e = [kind |-> issue, flow |-> p[k], packet |-> k]
        BY <1>7, <4>1, Zenon DEF e
      <4> QED
        BY <4>1, <4>2
    <3> HIDE DEF e
    <3>4. EventsOf(k, p, Append(begun, e)) /\ Append(begun, e) \in Seq(EventType)
      <4>1. /\ p \in Seq(FlowKeys) /\ k \in 0 .. Len(p) /\ k \in 1 .. k /\ k # 0
        BY <1>2, <1>3 DEF k, p
      <4> QED
        BY <1>10, <1>11, <3>3, <4>1, EventsAfterIssue, AppendProperties
    <3>5. <<e>> \in Seq(EventType)
      BY <3>3
    <3>6. ev \o todo' = (ev \o head) \o <<e>>
      <4>1. todo' = head \o <<e>>
        BY <1>1, <3>2 DEF head, flow
      <4>2. ev \in Seq(EventType)
        BY <1>2 DEF ev
      <4>3. (ev \o head) \o <<e>> = ev \o (head \o <<e>>)
        <5>1. head \in Seq(EventType)
          BY <1>11
        <5> HIDE DEF rest
        <5> QED
          BY <3>5, <4>2, <5>1, ConcatAssociative
      <4> QED
        BY <4>1, <4>3
    <3>7. Append(begun, e) = begun \o <<e>>
      BY <1>11, <3>3, AppendIsConcat
    <3> QED
      BY <1>11, <3>4, <3>6, <3>7
  <2> QED
    BY <2>1, <2>2
<1> QED
  BY <1>1, <1>5, <1>6, <1>12 DEF RowsInv

(* EmitEvent moves one event from todo to the table.                         *)
LEMMA RowsAfterEvent ==
  ASSUME TypeInv, RowsInv, EmitEvent
  PROVE  RowsInv'
<1>1. /\ pc = "event" /\ pc' = pc /\ db' = db /\ todo # <<>> /\ todo' = Tail(todo)
      /\ tx' = [tx EXCEPT !.events = Append(@, Head(todo))]
  BY DEF EmitEvent
<1>2. tx \in FileType /\ tx.events \in Seq(EventType) /\ todo \in Seq(EventType)
  BY DEF TypeInv, TypeOK, FileType
<1>3. /\ tx'.packets = tx.packets /\ tx'.flows = tx.flows
      /\ tx'.events = Append(tx.events, Head(todo))
  BY <1>1, <1>2, Zenon DEF FileType
<1>4. Append(tx.events, Head(todo)) \o Tail(todo) = tx.events \o todo
  <2>1. /\ Head(todo) \in EventType /\ Tail(todo) \in Seq(EventType)
        /\ <<Head(todo)>> \in Seq(EventType)
    BY <1>1, <1>2, HeadTailProperties
  <2>2. Append(tx.events, Head(todo)) = tx.events \o <<Head(todo)>>
    BY <1>2, <2>1, AppendIsConcat
  <2>3. <<Head(todo)>> \o Tail(todo) = todo
    BY <1>1, <1>2, <2>1, ConcatProperties, HeadTailProperties, SeqEqual
  <2>4. (tx.events \o <<Head(todo)>>) \o Tail(todo)
          = tx.events \o (<<Head(todo)>> \o Tail(todo))
    BY <1>2, <2>1, ConcatAssociative
  <2> QED
    BY <2>2, <2>3, <2>4
<1> QED
  BY <1>1, <1>3, <1>4 DEF RowsInv, Counting

(* DrainGap: an event of no packet.                                          *)
LEMMA RowsAfterGap ==
  ASSUME TypeInv, StoredInv, RowsInv, NEW f \in FlowKeys, DrainGap(f)
  PROVE  RowsInv'
<1> DEFINE e == Event("STREAM_GAP", f, 0)
<1>1. /\ pc = "drain" /\ pc' = pc /\ db' = db /\ f \in Range(fed)
      /\ tx' = [tx EXCEPT !.events = Append(@, e)] /\ depth' = depth
  BY DEF DrainGap, batch
<1>2. /\ tx \in FileType /\ tx.events \in Seq(EventType) /\ tx.packets \in Seq(FlowKeys)
      /\ tx.packets = fed /\ Consistent(tx)
  BY <1>1 DEF TypeInv, TypeOK, FileType, StoredInv, Looping, RowsInv
<1>3. /\ tx'.packets = tx.packets /\ tx'.flows = tx.flows
      /\ tx'.events = Append(tx.events, e)
  BY <1>1, <1>2, Zenon DEF FileType
<1>4. /\ e \in EventType /\ e.kind # "FLOW" /\ e.packet = 0
      /\ \E n \in 1 .. Len(tx.packets) : tx.packets[n] = e.flow
  <2>1. e \in EventType
    BY PipelineAssumption DEF PipelineAssumption, Event, EventType, EventKinds
  <2>2. e.kind # "FLOW" /\ e.packet = 0 /\ e.flow = f
    BY DEF Event
  <2>3. \E n \in 1 .. Len(tx.packets) : tx.packets[n] = f
    BY <1>1, <1>2, LenProperties DEF Range
  <2> QED
    BY <2>1, <2>2, <2>3
<1>5. Len(tx.packets) \in 0 .. Len(tx.packets)
  BY <1>2, LenProperties
<1> HIDE DEF e
<1>6. EventsOf(Len(tx.packets), tx.packets, Append(tx.events, e))
  BY <1>2, <1>4, <1>5, EventsAfterIssue DEF Consistent
<1>7. Consistent(tx')
  BY <1>2, <1>3, <1>6 DEF Consistent, Counting
<1> QED
  BY <1>1, <1>7 DEF RowsInv

LEMMA RowsStep == TypeInv /\ StoredInv /\ RowsInv /\ [Next]_vars => RowsInv'
<1> SUFFICES ASSUME TypeInv, StoredInv, RowsInv, [Next]_vars
             PROVE  RowsInv'
  OBVIOUS
<1>t. tx \in FileType /\ db \in FileType
  BY DEF TypeInv, TypeOK
<1>1. CASE Start
  <2>1. pc' = "setup" /\ tx' = NewFile /\ db' = NewFile
    BY <1>1 DEF Start
  <2>2. Consistent(NewFile)
    BY EmptyRows DEF NewFile, NoFile
  <2> QED
    BY <2>1, <2>2 DEF RowsInv
<1>2. CASE FileUntouched
  <2>1. UNCHANGED <<tx, db, fed>> /\ Current' = Current
    BY <1>2, UntouchedEffect DEF Current
  <2>2. CASE pc' = pc /\ UNCHANGED <<todo, depth>>
    BY <2>1, <2>2 DEF RowsInv, Consistent, Counting, EventsOf
  <2>3. CASE \/ pc \in {"setup", "read", "found"} /\ pc' \in {"read", "found", "drain", "cleanup"}
             \/ pc = "finalize" /\ pc' = "cleanup"
    BY <2>1, <2>3 DEF RowsInv
  <2>4. CASE pc = "event" /\ todo = <<>> /\ pc' \in {"read", "commit"}
    <3>1. tx.events \o <<>> = tx.events
      BY <1>t, ConcatEmptySeq DEF FileType
    <3>2. Consistent(tx)
      BY <2>4, <3>1 DEF RowsInv, Consistent
    <3> QED
      BY <2>1, <2>4, <3>2 DEF RowsInv
  <2>5. CASE depth = 1 /\ depth' = 1 /\ pc' = "cleanup"
    BY <2>1, <2>5 DEF RowsInv
  <2>6. CASE pc = "cleanup" /\ pc' = "outcome" /\ UNCHANGED depth
    BY <2>1, <2>6 DEF RowsInv
  <2> QED
    BY <1>2, <2>2, <2>3, <2>4, <2>5, <2>6, UntouchedPlaces
<1>3. CASE \E f \in FlowKeys : ReadFrame(f)
  <2>1. pc = "read" /\ pc' = "packet" /\ tx' = tx /\ db' = db
    BY <1>3 DEF ReadFrame, Deliver, file
  <2> QED
    BY <2>1 DEF RowsInv
<1>4. CASE StorePacket
  BY <1>4, RowsAfterPacket
<1>5. CASE \E found \in FoundIssues : StoreFlow(found)
  BY <1>5, RowsAfterFlow
<1>6. CASE EmitEvent
  BY <1>6, RowsAfterEvent
<1>7. CASE \E f \in FlowKeys : DrainGap(f)
  BY <1>7, RowsAfterGap
<1>8. CASE Commit \/ CommitLast
  <2>1. pc \in {"commit", "drain"} /\ pc' \in {"read", "finalize"} /\ db' = tx /\ tx' = tx
    BY <1>8 DEF Commit, CommitLast
  <2> QED
    BY <2>1 DEF RowsInv
<1>9. CASE CommitFails
  <2>1. /\ pc \in {"commit", "drain"} /\ pc' = "cleanup" /\ db' = db
        /\ tx' = tx \/ tx' = db
    BY <1>9 DEF CommitFails, Raise
  <2> QED
    BY <2>1 DEF RowsInv
<1>10. CASE FinalizeReady
  <2>1. /\ pc = "finalize" /\ pc' = "cleanup" /\ db' = tx'
        /\ tx' = Finalized(tx, "ready", drops, malformed)
    BY <1>10 DEF FinalizeReady
  <2>2. Consistent(tx')
    BY <1>t, <2>1, FinalizedRows DEF RowsInv
  <2> QED
    BY <2>1, <2>2 DEF RowsInv
<1>11. CASE Decide
  <2>1. /\ pc = "outcome" /\ pc' = "seal" /\ db' = db
        /\ tx' = IF depth > 0 THEN db ELSE tx
    BY <1>11 DEF Decide, RolledBack
  <2>2. depth > 0 \/ depth = 0
    BY DEF TypeInv, TypeOK
  <2> QED
    BY <2>1, <2>2 DEF RowsInv
<1>12. CASE Seal
  <2>1. /\ pc = "seal" /\ pc' = "done" /\ db' = tx'
        /\ tx' = Finalized(tx, outcome, stats.dropped, malformed)
    BY <1>12 DEF Seal
  <2>2. Consistent(tx')
    BY <1>t, <2>1, FinalizedRows DEF RowsInv
  <2> QED
    BY <2>1, <2>2 DEF RowsInv
<1>13. CASE SealFails
  <2>1. pc = "seal" /\ pc' = "done" /\ tx' = tx /\ (db' = db \/ db' = tx)
    BY <1>13 DEF SealFails
  <2> QED
    BY <2>1 DEF RowsInv
<1>14. CASE Crash
  <2>1. pc' = "crashed" /\ tx' = db /\ db' = db
    BY <1>14 DEF Crash
  <2> QED
    BY <2>1 DEF RowsInv
<1> QED
  BY <1>1, <1>2, <1>3, <1>4, <1>5, <1>6, <1>7, <1>8, <1>9, <1>10, <1>11,
     <1>12, <1>13, <1>14
  DEF Next, CaptureStep, ThreadStep, Finished, FileUntouched

LEMMA RowsInvariant == Spec => [](TypeInv /\ StoredInv /\ RowsInv)
<1>1. Init => RowsInv
  <2> SUFFICES ASSUME Init PROVE RowsInv
    OBVIOUS
  <2>1. Consistent(NoFile)
    BY EmptyRows DEF NoFile
  <2>2. pc = "new" /\ tx = NoFile /\ db = NoFile
    BY DEF Init
  <2> QED
    BY <2>1, <2>2 DEF RowsInv
<1>2. TypeInv /\ StoredInv /\ RowsInv /\ [Next]_vars => RowsInv'
  BY RowsStep
<1> QED
  BY <1>1, <1>2, StoredInvariant, PTL DEF Spec

LEMMA ConsistentFile ==
  TypeInv /\ Consistent(db) => CommittedConsistent
<1> SUFFICES ASSUME TypeInv, Consistent(db) PROVE CommittedConsistent
  OBVIOUS
<1>1. /\ db.packets \in Seq(FlowKeys) /\ db.events \in Seq(EventType)
      /\ Range(db.packets) = {db.packets[n] : n \in 1 .. Len(db.packets)}
      /\ Range(db.events) = {db.events[i] : i \in 1 .. Len(db.events)}
      /\ DOMAIN db.packets = 1 .. Len(db.packets)
  BY LenProperties DEF TypeInv, TypeOK, FileType, Range
<1> QED
  BY <1>1 DEF Consistent, Counting, EventsOf, CommittedConsistent

(* What another connection reads is never half a packet: the flow rows and   *)
(* the events are those of the stored packets, in every reachable state.     *)
THEOREM FileIsConsistent == Spec => []CommittedConsistent
<1>1. TypeInv /\ StoredInv /\ RowsInv => CommittedConsistent
  BY ConsistentFile DEF RowsInv
<1> QED
  BY <1>1, RowsInvariant, PTL

-----------------------------------------------------------------------------
(* Subscribers *)

(* Up to its last event of a packet, a table holds what was pushed.          *)
Told(ev) ==
  \A i \in 1 .. Len(ev) : ev[i].packet # 0 =>
    i <= Len(pushed) /\ \A j \in 1 .. i : ev[j] = pushed[j]

ToldInv ==
  /\ Told(db.events) /\ Told(tx.events)
  /\ pc \in {"new", "setup", "read", "found", "packet", "flow", "event", "commit"} =>
       tx.events = pushed
  /\ pc = "new" => pushed = <<>>

LEMMA UntouchedPushed == FileUntouched => UNCHANGED pushed
BY Zenon
DEF FileUntouched, StartAgain, SetUp, SetUpFails, ReadMalformed, ReadEnd, ReadError,
    ReadRaises, CountPacket, StorageFails, FinalizeFails, CleanUp, SourceMoves,
    AskStop, StopProceeds, LookForError, TakeError, Blame, vars

(* A subscriber forgets nothing.                                             *)
LEMMA ToldLonger ==
  ASSUME TypeInv, NEW e \in EventType, pushed' = Append(pushed, e),
         NEW ev \in Seq(EventType), Told(ev)
  PROVE  Told(ev)'
<1>1. /\ pushed \in Seq(EventType) /\ Len(pushed) \in Nat /\ Len(ev) \in Nat
      /\ Len(pushed') = Len(pushed) + 1
      /\ \A j \in 1 .. Len(pushed) : pushed'[j] = pushed[j]
  BY AppendProperties, LenProperties DEF TypeInv, TypeOK
<1> QED
  BY <1>1 DEF Told

LEMMA ToldStep == TypeInv /\ ToldInv /\ [Next]_vars => ToldInv'
<1> SUFFICES ASSUME TypeInv, ToldInv, [Next]_vars
             PROVE  ToldInv'
  OBVIOUS
<1>t. /\ tx \in FileType /\ tx.events \in Seq(EventType) /\ db.events \in Seq(EventType)
      /\ pushed \in Seq(EventType) /\ todo \in Seq(EventType)
  BY DEF TypeInv, TypeOK, FileType
<1>1. CASE Start
  <2>1. pc = "new" /\ tx' = NewFile /\ db' = NewFile /\ pushed' = pushed /\ pc' = "setup"
    BY <1>1 DEF Start
  <2>2. NewFile.events = <<>>
    BY DEF NewFile, NoFile
  <2>3. pushed = <<>>
    BY <2>1 DEF ToldInv
  <2>4. Told(<<>>)'
    BY DEF Told
  <2> QED
    BY <2>1, <2>2, <2>3, <2>4 DEF ToldInv
<1>2. CASE FileUntouched
  <2>1. UNCHANGED <<tx, db, pushed>>
    BY <1>2, UntouchedEffect, UntouchedPushed
  <2>2. Told(tx.events)' /\ Told(db.events)'
    BY <2>1 DEF ToldInv, Told
  <2> QED
    BY <1>2, <2>1, <2>2, UntouchedPlaces DEF ToldInv
<1>3. CASE \/ \E f \in FlowKeys : ReadFrame(f)
           \/ Commit \/ CommitLast \/ CommitFails \/ Decide \/ SealFails \/ Crash
  <2>1. UNCHANGED pushed /\ tx' \in {tx, db} /\ db' \in {tx, db}
    BY <1>3 DEF ReadFrame, Commit, CommitLast, CommitFails, Decide, RolledBack, SealFails,
                Crash, file
  <2>2. Told(tx.events)' /\ Told(db.events)'
    BY <2>1 DEF ToldInv, Told
  <2>3. \/ pc' \in {"finalize", "cleanup", "seal", "done", "crashed"}
        \/ pc \in {"read", "commit"} /\ pc' \in {"packet", "read"} /\ tx' = tx
    BY <1>3 DEF ReadFrame, Deliver, Commit, CommitLast, CommitFails, Raise, Decide,
                SealFails, Crash, file
  <2> QED
    BY <2>1, <2>2, <2>3 DEF ToldInv
<1>4. CASE StorePacket \/ \E found \in FoundIssues : StoreFlow(found)
  <2>1. UNCHANGED <<pushed, db>> /\ tx'.events = tx.events
    BY <1>t, <1>4, Zenon DEF StorePacket, StoreFlow, FileType
  <2>2. pc \in {"packet", "flow"} /\ pc' \in {"flow", "event"}
    BY <1>4 DEF StorePacket, StoreFlow
  <2>3. Told(tx.events)' /\ Told(db.events)'
    BY <2>1 DEF ToldInv, Told
  <2> QED
    BY <2>1, <2>2, <2>3 DEF ToldInv
<1>5. CASE EmitEvent
  <2>1. /\ pc = "event" /\ pc' = pc /\ db' = db /\ todo # <<>>
        /\ pushed' = Append(pushed, Head(todo))
        /\ tx'.events = Append(tx.events, Head(todo))
    BY <1>t, <1>5, Zenon DEF EmitEvent, Publish, FileType
  <2>2. Head(todo) \in EventType
    BY <1>t, <2>1, HeadTailProperties
  <2>3. tx'.events = pushed'
    BY <2>1 DEF ToldInv
  <2>4. Told(db.events)'
    <3>1. Told(db.events)
      BY DEF ToldInv
    <3>2. ASSUME NEW ev \in Seq(EventType), Told(ev) PROVE Told(ev)'
      BY <2>1, <2>2, <3>2, ToldLonger
    <3> QED
      BY <1>t, <2>1, <3>1, <3>2
  <2>5. Told(tx.events)'
    <3>1. pushed' \in Seq(EventType)
      BY <1>t, <2>1, <2>2, AppendProperties
    <3> QED
      BY <2>3, <3>1, LenProperties DEF Told
  <2> QED
    BY <2>1, <2>3, <2>4, <2>5 DEF ToldInv
<1>6. CASE \E f \in FlowKeys : DrainGap(f)
  <2>1. PICK f \in FlowKeys : DrainGap(f)
    BY <1>6
  <2> DEFINE e == Event("STREAM_GAP", f, 0)
  <2>2. /\ pc = "drain" /\ pc' = pc /\ UNCHANGED <<db, pushed>>
        /\ tx'.events = Append(tx.events, e)
    BY <1>t, <2>1, Zenon DEF DrainGap, FileType
  <2>3. e \in EventType /\ e.packet = 0
    BY PipelineAssumption DEF PipelineAssumption, Event, EventType, EventKinds
  <2> HIDE DEF e
  <2>4. Told(tx.events)'
    <3>1. /\ Len(tx.events) \in Nat /\ Len(tx'.events) = Len(tx.events) + 1
          /\ \A i \in 1 .. Len(tx.events) : tx'.events[i] = tx.events[i]
          /\ tx'.events[Len(tx.events) + 1] = e
      BY <1>t, <2>2, <2>3, AppendProperties, LenProperties
    <3> QED
      BY <2>2, <2>3, <3>1 DEF ToldInv, Told
  <2>5. Told(db.events)'
    BY <2>2 DEF ToldInv, Told
  <2> QED
    BY <2>2, <2>4, <2>5 DEF ToldInv
<1>7. CASE FinalizeReady \/ Seal
  <2>1. /\ pc' \in {"cleanup", "done"} /\ db' = tx' /\ pushed' = pushed
        /\ tx'.events = tx.events
    <3>1. /\ pc' \in {"cleanup", "done"} /\ db' = tx' /\ pushed' = pushed
          /\ \E st, dropped, bad : tx' = Finalized(tx, st, dropped, bad)
      BY <1>7 DEF FinalizeReady, Seal
    <3> QED
      BY <1>t, <3>1 DEF Finalized, FileType
  <2> QED
    BY <2>1 DEF ToldInv, Told
<1> QED
  BY <1>1, <1>2, <1>3, <1>4, <1>5, <1>6, <1>7
  DEF Next, CaptureStep, ThreadStep, Finished, FileUntouched

LEMMA ToldPrefix == TypeInv /\ Told(db.events) => PushedCoversStored
<1> SUFFICES ASSUME TypeInv, Told(db.events), NEW i \in DOMAIN db.events,
                    db.events[i].packet # 0
             PROVE  IsPrefix(SubSeq(db.events, 1, i), pushed)
  BY DEF PushedCoversStored
<1>1. /\ db.events \in Seq(EventType) /\ pushed \in Seq(EventType)
      /\ DOMAIN db.events = 1 .. Len(db.events) /\ Len(db.events) \in Nat
      /\ Len(pushed) \in Nat
  BY LenProperties DEF TypeInv, TypeOK, FileType
<1> DEFINE t == SubSeq(db.events, 1, i)
<1>2. /\ t \in Seq(EventType) /\ Len(t) = i /\ \A j \in 1 .. i : t[j] = db.events[j]
  BY <1>1, SubSeqProperties, ElementOfSeq
<1>3. i <= Len(pushed) /\ \A j \in 1 .. i : db.events[j] = pushed[j]
  BY <1>1 DEF Told
<1> HIDE DEF t
<1> QED
  BY <1>1, <1>2, <1>3 DEF IsPrefix, t

(* A subscriber has been told every stored event of a packet, in the order   *)
(* of the event table, through every failure, rollback and crash.            *)
THEOREM SubscribersKnow == Spec => []PushedCoversStored
<1>1. Init => ToldInv
  <2> SUFFICES ASSUME Init PROVE ToldInv
    OBVIOUS
  <2>1. /\ NoFile.events = <<>> /\ tx = NoFile /\ db = NoFile /\ pushed = <<>>
    BY DEF Init, NoFile
  <2> QED
    BY <2>1 DEF ToldInv, Told
<1>2. TypeInv /\ ToldInv /\ [Next]_vars => ToldInv'
  BY ToldStep
<1>3. TypeInv /\ ToldInv => PushedCoversStored
  BY ToldPrefix DEF ToldInv
<1> QED
  BY <1>1, <1>2, <1>3, StoredInvariant, PTL DEF Spec

-----------------------------------------------------------------------------
(* What a crash costs *)

(* pending counts what the open transaction holds: the packets up to the     *)
(* current one, and that one too once it is counted.                         *)
RiskInv ==
  /\ pc \in {"read", "found", "packet", "commit"} =>
       Len(tx.packets) - Len(db.packets) = pending
  /\ pc \in {"flow", "event"} => Len(tx.packets) - Len(db.packets) = pending + 1
  /\ mode = "packets" /\ pc \in {"read", "found", "packet", "flow", "event"} =>
       pending < FlushPackets
  /\ AtRiskBounded

LEMMA RiskStep == TypeInv /\ StoredInv /\ RiskInv /\ [Next]_vars => RiskInv'
<1> SUFFICES ASSUME TypeInv, StoredInv, RiskInv, [Next]_vars
             PROVE  RiskInv'
  OBVIOUS
<1>t. /\ tx \in FileType /\ db \in FileType /\ pending \in Nat
      /\ tx.packets \in Seq(FlowKeys) /\ db.packets \in Seq(FlowKeys)
      /\ Len(tx.packets) \in Nat /\ Len(db.packets) \in Nat
      /\ FlushPackets \in Nat \ {0}
  BY PipelineAssumption, LenProperties
  DEF TypeInv, TypeOK, FileType, PipelineAssumption
<1>1. CASE Start
  <2>1. pc' = "setup" /\ tx' = NewFile /\ db' = NewFile
    BY <1>1 DEF Start
  <2>2. Len(NewFile.packets) = 0
    BY EmptySeq DEF NewFile, NoFile
  <2> QED
    BY <1>t, <2>1, <2>2 DEF RiskInv, AtRiskBounded
<1>2. CASE SetUp
  <2>1. pc = "setup" /\ pc' = "read" /\ pending' = 0 /\ UNCHANGED <<tx, db, mode>>
    BY <1>2 DEF SetUp, file
  <2>2. tx.packets = <<>> /\ db.packets = <<>>
    BY <1>t, <2>1, PrefixOfEmpty DEF StoredInv, StoredPrefix
  <2>3. Len(tx.packets) - Len(db.packets) = 0
    BY <2>2, EmptySeq
  <2> QED
    BY <1>t, <2>1, <2>3 DEF RiskInv, AtRiskBounded
<1>3. CASE \/ StartAgain \/ ReadMalformed \/ SourceMoves \/ UNCHANGED vars
           \/ \E s \in Stoppers : AskStop(s) \/ StopProceeds(s)
           \/ ReadEnd \/ ReadError \/ \E f \in FlowKeys : ReadFrame(f)
  <2>1. UNCHANGED <<tx, db, mode, pending>>
    BY <1>3, Zenon
    DEF StartAgain, ReadMalformed, SourceMoves, vars, AskStop, StopProceeds,
        LookForError, TakeError, Blame, ReadEnd, ReadError, ReadFrame, file, batch
  <2>2. CASE \/ StartAgain \/ ReadMalformed \/ SourceMoves \/ UNCHANGED vars
             \/ \E s \in Stoppers : AskStop(s) \/ StopProceeds(s)
    <3>1. pc' = pc
      BY <2>2, Zenon
      DEF StartAgain, ReadMalformed, SourceMoves, vars, AskStop, StopProceeds,
          LookForError, TakeError, Blame
    <3> QED
      BY <2>1, <3>1 DEF RiskInv, AtRiskBounded
  <2>3. CASE ReadEnd \/ ReadError \/ \E f \in FlowKeys : ReadFrame(f)
    <3>1. pc = "read" /\ pc' \in {"drain", "found", "packet"}
      BY <2>3 DEF ReadEnd, ReadError, ReadFrame, Deliver
    <3> QED
      BY <2>1, <3>1 DEF RiskInv, AtRiskBounded
  <2> QED
    BY <1>3, <2>2, <2>3
<1>4. CASE \/ SetUpFails \/ ReadRaises \/ StorageFails \/ FinalizeFails \/ CleanUp
  <2>1. UNCHANGED <<tx, db, mode>> /\ pc' \in {"cleanup", "outcome"}
    BY <1>4
    DEF SetUpFails, ReadRaises, StorageFails, FinalizeFails, CleanUp, Raise, file
  <2> QED
    BY <2>1 DEF RiskInv, AtRiskBounded
<1>5. CASE StorePacket
  <2>1. /\ pc = "packet" /\ pc' = "flow" /\ db' = db /\ UNCHANGED <<mode, pending>>
        /\ tx'.packets = Append(tx.packets, Current)
    BY <1>5, StorePacketEffect DEF StorePacket, batch
  <2>2. Len(tx'.packets) = Len(tx.packets) + 1
    BY <1>t, <2>1, CurrentIsFlow, AppendProperties
  <2>3. Len(tx.packets) - Len(db.packets) = pending
    BY <2>1 DEF RiskInv
  <2>4. mode = "packets" => pending < FlushPackets
    BY <2>1 DEF RiskInv
  <2>5. Len(db'.packets) = Len(db.packets) /\ pending' = pending /\ mode' = mode
    BY <2>1
  <2>6. Len(tx'.packets) - Len(db'.packets) = pending' + 1
    <3>1. \A a, b, n \in Nat : a - b = n => (a + 1) - b = n + 1
      OBVIOUS
    <3>2. Len(tx'.packets) - Len(db'.packets) = (Len(tx.packets) + 1) - Len(db.packets)
      BY <2>2, <2>5, Zenon
    <3> QED
      BY <1>t, <2>3, <2>5, <3>1, <3>2, Zenon
  <2>7. mode' = "packets" => pending' < FlushPackets
    BY <2>4, <2>5
  <2>8. pending' \in Nat /\ (mode' = "packets" => pending' + 1 <= FlushPackets)
    BY <1>t, <2>5, <2>7
  <2>9. pc' = "flow"
    BY <2>1
  <2> QED
    BY <2>6, <2>7, <2>8, <2>9 DEF RiskInv, AtRiskBounded
<1>6. CASE RowsUntouched
  <2>1. /\ tx'.packets = tx.packets /\ db' = db /\ UNCHANGED <<mode, pending>>
        /\ \/ pc = "flow" /\ pc' = "event"
           \/ pc' = pc
    BY <1>6, RowsUntouchedEffect
    DEF RowsUntouched, EmitEvent, StoreFlow, DrainGap, batch
  <2> QED
    BY <2>1 DEF RiskInv, AtRiskBounded
<1>7. CASE CountPacket
  <2>1. /\ pc = "event" /\ pending' = pending + 1 /\ UNCHANGED <<tx, db, mode>>
        /\ \E flush \in ShouldFlush(pending + 1) :
              pc' = IF flush THEN "commit" ELSE "read"
    BY <1>7, Zenon DEF CountPacket, file
  <2>2. CASE mode = "packets"
    <3>1. ShouldFlush(pending + 1) = {pending + 1 >= FlushPackets}
      BY <2>2 DEF ShouldFlush
    <3>2. pc' = IF pending + 1 >= FlushPackets THEN "commit" ELSE "read"
      BY <2>1, <3>1
    <3>3. /\ pc' \in {"commit", "read"}
          /\ pc' = "read" => pending + 1 < FlushPackets
      BY <1>t, <3>2
    <3> QED
      BY <1>t, <2>1, <3>3 DEF RiskInv, AtRiskBounded
  <2>3. CASE mode # "packets"
    <3>1. pc' \in {"commit", "read"}
      BY <2>1
    <3> QED
      BY <1>t, <2>1, <2>3, <3>1 DEF RiskInv, AtRiskBounded
  <2> QED
    BY <2>2, <2>3
<1>8. CASE Commit \/ CommitLast
  <2>1. /\ db' = tx /\ tx' = tx /\ UNCHANGED mode
        /\ (pc' = "read" /\ pending' = 0) \/ pc' = "finalize"
    BY <1>8 DEF Commit, CommitLast
  <2>2. Len(tx'.packets) - Len(db'.packets) = 0
    BY <1>t, <2>1
  <2> QED
    BY <1>t, <2>1, <2>2 DEF RiskInv, AtRiskBounded
<1>9. CASE CommitFails \/ Decide \/ SealFails \/ Crash
  <2>1. /\ pc' \in {"cleanup", "seal", "done", "crashed"} /\ UNCHANGED mode
        /\ \/ db' = db /\ tx' = tx
           \/ db' = tx'
    BY <1>9 DEF CommitFails, Decide, RolledBack, SealFails, Crash, Raise
  <2>2. Len(db'.packets) \in Nat
    <3>1. TypeInv'
      BY TypeStep
    <3>2. db'.packets \in Seq(FlowKeys)
      BY <3>1 DEF TypeInv, TypeOK, FileType
    <3> QED
      BY <3>2, LenProperties
  <2>3. CASE db' = tx'
    BY <1>t, <2>1, <2>2, <2>3 DEF RiskInv, AtRiskBounded
  <2>4. CASE db' = db /\ tx' = tx
    BY <2>1, <2>4 DEF RiskInv, AtRiskBounded
  <2> QED
    BY <2>1, <2>3, <2>4
<1>10. CASE FinalizeReady \/ Seal
  <2>1. pc' \in {"cleanup", "done"} /\ db' = tx' /\ UNCHANGED mode
    BY <1>10 DEF FinalizeReady, Seal
  <2>2. Len(db'.packets) \in Nat
    <3>1. TypeInv'
      BY TypeStep
    <3>2. db'.packets \in Seq(FlowKeys)
      BY <3>1 DEF TypeInv, TypeOK, FileType
    <3> QED
      BY <3>2, LenProperties
  <2> QED
    BY <1>t, <2>1, <2>2 DEF RiskInv, AtRiskBounded
<1> QED
  BY <1>1, <1>2, <1>3, <1>4, <1>5, <1>6, <1>7, <1>8, <1>9, <1>10
  DEF Next, CaptureStep, ThreadStep, Finished, RowsUntouched

(* With a flush policy that counts packets, no failure and no crash costs    *)
(* more stored packets than that count.                                      *)
THEOREM CrashCostBounded == Spec => []AtRiskBounded
<1>1. Init => RiskInv
  <2> SUFFICES ASSUME Init PROVE RiskInv
    OBVIOUS
  <2>1. pc = "new" /\ tx = NoFile /\ db = NoFile /\ Len(NoFile.packets) = 0
    BY EmptySeq DEF Init, NoFile
  <2>2. FlushPackets \in Nat
    BY PipelineAssumption DEF PipelineAssumption
  <2> QED
    BY <2>1, <2>2 DEF RiskInv, AtRiskBounded
<1>2. TypeInv /\ StoredInv /\ RiskInv /\ [Next]_vars => RiskInv'
  BY RiskStep
<1>3. RiskInv => AtRiskBounded
  BY DEF RiskInv
<1> QED
  BY <1>1, <1>2, <1>3, StoredInvariant, PTL DEF Spec

-----------------------------------------------------------------------------
(* What a ready file says of its capture *)

(* Where the counters of the capture are those of the frames read so far.    *)
Counted0 == {"new", "setup", "read", "found", "commit", "drain", "finalize"}

(* A ready file is described by its metadata and by the counters; it is      *)
(* ready only once the source is over, so that no drop can come after it.    *)
ReadyInv ==
  db.status = "ready" =>
    /\ SourceOver \/ pc = "crashed"
    /\ db.meta.integrity = IntegrityOf(db.meta.dropped, db.meta.malformed)
    /\ db.meta.dropped = drops
    /\ frames = Len(fed) + db.meta.malformed
    /\ opened => /\ stats.packets = Len(fed)
                 /\ stats.flows = Cardinality(Range(fed))
                 /\ stats.dropped = drops

CountInv ==
  /\ pc \notin {"done", "crashed"} => frames = Len(fed) + malformed
  /\ pc \notin {"new", "done", "crashed"} => opened
  /\ pc \in Counted0 =>
       stats.packets = Len(fed) /\ stats.flows = Cardinality(Range(fed))
  /\ pc \in {"packet", "flow", "event"} => stats.packets = Len(fed) - 1
  /\ stats.dropped # 0 /\ pc \notin {"seal", "done", "crashed"} =>
       stats.dropped = drops /\ SourceOver
  /\ ReadyInv

(* A source that is over stays over and drops nothing, whoever asks it to    *)
(* stop or looks for its error; a crashed capture does nothing any more.     *)
LEMMA OverStaysOver ==
  ASSUME [Next]_vars, SourceOver \/ pc = "crashed"
  PROVE  /\ SourceOver' \/ pc' = "crashed"
         /\ pc' # "crashed" => SourceOver'
         /\ drops' = drops
<1> USE DEF SourceOver
<1>1. CASE Start \/ StartAgain
  BY <1>1 DEF Start, StartAgain
<1>2. CASE SetUp \/ SetUpFails
  BY <1>2 DEF SetUp, SetUpFails, Source!Open
<1>3. CASE ReadMalformed \/ ReadEnd \/ ReadError \/ \E f \in FlowKeys : ReadFrame(f)
  BY <1>3 DEF ReadMalformed, ReadEnd, ReadError, ReadFrame, Deliver
<1>4. CASE ReadRaises
  BY <1>4 DEF ReadRaises, ClearError, Source!TakeError
<1>5. CASE \/ StorePacket \/ EmitEvent \/ CountPacket \/ Commit
           \/ \E found \in FoundIssues : StoreFlow(found)
           \/ \E f \in FlowKeys : DrainGap(f)
  BY <1>5 DEF StorePacket, EmitEvent, CountPacket, Commit, StoreFlow, DrainGap
<1>6. CASE \/ CommitLast \/ FinalizeReady \/ StorageFails \/ CommitFails
           \/ FinalizeFails \/ Decide \/ Seal \/ SealFails
  BY <1>6 DEF CommitLast, FinalizeReady, StorageFails, CommitFails, FinalizeFails,
              Decide, Seal, SealFails
<1>7. CASE CleanUp
  BY <1>7 DEF CleanUp, Source!TakeError, Source!AskToStop
<1>8. CASE \E s \in Stoppers : AskStop(s)
  BY <1>8 DEF AskStop, Source!AskToStop
<1>9. CASE \E s \in Stoppers : StopProceeds(s)
  BY <1>9 DEF StopProceeds, LookForError, TakeError, ClearError, Source!TakeError,
              Blame
<1>10. CASE SourceMoves
  BY <1>10 DEF SourceMoves, Source!End, Source!Break, Source!Drop, Source!Active
<1>11. CASE Crash
  BY <1>11 DEF Crash
<1>12. CASE UNCHANGED vars
  BY <1>12 DEF vars
<1> QED
  BY <1>1, <1>2, <1>3, <1>4, <1>5, <1>6, <1>7, <1>8, <1>9, <1>10, <1>11, <1>12
  DEF Next, CaptureStep, ThreadStep, Finished

(* The steps that change no counter and no committed file.                   *)
LEMMA CountKept ==
  ASSUME CountInv, [Next]_vars,
         UNCHANGED <<frames, fed, malformed, stats, opened, db>>,
         \/ pc' = pc
         \/ pc \in Counted0 \ {"new"} /\ pc' \in Counted0 \ {"new"}
         \/ pc = "read" /\ pc' = "found"
         \/ pc \in {"packet", "flow"} /\ pc' \in {"flow", "event"}
         \/ /\ pc \notin {"new", "seal", "done", "crashed"}
            /\ pc' \in {"cleanup", "outcome"}
  PROVE  CountInv'
<1>1. SourceOver \/ pc = "crashed" =>
        (SourceOver' \/ pc' = "crashed") /\ (pc' # "crashed" => SourceOver')
          /\ drops' = drops
  BY OverStaysOver
<1>2. ReadyInv'
  BY <1>1 DEF CountInv, ReadyInv
<1>3. /\ (pc \notin {"done", "crashed"} => frames = Len(fed) + malformed)'
      /\ (pc \notin {"new", "done", "crashed"} => opened)'
  BY DEF CountInv, Counted0
<1>4. /\ (pc \in Counted0 =>
            stats.packets = Len(fed) /\ stats.flows = Cardinality(Range(fed)))'
      /\ (pc \in {"packet", "flow", "event"} => stats.packets = Len(fed) - 1)'
  BY DEF CountInv, Counted0
<1>5. (stats.dropped # 0 /\ pc \notin {"seal", "done", "crashed"} =>
         stats.dropped = drops /\ SourceOver)'
  BY <1>1 DEF CountInv, Counted0
<1> QED
  BY <1>2, <1>3, <1>4, <1>5 DEF CountInv

LEMMA FinalizedMeta ==
  \A s \in FileType : \A t, st, dropped, bad :
    t = Finalized(s, st, dropped, bad) =>
      /\ t.status = st
      /\ t.meta.integrity = IntegrityOf(dropped, bad)
      /\ t.meta.dropped = dropped /\ t.meta.malformed = bad
BY DEF FileType, Finalized

LEMMA CountStep ==
  TypeInv /\ StoredInv /\ FailureInv /\ CountInv /\ [Next]_vars => CountInv'
<1> SUFFICES ASSUME TypeInv, StoredInv, FailureInv, CountInv, [Next]_vars
             PROVE  CountInv'
  OBVIOUS
<1>t. /\ tx \in FileType /\ fed \in Seq(FlowKeys) /\ Len(fed) \in Nat
      /\ malformed \in Nat /\ frames \in Nat /\ drops \in Nat
      /\ stats \in [packets : Nat, flows : Nat, dropped : Nat]
  BY PipelineAssumption, LenProperties DEF TypeInv, TypeOK, PipelineAssumption
<1>o. SourceOver => drops' = drops /\ (SourceOver' \/ pc' = "crashed")
  BY OverStaysOver
<1>1. CASE Start
  <2>1. /\ pc = "new" /\ pc' = "setup" /\ db'.status # "ready" /\ opened'
        /\ UNCHANGED <<frames, fed, malformed, stats, drops, source>>
    BY <1>1 DEF Start, NewFile, NoFile, input, counters
  <2> QED
    BY <2>1 DEF CountInv, ReadyInv, Counted0, SourceOver
<1>2. CASE StartAgain
  <2>1. /\ pc = "done" /\ pc' = "done" /\ ~opened'
        /\ UNCHANGED <<frames, fed, db, drops, source>>
    BY <1>2 DEF StartAgain, input, file
  <2> QED
    BY <2>1 DEF CountInv, ReadyInv, Counted0, SourceOver
<1>3. CASE SetUp
  <2>1. /\ pc = "setup" /\ pc' = "read" /\ source = "idle"
        /\ UNCHANGED <<frames, fed, malformed, stats, opened, db>>
    BY <1>3 DEF SetUp, Source!Open, input, counters, result, file
  <2>2. db.status # "ready" /\ stats.dropped = 0
    BY <2>1 DEF StoredInv, Unsealed, CountInv, SourceOver
  <2> QED
    BY <2>1, <2>2 DEF CountInv, ReadyInv, Counted0
<1>4. CASE \/ SetUpFails \/ ReadRaises \/ StorageFails \/ CommitFails \/ CleanUp
           \/ ReadEnd \/ ReadError
  <2>1. /\ UNCHANGED <<frames, fed, malformed, stats, opened, db>>
    BY <1>4, Zenon
    DEF SetUpFails, ReadRaises, StorageFails, CommitFails, CleanUp, ReadEnd, ReadError,
        input, counters, result, file
  <2>2. \/ pc = "read" /\ pc' \in {"drain", "found"}
        \/ /\ pc \notin {"new", "seal", "done", "crashed"}
           /\ pc' \in {"cleanup", "outcome"}
    BY <1>4
    DEF SetUpFails, ReadRaises, StorageFails, CommitFails, CleanUp, ReadEnd, ReadError,
        Raise
  <2> QED
    BY <2>1, <2>2, CountKept DEF Counted0
<1>5. CASE StorePacket \/ RowsUntouched
  <2>1. /\ UNCHANGED <<frames, fed, malformed, stats, opened, db>>
    BY <1>5, Zenon
    DEF StorePacket, RowsUntouched, StoreFlow, EmitEvent, DrainGap, input, counters,
        result
  <2>2. \/ pc' = pc
        \/ pc \in {"packet", "flow"} /\ pc' \in {"flow", "event"}
    <3>1. CASE StorePacket \/ \E found \in FoundIssues : StoreFlow(found)
      BY <3>1 DEF StorePacket, StoreFlow
    <3>2. CASE EmitEvent \/ \E f \in FlowKeys : DrainGap(f)
      <4>1. pc' = pc
        BY <3>2, Zenon DEF EmitEvent, DrainGap
      <4> QED
        BY <4>1
    <3> QED
      BY <1>5, <3>1, <3>2 DEF RowsUntouched
  <2> QED
    BY <2>1, <2>2, CountKept
<1>6. CASE \/ SourceMoves \/ UNCHANGED vars
           \/ \E s \in Stoppers : AskStop(s) \/ StopProceeds(s)
  <2>1. UNCHANGED <<pc, frames, fed, malformed, stats, opened, db>>
    BY <1>6, Zenon
    DEF SourceMoves, AskStop, StopProceeds, LookForError, TakeError, Blame, vars,
        input, counters, result, file
  <2> QED
    BY <2>1, CountKept
<1>7. CASE ReadMalformed
  <2>1. /\ pc = "read" /\ pc' = pc /\ frames' = frames + 1 /\ malformed' = malformed + 1
        /\ UNCHANGED <<fed, stats, opened, db, drops, source>>
    BY <1>7 DEF ReadMalformed, Deliver, result, file
  <2>2. db.status # "ready"
    BY <2>1 DEF StoredInv, Unsealed, Looping
  <2> QED
    BY <1>t, <2>1, <2>2 DEF CountInv, ReadyInv, Counted0, SourceOver
<1>8. CASE \E f \in FlowKeys : ReadFrame(f)
  <2>1. /\ pc = "read" /\ pc' = "packet" /\ frames' = frames + 1
        /\ \E f \in FlowKeys : fed' = Append(fed, f)
        /\ UNCHANGED <<malformed, stats, opened, db, drops, source>>
    BY <1>8 DEF ReadFrame, Deliver, counters, result, file
  <2>2. db.status # "ready"
    BY <2>1 DEF StoredInv, Unsealed, Looping
  <2>3. Len(fed') = Len(fed) + 1
    BY <1>t, <2>1, AppendProperties
  <2> QED
    BY <1>t, <2>1, <2>2, <2>3 DEF CountInv, ReadyInv, Counted0, SourceOver
<1>9. CASE CountPacket
  <2>1. /\ pc = "event" /\ pc' \in {"read", "commit"} /\ stats' = Counted
        /\ UNCHANGED <<frames, fed, malformed, opened, db, drops, source>>
    BY <1>9 DEF CountPacket, input, result, file
  <2>2. db.status # "ready"
    BY <2>1 DEF StoredInv, Unsealed, Looping
  <2>3. /\ stats'.packets = stats.packets + 1 /\ stats'.dropped = stats.dropped
        /\ stats'.flows = Cardinality(Range(fed))
    BY <2>1 DEF Counted
  <2> QED
    BY <1>t, <2>1, <2>2, <2>3 DEF CountInv, ReadyInv, Counted0, SourceOver
<1>10. CASE Commit \/ CommitLast
  <2>1. /\ pc \in {"commit", "drain"} /\ pc' \in {"read", "finalize"} /\ db' = tx
        /\ UNCHANGED <<frames, fed, malformed, stats, opened, drops, source>>
    BY <1>10 DEF Commit, CommitLast, input, counters, result
  <2>2. tx.status # "ready"
    BY <2>1 DEF StoredInv, Unsealed, Looping
  <2> QED
    BY <2>1, <2>2 DEF CountInv, ReadyInv, Counted0, SourceOver
<1>11. CASE FinalizeReady \/ FinalizeFails
  <2>1. /\ pc = "finalize" /\ pc' = "cleanup"
        /\ stats' = [stats EXCEPT !.dropped = drops]
        /\ UNCHANGED <<frames, fed, malformed, opened, drops, source>>
        /\ db' = db \/ db' = Finalized(tx, "ready", drops, malformed)
    BY <1>11 DEF FinalizeReady, FinalizeFails, Raise, input, result, file
  <2>2. SourceOver /\ SourceOver' /\ db.status # "ready" /\ opened
    BY <2>1 DEF FailureInv, SourceOver, StoredInv, Unsealed, Looping, CountInv
  <2>3. /\ stats'.packets = Len(fed) /\ stats'.flows = Cardinality(Range(fed))
        /\ stats'.dropped = drops /\ frames = Len(fed) + malformed
    BY <1>t, <2>1 DEF CountInv, Counted0
  <2>4. db'.status = "ready" =>
          /\ db'.meta.integrity = IntegrityOf(drops, malformed)
          /\ db'.meta.dropped = drops /\ db'.meta.malformed = malformed
    BY <1>t, <2>1, <2>2, FinalizedMeta
  <2> QED
    BY <2>1, <2>2, <2>3, <2>4 DEF CountInv, ReadyInv, Counted0
<1>12. CASE Decide
  <2>1. /\ pc = "outcome" /\ pc' = "seal" /\ opened
        /\ stats' = [stats EXCEPT !.dropped = IF @ # 0 THEN @ ELSE drops]
        /\ UNCHANGED <<frames, fed, malformed, opened, db, drops, source>>
    BY <1>12 DEF Decide, input, CountInv
  <2>2. /\ stats'.packets = stats.packets /\ stats'.flows = stats.flows
        /\ stats'.dropped = IF stats.dropped # 0 THEN stats.dropped ELSE drops
    BY <1>t, <2>1
  <2> QED
    BY <2>1, <2>2 DEF CountInv, ReadyInv, Counted0, SourceOver
<1>13. CASE Seal
  <2>1. /\ pc = "seal" /\ pc' = "done"
        /\ db' = Finalized(tx, outcome, stats.dropped, malformed)
        /\ UNCHANGED <<frames, fed, malformed, stats, opened, drops, source>>
    BY <1>13 DEF Seal, input, counters, result
  <2>2. /\ db'.status = outcome /\ db'.meta.malformed = malformed
        /\ db'.meta.integrity = IntegrityOf(stats.dropped, malformed)
        /\ db'.meta.dropped = stats.dropped
    BY <1>t, <2>1, FinalizedMeta
  <2>3. outcome = "ready" => db.status = "ready"
    BY <2>1 DEF StoredInv
  <2>4. opened /\ frames = Len(fed) + malformed
    BY <2>1 DEF CountInv
  <2> QED
    BY <2>1, <2>2, <2>3, <2>4 DEF CountInv, ReadyInv, Counted0, SourceOver
<1>14. CASE SealFails
  <2>1. /\ pc = "seal" /\ pc' = "done"
        /\ db' = db \/ db' = tx
        /\ UNCHANGED <<frames, fed, malformed, stats, opened, drops, source>>
    BY <1>14 DEF SealFails, input, counters, result
  <2>2. CASE db'.status # "ready"
    BY <2>1, <2>2 DEF CountInv, ReadyInv, Counted0
  <2>3. CASE db'.status = "ready"
    <3>1. db' = db /\ db.status = "ready"
      BY <2>1, <2>3 DEF StoredInv
    <3>2. ReadyInv'
      BY <2>1, <3>1 DEF CountInv, ReadyInv, SourceOver
    <3> QED
      BY <2>1, <3>2 DEF CountInv, Counted0
  <2> QED
    BY <2>2, <2>3
<1>15. CASE Crash
  <2>1. /\ pc' = "crashed" /\ ~opened' /\ UNCHANGED <<frames, fed, db, drops>>
    BY <1>15 DEF Crash, input
  <2> QED
    BY <2>1 DEF CountInv, ReadyInv, Counted0
<1> QED
  BY <1>1, <1>2, <1>3, <1>4, <1>5, <1>6, <1>7, <1>8, <1>9, <1>10, <1>11, <1>12,
     <1>13, <1>14, <1>15
  DEF Next, CaptureStep, ThreadStep, Finished, RowsUntouched

LEMMA CountInvariant ==
  Spec => [](TypeInv /\ StoredInv /\ RowsInv /\ CountInv)
<1>1. Init => FailureInv /\ CountInv
  <2> SUFFICES ASSUME Init PROVE FailureInv /\ CountInv
    OBVIOUS
  <2>1. FailureInv
    BY DEF Init, FailureInv, FailureSurfaces, Source!SourceInit
  <2>2. Len(fed) = 0 /\ Cardinality(Range(fed)) = 0
    <3>1. fed = <<>> /\ Range(fed) = {}
      BY DEF Init, Range
    <3> QED
      BY <3>1, EmptySeq, FS_EmptySet
  <2>3. /\ stats.packets = 0 /\ stats.flows = 0 /\ stats.dropped = 0
        /\ db.status # "ready" /\ pc = "new" /\ frames = 0 /\ malformed = 0
    BY DEF Init, NoCounts, NoFile
  <2> QED
    BY <2>1, <2>2, <2>3 DEF CountInv, ReadyInv
<1>2. TypeInv /\ FailureInv /\ [Next]_vars => FailureInv'
  BY FailureStep DEF TypeInv
<1>3. TypeInv /\ StoredInv /\ FailureInv /\ CountInv /\ [Next]_vars => CountInv'
  BY CountStep
<1> QED
  BY <1>1, <1>2, <1>3, RowsInvariant, PTL DEF Spec

(* A ready session that calls itself complete was: every frame the backend   *)
(* handed over is stored and none was dropped - also when the status was     *)
(* given by the second finalize(), or another thread asked the source to     *)
(* stop while the first one ran.                                             *)
THEOREM CompleteIsTrue == Spec => []CompleteIsHonest
<1>1. TypeInv /\ StoredInv /\ CountInv => CompleteIsHonest
  <2> SUFFICES ASSUME TypeInv, StoredInv, CountInv, db.status = "ready",
                      db.meta.integrity = "complete"
               PROVE  Len(db.packets) = frames /\ drops = 0
    BY DEF CompleteIsHonest
  <2>1. db.packets = fed
    BY DEF StoredInv, Whole
  <2>2. db.meta.dropped = 0 /\ db.meta.malformed = 0
    BY DEF CountInv, ReadyInv, IntegrityOf
  <2>3. Len(fed) \in Nat
    BY LenProperties DEF TypeInv, TypeOK
  <2> QED
    BY <2>1, <2>2, <2>3 DEF CountInv, ReadyInv
<1> QED
  BY <1>1, CountInvariant, PTL

(* What status() counts at the end of a capture is what the file holds.      *)
THEOREM StatusAgreesWithFile == Spec => []CountersAgree
<1>1. TypeInv /\ StoredInv /\ RowsInv /\ CountInv => CountersAgree
  <2> SUFFICES ASSUME TypeInv, StoredInv, RowsInv, CountInv,
                      opened, db.status = "ready"
               PROVE  /\ stats.packets = Len(db.packets)
                      /\ stats.flows = Cardinality({f \in FlowKeys : db.flows[f] > 0})
                      /\ stats.dropped = db.meta.dropped
    BY DEF CountersAgree
  <2>1. db.packets = fed /\ fed \in Seq(FlowKeys)
    BY DEF StoredInv, Whole, TypeInv, TypeOK
  <2>2. {f \in FlowKeys : db.flows[f] > 0} = Range(fed)
    <3>1. \A f \in FlowKeys :
             /\ db.flows[f] \in Nat
             /\ (db.flows[f] = 0) <=> (\A i \in 1 .. Len(fed) : fed[i] # f)
      BY <2>1, OccurrencesWhere DEF RowsInv, Consistent, Counting
    <3>2. Range(fed) = {fed[i] : i \in 1 .. Len(fed)}
      BY <2>1, LenProperties DEF Range
    <3>3. \A f \in FlowKeys : f \in Range(fed) <=> db.flows[f] > 0
      <4> SUFFICES ASSUME NEW f \in FlowKeys
                   PROVE  f \in Range(fed) <=> db.flows[f] > 0
        OBVIOUS
      <4>1. f \in Range(fed) <=> db.flows[f] # 0
        BY <3>1, <3>2, Zenon
      <4> QED
        BY <3>1, <4>1
    <3>4. Range(fed) \in SUBSET FlowKeys
      BY <2>1, <3>2, ElementOfSeq
    <3> QED
      BY <3>3, <3>4
  <2> QED
    BY <2>1, <2>2 DEF CountInv, ReadyInv
<1> QED
  BY <1>1, CountInvariant, PTL
=============================================================================
