---------------------------- MODULE CaptureSource ----------------------------
(***************************************************************************)
(* What the capture pipeline relies on of a CaptureBackend: it is started  *)
(* once, runs until it ends by itself, breaks or is asked to stop, keeps   *)
(* the error it broke with until a caller takes it, and counts the frames  *)
(* it drops only while it runs.                                            *)
(*                                                                         *)
(* CapturePipeline is written against these actions; ScapyBackend, the     *)
(* live source, is checked to implement them.                              *)
(***************************************************************************)
EXTENDS Naturals

CONSTANT MaxDrops   \* bound: frames dropped on a full queue

VARIABLES
  source,  \* idle, live, stopping, ended, broken (error pending) or taken
  drops    \* backend.drops

srcvars == <<source, drops>>

SourceStates == {"idle", "live", "stopping", "ended", "broken", "taken"}
Active == {"live", "stopping"}

SourceInit == source = "idle" /\ drops = 0

\* start()
Open == source = "idle" /\ source' = "live" /\ UNCHANGED drops

\* stop(): the running flag is cleared.  On a source that is not running this
\* changes nothing - also when the source is about to be started.
AskToStop ==
  /\ source' = IF source = "live" THEN "stopping" ELSE source
  /\ UNCHANGED drops

\* The end of a pcap file, the packet limit of the mock, the end of a sniff.
End == source \in Active /\ source' = "ended" /\ UNCHANGED drops

Break == source \in Active /\ source' = "broken" /\ UNCHANGED drops

Drop ==
  /\ source \in Active
  /\ drops < MaxDrops
  /\ drops' = drops + 1
  /\ UNCHANGED source

\* packets() or stop() raises the pending error, which clears it.
TakeError == source = "broken" /\ source' = "taken" /\ UNCHANGED drops

SourceNext == Open \/ AskToStop \/ End \/ Break \/ Drop \/ TakeError

SourceSpec == SourceInit /\ [][SourceNext]_srcvars
=============================================================================
