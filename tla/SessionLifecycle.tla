-------------------------- MODULE SessionLifecycle --------------------------
(***************************************************************************)
(* What a session file promises to everyone who reads it while a capture   *)
(* is writing it: the lifecycle of SessionStatus, and that the packets a   *)
(* reader has seen stay where they are.  No thread, no transaction and no  *)
(* backend appears here; CapturePipeline implements this specification.    *)
(***************************************************************************)
EXTENDS Naturals, Sequences, SequencesExt

CONSTANT FlowKeys

VARIABLES
  status,  \* SessionStatus, or "absent" while there is no file
  rows     \* the stored packets, each by the flow it belongs to

view == <<status, rows>>

Open == {"created", "capturing"}
Sealed == {"ready", "failed"}

LifeInit == status = "absent" /\ rows = <<>>

Create ==
  /\ status = "absent"
  /\ status' = "created"
  /\ UNCHANGED rows

\* Packets appear in batches, behind those already there.
Store ==
  /\ status \in Open
  /\ status' = "capturing"
  /\ rows' \in Seq(FlowKeys)
  /\ IsPrefix(rows, rows')

\* The session is sealed; the last batch may appear with the final status.
Finish ==
  /\ status \in Open
  /\ status' \in Sealed
  /\ rows' \in Seq(FlowKeys)
  /\ IsPrefix(rows, rows')

\* The code seals twice, and the second verdict may be worse than the first.
Revise ==
  /\ status = "ready"
  /\ status' = "failed"
  /\ UNCHANGED rows

LifeNext == Create \/ Store \/ Finish \/ Revise

LifeSpec == LifeInit /\ [][LifeNext]_view
=============================================================================
