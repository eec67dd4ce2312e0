---- MODULE TcpStreams ----
(***************************************************************************)
(* The pure parts of the stream engine: serial arithmetic and reassembly   *)
(* of one direction (core/flows/reassembly.py), the TCP states             *)
(* (core/flows/models.py, lifecycle.py) and the metrics of a conversation  *)
(* (core/flows/tcp_metrics.py).  Data is a sequence of bytes, and a byte   *)
(* is its place in what the peer sent, so that order, loss and repetition  *)
(* can be told.  SeqSpace stands for 2^32.                                 *)
(***************************************************************************)
EXTENDS Integers, FiniteSets, Sequences, SequencesExt

CONSTANTS SeqSpace, ReorderLimit, Nothing

ASSUME StreamAssumption == SeqSpace \in Nat /\ SeqSpace > 3 /\ ReorderLimit \in Nat \ {0} /\ Nothing \notin Nat

Ahead(a, b) == (a - b) % SeqSpace
SeqLt(a, b) == Ahead(a, b) > (SeqSpace - 1) \div 2
SeqGt(a, b) == Ahead(b, a) > (SeqSpace - 1) \div 2
SeqLe(a, b) == a = b \/ SeqLt(a, b)
SeqGe(a, b) == a = b \/ SeqGt(a, b)

Segment(seq, data) == [seq |-> seq, data |-> data]
EndSeq(s) == (s.seq + Len(s.data)) % SeqSpace
From(data, n) == SubSeq(data, n + 1, Len(data))

NoIssue == [kind |-> "none", at |-> 0, size |-> 0]
Issue(kind, at, size) == [kind |-> kind, at |-> at, size |-> size]

NewStream == [base |-> Nothing, next |-> Nothing, buffer |-> <<>>, out |-> <<>>,
              segments |-> 0, gaps |-> 0, retransmissions |-> 0, overlaps |-> 0]

\* Closest to what is expected next first, else as they came; a segment that lies behind comes last.
ByDistance(buffer, next) ==
  LET Far(i) == Ahead(buffer[i].seq, next)
      Sooner(i) == {j \in DOMAIN buffer : Far(j) < Far(i) \/ (Far(j) = Far(i) /\ j < i)} IN
  [n \in DOMAIN buffer |-> buffer[CHOOSE i \in DOMAIN buffer : Cardinality(Sooner(i)) = n - 1]]

\* Mutant: what was emitted already is not cut off.
DrainOneWhole(acc, s) ==
  IF ~SeqLe(s.seq, acc.next) THEN [acc EXCEPT !.keep = Append(@, s)]
  ELSE IF SeqGt(EndSeq(s), acc.next) THEN [acc EXCEPT !.out = @ \o s.data, !.next = EndSeq(s)]
       ELSE acc
\* One buffered segment is emitted, found old, or kept for later.
DrainOne(acc, s) ==
  IF ~SeqLe(s.seq, acc.next) THEN [acc EXCEPT !.keep = Append(@, s)]
  ELSE IF SeqGt(EndSeq(s), acc.next)
       THEN [acc EXCEPT !.out = @ \o From(s.data, Ahead(acc.next, s.seq)), !.next = EndSeq(s)]
       ELSE acc

\* _drain: one segment beyond a hole is waited for, two make the hole a gap.
Drain(st) ==
  LET sorted == ByDistance(st.buffer, st.next)
      hole == sorted # <<>> /\ SeqGt(sorted[1].seq, st.next)
      waits == hole /\ Len(sorted) < 2 /\ Len(sorted) < ReorderLimit
      done == FoldLeft(DrainOne, [next |-> IF hole THEN sorted[1].seq ELSE st.next, out |-> <<>>, keep |-> <<>>], sorted) IN
  IF waits THEN [st |-> [st EXCEPT !.buffer = sorted], issue |-> NoIssue]
  ELSE [st |-> [st EXCEPT !.buffer = done.keep, !.next = done.next, !.out = @ \o done.out,
                          !.gaps = IF hole THEN @ + 1 ELSE @],
        issue |-> IF hole THEN Issue("gap", st.next, Ahead(sorted[1].seq, st.next)) ELSE NoIssue]

FeedData(st0, seq, data) ==
  LET next == IF st0.next = Nothing THEN seq ELSE st0.next
      st == [st0 EXCEPT !.base = IF @ = Nothing THEN seq ELSE @, !.next = next, !.segments = @ + 1]
      overlap == Ahead(next, seq) IN
  CASE SeqLt(seq, next) /\ overlap >= Len(data) ->
         [st |-> [st EXCEPT !.retransmissions = @ + 1], issue |-> Issue("retransmission", seq, Len(data))]
    [] SeqLt(seq, next) /\ overlap < Len(data) ->
         [st |-> [st EXCEPT !.overlaps = @ + 1, !.out = @ \o From(data, overlap), !.next = EndSeq(Segment(seq, data))],
          issue |-> Issue("overlap", seq, overlap)]
    [] ~SeqLt(seq, next) /\ SeqGt(seq, next) -> Drain([st EXCEPT !.buffer = Append(@, Segment(seq, data))])
    [] OTHER -> Drain([st EXCEPT !.out = @ \o data, !.next = EndSeq(Segment(seq, data))])

\* TcpStream.feed; an empty segment only sets the base.
FeedStream(st, seq, data) ==
  IF data = <<>> THEN [st |-> [st EXCEPT !.base = IF @ = Nothing THEN seq ELSE @], issue |-> NoIssue]
  ELSE FeedData(st, seq, data)

FlushOne(acc, s) ==
  LET gap == SeqGt(s.seq, acc.next)
      next == IF gap THEN s.seq ELSE acc.next
      fresh == SeqGe(EndSeq(s), next) IN
  [next |-> IF fresh THEN EndSeq(s) ELSE next,
   out |-> IF fresh THEN acc.out \o From(s.data, Ahead(next, s.seq)) ELSE acc.out,
   gaps |-> IF gap THEN acc.gaps + 1 ELSE acc.gaps,
   issue |-> IF gap THEN Issue("gap", acc.next, Ahead(s.seq, acc.next)) ELSE acc.issue]

FlushStream(st) ==
  LET done == FoldLeft(FlushOne, [next |-> st.next, out |-> <<>>, gaps |-> st.gaps, issue |-> NoIssue],
                       ByDistance(st.buffer, st.next)) IN
  IF st.buffer = <<>> THEN [st |-> st, issue |-> NoIssue]
  ELSE [st |-> [st EXCEPT !.buffer = <<>>, !.next = done.next, !.out = @ \o done.out, !.gaps = done.gaps],
        issue |-> done.issue]

----------------------------------------------------------------------------
\* TcpStateMachine: flags and direction drive the phase, and are never forgotten.
NewMachine == [phase |-> "NONE", syn |-> {}, fin |-> {}]
Roles == {"client", "server"}

AfterSyn(m, role, flags) ==
  IF "SYN" \in flags
  THEN [m EXCEPT !.syn = @ \cup {role},
                 !.phase = IF role = "server" \/ m.syn \cup {role} = Roles THEN "SYN_RECEIVED" ELSE "SYN_SENT"]
  ELSE IF "ACK" \in flags /\ m.phase \in {"SYN_RECEIVED", "SYN_SENT"} THEN [m EXCEPT !.phase = "ESTABLISHED"]
  ELSE m

\* Mutant: a FIN that is repeated closes the connection.
AfterFinAnySide(m, role, flags) ==
  IF "FIN" \notin flags THEN m
  ELSE [m EXCEPT !.fin = @ \cup {role},
                 !.phase = IF m.fin # {} THEN "CLOSED" ELSE IF role = "server" THEN "CLOSE_WAIT" ELSE "FIN_WAIT"]
AfterFin(m, role, flags) ==
  IF "FIN" \notin flags THEN m
  ELSE [m EXCEPT !.fin = @ \cup {role},
                 !.phase = IF m.fin \cup {role} = Roles THEN "CLOSED"
                           ELSE IF role = "server" THEN "CLOSE_WAIT" ELSE "FIN_WAIT"]

AddFlags(m, role, flags) ==
  IF "RST" \in flags THEN [m EXCEPT !.phase = "RESET"] ELSE AfterFin(AfterSyn(m, role, flags), role, flags)

Coarse(phase) ==
  CASE phase = "SYN_SENT" -> "SYN"
    [] phase = "SYN_RECEIVED" -> "SYN/ACK"
    [] phase \in {"FIN_WAIT", "CLOSE_WAIT", "CLOSING"} -> "FIN"
    [] phase \in {"TIME_WAIT", "CLOSED"} -> "CLOSED"
    [] phase = "RESET" -> "RST"
    [] OTHER -> phase

LifePhase(state) ==
  CASE state \in {"SYN", "SYN/ACK", "ACK"} -> "open"
    [] state = "ESTABLISHED" -> "active"
    [] state = "FIN" -> "half-closed"
    [] state \in {"CLOSED", "RST"} -> "closed"
    [] OTHER -> Nothing

\* lifecycle_transitions: the phase to announce, or none.
Announced(before, after) == IF LifePhase(after) = LifePhase(before) THEN Nothing ELSE LifePhase(after)

----------------------------------------------------------------------------
AckCovers(ack, end) == Ahead(end, ack) <= (SeqSpace - 1) \div 2

\* What is outstanding and what was sampled are lists in the code, of which only the number and the values
\* matter; they are sets here, since no two segments have the same time.
NewMetrics ==
  [handshake |-> Nothing, syn |-> Nothing, synack |-> FALSE, ackTs |-> Nothing, samples |-> {}, dupAcks |-> 0,
   retransmissions |-> 0, zero |-> 0, windows |-> {},
   outstanding |-> [r \in Roles |-> {}], lastAck |-> [r \in Roles |-> Nothing]]

Other(role) == IF role = "client" THEN "server" ELSE "client"

RecordWindow(m, w) ==
  IF w = Nothing THEN m ELSE [m EXCEPT !.zero = IF w = 0 THEN @ + 1 ELSE @, !.windows = @ \cup {w}]

HandshakeTimes(m, p, role, ts) ==
  LET syn == "SYN" \in p.flags  ack == "ACK" \in p.flags IN
  CASE syn /\ ~ack /\ role = "client" -> [m EXCEPT !.syn = ts]
    [] syn /\ ack /\ role = "server" ->
         [m EXCEPT !.synack = TRUE, !.handshake = IF m.syn # Nothing /\ @ = Nothing THEN ts - m.syn ELSE @]
    [] ack /\ ~syn /\ role = "client" /\ m.synack -> [m EXCEPT !.ackTs = ts]
    [] OTHER -> m

\* Only an ACK without data counts as a duplicate; every ACK but one on a SYN is remembered.
DuplicateAcks(m, p, role) ==
  IF "ACK" \notin p.flags \/ (p.data = <<>> /\ "SYN" \in p.flags) THEN m
  ELSE [m EXCEPT !.lastAck[role] = p.ack,
                 !.dupAcks = IF p.data = <<>> /\ m.lastAck[role] = p.ack THEN @ + 1 ELSE @]

Acknowledge(m, p, role, ts) ==
  LET covered == {o \in m.outstanding[Other(role)] : AckCovers(p.ack, o.end)} IN
  IF "ACK" \notin p.flags \/ "SYN" \in p.flags \/ p.data # <<>> THEN m
  ELSE [m EXCEPT !.samples = @ \cup {[sent |-> o.ts, rtt |-> ts - o.ts] : o \in covered},
                 !.outstanding[Other(role)] = @ \ covered]

DataSent(m, p, role, ts) ==
  LET end == EndSeq(Segment(p.seq, p.data)) IN
  IF p.data = <<>> THEN m
  ELSE [m EXCEPT !.outstanding[role] = @ \cup {[end |-> end, ts |-> ts]},
                 !.retransmissions = IF \E o \in m.outstanding[role] : o.end = end /\ o.ts < ts THEN @ + 1 ELSE @]

OnSegment(m, p, role, ts) ==
  DataSent(Acknowledge(DuplicateAcks(HandshakeTimes(RecordWindow(m, p.window), p, role, ts), p, role),
                       p, role, ts), p, role, ts)

\* What a session stores of a conversation at its end.
MetricFacts(m) ==
  {"dup_acks", "retransmissions", "zero_window"}
    \cup (IF m.handshake = Nothing THEN {} ELSE {"handshake_rtt"})
    \cup (IF m.samples = {} THEN {} ELSE {"rtt_count", "rtt_min", "rtt_avg", "rtt_max"})
    \cup (IF m.windows = {} THEN {} ELSE {"window_min", "window_max"})
====
